----------------------------- MODULE MCS7Client -----------------------------
(* A small instance of S7Client for TLC: lists of addresses and values that reach each path. *)
EXTENDS S7Client

Text(area, db, letter, off, bit, count) ==
  [area |-> area, db |-> db, letter |-> letter, off |-> off, bit |-> bit, count |-> count]

Tag(db, off, count) == Text("DB", db, "", off, None, count)

Ask(text, hint) == [text |-> text, hint |-> hint]

\* A batch with a bad address and an odd length in it, items around one that is chunked, a
\* batch that only the padding makes too long, a block number cut to 16 bits.
MCReads ==
  {<<Ask(Tag(1, 0, None), "INT"), Ask(BadAddress, ""), Ask(Tag(1, 10, 3), "BYTE"),
     Ask(Text("M", 0, "", 7, None, None), ""), Ask(Text("DB", 2, "D", 4, None, None), "REAL")>>,
   <<Ask(Text("DB", 1, "X", 0, 3, None), ""), Ask(Tag(1, 20, 300), "USINT"), Ask(Tag(1, 4, None), "")>>,
   [i \in 1..6 |-> Ask(Tag(1, 40 * i, 33), "BYTE")],
   <<Ask(Tag(65538, 0, 0), "LREAL"), Ask(Text("T", 0, "", 5, None, None), "")>>,
   <<Ask(Tag(1, 0, 8), "BOOL")>>}

Put(text, hint, kind, n) == [text |-> text, hint |-> hint, kind |-> kind, n |-> n]

MCWrites ==
  {Put(Tag(1, 0, None), "", "int", 0), Put(Text("DB", 1, "X", 4, 2, None), "", "bool", 0),
   Put(Tag(1, 8, None), "BOOL", "bool", 2), Put(Text("DB", 1, "X", 4, 9, None), "", "bool", 0),
   Put(Tag(1, 20, 120), "INT", "int", 120), Put(Tag(1, 20, 2), "INT", "real", 2),
   Put(Tag(1, 40, None), "STRING", "string", 0), Put(Tag(1, 40, None), "WSTRING", "string", 0),
   Put(Tag(1, 40, 3), "STRING", "string", 3), Put(Tag(1, 60, None), "CHAR", "string", 0)}
=============================================================================
