---------------------------- MODULE MCOmronClient ----------------------------
(* A small instance of OmronBrowse, and with it of OmronClient, for TLC: requests that reach each
   way of grouping, PLCs that make a listing take each way. *)
EXTENDS OmronBrowse

Text(area, addr, bit, count) == [area |-> area, addr |-> addr, bit |-> bit, count |-> count]
Ask(text, hint) == [text |-> text, hint |-> hint]
Word(addr) == Ask(Text("DM", addr, None, None), "")

\* Neighbours out of order with a bad address and a bit between them; four single words apart (one
\* of two bytes), five with a long one; a bit of a bank; counts beyond a request and beyond 16 bits.
MCReads ==
  {<<Word(11), Ask(Text("DM", 12, None, None), "DINT"), Ask(BadAddress, ""), Ask(Text("DM", 7, 5, None), ""),
     Ask(Text("DM", 9, None, 3), "BYTE")>>,
   <<Word(30), Ask(Text("DM", 10, None, 2), "BYTE"), Ask(Text("CIO", 10, None, None), "INT"), Word(20)>>,
   <<Word(4), Word(6), Word(6), Ask(Text("EM0", 6, None, 900), ""), Ask(Text("DM", 7, None, 99), "")>>,
   <<Ask(Text("EM0", 3, 1, 2), ""), Ask(Text("TK", 2, None, None), ""), Ask(Text("DM", 70000, None, 0), "")>>,
   <<Ask(Text("DM", 0, None, 65537), ""), Ask(Text("DM", 5, None, 999), "")>>}

Put(text, hint, kind, n) == [text |-> text, hint |-> hint, kind |-> kind, n |-> n]

MCWrites ==
  {Put(Text("DM", 1, None, None), "", "int", 0), Put(Text("DM", 1, 3, None), "", "bool", 0),
   Put(Text("EM0", 1, 3, None), "", "bool", 0), Put(Text("DM", 1, None, 3), "BYTE", "int64", 3),
   Put(Text("DM", 1, None, 2), "REAL", "int", 2), Put(Text("DM", 1, None, 4), "STRING", "string", 5),
   Put(BadAddress, "", "int", 0)}

In(kind, list) == [kind |-> kind, list |-> list]
Plc(services, page, count, tags) ==
  [services |-> services, page |-> page, count |-> count, tags |-> tags]

\* All services, a bad name within a page; no 0x55, a tag in each list, a tag too many for the pages;
\* only instances, with gaps, or with a count that is too low; only GAS; a page without a name;
\* no user tags at all.
MCPlcs ==
  {Plc({"list55", "list5F", "multi", "named", "count", "all", "single"}, 2, 4,
       <<In("user", 1), In("system", 1), In("bad", 2), In("user", 2)>>),
   Plc({"list5F", "multi", "named"}, 1, 0,
       (1 :> In("user", 2)) @@ (2 :> In("system", 1)) @@ (3 :> In("user", 1)) @@ (5 :> In("user", 2))),
   Plc({"list55"}, 1, 0, <<In("user", 1), In("user", 2), In("system", 1), In("user", 2)>>),
   Plc({"all", "single", "count"}, 1, 0, (2 :> In("user", 1)) @@ (4 :> In("bad", 1)) @@ (5 :> In("user", 2))),
   Plc({"single", "count"}, 1, 3, (1 :> In("user", 1)) @@ (3 :> In("user", 2)) @@ (4 :> In("user", 2))),
   Plc({"single"}, 1, 0, (1 :> In("user", 1)) @@ (4 :> In("user", 2))),
   Plc({"list5F", "named"}, 1, 0, <<In("user", 2), In("bad", 2), In("user", 2)>>),
   Plc({"list5F", "all"}, 3, 0, (1 :> In("system", 1)) @@ (2 :> In("system", 2)))}
=============================================================================
