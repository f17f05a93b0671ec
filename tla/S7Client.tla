------------------------------- MODULE S7Client -------------------------------
(***************************************************************************)
(* The Siemens S7 client (s7/client.go over s7/transport.go and            *)
(* s7/protocol.go): addresses and type hints, the batches of a read, the   *)
(* chunks of a long read or write, the header a string write reads first,  *)
(* and the transport with its connected flag, which Reconnect replaces.    *)
(*                                                                         *)
(* c.mu is held from the start of a Read or Write to its end, so only the  *)
(* dialling of a Reconnect, and the network, run beside one; t.mu adds     *)
(* nothing to that. The PLC is external. A byte it returns is known by the *)
(* place it was read from; what bytes mean is left out.                    *)
(***************************************************************************)
EXTENDS Integers, Sequences, FiniteSets, SequencesExt

CONSTANTS
  Procs,      \* goroutines that use the client
  MaxLinks,   \* bound on the TCP links ever dialled
  PDUSizes,   \* PDU sizes the PLC may negotiate
  Reads,      \* the argument lists ReadWithTypes is called with
  Writes,     \* the arguments WriteWithType is called with
  Declared,   \* characters declared for the strings of the PLC's data blocks
  MaxShort,   \* bound on the short items of one long read
  None

\* The PDU size is a field of 16 bits.
MaxPDU == 65535

ASSUME MaxLinksAssumption == MaxLinks \in Nat \ {0}
ASSUME PDUSizesAssumption == PDUSizes \subseteq 1..MaxPDU /\ PDUSizes # {}
ASSUME DeclaredAssumption == Declared \in 0..254
ASSUME NoneAssumption == None \notin Procs

VARIABLES
  transport,  \* c.transport: the transport in use; each has one link of the same number
  connected,  \* the transports' connected flags
  link,       \* the TCP links: unused, dialling, open, broken or closed
  pdu,        \* the PDU size negotiated on each
  wire,       \* answers that lie unread on each link
  mu,         \* who holds c.mu, or None
  op,         \* the call each goroutine is in
  overlap     \* history: two Reconnects have dialled at once, or a Close came between

vars == <<transport, connected, link, pdu, wire, mu, op, overlap>>

-----------------------------------------------------------------------------
(* Addresses *)

Types == {"BOOL", "BYTE", "CHAR", "SINT", "WORD", "INT", "DWORD", "DINT", "REAL", "DATE",
          "TIME", "TIME_OF_DAY", "LWORD", "LINT", "LREAL", "WCHAR", "STRING", "WSTRING"}

TypeSize(t) ==
  CASE t \in {"BOOL", "BYTE", "CHAR", "SINT"} -> 1
    [] t \in {"WORD", "INT", "DATE", "WCHAR"} -> 2
    [] t \in {"DWORD", "DINT", "REAL", "TIME", "TIME_OF_DAY"} -> 4
    [] t \in {"LWORD", "LINT", "LREAL"} -> 8
    [] OTHER -> 0

\* TypeCodeFromName: the name of a type, or one of its other names.
TypeOfName(name) ==
  CASE name \in Types -> name
    [] name = "USINT" -> "BYTE"
    [] name = "UINT" -> "WORD"
    [] name = "UDINT" -> "DWORD"
    [] name = "TOD" -> "TIME_OF_DAY"
    [] name = "ULINT" -> "LWORD"
    [] OTHER -> None

\* What the regular expressions find in an address: its area, data block, type letter ("" if
\* there is none), offset, bit (None) and count (None). area "?" is text none of them match.
BadAddress == [area |-> "?"]

Texts == [area : {"DB", "I", "Q", "M", "T", "C"}, db : Nat, letter : {"", "X", "B", "W", "D", "L"},
          off : Nat, bit : 0..9 \cup {None}, count : Nat \cup {None}]

Kinds == {"bool", "int", "real", "string"}

ASSUME ReadsAssumption ==
  \A requests \in Reads :
    /\ DOMAIN requests = 1..Len(requests) /\ Len(requests) \in Nat
    /\ \A i \in DOMAIN requests : requests[i].text \in Texts \cup {BadAddress}

ASSUME WritesAssumption ==
  \A w \in Writes : w.text \in Texts \cup {BadAddress} /\ w.n \in Nat /\ w.kind \in Kinds

LetterType == [B |-> "BYTE", W |-> "WORD", D |-> "DWORD", L |-> "LINT"]

ParseAddress(t) ==
  LET parsed(type, size, bit, count) ==
        [area |-> t.area, db |-> t.db, off |-> t.off, bit |-> bit, type |-> type,
         size |-> size, count |-> count]
  IN  IF t.area = "?" THEN BadAddress
      ELSE IF t.area = "DB" /\ t.letter = ""
      THEN parsed(None, 0, None, IF t.count = None \/ t.count < 1 THEN 1 ELSE t.count)
      ELSE IF t.area \in {"T", "C"} THEN parsed("WORD", 2, None, 1)
      ELSE IF t.letter \notin {"", "X"}
      THEN parsed(LetterType[t.letter], TypeSize(LetterType[t.letter]), None, 1)
      ELSE IF t.area # "DB" /\ t.bit = None THEN parsed("BOOL", 1, 0, 1)
      ELSE IF t.bit \in 0..7 THEN parsed("BOOL", 1, t.bit, 1)
      ELSE BadAddress

\* ReadWithTypes completes an address without a size from the hint, or as a DINT; "size" is
\* then of all the elements.
ReadAddress(request) ==
  LET a == ParseAddress(request.text)
      hint == TypeOfName(request.hint)
      each == IF a.size # 0 THEN a.size
              ELSE CASE hint = "STRING" -> 256
                     [] hint = "WSTRING" -> 512
                     [] hint = None -> 4
                     [] OTHER -> TypeSize(hint)
      type == IF a.size # 0 THEN a.type ELSE IF hint # None THEN hint ELSE "DINT"
  IN  IF a = BadAddress THEN a ELSE [a EXCEPT !.type = type, !.size = each * a.count]

\* addressToS7Any: the item of a request. The block, the count and the bit address are cut to
\* 16, 16 and 24 bits.
ElementSize(type) ==
  CASE type \in {"WORD", "INT", "DATE", "WCHAR"} -> 2
    [] type \in {"DWORD", "DINT", "TIME", "TIME_OF_DAY", "REAL"} -> 4
    [] OTHER -> 1

Bits(a) == a.bit # None \/ a.type = "BOOL"

ItemCount(a) ==
  IF a.bit # None THEN 1
  ELSE IF ~Bits(a) /\ ElementSize(a.type) = 1 THEN a.size
  ELSE a.count

S7Any(a) ==
  [area |-> a.area, db |-> IF a.area = "DB" THEN a.db % 65536 ELSE 0,
   bits |-> Bits(a), element |-> IF Bits(a) THEN 1 ELSE ElementSize(a.type),
   count |-> ItemCount(a) % 65536,
   at |-> (8 * a.off + (IF a.bit = None THEN 0 ELSE a.bit)) % 16777216]

\* Seeded fault: every chunk begins at the start of the item.
ChunkFromStart(a, done, n) ==
  [a EXCEPT !.bit = None, !.type = "BYTE", !.size = n, !.count = n]

\* A chunk of a long read or write is so many bytes from an offset.
Chunk(a, done, n) ==
  [a EXCEPT !.off = a.off + done, !.bit = None, !.type = "BYTE", !.size = n, !.count = n]

-----------------------------------------------------------------------------
(* The PLC's side, as the client's requests and parsers use it *)

\* A stretch of PLC memory: len bytes from byte off of an area.
Stretch(area, db, off, len) == [area |-> area, db |-> db, off |-> off, len |-> len]

Stretches == [area : {"DB", "I", "Q", "M", "T", "C"}, db : Nat, off : Nat, len : Nat]

Denotes(item) == Stretch(item.area, item.db, item.at \div 8, item.element * item.count)

Padded(n) == n + (n % 2)

\* A response has 14 bytes before its items; an item has 4 before its data, which is padded
\* to an even length in all but the last.
ResponseSize(items) ==
  14 + FoldLeft(LAMBDA sum, i : sum + 4 + IF i < Len(items) THEN Padded(Denotes(items[i]).len)
                                                            ELSE Denotes(items[i]).len,
                0, [i \in 1..Len(items) |-> i])

Refused == <<>>

\* A result without its bytes and a missing answer are not mistaken for others.
ASSUME MissingAssumption ==
  /\ None \notin [ok : BOOLEAN, parts : Seq(Stretches)]
  /\ None \notin Seq([ok : BOOLEAN, bytes : Stretches])

\* The PLC refuses a read of several bits at once, and one whose response no PDU holds.
ReadAnswer(items, size) ==
  IF \/ \E i \in DOMAIN items : items[i].bits /\ items[i].count # 1
     \/ ResponseSize(items) > size
  THEN Refused
  ELSE [i \in 1..Len(items) |-> [ok |-> TRUE, bytes |-> Denotes(items[i])]]

\* The answers that may come instead: refused, or with one item that fails or is short, or
\* that is the last one in a response cut off.
Damaged(whole) ==
  LET cut(i) == {0, whole[i].bytes.len - 1} \cap Nat
  IN  {Refused} \cup {[whole EXCEPT ![i].ok = FALSE] : i \in DOMAIN whole}
        \cup {SubSeq(whole, 1, i) : i \in DOMAIN whole}
        \cup UNION {{[whole EXCEPT ![i].bytes.len = n] : n \in cut(i)} : i \in DOMAIN whole}

\* A write is done for the bytes it brings, or refused; one whose item announces another
\* number of bytes may be either.
WriteAnswer(item, n) == <<[ok |-> TRUE, bytes |-> [Denotes(item) EXCEPT !.len = n]]>>

-----------------------------------------------------------------------------
(* Calls and exchanges *)

\* jobs: what a read still has to ask for. done, parts, rounds, short: how far a chunked read or
\* write is, the stretches it covered, its round trips. wrote: what the PLC has written for the
\* call, acknowledged or not. broke: an exchange of the call found the link down.
Idle == [at |-> "idle", kind |-> "none", args |-> <<>>, jobs |-> <<>>, results |-> <<>>,
         done |-> 0, parts |-> <<>>, rounds |-> 0, short |-> 0, data |-> 0, target |-> None,
         fell |-> FALSE, wrote |-> <<>>, failed |-> FALSE, broke |-> FALSE, new |-> 0]

Links == 1..MaxLinks

\* Stretches that follow one another are one.
Join(parts, s) ==
  IF /\ parts # <<>>
     /\ Last(parts) = [s EXCEPT !.off = Last(parts).off, !.len = Last(parts).len]
     /\ Last(parts).off + Last(parts).len = s.off
  THEN [parts EXCEPT ![Len(parts)].len = @ + s.len]
  ELSE Append(parts, s)

\* sendReceive is refused at once when not connected.
Unsent == ~connected[transport] /\ UNCHANGED <<connected, wire>>

\* An answer comes, and the oldest unread one is taken.
Answered(answer) ==
  /\ connected[transport] /\ link[transport] = "open"
  /\ wire' = [wire EXCEPT ![transport] = Tail(Append(@, answer))]
  /\ UNCHANGED connected

\* The deadline passes (the answer may still come, to nobody), or the link turns out broken.
Unanswered(answer, late) ==
  /\ connected[transport] /\ (late => link[transport] = "open")
  /\ wire' = IF late THEN [wire EXCEPT ![transport] = Append(@, answer)] ELSE wire
  /\ connected' = [connected EXCEPT ![transport] = FALSE]

\* A request, to which the PLC answers the whole or another answer. Got(answer, sent): what is
\* returned, None for an error, and what the PLC has answered.
Exchange(whole, others, Got(_, _)) ==
  \/ Unsent /\ Got(None, Refused)
  \/ \E answer \in {whole} \cup others :
       Answered(answer) /\ Got(Head(Append(wire[transport], answer)), answer)
  \/ \E late \in BOOLEAN : Unanswered(whole, late) /\ Got(None, IF late THEN whole ELSE Refused)

At(p, place) == op[p].at = place

Set(p, c) == op' = [op EXCEPT ![p] = c]

Lock(p) == At(p, "idle") /\ mu = None /\ mu' = p

-----------------------------------------------------------------------------
(* Reading *)

\* getPDUSize, and the room ReadWithTypes and readAddress count on.
Room(size) == (IF size < 50 THEN 240 ELSE size) - 18

MaxItems(size) ==
  LET n == (Room(size) + 6) \div 12
  IN  CASE n > 19 -> 19 [] n < 1 -> 1 [] OTHER -> n

ReadPayload(size) == IF size - 20 < 20 THEN 200 ELSE size - 20

WritePayload(size) == IF size - 35 < 20 THEN 180 ELSE size - 35

\* The batches, each a sequence of positions in the argument list: flushed when the next item
\* would not fit, or is too large for any batch and goes alone.
Batches(addresses, pduSize) ==
  LET Flush(acc) == IF acc.batch = <<>> THEN acc
                    ELSE [jobs |-> Append(acc.jobs, acc.batch), batch |-> <<>>, size |-> 0]
      Add(acc, i) ==
        LET size == 4 + addresses[i].size
            full == acc.size + size > Room(pduSize) \/ Len(acc.batch) >= MaxItems(pduSize)
            room == IF full THEN Flush(acc) ELSE acc
        IN  IF addresses[i] = BadAddress THEN acc
            ELSE IF size > Room(pduSize) THEN [Flush(acc) EXCEPT !.jobs = Append(@, <<i>>)]
            ELSE [room EXCEPT !.batch = Append(@, i), !.size = @ + size]
  IN  Flush(FoldLeft(Add, [jobs |-> <<>>, batch |-> <<>>, size |-> 0],
                     [i \in 1..Len(addresses) |-> i])).jobs

\* What a read is about to ask for, with each PDU size.
Plan(requests, size) ==
  LET addresses == [i \in 1..Len(requests) |-> ReadAddress(requests[i])]
  IN  [size |-> size, addresses |-> addresses, jobs |-> Batches(addresses, size)]

Plans == {Plan(requests, size) : requests \in Reads, size \in PDUSizes}

Failed == [ok |-> FALSE, parts |-> <<>>]
Success(parts) == [ok |-> TRUE, parts |-> parts]

\* ReadWithTypes up to its first request.
BeginRead(p) ==
  /\ Lock(p)
  /\ \E plan \in Plans :
       /\ plan.size = pdu[transport]
       /\ Set(p, [Idle EXCEPT !.at = "read", !.kind = "read", !.args = plan.addresses,
                              !.jobs = plan.jobs,
                              !.results = [i \in DOMAIN plan.addresses |->
                                 IF plan.addresses[i] = BadAddress THEN Failed ELSE None]])
  /\ UNCHANGED <<transport, connected, link, pdu, wire, overlap>>

\* The job is over: its results are in, the next is begun, or the call is at its end.
NextJob(c, results) ==
  [c EXCEPT !.results = results, !.jobs = Tail(@), !.done = 0, !.parts = <<>>, !.rounds = 0,
            !.short = 0]

\* Seeded fault: an item of the answer is taken by its address's place in the argument list.
BatchResultsByAddress(c, answer) ==
  [r \in DOMAIN c.results |->
     IF ~\E i \in DOMAIN Head(c.jobs) : Head(c.jobs)[i] = r THEN c.results[r]
     ELSE IF answer = None \/ r > Len(answer) \/ ~answer[r].ok THEN Failed
     ELSE Success(<<answer[r].bytes>>)]

\* parseReadResponse gives each position its item; readBatch puts them where they belong.
BatchResults(c, answer) ==
  LET job == Head(c.jobs)
      item(i) == IF answer = None \/ i > Len(answer) \/ ~answer[i].ok THEN Failed
                 ELSE Success(<<answer[i].bytes>>)
  IN  [r \in DOMAIN c.results |->
         IF \E i \in DOMAIN job : job[i] = r
         THEN item(CHOOSE i \in DOMAIN job : job[i] = r) ELSE c.results[r]]

\* One round trip of a read in a batch, or of an item that one request can hold.
ReadBatch(p) ==
  LET c == op[p]
      job == Head(c.jobs)
      whole == ReadAnswer([i \in DOMAIN job |-> S7Any(c.args[job[i]])], pdu[transport])
  IN  /\ At(p, "read") /\ c.jobs # <<>>
      /\ Len(job) > 1 \/ c.args[job[1]].size <= ReadPayload(pdu[transport])
      /\ Exchange(whole, Damaged(whole),
                  LAMBDA answer, sent :
                     Set(p, [NextJob(c, BatchResults(c, answer))
                               EXCEPT !.broke = @ \/ answer = None]))
      /\ UNCHANGED <<transport, link, pdu, mu, overlap>>

\* Seeded fault: takes an empty chunk for one more part, and does not count it.
AfterChunkAsksOn(c, total, most, answer, n) ==
  LET i == Head(c.jobs)[1]
      next == [c EXCEPT !.parts = Append(@, answer[1].bytes), !.done = @ + answer[1].bytes.len]
  IN  IF answer \in {None, Refused} \/ ~answer[1].ok
      THEN [NextJob(c, [c.results EXCEPT ![i] = Failed]) EXCEPT !.broke = @ \/ answer = None]
      ELSE IF next.done >= total THEN NextJob(c, [c.results EXCEPT ![i] = Success(next.parts)])
      ELSE [next EXCEPT !.rounds = @ + IF answer[1].bytes.len = 0 THEN 0 ELSE 1]

\* readAddress after a chunk of n bytes at most. A short chunk is accepted and the next one
\* follows it; an empty one, an error, or too many of them end the read.
AfterChunk(c, total, most, answer, n) ==
  LET i == Head(c.jobs)[1]
      bytes == answer[1].bytes
      fail == NextJob(c, [c.results EXCEPT ![i] = Failed])
      next == [c EXCEPT !.parts = Join(@, bytes), !.done = @ + bytes.len, !.rounds = @ + 1,
                        !.short = @ + IF bytes.len < n THEN 1 ELSE 0]
  IN  IF answer = None THEN [fail EXCEPT !.broke = TRUE]
      ELSE IF answer = Refused \/ ~answer[1].ok \/ bytes.len = 0 THEN fail
      ELSE IF next.done >= total THEN NextJob(c, [c.results EXCEPT ![i] = Success(next.parts)])
      ELSE IF next.rounds >= total \div most + 10 THEN fail
      ELSE next

ReadChunk(p) ==
  LET c == op[p]
      a == c.args[Head(c.jobs)[1]]
      most == ReadPayload(pdu[transport])
      n == IF a.size - c.done > most THEN most ELSE a.size - c.done
      whole == ReadAnswer(<<S7Any(Chunk(a, c.done, n))>>, pdu[transport])
  IN  /\ At(p, "read") /\ c.jobs # <<>>
      /\ Len(Head(c.jobs)) = 1 /\ a.size > most
      /\ Exchange(whole, {r \in Damaged(whole) : c.short < MaxShort \/ r = Refused
                                                  \/ r[1].bytes.len \in {0, n}},
                  LAMBDA answer, sent : Set(p, AfterChunk(c, a.size, most, answer, n)))
      /\ UNCHANGED <<transport, link, pdu, mu, overlap>>

\* connErrorIfDownLocked decides the error beside the results.
EndRead(p) ==
  /\ At(p, "read") /\ op[p].jobs = <<>>
  /\ Set(p, [op[p] EXCEPT !.at = "done", !.failed = ~connected[transport]])
  /\ UNCHANGED <<transport, connected, link, pdu, wire, mu, overlap>>

-----------------------------------------------------------------------------
(* Writing *)

\* The type WriteWithType uses: of the address, else of the hint, else of the value. A write of
\* type BOOL without a bit is of bit 0.
WriteAddress(w) ==
  LET a == ParseAddress(w.text)
      hint == TypeOfName(w.hint)
      type == IF a.type # None THEN a.type
              ELSE IF hint # None THEN hint
              ELSE CASE w.n = 0 /\ w.kind = "bool" -> "BOOL"
                     [] w.n = 0 /\ w.kind = "real" -> "LREAL"
                     [] OTHER -> "DINT"
      size == IF a.type # None THEN a.size ELSE TypeSize(type)
  IN  IF a = BadAddress THEN a
      ELSE [a EXCEPT !.type = type, !.size = size,
                     !.bit = IF type = "BOOL" /\ @ = None THEN 0 ELSE @]

StringTypes == {"STRING", "WSTRING"}

HeaderSize(type) == IF type = "STRING" THEN 2 ELSE 4

\* The room one string takes: its header and the characters declared for it.
StringSize(type, max) == HeaderSize(type) + IF type = "STRING" THEN max ELSE 2 * max

\* encodeValue, for all but strings: how many bytes come out, 0 for an error. Slices of floats
\* and of bools are encoded without a look at the type.
Encoded(a, w) ==
  IF a.bit # None THEN IF w.n = 0 /\ w.kind \in {"bool", "int"} THEN 1 ELSE 0
  ELSE IF w.n > 0 /\ w.kind = "real" THEN 4 * w.n
  ELSE IF w.n > 0 /\ w.kind = "bool" THEN w.n
  ELSE IF \/ a.type \in {"CHAR", "DATE", "TIME", "TIME_OF_DAY", "WCHAR"}
          \/ w.kind = "int" /\ a.type \in {"REAL", "LREAL"}
          \/ w.kind \notin {"int", "real"}
  THEN 0
  ELSE TypeSize(a.type) * IF w.n = 0 THEN 1 ELSE w.n

\* The bytes of the variable a write addresses: Count elements, as the PLC declares them.
Variable(a) ==
  Stretch(a.area, IF a.area = "DB" THEN a.db ELSE 0, a.off,
          a.count * IF a.type \in StringTypes THEN StringSize(a.type, Declared)
                    ELSE TypeSize(a.type))

EndWrite(c, failed) == [c EXCEPT !.at = "done", !.failed = failed]

\* WriteWithType up to its first request: an error, the data, or first a string's header.
BeginWrite(p) ==
  /\ Lock(p)
  /\ \E w \in Writes :
       LET a == WriteAddress(w)
           c == [Idle EXCEPT !.kind = "write", !.args = w, !.target = a]
           n == Encoded(a, w)
           ofStrings == w.kind = "string" /\ a.bit = None /\ a.type \in StringTypes
       IN  Set(p, IF a = BadAddress THEN EndWrite(c, TRUE)
                  ELSE IF ofStrings THEN [c EXCEPT !.at = "header"]
                  ELSE IF n = 0 THEN EndWrite(c, TRUE)
                  ELSE [c EXCEPT !.at = "write", !.data = n])
  /\ UNCHANGED <<transport, connected, link, pdu, wire, overlap>>

\* encodeStringWithRead, encodeWStringWithRead and the []string case read the header. Where it
\* cannot be read one string is written with the default of 254 characters; several fail.
ReadHeader(p) ==
  LET c == op[p]
      size == HeaderSize(c.target.type)
      whole == ReadAnswer(<<S7Any(Chunk(c.target, 0, size))>>, pdu[transport])
      count == IF c.args.n = 0 THEN 1 ELSE c.args.n
  IN  /\ At(p, "header")
      /\ Exchange(whole, Damaged(whole),
                  LAMBDA answer, sent :
                     LET read == answer = whole /\ whole # Refused
                         max == IF read THEN Declared ELSE 254
                         next == [c EXCEPT !.broke = answer = None]
                     IN  Set(p, IF ~read /\ c.args.n > 0 THEN EndWrite(next, TRUE)
                                ELSE [next EXCEPT !.at = "write", !.fell = ~read,
                                        !.data = count * StringSize(c.target.type, max)]))
      /\ UNCHANGED <<transport, link, pdu, mu, overlap>>

\* writeAddress: one request, or chunk after chunk until one fails.
Write(p) ==
  LET c == op[p]
      most == WritePayload(pdu[transport])
      one == c.data <= most
      n == IF c.data - c.done > most THEN most ELSE c.data - c.done
      item == S7Any(IF one THEN c.target ELSE Chunk(c.target, c.done, n))
  IN  /\ At(p, "write")
      /\ Exchange(WriteAnswer(item, n), {Refused},
                  LAMBDA answer, sent :
                     LET wrote == [c EXCEPT !.wrote = IF sent = Refused THEN @
                                                      ELSE Join(@, sent[1].bytes),
                                            !.broke = @ \/ answer = None]
                     IN  Set(p, IF answer \in {None, Refused} THEN EndWrite(wrote, TRUE)
                                ELSE IF c.done + n = c.data THEN EndWrite(wrote, FALSE)
                                ELSE [wrote EXCEPT !.done = c.done + n]))
      /\ UNCHANGED <<transport, link, pdu, mu, overlap>>

\* A call returns, and c.mu is free.
Return(p) ==
  /\ At(p, "done")
  /\ Set(p, Idle)
  /\ mu' = None
  /\ UNCHANGED <<transport, connected, link, pdu, wire, overlap>>

-----------------------------------------------------------------------------
(* The connection *)

Dialling == {p \in Procs : op[p].at \in {"dial", "install"}}

\* transport.close; what lay unread on the link is gone with it.
CloseTransport(k) ==
  /\ connected' = [connected EXCEPT ![k] = FALSE]
  /\ link' = [link EXCEPT ![k] = "closed"]
  /\ wire' = [wire EXCEPT ![k] = <<>>]

Close(p) ==
  /\ At(p, "idle") /\ mu = None
  /\ CloseTransport(transport)
  /\ overlap' = (overlap \/ Dialling # {})
  /\ UNCHANGED <<transport, pdu, mu, op>>

SetDisconnected(p) ==
  /\ At(p, "idle") /\ mu = None
  /\ connected' = [connected EXCEPT ![transport] = FALSE]
  /\ UNCHANGED <<transport, link, pdu, wire, mu, op, overlap>>

\* Seeded fault: the old transport is dropped without being closed.
ReconnectDropsLink(p) ==
  /\ At(p, "idle") /\ mu = None /\ ~connected[transport]
  /\ Set(p, [Idle EXCEPT !.at = "dial", !.kind = "reconnect"])
  /\ overlap' = (overlap \/ Dialling # {})
  /\ UNCHANGED <<transport, connected, link, pdu, wire, mu>>

\* Reconnect closes the transport under c.mu and dials without it; when it is connected there
\* is nothing to do.
Reconnect(p) ==
  /\ At(p, "idle") /\ mu = None /\ ~connected[transport]
  /\ CloseTransport(transport)
  /\ Set(p, [Idle EXCEPT !.at = "dial", !.kind = "reconnect"])
  /\ overlap' = (overlap \/ Dialling # {})
  /\ UNCHANGED <<transport, pdu, mu>>

\* transport.connect: TCP, COTP, then the setup that gives the PDU size, which is taken as it
\* comes. Failing at any of them leaves nothing behind.
Dial(p) ==
  /\ At(p, "dial")
  /\ \E k \in Links, size \in PDUSizes :
       /\ link[k] = "unused" /\ \A j \in 1..(k - 1) : link[j] # "unused"
       /\ link' = [link EXCEPT ![k] = "open"]
       /\ pdu' = [pdu EXCEPT ![k] = size]
       /\ connected' = [connected EXCEPT ![k] = TRUE]
       /\ Set(p, [op[p] EXCEPT !.at = "install", !.new = k])
  /\ UNCHANGED <<transport, wire, mu, overlap>>

\* Seeded fault: the error of connect is not looked at.
DialFailsUnchecked(p) ==
  /\ At(p, "dial")
  /\ Set(p, [op[p] EXCEPT !.at = "install"])
  /\ UNCHANGED <<transport, connected, link, pdu, wire, mu, overlap>>

DialFails(p) ==
  /\ At(p, "dial")
  /\ Set(p, Idle)
  /\ UNCHANGED <<transport, connected, link, pdu, wire, mu, overlap>>

\* The new transport replaces whatever is there now.
Install(p) ==
  /\ At(p, "install") /\ mu = None
  /\ transport' = op[p].new
  /\ Set(p, Idle)
  /\ UNCHANGED <<connected, link, pdu, wire, mu, overlap>>

\* The network: a link breaks.
Break(k) ==
  /\ link[k] = "open"
  /\ link' = [link EXCEPT ![k] = "broken"]
  /\ UNCHANGED <<transport, connected, pdu, wire, mu, op, overlap>>

-----------------------------------------------------------------------------

\* What Connect returns.
Init ==
  /\ transport = 1
  /\ connected = [k \in Links |-> k = 1]
  /\ link = [k \in Links |-> IF k = 1 THEN "open" ELSE "unused"]
  /\ pdu \in [Links -> PDUSizes]
  /\ \A k \in Links : pdu[k] = pdu[1]
  /\ wire = [k \in Links |-> <<>>]
  /\ mu = None
  /\ op = [p \in Procs |-> Idle]
  /\ overlap = FALSE

Step(p) ==
  \/ ReadBatch(p) \/ ReadChunk(p) \/ EndRead(p)
  \/ ReadHeader(p) \/ Write(p) \/ Return(p)
  \/ Dial(p) \/ DialFails(p) \/ Install(p)

Next ==
  \/ \E p \in Procs :
       \/ BeginRead(p) \/ BeginWrite(p) \/ Step(p)
       \/ Close(p) \/ SetDisconnected(p) \/ Reconnect(p)
  \/ \E k \in Links : Break(k)

Spec == Init /\ [][Next]_vars

-----------------------------------------------------------------------------
(* Properties *)

Each(s, Good(_)) == \A i \in DOMAIN s : Good(s[i])

IsStretch(s) == s \in Stretches
IsItem(i) == i.ok \in BOOLEAN /\ i.bytes \in Stretches
IsAnswer(r) == Each(r, IsItem)
IsResult(r) == r = None \/ (r.ok \in BOOLEAN /\ Each(r.parts, IsStretch))

\* The variables have their types: what the calls carry, what the links and flags can be.
TypeOK ==
  /\ transport \in Links
  /\ connected \in [Links -> BOOLEAN]
  /\ link \in [Links -> {"unused", "open", "broken", "closed"}]
  /\ pdu \in [Links -> PDUSizes]
  /\ \A k \in Links : Each(wire[k], IsAnswer)
  /\ mu \in Procs \cup {None}
  /\ \A p \in Procs :
       /\ op[p].at \in {"idle", "read", "header", "write", "done", "dial", "install"}
       /\ Each(op[p].results, IsResult)
       /\ Each(op[p].parts, IsStretch) /\ Each(op[p].wrote, IsStretch)
       /\ {op[p].done, op[p].rounds, op[p].short, op[p].data} \subseteq Nat
       /\ op[p].new \in {0} \cup Links
       /\ {op[p].fell, op[p].failed, op[p].broke} \subseteq BOOLEAN
  /\ overlap \in BOOLEAN

\* So many bytes from an address on fit the request's fields: neither the block nor the address
\* of a chunk is cut.
Addressable(a, n) == a.db < 65536 /\ 8 * (a.off + n) <= 16777216

\* One stretch, without a gap, that begins where v does.
SameStart(parts, v) == Len(parts) = 1 /\ [parts[1] EXCEPT !.len = v.len] = v

\* The bytes a caller of Read asked for.
Wanted(a) == Stretch(a.area, IF a.area = "DB" THEN a.db ELSE 0, a.off, a.size)

\* A read has a result for each address, and one without an error holds that address's own
\* bytes, in order and without a gap: all of them, unless the PLC sent an item short in a read
\* that is not chunked (readBatch, readAddress; the reference in the PDU is never compared). A
\* read that met a broken link says so beside the results.
ReadsExact ==
  \A p \in Procs :
    LET c == op[p]
    IN  c.at = "done" /\ c.kind = "read" =>
          /\ c.broke => c.failed
          /\ \A i \in DOMAIN c.args :
               /\ c.results[i] # None
               /\ c.results[i].ok /\ Addressable(c.args[i], c.args[i].size) =>
                    /\ SameStart(c.results[i].parts, Wanted(c.args[i]))
                    /\ c.results[i].parts[1].len <= c.args[i].size
                    /\ c.args[i].size > ReadPayload(pdu[transport]) =>
                         c.results[i].parts[1].len = c.args[i].size

\* The three ways a write reaches past its variable: the header of a string could not be read,
\* a slice has more elements than the address, its elements are wider than the address's.
Overruns(c) ==
  \/ c.fell
  \/ c.args.n > c.target.count
  \/ c.args.n > 0 /\ c.args.kind = "real"

\* Apart from those, a write touches only its variable, from its first byte and without a gap,
\* and one that returns without an error has written all its data (writeAddress and its chunks,
\* a reply lost on the way, the string header read before the data).
WritesInside ==
  \A p \in Procs :
    LET c == op[p]
        v == Variable(c.target)
    IN  c.kind = "write" /\ c.target # BadAddress /\ Addressable(c.target, c.data) =>
          /\ c.wrote # <<>> => SameStart(c.wrote, v) /\ c.wrote[1].len <= c.data
          /\ c.at = "done" /\ ~c.failed => c.wrote # <<>> /\ c.wrote[1].len = c.data
          /\ c.wrote # <<>> /\ ~Overruns(c) => c.wrote[1].len <= v.len

\* A link that is open is the client's, or one a Reconnect is about to install; a client whose
\* transport says connected has not closed its link. Reconnects that dial at once, or a Close
\* during one, break this: the loser's link stays open and nobody can close it.
LinksAccounted ==
  /\ ~overlap => \A k \in Links : link[k] \in {"open", "broken"} =>
                    k = transport \/ \E p \in Procs : At(p, "install") /\ op[p].new = k
  /\ connected[transport] => link[transport] # "closed"

\* The requests a call may still make: one for a batch, so many for the chunks of a long item, one
\* for a string header, and no more than one for each byte written.
Requests(c, job, most) ==
  IF Len(job) = 1 /\ c.args[job[1]].size > most THEN c.args[job[1]].size \div most + 10 ELSE 1

RequestsLeft(c) ==
  CASE c.at = "read" ->
         FoldLeft(LAMBDA sum, job : sum + Requests(c, job, ReadPayload(pdu[transport])),
                  0 - c.rounds, c.jobs)
    [] c.at = "header" -> 1 + (c.args.n + 1) * StringSize(c.target.type, 254)
    [] c.at = "write" -> c.data - c.done
    [] OTHER -> 0

\* Every call comes to an end, whatever the PLC sends: each of its round trips takes one of the
\* requests it may still make, and there is one left for every trip.
CallsEnd ==
  [][\A p \in Procs :
       /\ op[p].at \in {"read", "header", "write"}
       /\ op'[p].at \in {"read", "header", "write"}
       /\ op'[p] # op[p]
       => RequestsLeft(op'[p]) < RequestsLeft(op[p]) /\ RequestsLeft(op'[p]) >= 0]_vars

=============================================================================
