------------------------------- MODULE PcccClient -------------------------------
(***************************************************************************)
(* The PCCC client for SLC 500, PLC-5 and MicroLogix (pccc/client.go,      *)
(* plc.go, command.go, address.go, discovery.go) under the driver's        *)
(* adapter (driver/pccc.go): reads that put neighbouring elements into one *)
(* request, writes, bit writes that read, change and write back a word,    *)
(* and the discovery of data files.                                        *)
(*                                                                         *)
(* Neither the client nor the adapter has a lock; EipClient.mu makes one   *)
(* exchange a step, and the calls of several goroutines interleave between *)
(* exchanges. The PLC is external: a byte it returns is known by the file  *)
(* and the offset it was read from; a few words have contents.             *)
(***************************************************************************)
EXTENDS Integers, Sequences, FiniteSets, SequencesExt

CONSTANTS
  Procs,      \* the goroutines that use the client
  Readers,    \* a bound: those that read, discover and keep alive; all may write and close
  Files,      \* the data files: <<type, number>> -> elements
  Words,      \* the words whose bits are followed: type, file, off
  Rows,       \* the rows of the file directory: a type, or "hole"
  Catalogs,   \* the first four characters of the catalog strings a PLC may answer with
  Reads,      \* the lists of addresses Read is called with, as spelled
  Writes,     \* the arguments Write is called with
  BulkBytes,  \* maxPCCCReadBytes, 236 in the code
  Rooms,      \* the lengths a reply of the PLC may be cut to, besides its own
  CallOn,     \* a bound: whether calls begin after something strayed; Close and Connect always do
  None

\* A followed word is a word of its own: a float or a long does not lie across it.
ASSUME WordsAssumption ==
  /\ \A w \in Words : <<w.type, w.file>> \in DOMAIN Files /\ w.type \notin {"F", "L", "ST", "MG", "PD"}
  /\ CallOn \in BOOLEAN

\* A bulk request has room for two elements of any type, and the PLC's reply for a word.
ASSUME RoomAssumption ==
  /\ BulkBytes \in Nat /\ BulkBytes >= 2 * 84
  /\ \A n \in Rooms : n \in Nat /\ n >= 2

\* Rows and reads are sequences.
ASSUME ListsAssumption ==
  \A list \in Reads \cup {Rows} : Len(list) \in Nat /\ DOMAIN list = 1..Len(list)

VARIABLES
  made,      \* the adapter's client, which is nil again after its Close
  conn,      \* its EIP client has a socket and a session
  wire,      \* what lies unread on the socket
  memory,    \* the PLC's followed words: the bits that are set
  op,        \* the call each goroutine runs
  strayed,   \* history: something arrived that no request waited for
  panicked   \* the process ended in a nil dereference

vars == <<made, conn, wire, memory, op, strayed, panicked>>

-----------------------------------------------------------------------------
(* Addresses *)

Complex == {"T", "C", "R"}

ElementSize(type) ==
  CASE type \in {"F", "L"} -> 4 [] type \in Complex -> 6 [] type = "ST" -> 84
    [] type = "MG" -> 50 [] type = "PD" -> 46 [] OTHER -> 2

\* The file a letter means without a number; the other types need one.
DefaultFile(type) == CASE type = "O" -> 0 [] type = "I" -> 1 [] type = "S" -> 2 [] OTHER -> None

\* The named sub-elements: the name, the word, and the bit in it.
SubNames(type) ==
  CASE type = "T" -> {<<"PRE", 1, -1>>, <<"ACC", 2, -1>>, <<"EN", 0, 15>>, <<"TT", 0, 14>>, <<"DN", 0, 13>>}
    [] type = "C" -> {<<"PRE", 1, -1>>, <<"ACC", 2, -1>>, <<"CU", 0, 15>>, <<"CD", 0, 14>>, <<"DN", 0, 13>>,
                      <<"OV", 0, 12>>, <<"UN", 0, 11>>}
    [] type = "R" -> {<<"LEN", 1, -1>>, <<"POS", 2, -1>>, <<"EN", 0, 15>>, <<"EU", 0, 14>>, <<"DN", 0, 13>>,
                      <<"EM", 0, 12>>, <<"ER", 0, 11>>, <<"UL", 0, 10>>, <<"IN", 0, 9>>, <<"FD", 0, 8>>}
    [] OTHER -> {}

UInt16 == 0..65535

\* ParseAddress of an address spelled with a file number or without, an element, and nothing, a
\* bit ("/"), the name of a sub-element or its number (".") after it. The number of the file is
\* cut to 16 bits; an element or a sub-element beyond them, or a bit beyond 15, is refused.
BadAddress == [ok |-> FALSE, type |-> None, file |-> 0, elem |-> 0, sub |-> 0, bit |-> -1]
ParseAddress(a) ==
  LET file == IF a.file = None \/ a.file < 0 THEN DefaultFile(a.type) ELSE a.file % 65536
      here == [ok |-> TRUE, type |-> a.type, file |-> file, elem |-> a.elem, sub |-> 0, bit |-> -1]
      Named(n) == n[1] = a.arg
  IN  IF file = None \/ a.elem \notin UInt16 THEN BadAddress
      ELSE CASE a.mod = "none" -> here
             [] a.mod = "bit" -> IF a.arg \in 0..15 THEN [here EXCEPT !.bit = a.arg] ELSE BadAddress
             [] a.mod = "sub" -> IF a.arg \in UInt16 THEN [here EXCEPT !.sub = a.arg] ELSE BadAddress
             [] OTHER -> IF \E n \in SubNames(a.type) : Named(n)
                         THEN LET n == CHOOSE n \in SubNames(a.type) : Named(n)
                              IN  [here EXCEPT !.sub = n[2], !.bit = n[3]]
                         ELSE BadAddress

ReadSize(a) == IF a.bit >= 0 \/ (a.type \in Complex /\ a.sub > 0) THEN 2 ELSE ElementSize(a.type)

\* Where an address lies in its file.
Offset(a) == a.elem * ElementSize(a.type) + 2 * a.sub

-----------------------------------------------------------------------------
(* The PLC, and the exchange of a request for a reply *)

Stretch(type, file, off, len) == [type |-> type, file |-> file, off |-> off, len |-> len]

\* A reply, by the command it repeats: reads and writes have the same. An error is a refusal at
\* any layer, or that of the transport; "header" has a foreign session handle and its body behind it.
Reply(command, data, bits) == [command |-> command, status |-> "ok", data |-> data, bits |-> bits]
Failing(why) == [command |-> "none", status |-> why, data |-> None, bits |-> {}]
Refusal == Failing("error")

Good(reply, command) == reply.status = "ok" /\ reply.command = command

Reachable(a, size) ==
  /\ <<a.type, a.file>> \in DOMAIN Files
  /\ a.sub > 0 => a.type \in Complex /\ a.sub < 3
  /\ Offset(a) + size <= Files[<<a.type, a.file>>] * ElementSize(a.type)

Place(a) == [type |-> a.type, file |-> a.file, off |-> Offset(a)]

\* The lengths of the answer to a request for some bytes: all of them, or what there is room for.
Lengths(size) == {size} \cup {n \in Rooms : n < size}

\* Protected Typed Logical Read.
ReadAnswers(a, size) ==
  LET bits == IF Place(a) \in Words THEN memory[Place(a)] ELSE {}
      Data(n) == Reply("typed", Stretch(a.type, a.file, Offset(a), n), bits)
  IN  IF Reachable(a, size) THEN {Data(n) : n \in Lengths(size)} ELSE {Refusal}

\* Beside the answer: a refusal, a reply with a foreign session handle, or the answer twice.
Arrivals(answer) ==
  {<<answer>>, <<Refusal>>}
    \cup (IF strayed THEN {} ELSE {<<Failing("header"), Failing("body")>>, <<answer, answer>>})

\* SendRRData under EipClient.mu fails without a socket.
Unsent == ~conn /\ UNCHANGED <<conn, wire, strayed>>

\* The oldest unread frame is taken for the reply, whatever it answers: its TNS is not looked at.
Received(arrival) ==
  /\ conn
  /\ wire' = Tail(wire \o arrival)
  /\ strayed' = (strayed \/ Len(arrival) > 1)
  /\ UNCHANGED conn

\* A failing socket or a deadline closes the socket.
Dropped == conn /\ conn' = FALSE /\ wire' = <<>> /\ UNCHANGED strayed

\* A request and its reply. Got(reply, seen): the PLC has carried out the request, or not.
Ask(answer, Got(_, _)) ==
  /\ \/ Unsent /\ Got(Failing("down"), FALSE)
     \/ \E arrival \in Arrivals(answer) :
          Received(arrival) /\ Got(Head(wire \o arrival), arrival # <<Refusal>>)
     \/ \E seen \in BOOLEAN : Dropped /\ Got(Failing("broken"), seen)
  /\ UNCHANGED <<made, panicked>>

-----------------------------------------------------------------------------
(* The calls that run *)

Idle == [at |-> "idle", kind |-> "none", ok |-> TRUE, addrs |-> <<>>, results |-> <<>>, jobs |-> <<>>,
         put |-> None, dir |-> None]

At(p, place) == op[p].at = place /\ ~panicked
Ready(p) == At(p, "idle") /\ made /\ (strayed => CallOn)
Become(p, o) == op' = [op EXCEPT ![p] = o]
Call(kind) == [Idle EXCEPT !.kind = kind]
End(o, ok) == [o EXCEPT !.at = "return", !.ok = ok, !.jobs = <<>>]

Value(data) == [ok |-> TRUE, data |-> data]
Failure == [ok |-> FALSE, data |-> None]

-----------------------------------------------------------------------------
(* Reading *)

\* Only whole elements are read in bulk.
Bulkable(a) == a.ok /\ a.sub = 0 /\ a.bit < 0

\* Seeded fault: an element asked for twice is taken to follow itself.
FollowsOrSame(prev, curr) == curr \in {prev, prev + 1}

Follows(prev, curr) == curr = prev + 1

\* pcccContiguousRuns, over requests sorted by element.
Runs(addrs, sorted) ==
  FoldLeft(LAMBDA runs, i :
             IF runs # <<>> /\ Follows(addrs[Last(Last(runs))].elem, addrs[i].elem)
             THEN Append(Front(runs), Append(Last(runs), i)) ELSE Append(runs, <<i>>),
           <<>>, sorted)

\* A run, cut into requests of at most BulkBytes; one element alone, or left over, is none.
Cut(addrs, run) ==
  LET most == BulkBytes \div ElementSize(addrs[run[1]].type)
  IN  [k \in 1..((Len(run) + most - 2) \div most) |->
         SubSeq(run, (k - 1) * most + 1, IF k * most < Len(run) THEN k * most ELSE Len(run))]

\* The bulk requests of one file. The sort leaves equal elements in any order.
FileJobs(addrs, file) ==
  LET mine == {i \in DOMAIN addrs : Bulkable(addrs[i]) /\ <<addrs[i].type, addrs[i].file>> = file}
      sorted == {s \in SetToSeqs(mine) : \A j \in 1..(Len(s) - 1) : addrs[s[j]].elem <= addrs[s[j + 1]].elem}
  IN  {FoldLeft(LAMBDA jobs, run : jobs \o Cut(addrs, run), <<>>, Runs(addrs, s)) : s \in sorted}

\* The bulk requests of a Read, file after file in the order of a map.
InOrder(addrs, order) ==
  FoldLeft(LAMBDA plans, f : {plan \o jobs : plan \in plans, jobs \in FileJobs(addrs, f)}, {<<>>}, order)

Plans(addrs) ==
  LET files == {<<addrs[i].type, addrs[i].file>> : i \in {i \in DOMAIN addrs : Bulkable(addrs[i])}}
  IN  UNION {InOrder(addrs, order) : order \in SetToSeqs(files)}

\* The requests without a result yet.
Pending(o) == {i \in DOMAIN o.results : o.results[i] = None}

\* Bulk requests first, then what is left ("rest") one by one ("one"); connErrorIfDown ends
\* client.Read, which the adapter calls only when something is left.
GoOn(o) ==
  IF o.jobs # <<>> THEN [o EXCEPT !.at = "bulk"]
  ELSE IF Pending(o) # {} THEN [o EXCEPT !.at = IF o.kind = "read" /\ o.at \in {"idle", "bulk"} THEN "rest" ELSE "one"]
  ELSE IF o.kind = "read" /\ o.at \in {"idle", "bulk"} THEN End(o, TRUE)
  ELSE [o EXCEPT !.at = "check"]

\* Read of the adapter, and Read of the client ("each"), which reads one by one.
BeginRead(p) ==
  /\ Ready(p) /\ p \in Readers
  /\ \E names \in Reads, kind \in {"read", "each"} :
       LET addrs == [i \in DOMAIN names |-> ParseAddress(names[i])]
           o == [Call(kind) EXCEPT !.addrs = addrs,
                                   !.results = [i \in DOMAIN addrs |-> IF addrs[i].ok THEN None ELSE Failure]]
       IN  \E plan \in IF kind = "read" THEN Plans(addrs) ELSE {<<>>} :
             Become(p, GoOn([o EXCEPT !.jobs = plan]))
  /\ UNCHANGED <<made, conn, wire, memory, strayed, panicked>>

\* ReadAddressN: each element that is in the reply is a result; the others stay to be read alone.
ReadBulk(p) ==
  /\ At(p, "bulk") /\ made
  /\ LET o == op[p]
         chunk == Head(o.jobs)
         first == o.addrs[chunk[1]]
         size == ElementSize(first.type)
         Rank(i) == CHOOSE j \in DOMAIN chunk : chunk[j] = i
         Got(reply, seen) ==
           /\ LET Arrived(i) ==
                    /\ Good(reply, "typed") /\ reply.data # None
                    /\ i \in ToSet(chunk) /\ size * Rank(i) <= reply.data.len
                  Part(i) == [reply.data EXCEPT !.off = @ + size * (Rank(i) - 1), !.len = size]
              IN  Become(p, GoOn([o EXCEPT !.jobs = Tail(@),
                                           !.results = [i \in DOMAIN @ |-> IF Arrived(i) THEN Value(Part(i)) ELSE @[i]]]))
           /\ UNCHANGED memory
     IN  \E answer \in ReadAnswers(first, size * Len(chunk)) : Ask(answer, Got)

\* ReadAddress, for the first request left; how much there is in the reply is not looked at.
ReadOne(p) ==
  /\ At(p, "one") \/ (At(p, "rest") /\ made)
  /\ LET o == op[p]
         i == CHOOSE i \in Pending(o) : \A j \in Pending(o) : i <= j
         Got(reply, seen) ==
           /\ Become(p, GoOn([o EXCEPT !.results[i] = IF Good(reply, "typed") THEN Value(reply.data) ELSE Failure]))
           /\ UNCHANGED memory
     IN  \E answer \in ReadAnswers(o.addrs[i], ReadSize(o.addrs[i])) : Ask(answer, Got)

\* A Read of the adapter takes a.client anew for each bulk request, and once for what is left. When
\* it has become nil a bulk request ends the process, and client.Read is an error.
NilClient(p) ==
  /\ ~made
  /\ \/ /\ At(p, "bulk")
        /\ panicked' = TRUE /\ op' = [q \in Procs |-> Idle]
     \/ /\ At(p, "rest")
        /\ Become(p, [End(op[p], FALSE) EXCEPT !.results = <<>>])
        /\ UNCHANGED panicked
  /\ UNCHANGED <<made, conn, wire, memory, strayed>>

\* connErrorIfDown: the client returns what it has beside the error, the adapter drops it.
EndRead(p) ==
  /\ At(p, "check")
  /\ LET o == End(op[p], conn)
     IN  Become(p, IF conn \/ o.kind = "each" THEN o ELSE [o EXCEPT !.results = <<>>])
  /\ UNCHANGED <<made, conn, wire, memory, strayed, panicked>>

-----------------------------------------------------------------------------
(* Writing *)

\* encodeValue: the bytes a value takes at an address; 0 if it cannot be written there. "int" is
\* int, int16, int32 and int64, "int8" is int8 and uint8, "float" is both floats; uint and uint64
\* can be written nowhere.
Encoded(a, value) ==
  LET word == IF value.kind \in {"bool", "int", "int8", "uint16", "float"} THEN 2 ELSE 0
  IN  CASE a.type = "F" -> IF value.kind \in {"int", "float"} THEN 4 ELSE 0
        [] a.type = "L" -> IF value.kind \in {"int", "int8", "uint16", "uint32", "float"} THEN 4 ELSE 0
        [] a.type \in Complex -> IF a.sub > 0 THEN word ELSE 0
        [] a.type = "ST" -> IF value.kind = "string" THEN 2 + (IF value.len < 82 THEN value.len ELSE 82) ELSE 0
        [] a.type \in {"MG", "PD"} -> 0
        [] OTHER -> word

\* Write: a bit is read back first, whatever file its word is in; an integer is cut to the bits
\* of its word.
BeginWrite(p) ==
  /\ Ready(p)
  /\ \E w \in Writes :
       LET a == ParseAddress(w.name)
           o == [Call("write") EXCEPT !.put = [addr |-> a, value |-> w.value, len |-> Encoded(a, w.value),
                                               word |-> w.value.bits \cap 0..15, seen |-> {}, before |-> {}, done |-> FALSE]]
       IN  Become(p, IF ~a.ok THEN End(o, FALSE)
                     ELSE IF a.bit >= 0
                     THEN IF w.value.kind \in {"bool", "int", "uint16", "float"} THEN [o EXCEPT !.at = "word", !.put.len = 2]
                          ELSE End(o, FALSE)
                     ELSE IF o.put.len = 0 THEN End(o, FALSE) ELSE [o EXCEPT !.at = "put"])
  /\ UNCHANGED <<made, conn, wire, memory, strayed, panicked>>

\* writeBit reads the word, in a whole element, and sets or clears its bit.
ReadWord(p) ==
  /\ At(p, "word")
  /\ LET o == op[p]
         a == [o.put.addr EXCEPT !.bit = -1]
         Changed(bits) == IF o.put.value.bits # {} THEN bits \cup {o.put.addr.bit} ELSE bits \ {o.put.addr.bit}
         Got(reply, seen) ==
           /\ Become(p, IF ~Good(reply, "typed") \/ reply.data = None THEN End(o, FALSE)
                        ELSE [o EXCEPT !.at = "put", !.put.seen = reply.bits, !.put.word = Changed(reply.bits)])
           /\ UNCHANGED memory
     IN  \E answer \in ReadAnswers(a, ReadSize(a)) : Ask(answer, Got)

\* WriteAddress.
Put(p) ==
  /\ At(p, "put")
  /\ LET o == op[p]
         place == Place(o.put.addr)
         answer == IF Reachable(o.put.addr, o.put.len) THEN Reply("typed", None, {}) ELSE Refusal
         Got(reply, seen) ==
           LET done == seen /\ answer # Refusal
               followed == done /\ place \in Words
           IN  /\ Become(p, End([o EXCEPT !.put.done = done, !.put.before = IF followed THEN memory[place] ELSE {}],
                                Good(reply, "typed")))
               /\ memory' = IF followed THEN [memory EXCEPT ![place] = o.put.word] ELSE memory
     IN  Ask(answer, Got)

-----------------------------------------------------------------------------
(* The discovery of data files *)

\* lookupSys0Info: where the directory begins, the length of a row, and in it the place of the
\* type and of the number of elements.
Layout(prefix) ==
  CASE prefix = "1747" -> [start |-> 79, row |-> 10, type |-> 1, size |-> 35, const |-> 0]
    [] prefix = "1761" -> [start |-> 93, row |-> 8, type |-> 0, size |-> 35, const |-> 0]
    [] prefix \in {"1762", "1763", "1764"} -> [start |-> 233, row |-> 10, type |-> 2, size |-> 40, const |-> 19968]
    [] prefix = "1766" -> [start |-> 233, row |-> 10, type |-> 3, size |-> 43, const |-> 19968]
    [] OTHER -> None

\* What the PLC says the directory takes, and readSection of it.
HeaderSize(layout) == layout.start + Len(Rows) * layout.row + layout.const
Section(off, len) == Reply("typed", Stretch("sys", 0, off, len), {})
SectionAnswers(off, len) == {Section(off, n) : n \in Lengths(len)}

ASSUME MissingAssumption == None # Failure /\ None \notin [type : {"sys"}, file : {0}, off : Nat, len : Nat]

\* DiscoverDataFiles of the client, AllTags of the adapter; GetIdentity.
BeginDiscover(p) ==
  /\ Ready(p) /\ p \in Readers
  /\ \E kind \in {"discover", "identity"} :
       Become(p, [Call(kind) EXCEPT !.at = IF kind = "discover" THEN "diagnose" ELSE "identify",
                                    !.dir = [layout |-> None, size |-> 0, asked |-> 0, data |-> <<>>, cut |-> FALSE]])
  /\ UNCHANGED <<made, conn, wire, memory, strayed, panicked>>

Known(o, prefix) == IF Layout(prefix) = None THEN End(o, FALSE)
                    ELSE [o EXCEPT !.at = "size", !.dir.layout = Layout(prefix)]

\* GetProcessorType: a diagnostic status, or the product name of the identity. Which PLC it is
\* matters to the discovery alone, and is chosen as it answers.
Diagnose(p) ==
  /\ At(p, "diagnose")
  /\ \E prefix \in Catalogs :
       LET Got(reply, seen) ==
             /\ Become(p, IF Good(reply, "diagnostic") THEN Known(op[p], prefix) ELSE [op[p] EXCEPT !.at = "identify"])
             /\ UNCHANGED memory
       IN  Ask(Reply("diagnostic", None, {}), Got)

Identify(p) ==
  /\ At(p, "identify")
  /\ \E prefix \in Catalogs :
       LET Got(reply, seen) ==
             /\ Become(p, IF ~Good(reply, "identity") THEN End(op[p], FALSE)
                          ELSE IF op[p].kind = "identity" THEN End(op[p], TRUE) ELSE Known(op[p], prefix))
             /\ UNCHANGED memory
       IN  Ask(Reply("identity", None, {}), Got)

\* The first two bytes of system file 0; a stray reply is read as some number.
AskSize(p) ==
  /\ At(p, "size")
  /\ LET o == op[p]
         layout == o.dir.layout
         Got(reply, seen) ==
           /\ \E header \in IF reply.data = Section(0, 2).data THEN {HeaderSize(layout)} ELSE {0, HeaderSize(layout)} :
                LET size == header - layout.const - layout.start
                IN  Become(p, IF ~Good(reply, "typed") \/ reply.data = None \/ size <= 0 THEN End(o, FALSE)
                              ELSE [o EXCEPT !.at = "section", !.dir.size = size])
           /\ UNCHANGED memory
     IN  Ask(Section(0, 2), Got)

\* The directory in sections of 80 bytes, put end to end; any error gives it up. How much there is
\* in a section is not looked at ("cut", history).
AskSection(p) ==
  /\ At(p, "section")
  /\ LET o == op[p]
         d == o.dir
         n == IF d.size - d.asked < 80 THEN d.size - d.asked ELSE 80
         Got(reply, seen) ==
           /\ LET data == IF reply.data = None THEN d.data ELSE Append(d.data, reply.data)
                  cut == reply.data = None \/ reply.data.len # n
                  more == [o EXCEPT !.dir.asked = @ + n, !.dir.data = data, !.dir.cut = @ \/ cut]
              IN  Become(p, IF ~Good(reply, "typed") THEN End(o, FALSE)
                            ELSE IF more.dir.asked < d.size THEN more ELSE End(more, TRUE))
           /\ UNCHANGED memory
     IN  \E answer \in SectionAnswers(d.layout.start + d.asked, n) : Ask(answer, Got)

Bytes(data) == FoldLeft(LAMBDA sum, s : sum + s.len, 0, data)

\* The byte of the system file that came to lie at a place of the data put together.
ByteAt(data, k) ==
  LET i == CHOOSE i \in DOMAIN data : Bytes(SubSeq(data, 1, i - 1)) <= k /\ k < Bytes(SubSeq(data, 1, i))
  IN  IF data[i].type = "sys" THEN data[i].off + k - Bytes(SubSeq(data, 1, i - 1)) ELSE -1

\* parseFileDirectory: a file for each row that is not a hole, numbered by the row. The number of
\* elements lies outside the row in every layout, and is 0.
Entries(dir) ==
  LET layout == dir.layout
      Type(r) == LET b == ByteAt(dir.data, r * layout.row + layout.type) - layout.start
                 IN  IF b >= 0 /\ b % layout.row = layout.type THEN Rows[b \div layout.row + 1] ELSE "unknown"
      rows == {r \in 0..(Bytes(dir.data) \div layout.row - 1) : Type(r) # "hole"}
      Count(r) == IF layout.size < layout.row THEN Files[<<Type(r), r>>] ELSE 0
  IN  {[file |-> r, type |-> Type(r), count |-> Count(r)] : r \in rows}

-----------------------------------------------------------------------------
(* Sessions *)

\* Connect: a new client in the place of the old; not while calls run.
Connect ==
  /\ \A p \in Procs : At(p, "idle")
  /\ made' = TRUE /\ conn' = TRUE /\ wire' = <<>> /\ strayed' = FALSE
  /\ UNCHANGED <<memory, op, panicked>>

\* Keepalive: SendNop waits for no reply; a failing send closes the socket.
Keepalive(p) ==
  /\ Ready(p) /\ p \in Readers
  /\ \/ Become(p, End(Call("keepalive"), conn)) /\ UNCHANGED <<conn, wire>>
     \/ conn /\ Become(p, End(Call("keepalive"), FALSE)) /\ conn' = FALSE /\ wire' = <<>>
  /\ UNCHANGED <<made, memory, strayed, panicked>>

\* Close, whatever calls run: Disconnect sends and closes. That of the adapter sets its client to
\* nil, that of the client does not.
Close(p) ==
  /\ At(p, "idle") /\ made
  /\ conn' = FALSE /\ wire' = <<>>
  /\ made' \in BOOLEAN
  /\ Become(p, End(Call("close"), TRUE))
  /\ UNCHANGED <<memory, strayed, panicked>>

\* When the send fails sendEncap has dropped the socket that unRegisterSession then closes.
Panic(p) ==
  /\ At(p, "idle") /\ conn /\ p \in Readers
  /\ panicked' = TRUE /\ conn' = FALSE /\ wire' = <<>>
  /\ op' = [q \in Procs |-> Idle]
  /\ UNCHANGED <<made, memory, strayed>>

\* The program of the PLC changes a bit.
Program ==
  /\ ~panicked
  /\ \E w \in Words : memory' = [memory EXCEPT ![w] = IF 0 \in @ THEN @ \ {0} ELSE @ \cup {0}]
  /\ UNCHANGED <<made, conn, wire, op, strayed, panicked>>

Return(p) ==
  /\ At(p, "return")
  /\ Become(p, Idle)
  /\ UNCHANGED <<made, conn, wire, memory, strayed, panicked>>

Init ==
  /\ made = FALSE /\ conn = FALSE /\ wire = <<>> /\ strayed = FALSE /\ panicked = FALSE
  /\ memory = [w \in Words |-> {}]
  /\ op = [p \in Procs |-> Idle]

Next ==
  \/ Connect \/ Program
  \/ \E p \in Procs :
       \/ BeginRead(p) \/ ReadBulk(p) \/ ReadOne(p) \/ NilClient(p) \/ EndRead(p)
       \/ BeginWrite(p) \/ ReadWord(p) \/ Put(p)
       \/ BeginDiscover(p) \/ Diagnose(p) \/ Identify(p) \/ AskSize(p) \/ AskSection(p)
       \/ Keepalive(p) \/ Close(p) \/ Panic(p) \/ Return(p)

Spec == Init /\ [][Next]_vars

-----------------------------------------------------------------------------
(* Properties *)

\* What an address names, as much of it as there is in a reply.
Contents(a) == {Stretch(a.type, a.file, Offset(a), n) : n \in Lengths(ReadSize(a))}

\* Every address has its result, in the order of the requests, and a result without an error is
\* the element, sub-element or word the address names, from its beginning, and all of it unless
\* it was read alone and the PLC cut the reply.
ReadsInPlace(o) ==
  /\ Len(o.results) = IF o.kind = "read" /\ ~o.ok THEN 0 ELSE Len(o.addrs)
  /\ \A i \in DOMAIN o.results :
       /\ o.results[i] # None
       /\ o.results[i].ok =>
            LET a == o.addrs[i] IN a.ok /\ o.results[i].data \in Contents(a)

\* A write that reports success was carried out; a bit write changed its bit, and another bit of
\* the word only if the word had changed since it was read.
WritesInPlace(put) ==
  /\ put.done
  /\ put.addr.bit >= 0 /\ Place(put.addr) \in Words =>
       LET b == put.addr.bit
       IN  /\ b \in put.word <=> put.value.bits # {}
           /\ put.before = put.seen => put.word \ {b} = put.before \ {b}

\* The files found are those of the directory, each under its number.
FilesFound(dir) ==
  {[file |-> e.file, type |-> e.type] : e \in Entries(dir)}
    = {[file |-> r - 1, type |-> Rows[r]] : r \in {r \in DOMAIN Rows : Rows[r] # "hole"}}

\* What a call of the PCCC client or its adapter returns (Read of driver/pccc.go and of
\* pccc/client.go, Write and writeBit, GetFileDirectory) is true of the PLC, with other calls and
\* the PLC's program between its exchanges, links that break, bulk requests that fail, and a Close
\* while it runs. Holds until a reply has been taken for another's; a directory with a section
\* that the PLC cut is left out.
CallsTruthful ==
  ~strayed =>
    \A p \in Procs : op[p].at = "return" =>
      /\ op[p].kind \in {"read", "each"} => ReadsInPlace(op[p])
      /\ op[p].kind = "write" /\ op[p].ok => WritesInPlace(op[p].put)
      /\ op[p].kind = "discover" /\ op[p].ok /\ ~op[p].dir.cut => FilesFound(op[p].dir)
=============================================================================
