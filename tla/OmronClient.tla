------------------------------ MODULE OmronClient ------------------------------
(***************************************************************************)
(* The Omron client (omron/client.go, batch.go): FINS over TCP or UDP      *)
(* (tcp.go, udp.go, fins.go, address.go) and EtherNet/IP, the batches of a *)
(* read, single writes, and the connection that Reconnect replaces.        *)
(*                                                                         *)
(* c.mu is held from the start of every call to its end, dialling          *)
(* included, so calls only queue: one is modelled at a time, with the      *)
(* network beside it. The PLC is external; a byte it returns is known by   *)
(* the place it was read from. An exchange over EtherNet/IP gives an       *)
(* answer, an error or a lost link here; its stream is module LogixClient. *)
(***************************************************************************)
EXTENDS Integers, Sequences, FiniteSets, SequencesExt

CONSTANTS
  MaxLinks,        \* bound on the sockets ever opened
  Reads,           \* the argument lists Read and ReadWithTypes are called with
  Writes,          \* the arguments WriteWithType is called with
  MaxMultiAreas,   \* FINSMaxMultiAreas, 64 in the code
  BatchConnected,  \* EIPBatchSizeConnected, 50 in the code
  BatchSingle,     \* EIPBatchSizeUnconnected, 20 in the code
  None

ASSUME MaxLinksAssumption == MaxLinks \in Nat \ {0}

\* Text that neither FINS nor EtherNet/IP takes for an address; what the regular expressions of
\* address.go find in any other: numbers, or nothing.
BadAddress == [area |-> "?"]

IsText(t) ==
  t # BadAddress => t.addr \in Nat /\ t.bit \in Nat \cup {None} /\ t.count \in Nat \cup {None}

ASSUME ReadsAssumption ==
  \A list \in Reads : /\ Len(list) \in Nat /\ DOMAIN list = 1..Len(list)
                      /\ \A i \in DOMAIN list : IsText(list[i].text)
ASSUME WritesAssumption == \A w \in Writes : w.n \in Nat /\ IsText(w.text)
ASSUME BatchAssumption == {MaxMultiAreas, BatchConnected, BatchSingle} \subseteq Nat \ {0}

VARIABLES
  transport,  \* c.transport
  up,         \* c.connected
  conn,       \* the socket of c.fins or c.eipClient, 0 when there is none
  flag,       \* per socket: the transport's connected flag, or the EIP client has its socket
  cip,        \* a CIP connection is open (c.cipConn)
  link,       \* the sockets: unused, open, broken or closed
  wire,       \* what lies unread on each socket
  op,         \* the call that runs ("browse": a listing, module OmronBrowse)
  strayed,    \* history: something arrived on the socket in use that no command waited for
  panicked    \* the process ended in a nil dereference

vars == <<transport, up, conn, flag, cip, link, wire, op, strayed, panicked>>

network == <<flag, link, wire, strayed>>
client == <<transport, up, conn, cip, panicked>>

-----------------------------------------------------------------------------
(* Addresses *)

TypeSize(t) ==
  CASE t \in {"BYTE", "SINT", "STRING"} -> 1
    [] t \in {"BOOL", "WORD", "INT"} -> 2
    [] t \in {"DWORD", "DINT", "REAL"} -> 4
    [] t \in {"LWORD", "LINT", "LREAL"} -> 8
    [] OTHER -> 0

\* TypeCodeFromName: None for a name it does not know.
TypeOfName(name) ==
  CASE name = "USINT" -> "BYTE"
    [] name = "UINT" -> "WORD"
    [] name = "UDINT" -> "DWORD"
    [] name = "ULINT" -> "LWORD"
    [] TypeSize(name) > 0 \/ name = "VOID" -> name
    [] OTHER -> None

\* AreaFromName, for an area of each kind: the code, and whether it has a bit area beside it
\* (BitAreaFromWordArea) or is one (IsBitArea).
AreaCode == [TK |-> 6, DM |-> 130, TC |-> 137, EM0 |-> 160, CIO |-> 176]
BitAreas == {"TK", "DM", "CIO"}

\* A word beyond 16 bits becomes the last one; a hint replaces the type.
ParseAddressWithType(request) ==
  LET t == request.text
      hint == TypeOfName(request.hint)
  IN  IF t = BadAddress \/ t.area \notin DOMAIN AreaCode \/ (t.bit # None /\ t.bit > 15)
      THEN BadAddress
      ELSE [area |-> t.area, addr |-> IF t.addr > 65535 THEN 65535 ELSE t.addr,
            bit |-> IF t.bit = None THEN 0 ELSE t.bit,
            count |-> IF t.count = None THEN 1 ELSE t.count,
            type |-> IF hint # None THEN hint ELSE IF t.bit # None THEN "BOOL" ELSE "WORD"]

WordCount(a) ==
  LET n == (TypeSize(a.type) * a.count + 1) \div 2 IN IF n < 1 THEN 1 ELSE n

-----------------------------------------------------------------------------
(* The PLC's side, as the client's requests and parsers use it *)

\* A stretch of PLC memory: len bytes from byte off of the words of an area, len bits (a byte
\* each) from bit off of its bits, or a tag.
Words(area, addr, n) == [area |-> area, unit |-> "word", off |-> 2 * addr, len |-> 2 * n]
BitsFrom(area, addr, bit, n) == [area |-> area, unit |-> "bit", off |-> 16 * addr + bit, len |-> n]
Tag(text) == [area |-> text, unit |-> "tag", off |-> 0, len |-> 1]

Bytes(data) == FoldLeft(LAMBDA sum, s : sum + s.len, 0, data)

\* n bytes of the data, from byte "from" on.
Slice(data, from, n) ==
  LET Take(acc, s) ==
        LET lo == IF from > acc.at THEN from - acc.at ELSE 0
            hi == IF from + n - acc.at < s.len THEN from + n - acc.at ELSE s.len
        IN  [at |-> acc.at + s.len,
             out |-> IF lo < hi THEN Append(acc.out, [s EXCEPT !.off = @ + lo, !.len = hi - lo])
                     ELSE acc.out]
  IN  FoldLeft(Take, [at |-> 0, out |-> <<>>], data).out

Data(data) == [kind |-> "data", data |-> data]
\* Other frames: an end code that is an error, a FINS/TCP frame error, and a frame whose header
\* is refused with its body unread (the stream falls back into step if that is as long as a header).
Other(kind) == [kind |-> kind, data |-> <<>>]

Limit == 998

\* A read: count words, or bits where the area is one of bits. The count is cut to 16 bits.
ReadAnswer(area, addr, bit, count, bits) ==
  LET n == count % 65536
      data == IF bits THEN BitsFrom(area, addr, bit, n) ELSE Words(area, addr, n)
  IN  IF n = 0 \/ n > Limit \/ (~bits /\ addr + n > 65536) THEN Other("endcode") ELSE Data(<<data>>)

\* What comes on the socket for a command: over UDP also nothing or the answer twice, over TCP a
\* frame error, or a frame nobody waits for ahead of the answer.
Arrivals(answer) ==
  IF transport = "udp" THEN {<<answer>>, <<>>} \cup (IF strayed THEN {} ELSE {<<answer, answer>>})
  ELSE {<<answer>>, <<Other("error")>>}
         \cup (IF strayed THEN {} ELSE {<<Other("header"), Other("body"), answer>>})

-----------------------------------------------------------------------------
(* Calls and exchanges *)

Idle == [at |-> "idle", kind |-> "none", args |-> <<>>, jobs |-> <<>>, results |-> <<>>,
         target |-> None, wrote |-> <<>>, failed |-> FALSE, broke |-> FALSE]

Links == 1..MaxLinks

At(place) == op.at = place /\ ~panicked

\* sendCommand of either transport, and a transaction of the EIP client, are refused when there is
\* no connection.
Unsent == ~flag[conn] /\ UNCHANGED network

\* sendCommand: the oldest unread frame is taken for the answer, whatever its service ID.
Answered(arrival) ==
  /\ flag[conn] /\ link[conn] = "open" /\ wire[conn] \o arrival # <<>>
  /\ wire' = [wire EXCEPT ![conn] = Tail(@ \o arrival)]
  /\ strayed' = (strayed \/ Len(arrival) > 1)
  /\ UNCHANGED <<flag, link>>

\* The deadline passes or the socket fails, the answer perhaps still to come.
Unanswered(answer, done) ==
  /\ flag[conn] /\ (done => link[conn] = "open")
  /\ wire' = IF done THEN [wire EXCEPT ![conn] = Append(@, answer)] ELSE wire
  /\ flag' = [flag EXCEPT ![conn] = FALSE]
  /\ UNCHANGED <<link, strayed>>

\* A FINS command. Got(answer, done): the frame or None, and whether the PLC has carried it out.
FinsAsk(whole, Got(_, _)) ==
  \/ Unsent /\ Got(None, FALSE)
  \/ \E answer \in {whole, Other("endcode")} : \E arrival \in Arrivals(answer) :
       Answered(arrival) /\ Got(Head(wire[conn] \o arrival), answer = whole)
  \/ \E done \in BOOLEAN : Unanswered(whole, done) /\ Got(None, done)

\* A transaction of the EIP client that the PLC answers or refuses.
Transacted == flag[conn] /\ link[conn] = "open" /\ UNCHANGED network

\* One that fails, which closes the socket.
Dropped(done) ==
  /\ flag[conn] /\ (done => link[conn] = "open")
  /\ flag' = [flag EXCEPT ![conn] = FALSE]
  /\ link' = [link EXCEPT ![conn] = "closed"]
  /\ UNCHANGED <<wire, strayed>>

\* A CIP request. isEIPConnectionError knows an error by its text, or does not ("odd").
EipAsk(answers, Got(_, _)) ==
  \/ Unsent /\ Got(Other("down"), FALSE)
  \/ \E answer \in answers : Transacted /\ Got(answer, answer.kind = "data")
  \/ \E error \in {"down", "odd"}, done \in BOOLEAN : Dropped(done) /\ Got(Other(error), done)

-----------------------------------------------------------------------------
(* Reading over FINS *)

\* The word requests by area and address; the sort leaves equal ones in any order.
Orders(addresses, positions) ==
  LET Before(i, j) == LET a == addresses[i] b == addresses[j]
                      IN  \/ AreaCode[a.area] < AreaCode[b.area]
                          \/ a.area = b.area /\ a.addr < b.addr
  IN  {s \in SetToSeqs(positions) : \A j \in 1..(Len(s) - 1) : ~Before(s[j + 1], s[j])}

NewGroup(addresses, i) ==
  [area |-> addresses[i].area, addr |-> addresses[i].addr, words |-> WordCount(addresses[i]), items |-> <<i>>]

\* Whether a request continues a group, within the word limit.
Continues(addresses, g, i) ==
  /\ addresses[i].area = g.area /\ addresses[i].addr = (g.addr + g.words) % 65536
  /\ g.words + WordCount(addresses[i]) <= Limit

\* groupContiguousAddresses: each request joins the last group if it continues it.
Groups(addresses, sorted) ==
  FoldLeft(LAMBDA groups, i :
             IF groups # <<>> /\ Continues(addresses, Last(groups), i)
             THEN Append(Front(groups), [Last(groups) EXCEPT !.words = @ + WordCount(addresses[i]),
                                                             !.items = Append(@, i)])
             ELSE Append(groups, NewGroup(addresses, i)),
           <<>>, sorted)

Job(kind, groups) == [kind |-> kind, groups |-> groups]
Alone(groups) == [g \in DOMAIN groups |-> Job("group", <<groups[g]>>)]

\* readFINSMultiMemory: only groups of one word each go together.
Together(groups) ==
  IF \E g \in DOMAIN groups : groups[g].words > 1 THEN Alone(groups) ELSE <<Job("multi", groups)>>

\* readFINSWordsBatched: up to three groups one by one, more of them together.
WordJobs(groups) ==
  LET n == Len(groups)
      part(i) == SubSeq(groups, (i - 1) * MaxMultiAreas + 1,
                        IF i * MaxMultiAreas < n THEN i * MaxMultiAreas ELSE n)
  IN  IF n <= 3 THEN Alone(groups)
      ELSE FoldLeft(LAMBDA jobs, i : jobs \o Together(part(i)), <<>>,
                    [i \in 1..((n + MaxMultiAreas - 1) \div MaxMultiAreas) |-> i])

IsBit(a) == a # BadAddress /\ a.type = "BOOL"
IsWord(a) == a # BadAddress /\ a.type # "BOOL"

\* The bits, one request after the other.
BitJobs(addresses) ==
  FoldLeft(LAMBDA jobs, i : IF IsBit(addresses[i]) THEN Append(jobs, Job("bits", <<NewGroup(addresses, i)>>))
                            ELSE jobs,
           <<>>, [i \in DOMAIN addresses |-> i])

\* readFINSBatchedWithTypes: the words, then the bits.
FinsJobs(addresses) ==
  {WordJobs(Groups(addresses, sorted)) \o BitJobs(addresses)
     : sorted \in Orders(addresses, {i \in DOMAIN addresses : IsWord(addresses[i])})}

\* What comes on a socket, and the results of a read, whose data are stretches of memory or tags.
Memory == [area : DOMAIN AreaCode \cup {"CPU"}, unit : {"word", "bit"}, off : Nat, len : Nat]
Tags == {Tag(w.text) : w \in Writes} \cup UNION {{Tag(list[i].text) : i \in DOMAIN list} : list \in Reads}
Frames == [kind : {"data", "endcode", "error", "header", "body"}, data : Seq(Memory)]
Results(stretches) == [ok : BOOLEAN, count : Nat, data : Seq(stretches)]

ASSUME MissingAssumption == None \notin Frames \cup Results(Memory) \cup Results(Tags)

Failed == [ok |-> FALSE, count |-> 0, data |-> <<>>]
Success(count, data) == [ok |-> TRUE, count |-> count, data |-> data]

Items(job) == UNION {ToSet(job.groups[g].items) : g \in DOMAIN job.groups}

\* readEIPBatched: batches in order.
EipJobs(n) ==
  LET size == IF cip THEN BatchConnected ELSE BatchSingle
  IN  [b \in 1..((n + size - 1) \div size) |->
         [kind |-> "batch", items |-> [i \in 1..(IF b * size < n THEN size ELSE n - (b - 1) * size)
                                         |-> (b - 1) * size + i]]]

Addresses(requests) == [i \in DOMAIN requests |-> ParseAddressWithType(requests[i])]

\* Read and ReadWithTypes up to their first request; not connected, they return an error.
BeginRead ==
  /\ At("idle") /\ up
  /\ \E requests \in Reads :
       IF transport = "eip"
       THEN op' = [Idle EXCEPT !.at = "read", !.kind = "tags", !.args = requests,
                               !.jobs = EipJobs(Len(requests)),
                               !.results = [i \in DOMAIN requests |-> None]]
       ELSE \E jobs \in FinsJobs(Addresses(requests)) :
              op' = [Idle EXCEPT !.at = "read", !.kind = "words", !.args = Addresses(requests),
                                 !.jobs = jobs,
                                 !.results = [i \in DOMAIN requests |->
                                    IF Addresses(requests)[i] = BadAddress THEN Failed ELSE None]]
  /\ UNCHANGED <<client, network>>

\* ReadCPUStatus and ReadCycleTime: one command, refused without a FINS transport.
BeginStatus ==
  /\ At("idle") /\ transport # "eip" /\ conn # 0
  /\ op' = [Idle EXCEPT !.at = "read", !.kind = "status", !.jobs = <<Job("status", <<>>)>>,
                        !.results = <<None>>]
  /\ UNCHANGED <<client, network>>

\* The results of a job go to the places of its items in the argument list.
Fill(results) ==
  [op EXCEPT !.jobs = Tail(@),
             !.results = [i \in DOMAIN @ |-> IF i \in DOMAIN results THEN results[i] ELSE @[i]]]

Took(answer, n) == answer # None /\ answer.kind = "data" /\ Bytes(answer.data) >= n

\* Which of the group's requests it is.
Place(group, i) == CHOOSE k \in DOMAIN group.items : group.items[k] = i

\* Seeded fault: counts the requests before it instead of their words.
OffsetByItems(group, i) == Place(group, i) - 1

\* Where the words of item i begin in the answer to its group.
Offset(group, i) ==
  FoldLeft(LAMBDA sum, j : sum + WordCount(op.args[j]), 0, SubSeq(group.items, 1, Place(group, i) - 1))

\* readFINSGroup: one read for the group; data beyond what was asked for stays zero.
AfterGroup(answer) ==
  LET job == Head(op.jobs)
      g == job.groups[1]
      Result(i) == Success(op.args[i].count,
                           Slice(Slice(answer.data, 0, 2 * (g.words % 65536)),
                                 2 * Offset(g, i), 2 * WordCount(op.args[i])))
  IN  Fill([i \in Items(job) |-> IF Took(answer, 2 * (g.words % 65536)) THEN Result(i) ELSE Failed])

\* readFINSMultiMemory and ParseMultiMemoryReadResponse: a word for each group, a count of one;
\* after an error the groups are read one by one.
AfterMulti(answer) ==
  LET job == Head(op.jobs)
      Result(i) == LET g == CHOOSE g \in DOMAIN job.groups : i \in ToSet(job.groups[g].items)
                   IN  Success(1, Slice(answer.data, 2 * (g - 1), 2))
  IN  IF Took(answer, 2 * Len(job.groups)) THEN Fill([i \in Items(job) |-> Result(i)])
      ELSE [op EXCEPT !.jobs = Alone(job.groups) \o Tail(@)]

AfterBits(answer) ==
  LET a == op.args[Head(op.jobs).groups[1].items[1]]
      n == a.count % 65536
  IN  Fill([i \in Items(Head(op.jobs)) |->
              IF Took(answer, n) THEN Success(a.count, Slice(answer.data, 0, n)) ELSE Failed])

\* What the PLC answers to a job of a FINS read, and what becomes of the answer.
FinsAnswer(job) ==
  LET g == job.groups[1]
      a == op.args[g.items[1]]
  IN  CASE job.kind = "group" -> ReadAnswer(g.area, g.addr, 0, g.words, g.area = "TK")
        [] job.kind = "multi" -> Data([i \in DOMAIN job.groups |->
                                         Words(job.groups[i].area, job.groups[i].addr, 1)])
        [] job.kind = "bits" -> ReadAnswer(g.area, g.addr, a.bit, a.count, g.area \in BitAreas)
        [] OTHER -> Data(<<Words("CPU", 0, 8)>>)

AfterFins(job, answer) ==
  CASE job.kind = "group" -> AfterGroup(answer)
    [] job.kind = "multi" -> AfterMulti(answer)
    [] job.kind = "bits" -> AfterBits(answer)
    [] OTHER -> Fill(<<IF Took(answer, 16) THEN Success(1, answer.data) ELSE Failed>>)

ReadFins ==
  /\ At("read") /\ op.jobs # <<>> /\ op.kind # "tags"
  /\ FinsAsk(FinsAnswer(Head(op.jobs)),
             LAMBDA answer, done :
                op' = [AfterFins(Head(op.jobs), answer) EXCEPT !.broke = @ \/ answer = None])
  /\ UNCHANGED client

-----------------------------------------------------------------------------
(* Reading over EtherNet/IP *)

Single(i) == [kind |-> "single", items |-> <<i>>]

\* A connection error ends the read: what is left gets the same error.
Abort(from) ==
  [op EXCEPT !.jobs = <<>>, !.failed = TRUE, !.broke = TRUE,
             !.results = [i \in DOMAIN @ |-> IF i >= from THEN Failed ELSE @[i]]]

\* A batch of several: its results, or one by one after an error that is not of the connection.
AfterBatch(items, answer) ==
  CASE answer.kind = "down" -> Abort(items[1])
    [] answer.kind \in {"odd", "refused"} ->
         [op EXCEPT !.jobs = [i \in DOMAIN items |-> Single(items[i])] \o Tail(@),
                    !.broke = @ \/ answer.kind = "odd"]
    [] OTHER -> Fill([i \in ToSet(items) |-> answer.data[i - items[1] + 1]])

\* A batch of one gives its error as a result, where a fallback aborts.
AfterSingle(job, answer) ==
  LET i == job.items[1]
      result == IF answer.kind = "data" THEN answer.data[1] ELSE Failed
      next == [Fill([k \in {i} |-> result]) EXCEPT !.broke = @ \/ answer.kind \in {"down", "odd"}]
  IN  IF answer.kind = "down" /\ job.kind = "single" THEN Abort(i) ELSE next

\* The answers of the PLC: a result for each tag, one of them perhaps an error.
TagAnswers(items) ==
  LET whole == [i \in DOMAIN items |-> Success(1, <<Tag(op.args[items[i]].text)>>)]
  IN  {Data(whole), Other("refused")} \cup {Data([whole EXCEPT ![i] = Failed]) : i \in DOMAIN items}

\* readEIPBatch and readEIPSingle; a name with no path fails a batch before it is sent.
ReadTags ==
  /\ At("read") /\ op.jobs # <<>> /\ op.kind = "tags"
  /\ LET job == Head(op.jobs)
         After(answer) == IF Len(job.items) > 1 THEN AfterBatch(job.items, answer)
                          ELSE AfterSingle(job, answer)
     IN  IF \E i \in DOMAIN job.items : op.args[job.items[i]].text = BadAddress
         THEN op' = After(Other("refused")) /\ UNCHANGED network
         ELSE EipAsk(TagAnswers(job.items), LAMBDA answer, done : op' = After(answer))
  /\ UNCHANGED client

\* connErrorIfDownLocked: the error beside the results. (When every result is a connection error
\* the socket is down, so the code's check for that adds nothing.)
EndRead ==
  /\ At("read") /\ op.jobs = <<>>
  /\ op' = [op EXCEPT !.at = "done",
                      !.failed = @ \/ (op.kind # "status" /\ ~(up /\ flag[conn]))]
  /\ UNCHANGED <<client, network>>

-----------------------------------------------------------------------------
(* Writing *)

\* EncodeValue: the bytes of a value (n elements of a slice, or 0), or 0 for an error. A BOOL is
\* converted again, from a scalar only. The elements of []int are int64, which no REAL takes.
Encoded(type, w) ==
  LET numbers == IF type \notin {"REAL", "LREAL"} THEN {"int", "int64", "real"}
                 ELSE IF w.n = 0 THEN {"int", "real"} ELSE {"real"}
  IN  IF type = "BOOL" THEN IF w.n = 0 /\ w.kind \in {"bool", "int", "int64", "real"} THEN 2 ELSE 0
      ELSE IF type = "STRING" THEN IF w.kind = "string" THEN w.n + 1 ELSE 0
      ELSE IF w.kind \in numbers THEN TypeSize(type) * IF w.n = 0 THEN 1 ELSE w.n
      ELSE 0

\* writeFINS and writeEIP up to their first request.
BeginWrite ==
  /\ At("idle") /\ up
  /\ \E w \in Writes :
       LET a == ParseAddressWithType(w)
           c == [Idle EXCEPT !.at = "done", !.kind = "write", !.args = w, !.target = a,
                             !.failed = TRUE]
       IN  op' = CASE transport = "eip" /\ w.text # BadAddress ->
                        [c EXCEPT !.at = "type", !.failed = FALSE]
                   [] transport # "eip" /\ a # BadAddress /\ Encoded(a.type, w) > 0 ->
                        [c EXCEPT !.at = "write", !.failed = FALSE]
                   [] OTHER -> c
  /\ UNCHANGED <<client, network>>

EndWrite(failed, broke, cell, done) ==
  op' = [op EXCEPT !.at = "done", !.failed = failed, !.broke = @ \/ broke,
                   !.wrote = IF done THEN Append(@, cell) ELSE @]

\* Seeded fault: an odd last byte is dropped.
CoveredRoundsDown ==
  LET a == op.target
  IN  IF a.type = "BOOL" THEN BitsFrom(a.area, a.addr, a.bit, 1)
      ELSE Words(a.area, a.addr, Encoded(a.type, op.args) \div 2)

\* What a FINS write covers: whole words, whose odd last byte is zero, or one bit. A bit of an
\* area without bits is announced as no words, which the PLC refuses.
Covered ==
  LET a == op.target
  IN  IF a.type = "BOOL" THEN BitsFrom(a.area, a.addr, a.bit, 1)
      ELSE Words(a.area, a.addr, (Encoded(a.type, op.args) + 1) \div 2)

WriteFins ==
  /\ At("write") /\ op.kind = "write" /\ transport # "eip"
  /\ LET refused == \/ op.target.type = "BOOL" /\ op.target.area \notin BitAreas
                    \/ op.target.type # "BOOL" /\ op.target.area = "TK"
     IN  FinsAsk(IF refused THEN Other("endcode") ELSE Data(<<>>),
                 LAMBDA answer, done :
                    EndWrite(answer = None \/ answer.kind # "data", answer = None,
                             Covered, done /\ ~refused))
  /\ UNCHANGED client

\* writeEIP asks for the tag's type, then writes one element of it, unless the value cannot be
\* encoded as that type.
AskType ==
  /\ At("type")
  /\ EipAsk({Data(<<>>), Other("refused")},
            LAMBDA answer, done :
               \/ answer.kind = "data" /\ op' = [op EXCEPT !.at = "write"]
               \/ op' = [op EXCEPT !.at = "done", !.failed = TRUE,
                                   !.broke = answer.kind \in {"down", "odd"}])
  /\ UNCHANGED client

WriteTag ==
  /\ At("write") /\ transport = "eip"
  /\ EipAsk({Data(<<>>), Other("refused")},
            LAMBDA answer, done :
               EndWrite(answer.kind # "data", answer.kind \in {"down", "odd"}, Tag(op.args.text), done))
  /\ UNCHANGED client

\* Keepalive and GetDeviceInfo: one transaction without an effect on the client.
Ping ==
  /\ At("idle") /\ transport = "eip" /\ conn # 0
  /\ EipAsk({Data(<<>>), Other("refused")}, LAMBDA answer, done : UNCHANGED op)
  /\ UNCHANGED client

Return == At("done") /\ op' = Idle /\ UNCHANGED <<client, network>>

-----------------------------------------------------------------------------
(* The connection *)

\* The old socket is closed, whatever state it is in, and nothing on it will be read.
Shut(f, value) == [k \in Links |-> IF k = conn THEN value ELSE f[k]]

\* eip.Disconnect unregisters the session; if that cannot be sent, sendEncap has dropped the
\* socket which unRegisterSession then closes.
MayPanic == transport = "eip" /\ conn # 0 /\ flag[conn] /\ link[conn] = "broken"

Panic ==
  /\ At("idle") /\ MayPanic
  /\ panicked' = TRUE
  /\ UNCHANGED <<transport, up, conn, cip, op, network>>

\* Close: Forward_Close and UnRegisterSession are sent without looking at the outcome.
Close ==
  /\ At("idle")
  /\ flag' = Shut(flag, FALSE) /\ link' = Shut(link, "closed") /\ wire' = Shut(wire, <<>>)
  /\ up' = FALSE /\ conn' = 0 /\ cip' = FALSE /\ strayed' = FALSE
  /\ UNCHANGED <<transport, op, panicked>>

\* For FINS the transport's flag is cleared, for EtherNet/IP only the client's.
SetDisconnected ==
  /\ At("idle")
  /\ up' = FALSE
  /\ flag' = IF transport = "eip" \/ conn = 0 THEN flag ELSE [flag EXCEPT ![conn] = FALSE]
  /\ UNCHANGED <<transport, conn, cip, link, wire, op, strayed, panicked>>

Fresh(k) == link[k] = "unused" /\ \A j \in 1..(k - 1) : link[j] # "unused"

\* Seeded fault: the old socket is dropped without being closed.
OpenedBeside(k, t, open, withCip) ==
  /\ transport' = t /\ up' = TRUE /\ conn' = k /\ cip' = withCip
  /\ flag' = [flag EXCEPT ![k] = open]
  /\ link' = [link EXCEPT ![k] = IF open THEN "open" ELSE "closed"]
  /\ UNCHANGED wire

\* The client after a Reconnect that opened socket k, as transport t.
Opened(k, t, open, withCip) ==
  /\ transport' = t /\ up' = TRUE /\ conn' = k /\ cip' = withCip
  /\ flag' = [Shut(flag, FALSE) EXCEPT ![k] = open]
  /\ link' = [Shut(link, "closed") EXCEPT ![k] = IF open THEN "open" ELSE "closed"]
  /\ wire' = Shut(wire, <<>>)

\* Reconnect, and Connect before it: TCP (with the exchange of node addresses), else UDP, whose
\* socket needs no PLC; the choice stays. Over EtherNet/IP the session is registered and a CIP
\* connection tried, whose failures, of the link too, are not reported.
Reconnect ==
  /\ At("idle")
  /\ \E k \in Links :
       /\ Fresh(k)
       /\ \/ transport \in {"fins", "tcp"} /\ Opened(k, "tcp", TRUE, FALSE)
          \/ transport \in {"fins", "udp"} /\ Opened(k, "udp", TRUE, FALSE)
          \/ /\ transport = "eip"
             /\ \E open, withCip \in BOOLEAN : (withCip => open) /\ Opened(k, "eip", open, withCip)
  /\ strayed' = FALSE
  /\ UNCHANGED <<op, panicked>>

\* Seeded fault: the client still says connected.
ReconnectFailsQuietly ==
  /\ At("idle")
  /\ flag' = Shut(flag, FALSE) /\ link' = Shut(link, "closed") /\ wire' = Shut(wire, <<>>)
  /\ conn' = 0 /\ cip' = FALSE /\ strayed' = FALSE
  /\ UNCHANGED <<transport, up, op, panicked>>

\* It fails (over UDP when the address cannot be resolved, or no socket is to be had): the old
\* socket is gone, a new one is closed again. An EIP client is kept without a socket, so that a
\* later call is refused.
ReconnectFails ==
  /\ At("idle")
  /\ flag' = Shut(flag, FALSE) /\ link' = Shut(link, "closed") /\ wire' = Shut(wire, <<>>)
  /\ up' = FALSE /\ conn' = 0 /\ cip' = FALSE /\ strayed' = FALSE
  /\ UNCHANGED <<transport, op, panicked>>

\* The network: the link of a socket breaks.
Break(k) ==
  /\ link[k] = "open" /\ transport # "udp"
  /\ link' = [link EXCEPT ![k] = "broken"]
  /\ UNCHANGED <<client, flag, wire, op, strayed>>

Init ==
  /\ transport \in {"fins", "tcp", "udp", "eip"}
  /\ up = FALSE /\ conn = 0 /\ cip = FALSE
  /\ flag = [k \in Links |-> FALSE]
  /\ link = [k \in Links |-> "unused"]
  /\ wire = [k \in Links |-> <<>>]
  /\ op = Idle
  /\ strayed = FALSE /\ panicked = FALSE

Next ==
  \/ BeginRead \/ BeginStatus \/ ReadFins \/ ReadTags \/ EndRead
  \/ BeginWrite \/ WriteFins \/ AskType \/ WriteTag \/ Ping \/ Return
  \/ Close \/ SetDisconnected \/ Reconnect \/ ReconnectFails \/ Panic
  \/ \E k \in Links : Break(k)

Spec == Init /\ [][Next]_vars

-----------------------------------------------------------------------------
(* Properties *)

\* The variables have their types; the client's connected flag goes with a transport.
TypeOK ==
  /\ transport \in {"fins", "tcp", "udp", "eip"}
  /\ {up, cip, strayed, panicked} \subseteq BOOLEAN
  /\ conn \in 0..MaxLinks /\ (up => conn # 0)
  /\ flag \in [Links -> BOOLEAN]
  /\ link \in [Links -> {"unused", "open", "broken", "closed"}]
  /\ wire \in [Links -> Seq(Frames)]
  /\ op.at \in {"idle", "read", "type", "write", "browse", "done"}
  /\ LET known == IF op.kind = "tags" THEN Results(Tags) ELSE Results(Memory)
     IN  \A i \in DOMAIN op.results : op.results[i] \in {None} \cup known
  /\ op.wrote \in IF transport = "eip" THEN Seq(Tags) ELSE Seq(Memory)

\* The place a FINS address stands for, and the items whose result is known to be off: a count
\* of words that does not fit 16 bits, and a bit of an area that has none.
Wanted(a) ==
  IF a.type = "BOOL" THEN BitsFrom(a.area, a.addr, a.bit, a.count)
  ELSE Words(a.area, a.addr, WordCount(a))

Expressible(a) == WordCount(a) < 65536 /\ (a.type = "BOOL" => a.area \in BitAreas)

\* A read has a result for every address, and one without an error holds the bytes of its own
\* address, whatever it was grouped with, as long as nothing strayed onto the socket (a datagram
\* delivered twice or a frame nobody waits for: service IDs are not compared). Only an item of one
\* word may come back with another count (read together with others it counts 1). A read during
\* which the link was lost reports an error beside the results.
ReadsExact ==
  op.at = "done" /\ op.kind \in {"words", "tags", "status"} =>
    /\ op.broke /\ op.kind # "status" => op.failed
    /\ \A i \in DOMAIN op.results :
         LET r == op.results[i]
         IN  /\ r # None
             /\ r.ok /\ ~strayed =>
                  CASE op.kind = "tags" -> r.data = <<Tag(op.args[i].text)>>
                    [] op.kind = "status" -> r.data = <<Words("CPU", 0, 8)>>
                    [] OTHER ->
                         /\ Expressible(op.args[i]) => r.data = <<Wanted(op.args[i])>>
                         /\ r.count # op.args[i].count => WordCount(op.args[i]) = 1

\* A write reaches its own address only, once, and one that returns without an error has been
\* carried out (again unless something strayed onto the socket: any frame is taken for the
\* acknowledgement). More elements than the address has, and strings, go past it.
WritesLand ==
  op.kind = "write" =>
    /\ Len(op.wrote) <= 1
    /\ op.at = "done" /\ ~op.failed /\ ~strayed => op.wrote # <<>>
    /\ op.wrote # <<>> /\ transport = "eip" => op.wrote[1] = Tag(op.args.text)
    /\ op.wrote # <<>> /\ transport # "eip" /\ op.args.kind # "string" =>
         LET v == Wanted([op.target EXCEPT !.count = IF op.args.n = 0 THEN 1 ELSE op.args.n])
         IN  op.wrote[1] = v

\* The only socket that is open is the one in use, and the client says connected only when it
\* has a transport; a transport that says connected has its socket.
LinksAccounted ==
  /\ \A k \in Links : link[k] \in {"open", "broken"} => k = conn
  /\ \A k \in Links : flag[k] => link[k] \in {"open", "broken"}

=============================================================================
