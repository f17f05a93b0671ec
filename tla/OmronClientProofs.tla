--------------------------- MODULE OmronClientProofs ---------------------------
(***************************************************************************)
(* What the Omron client's sockets, writes and reads keep to, for any      *)
(* number of sockets and any arguments, alone and with tag listings        *)
(* between its calls; and what those find of any PLC's tags.               *)
(***************************************************************************)
EXTENDS OmronBrowse, FoldTheorems, FiniteSetTheorems, SequenceTheorems, TLAPS

Fields == {"at", "kind", "args", "jobs", "results", "target", "wrote", "failed", "broke"}

\* The places where a call uses the connection.
Asking == {"read", "type", "write", "browse"}

Up == {"open", "broken"}

Shape ==
  /\ transport \in {"fins", "tcp", "udp", "eip"}
  /\ conn \in {0} \cup Links
  /\ flag \in [Links -> BOOLEAN]
  /\ link \in [Links -> {"unused", "open", "broken", "closed"}]
  /\ DOMAIN wire = Links
  /\ strayed \in BOOLEAN
  /\ DOMAIN op = Fields

\* One socket at most, the one in use; a transport that says connected has it.
OneSocket ==
  /\ \A k \in Links : link[k] \in Up => k = conn
  /\ \A k \in Links : flag[k] => link[k] \in Up
  /\ conn # 0 => link[conn] # "unused"
  /\ up => conn # 0
  /\ op.at \in Asking => conn # 0

\* Nothing lies unread on a socket in use, unless something strayed onto it.
InStep ==
  /\ \A k \in Links : link[k] = "unused" => wire[k] = <<>>
  /\ \A k \in Links : flag[k] /\ ~strayed => wire[k] = <<>>

LinkInv == Shape /\ OneSocket /\ InStep

\* What the write that runs has put where; FINS alone encodes the value itself.
Writing ==
  /\ op.at \in {"type", "write"} => op.kind = "write"
  /\ op.kind = "write" =>
       /\ op.at \in {"type", "write", "done"} /\ op.args \in Writes
       /\ op.at \in {"type", "write"} => op.wrote = <<>>
       /\ op.at = "type" => transport = "eip"
       /\ transport # "eip" /\ (op.at = "write" \/ op.wrote # <<>>) =>
            /\ op.target = ParseAddressWithType(op.args) /\ op.target # BadAddress
            /\ Encoded(op.target.type, op.args) > 0
       /\ op.wrote # <<>> =>
            op.wrote = <<IF transport = "eip" THEN Tag(op.args.text) ELSE Covered>>
       /\ op.at = "done" /\ ~op.failed /\ ~strayed => op.wrote # <<>>

IInv == LinkInv /\ Writing

-----------------------------------------------------------------------------
(* Round trips *)

\* What a round trip does to the socket.
Traffic ==
  \/ UNCHANGED network
  \/ \E answer : \E arrival \in Arrivals(answer) : Answered(arrival)
  \/ \E answer : \E done \in BOOLEAN : Unanswered(answer, done)
  \/ \E done \in BOOLEAN : Dropped(done)

LEMMA OneFrame ==
  ASSUME NEW answer, NEW arrival \in Arrivals(answer), ~(Len(arrival) > 1), arrival # <<>>
  PROVE  \E frame : arrival = <<frame>> /\ frame \in {answer, Other("error")}
<1>1. arrival \in {<<answer>>, <<>>, <<answer, answer>>, <<Other("error")>>,
                   <<Other("header"), Other("body"), answer>>}
  BY DEF Arrivals
<1> QED
  BY <1>1

LEMMA TrafficKeepsLinks ==
  ASSUME LinkInv, conn # 0, Traffic, UNCHANGED client, DOMAIN op' = Fields
  PROVE  LinkInv'
<1> USE DEF LinkInv
<1>1. /\ conn \in Links /\ flag \in [Links -> BOOLEAN] /\ DOMAIN wire = Links
      /\ UNCHANGED <<transport, up, conn>>
  BY DEF Shape, client
<1>2. CASE UNCHANGED network
  BY <1>1, <1>2 DEF network, Shape, OneSocket, InStep
<1>3. ASSUME NEW answer, NEW arrival \in Arrivals(answer), Answered(arrival)
      PROVE  LinkInv'
  <2>1. /\ flag[conn] /\ link[conn] = "open" /\ UNCHANGED <<flag, link>>
        /\ wire' = [wire EXCEPT ![conn] = Tail(wire[conn] \o arrival)]
        /\ strayed' = (strayed \/ Len(arrival) > 1) /\ wire[conn] \o arrival # <<>>
    BY <1>3 DEF Answered
  <2>2. Shape'
    BY <1>1, <2>1 DEF Shape
  <2>3. OneSocket'
    BY <1>1, <2>1 DEF OneSocket
  <2>4. ~strayed' => wire'[conn] = <<>>
    <3> SUFFICES ASSUME ~strayed'
                 PROVE  wire'[conn] = <<>>
      OBVIOUS
    <3>1. wire[conn] = <<>> /\ ~(Len(arrival) > 1)
      BY <1>1, <2>1 DEF InStep
    <3>2. arrival # <<>>
      BY <2>1, <3>1
    <3>3. PICK frame : arrival = <<frame>>
      BY <3>1, <3>2, OneFrame
    <3>4. Tail(<<>> \o <<frame>>) = <<>>
      OBVIOUS
    <3> QED
      BY <1>1, <2>1, <3>1, <3>3, <3>4
  <2>5. InStep'
    BY <1>1, <2>1, <2>4 DEF InStep
  <2> QED
    BY <2>2, <2>3, <2>5
<1>4. ASSUME NEW answer, NEW done \in BOOLEAN, Unanswered(answer, done)
      PROVE  LinkInv'
  <2>1. /\ flag[conn] /\ flag' = [flag EXCEPT ![conn] = FALSE] /\ UNCHANGED <<link, strayed>>
        /\ wire' \in {wire, [wire EXCEPT ![conn] = Append(@, answer)]}
    BY <1>4 DEF Unanswered
  <2>2. /\ DOMAIN wire' = Links /\ \A k \in Links : k # conn => wire'[k] = wire[k]
    BY <1>1, <2>1
  <2>3. Shape'
    BY <1>1, <2>1, <2>2 DEF Shape
  <2>4. OneSocket'
    BY <1>1, <2>1 DEF OneSocket
  <2>5. InStep'
    BY <1>1, <2>1, <2>2 DEF InStep, OneSocket, Up
  <2> QED
    BY <2>3, <2>4, <2>5
<1>5. ASSUME NEW done \in BOOLEAN, Dropped(done)
      PROVE  LinkInv'
  <2>1. /\ flag[conn] /\ flag' = [flag EXCEPT ![conn] = FALSE]
        /\ link' = [link EXCEPT ![conn] = "closed"] /\ UNCHANGED <<wire, strayed>>
    BY <1>5 DEF Dropped
  <2>2. Shape'
    BY <1>1, <2>1 DEF Shape
  <2>3. OneSocket'
    BY <1>1, <2>1 DEF OneSocket, Shape, Up
  <2>4. InStep'
    BY <1>1, <2>1 DEF InStep, Shape
  <2> QED
    BY <2>2, <2>3, <2>4
<1> QED
  BY <1>2, <1>3, <1>4, <1>5 DEF Traffic

-----------------------------------------------------------------------------
(* Reads *)

LEMMA FillFields ==
  ASSUME DOMAIN op = Fields, NEW results
  PROVE  LET c == Fill(results)
         IN  DOMAIN c = Fields /\ c.at = op.at /\ c.kind = op.kind
<1> DEFINE filled == [i \in DOMAIN op.results |-> IF i \in DOMAIN results THEN results[i]
                                                  ELSE op.results[i]]
<1>1. Fill(results) = [op EXCEPT !.jobs = Tail(@), !.results = filled]
  BY DEF Fill
<1> HIDE DEF filled
<1> QED
  BY <1>1 DEF Fields

LEMMA AfterFinsFields ==
  ASSUME DOMAIN op = Fields, NEW job, NEW answer
  PROVE  LET c == AfterFins(job, answer)
         IN  DOMAIN c = Fields /\ c.at = op.at /\ c.kind = op.kind
<1> DEFINE Same(c) == DOMAIN c = Fields /\ c.at = op.at /\ c.kind = op.kind
<1>1. \A results : Same(Fill(results))
  BY FillFields
<1>2. \A jobs : Same([op EXCEPT !.jobs = jobs])
  BY DEF Fields
<1> HIDE DEF Same
<1>3. Same(AfterGroup(answer))
  BY <1>1 DEF AfterGroup
<1>4. Same(AfterMulti(answer))
  <2> DEFINE j == Head(op.jobs)
  <2>1. \/ \E results : AfterMulti(answer) = Fill(results)
        \/ AfterMulti(answer) = [op EXCEPT !.jobs = Alone(j.groups) \o Tail(op.jobs)]
    BY DEF AfterMulti
  <2> QED
    BY <1>1, <1>2, <2>1
<1>5. Same(AfterBits(answer))
  <2> DEFINE a == op.args[Head(op.jobs).groups[1].items[1]]
             n == a.count % 65536
             results == [i \in Items(Head(op.jobs)) |->
                           IF Took(answer, n) THEN Success(a.count, Slice(answer.data, 0, n)) ELSE Failed]
  <2>1. AfterBits(answer) = Fill(results)
    BY DEF AfterBits
  <2> HIDE DEF results
  <2> QED
    BY <1>1, <2>1
<1>6. \A result : Same(Fill(<<result>>))
  BY <1>1
<1>7. Same(AfterFins(job, answer))
  BY <1>3, <1>4, <1>5, <1>6 DEF AfterFins
<1> QED
  BY <1>7 DEF Same

LEMMA AbortFields ==
  ASSUME DOMAIN op = Fields, NEW i
  PROVE  DOMAIN Abort(i) = Fields /\ Abort(i).at = op.at /\ Abort(i).kind = op.kind
<1> DEFINE cut == [k \in DOMAIN op.results |-> IF k >= i THEN Failed ELSE op.results[k]]
<1>1. Abort(i) = [op EXCEPT !.jobs = <<>>, !.failed = TRUE, !.broke = TRUE, !.results = cut]
  BY DEF Abort
<1> HIDE DEF cut
<1> QED
  BY <1>1 DEF Fields

\* A step of a read leaves the links in order, and is not one of a write.
LEMMA ReadTrafficKeepsInv ==
  ASSUME IInv, op.at = "read" \/ op.at = "browse", Traffic, UNCHANGED client,
         DOMAIN op' = Fields, op'.kind = op.kind, op'.at \in {op.at, "done"}
  PROVE  IInv'
<1>1. LinkInv'
  BY TrafficKeepsLinks DEF IInv, LinkInv, OneSocket, Asking
<1>2. op.kind # "write"
  BY DEF IInv, Writing
<1> QED
  BY <1>1, <1>2 DEF IInv, Writing

LEMMA ReadFinsCall ==
  ASSUME IInv, ReadFins
  PROVE  Traffic /\ DOMAIN op' = Fields /\ op'.at = op.at /\ op'.kind = op.kind
<1> DEFINE job == Head(op.jobs)
           d(answer) == [AfterFins(job, answer) EXCEPT !.broke = @ \/ answer = None]
<1>1. op.at = "read" /\ UNCHANGED client /\ DOMAIN op = Fields
  BY DEF ReadFins, At, IInv, LinkInv, Shape
<1>2. Traffic /\ \E answer : op' = d(answer)
  <2> HIDE DEF d
  <2> QED
    BY DEF ReadFins, FinsAsk, Traffic, Unsent, d
<1>3. \A answer : DOMAIN d(answer) = Fields /\ d(answer).at = op.at /\ d(answer).kind = op.kind
  BY <1>1, AfterFinsFields DEF Fields
<1> HIDE DEF d
<1> QED
  BY <1>2, <1>3

LEMMA ReadFinsKeepsInv == IInv /\ ReadFins => IInv'
<1> SUFFICES ASSUME IInv, ReadFins
             PROVE  IInv'
  OBVIOUS
<1>1. op.at = "read" /\ UNCHANGED client
  BY DEF ReadFins, At
<1> QED
  BY <1>1, ReadFinsCall, ReadTrafficKeepsInv

\* The answers an EtherNet/IP request can get: data or one of the three other kinds.
LEMMA TagAnswerKinds ==
  ASSUME NEW items, NEW answer \in TagAnswers(items) \cup {Other("refused"), Other("down"), Other("odd")}
  PROVE  answer.kind \in {"data", "refused", "down", "odd"}
<1>1. \A values : Data(values).kind = "data"
  BY DEF Data
<1>2. \A kind : Other(kind).kind = kind
  BY DEF Other
<1>3. CASE answer \in {Other("refused"), Other("down"), Other("odd")}
  BY <1>2, <1>3
<1>4. CASE answer \in TagAnswers(items)
  <2>1. (\E values : answer = Data(values)) \/ answer = Other("refused")
    BY <1>4 DEF TagAnswers
  <2> QED
    BY <1>1, <1>2, <2>1
<1> QED
  BY <1>3, <1>4

LEMMA ReadTagsCall ==
  ASSUME IInv, ReadTags
  PROVE  Traffic /\ DOMAIN op' = Fields /\ op'.at = op.at /\ op'.kind = op.kind
<1> DEFINE job == Head(op.jobs)
           d(answer) == IF Len(job.items) > 1 THEN AfterBatch(job.items, answer)
                        ELSE AfterSingle(job, answer)
           Same(c) == DOMAIN c = Fields /\ c.at = op.at /\ c.kind = op.kind
<1>1. op.at = "read" /\ UNCHANGED client /\ DOMAIN op = Fields
  BY DEF ReadTags, At, IInv, LinkInv, Shape
<1>2. Traffic /\ \E answer : /\ op' = d(answer)
                             /\ answer \in TagAnswers(job.items) \cup {Other("refused"), Other("down"), Other("odd")}
  <2> HIDE DEF d
  <2> QED
    BY DEF ReadTags, EipAsk, Traffic, Unsent, Transacted, d
<1>3. (\A results : Same(Fill(results))) /\ (\A i : Same(Abort(i)))
  BY <1>1, FillFields, AbortFields
<1>4. \A answer \in TagAnswers(job.items) \cup {Other("refused"), Other("down"), Other("odd")} :
         answer.kind \in {"data", "refused", "down", "odd"}
  BY TagAnswerKinds
<1>5. ASSUME NEW answer, answer.kind \in {"data", "refused", "down", "odd"}
      PROVE  Same(AfterBatch(job.items, answer))
  <2> DEFINE jobs == [i \in DOMAIN job.items |-> Single(job.items[i])] \o Tail(op.jobs)
  <2>1. \/ \E i : AfterBatch(job.items, answer) = Abort(i)
        \/ \E results : AfterBatch(job.items, answer) = Fill(results)
        \/ AfterBatch(job.items, answer) = [op EXCEPT !.jobs = jobs, !.broke = @ \/ answer.kind = "odd"]
    BY <1>5 DEF AfterBatch
  <2> HIDE DEF jobs
  <2>2. Same([op EXCEPT !.jobs = jobs, !.broke = @ \/ answer.kind = "odd"])
    BY <1>1 DEF Fields
  <2> HIDE DEF Same
  <2> QED
    BY <1>3, <2>1, <2>2
<1>6. ASSUME NEW answer
      PROVE  Same(AfterSingle(job, answer))
  <2>1. \/ \E i : AfterSingle(job, answer) = Abort(i)
        \/ \E results : AfterSingle(job, answer)
                          = [Fill(results) EXCEPT !.broke = @ \/ answer.kind \in {"down", "odd"}]
    BY DEF AfterSingle
  <2>2. \A results : Same([Fill(results) EXCEPT !.broke = @ \/ answer.kind \in {"down", "odd"}])
    BY <1>3 DEF Fields
  <2> HIDE DEF Same
  <2> QED
    BY <1>3, <2>1, <2>2
<1>7. Same(op')
  BY <1>2, <1>4, <1>5, <1>6
<1> QED
  BY <1>2, <1>7

LEMMA ReadTagsKeepsInv == IInv /\ ReadTags => IInv'
<1> SUFFICES ASSUME IInv, ReadTags
             PROVE  IInv'
  OBVIOUS
<1>1. op.at = "read" /\ UNCHANGED client
  BY DEF ReadTags, At
<1> QED
  BY <1>1, ReadTagsCall, ReadTrafficKeepsInv

LEMMA EndReadKeepsInv == IInv /\ EndRead => IInv'
<1> SUFFICES ASSUME IInv, EndRead
             PROVE  IInv'
  OBVIOUS
<1>1. /\ op' = [op EXCEPT !.at = "done",
                      !.failed = @ \/ (op.kind # "status" /\ ~(up /\ flag[conn]))]
      /\ op.at = "read" /\ UNCHANGED client /\ UNCHANGED network
  BY DEF EndRead, At
<1>2. DOMAIN op = Fields
  BY DEF IInv, LinkInv, Shape
<1>3. DOMAIN op' = Fields /\ op'.at = "done" /\ op'.kind = op.kind
  BY <1>1, <1>2 DEF Fields
<1> QED
  BY <1>1, <1>3, ReadTrafficKeepsInv DEF Traffic

-----------------------------------------------------------------------------
(* Calls that begin and end *)

LEMMA IdleFields == DOMAIN Idle = Fields /\ Idle.at = "idle" /\ Idle.kind = "none"
                    /\ Idle.wrote = <<>>
  BY DEF Idle, Fields

\* A call begins or ends: the connection is left alone.
LEMMA CallKeepsLinks ==
  ASSUME LinkInv, UNCHANGED client, UNCHANGED network, DOMAIN op' = Fields,
         op'.at \in Asking => conn # 0
  PROVE  LinkInv'
  BY DEF LinkInv, Shape, OneSocket, InStep, client, network

LEMMA BeginReadCall ==
  ASSUME BeginRead
  PROVE  DOMAIN op' = Fields /\ op'.at = "read" /\ op'.kind \in {"tags", "words"}
<1>1. PICK requests \in Reads :
       IF transport = "eip"
       THEN op' = [Idle EXCEPT !.at = "read", !.kind = "tags", !.args = requests,
                               !.jobs = EipJobs(Len(requests)),
                               !.results = [i \in DOMAIN requests |-> None]]
       ELSE \E jobs \in FinsJobs(Addresses(requests)) :
              op' = [Idle EXCEPT !.at = "read", !.kind = "words", !.args = Addresses(requests),
                                 !.jobs = jobs,
                                 !.results = [i \in DOMAIN requests |->
                                    IF Addresses(requests)[i] = BadAddress THEN Failed ELSE None]]
  BY DEF BeginRead
<1> DEFINE known == [i \in DOMAIN requests |->
                       IF Addresses(requests)[i] = BadAddress THEN Failed ELSE None]
           c(kind, args, jobs, results) ==
             [Idle EXCEPT !.at = "read", !.kind = kind, !.args = args, !.jobs = jobs,
                          !.results = results]
<1>2. \A kind, args, jobs, results :
        LET d == c(kind, args, jobs, results)
        IN  DOMAIN d = Fields /\ d.at = "read" /\ d.kind = kind
  BY IdleFields DEF Fields
<1>3. \/ op' = c("tags", requests, EipJobs(Len(requests)), [i \in DOMAIN requests |-> None])
      \/ \E jobs : op' = c("words", Addresses(requests), jobs, known)
  BY <1>1
<1> HIDE DEF c, known
<1> QED
  BY <1>2, <1>3

LEMMA BeginReadKeepsInv == IInv /\ BeginRead => IInv'
<1> SUFFICES ASSUME IInv, BeginRead
             PROVE  IInv'
  OBVIOUS
<1>1. UNCHANGED client /\ UNCHANGED network /\ up
  BY DEF BeginRead
<1>2. DOMAIN op' = Fields /\ op'.at = "read" /\ op'.kind \in {"tags", "words"}
  BY BeginReadCall
<1>3. LinkInv'
  BY <1>1, <1>2, CallKeepsLinks DEF IInv, LinkInv, OneSocket
<1> QED
  BY <1>2, <1>3 DEF IInv, Writing

LEMMA BeginStatusKeepsInv == IInv /\ BeginStatus => IInv'
<1> SUFFICES ASSUME IInv, BeginStatus
             PROVE  IInv'
  OBVIOUS
<1>1. /\ UNCHANGED client /\ UNCHANGED network /\ conn # 0
      /\ op' = [Idle EXCEPT !.at = "read", !.kind = "status", !.jobs = <<Job("status", <<>>)>>,
                        !.results = <<None>>]
  BY DEF BeginStatus
<1>2. DOMAIN op' = Fields /\ op'.at = "read" /\ op'.kind = "status"
  BY <1>1, IdleFields DEF Fields
<1>3. LinkInv'
  BY <1>1, <1>2, CallKeepsLinks DEF IInv
<1> QED
  BY <1>2, <1>3 DEF IInv, Writing

LEMMA ReturnKeepsInv == IInv /\ Return => IInv'
<1> SUFFICES ASSUME IInv, Return
             PROVE  IInv'
  OBVIOUS
<1>1. UNCHANGED client /\ UNCHANGED network /\ op' = Idle
  BY DEF Return
<1>2. LinkInv'
  BY <1>1, IdleFields, CallKeepsLinks DEF IInv, Asking
<1> QED
  BY <1>1, <1>2, IdleFields DEF IInv, Writing

LEMMA BeginWriteKeepsInv == IInv /\ BeginWrite => IInv'
<1> SUFFICES ASSUME IInv, BeginWrite
             PROVE  IInv'
  OBVIOUS
<1>1. UNCHANGED client /\ UNCHANGED network /\ up /\ transport' = transport
  BY DEF BeginWrite, client
<1>2. PICK w \in Writes :
       LET a == ParseAddressWithType(w)
           c == [Idle EXCEPT !.at = "done", !.kind = "write", !.args = w, !.target = a,
                             !.failed = TRUE]
       IN  op' = CASE transport = "eip" /\ w.text # BadAddress ->
                        [c EXCEPT !.at = "type", !.failed = FALSE]
                   [] transport # "eip" /\ a # BadAddress /\ Encoded(a.type, w) > 0 ->
                        [c EXCEPT !.at = "write", !.failed = FALSE]
                   [] OTHER -> c
  BY DEF BeginWrite
<1> DEFINE a == ParseAddressWithType(w)
           c == [Idle EXCEPT !.at = "done", !.kind = "write", !.args = w, !.target = a,
                             !.failed = TRUE]
<1>3. /\ c.at = "done" /\ c.kind = "write" /\ c.args = w /\ c.target = a /\ c.failed
      /\ c.wrote = <<>> /\ DOMAIN c = Fields
  <2> HIDE DEF a
  <2> QED
    BY DEF Idle, Fields
<1>4. \/ transport = "eip" /\ op' = [c EXCEPT !.at = "type", !.failed = FALSE]
      \/ /\ transport # "eip" /\ a # BadAddress /\ Encoded(a.type, w) > 0
         /\ op' = [c EXCEPT !.at = "write", !.failed = FALSE]
      \/ op' = c
  BY <1>2
<1> HIDE DEF a, c
<1>5. /\ DOMAIN op' = Fields /\ op'.kind = "write" /\ op'.args = w /\ op'.target = a
      /\ op'.wrote = <<>>
      /\ \/ transport = "eip" /\ op'.at = "type"
         \/ transport # "eip" /\ a # BadAddress /\ Encoded(a.type, w) > 0 /\ op'.at = "write"
         \/ op'.at = "done" /\ op'.failed
  BY <1>3, <1>4 DEF Fields
<1>6. LinkInv'
  BY <1>1, <1>5, CallKeepsLinks DEF IInv, LinkInv, OneSocket
<1>7. Writing'
  BY <1>1, <1>5 DEF Writing, a
<1> QED
  BY <1>6, <1>7 DEF IInv

-----------------------------------------------------------------------------
(* Writes *)

LEMMA EndWriteStep ==
  ASSUME DOMAIN op = Fields, NEW failed, NEW broke, NEW cell, NEW done,
         EndWrite(failed, broke, cell, done), op.wrote = <<>>
  PROVE  /\ DOMAIN op' = Fields /\ op'.at = "done" /\ op'.failed = failed
         /\ op'.args = op.args /\ op'.kind = op.kind /\ op'.target = op.target
         /\ op'.wrote = IF done THEN <<cell>> ELSE <<>>
<1>1. Append(<<>>, cell) = <<cell>>
  OBVIOUS
<1>2. op' = [op EXCEPT !.at = "done", !.failed = failed, !.broke = @ \/ broke,
                   !.wrote = IF done THEN Append(@, cell) ELSE @]
  BY DEF EndWrite
<1> QED
  BY <1>1, <1>2 DEF Fields

LEMMA WriteFinsKeepsInv == IInv /\ WriteFins => IInv'
<1> SUFFICES ASSUME IInv, WriteFins
             PROVE  IInv'
  OBVIOUS
<1> DEFINE refused == \/ op.target.type = "BOOL" /\ op.target.area \notin BitAreas
                      \/ op.target.type # "BOOL" /\ op.target.area = "TK"
           whole == IF refused THEN Other("endcode") ELSE Data(<<>>)
           Ends(answer, done) == EndWrite(answer = None \/ answer.kind # "data", answer = None,
                                          Covered, done /\ ~refused)
<1>1. /\ op.at = "write" /\ op.kind = "write" /\ transport # "eip" /\ UNCHANGED client
      /\ DOMAIN op = Fields /\ conn # 0
  BY DEF WriteFins, At, IInv, LinkInv, Shape, OneSocket, Asking
<1>2. /\ op.args \in Writes /\ op.wrote = <<>> /\ op.target = ParseAddressWithType(op.args)
      /\ op.target # BadAddress /\ Encoded(op.target.type, op.args) > 0
  BY <1>1 DEF IInv, Writing
<1>3. \/ Unsent /\ Ends(None, FALSE)
      \/ \E answer \in {whole, Other("endcode")} : \E arrival \in Arrivals(answer) :
           Answered(arrival) /\ Ends(Head(wire[conn] \o arrival), answer = whole)
      \/ \E done \in BOOLEAN : Unanswered(whole, done) /\ Ends(None, done)
  BY DEF WriteFins, FinsAsk
<1>4. Traffic
  BY DEF WriteFins, FinsAsk, Traffic, Unsent
<1>5. \E answer, done : /\ Ends(answer, done) /\ done \in BOOLEAN
                        /\ ~strayed' => answer = None \/ answer.kind # "data" \/ (done /\ ~refused)
  <2>1. CASE Unsent /\ Ends(None, FALSE)
    BY <2>1
  <2>2. ASSUME NEW answer \in {whole, Other("endcode")}, NEW arrival \in Arrivals(answer),
               Answered(arrival), Ends(Head(wire[conn] \o arrival), answer = whole)
        PROVE  <1>5
    <3> DEFINE frame == Head(wire[conn] \o arrival)
    <3>1. SUFFICES ASSUME ~strayed', frame.kind = "data"
                   PROVE  answer = whole /\ ~refused
      BY <2>2
    <3>2. /\ flag[conn] /\ wire[conn] \o arrival # <<>> /\ ~strayed /\ ~(Len(arrival) > 1)
      BY <2>2, <3>1 DEF Answered
    <3>3. wire[conn] = <<>>
      BY <1>1, <3>2 DEF IInv, LinkInv, InStep, Shape
    <3>4. arrival # <<>>
      BY <3>2, <3>3
    <3>5. PICK f : arrival = <<f>> /\ f \in {answer, Other("error")}
      BY <3>2, <3>4, OneFrame
    <3>6. frame = f
      BY <3>3, <3>5
    <3>7. Other("error").kind = "error" /\ Other("endcode").kind = "endcode"
      BY DEF Other
    <3>8. f = answer /\ answer # Other("endcode")
      BY <3>1, <3>5, <3>6, <3>7
    <3> QED
      BY <3>8
  <2>3. ASSUME NEW done \in BOOLEAN, Unanswered(whole, done), Ends(None, done)
        PROVE  <1>5
    BY <2>3
  <2> QED
    BY <1>3, <2>1, <2>2, <2>3
<1>6. PICK answer, done : /\ Ends(answer, done) /\ done \in BOOLEAN
                          /\ ~strayed' => answer = None \/ answer.kind # "data" \/ (done /\ ~refused)
  BY <1>5
<1> HIDE DEF refused
<1>7. /\ DOMAIN op' = Fields /\ op'.at = "done" /\ (op'.failed <=> answer = None \/ answer.kind # "data")
      /\ op'.args = op.args /\ op'.kind = op.kind /\ op'.target = op.target
      /\ op'.wrote = IF done /\ ~refused THEN <<Covered>> ELSE <<>>
  BY <1>1, <1>2, <1>6, EndWriteStep
<1>8. LinkInv'
  BY <1>1, <1>4, <1>7, TrafficKeepsLinks DEF IInv
<1>9. Covered' = Covered
  BY <1>7 DEF Covered
<1>10. op'.wrote = <<>> \/ op'.wrote = <<Covered>>
  BY <1>7
<1>11. ~op'.failed /\ ~strayed' => op'.wrote # <<>>
  BY <1>6, <1>7
<1>12. transport' = transport
  BY <1>1 DEF client
<1>13. Writing'
  BY <1>1, <1>2, <1>7, <1>9, <1>10, <1>11, <1>12 DEF Writing
<1> QED
  BY <1>8, <1>13 DEF IInv

LEMMA AskTypeKeepsInv == IInv /\ AskType => IInv'
<1> SUFFICES ASSUME IInv, AskType
             PROVE  IInv'
  OBVIOUS
<1>1. op.at = "type" /\ UNCHANGED client /\ DOMAIN op = Fields /\ conn # 0 /\ transport' = transport
  BY DEF AskType, At, IInv, LinkInv, Shape, OneSocket, Asking, client
<1>2. op.kind = "write" /\ op.args \in Writes /\ op.wrote = <<>> /\ transport = "eip"
  BY <1>1 DEF IInv, Writing
<1>3. Traffic /\ \/ op' = [op EXCEPT !.at = "write"]
                 \/ \E broke : op' = [op EXCEPT !.at = "done", !.failed = TRUE, !.broke = broke]
  BY DEF AskType, EipAsk, Traffic, Unsent, Transacted
<1>4. /\ DOMAIN op' = Fields /\ op'.kind = op.kind /\ op'.args = op.args /\ op'.wrote = op.wrote
      /\ op'.at = "write" \/ (op'.at = "done" /\ op'.failed)
  BY <1>1, <1>3 DEF Fields
<1>5. LinkInv'
  BY <1>1, <1>3, <1>4, TrafficKeepsLinks DEF IInv
<1>6. Writing'
  BY <1>1, <1>2, <1>4 DEF Writing
<1> QED
  BY <1>5, <1>6 DEF IInv

LEMMA WriteTagKeepsInv == IInv /\ WriteTag => IInv'
<1> SUFFICES ASSUME IInv, WriteTag
             PROVE  IInv'
  OBVIOUS
<1> DEFINE Ends(answer, done) ==
             EndWrite(answer.kind # "data", answer.kind \in {"down", "odd"}, Tag(op.args.text), done)
<1>1. /\ op.at = "write" /\ transport = "eip" /\ UNCHANGED client /\ DOMAIN op = Fields
      /\ conn # 0 /\ transport' = transport
  BY DEF WriteTag, At, IInv, LinkInv, Shape, OneSocket, Asking, client
<1>2. op.kind = "write" /\ op.args \in Writes /\ op.wrote = <<>>
  BY <1>1 DEF IInv, Writing
<1>3. Traffic
  BY DEF WriteTag, EipAsk, Traffic, Unsent, Transacted
<1>4. \E answer, done : Ends(answer, done) /\ done \in BOOLEAN /\ (answer.kind = "data" => done)
  <2>1. /\ Other("down").kind = "down" /\ Other("odd").kind = "odd"
    BY DEF Other
  <2> QED
    BY <2>1 DEF WriteTag, EipAsk
<1>5. PICK answer, done : Ends(answer, done) /\ done \in BOOLEAN /\ (answer.kind = "data" => done)
  BY <1>4
<1>6. /\ DOMAIN op' = Fields /\ op'.at = "done" /\ (op'.failed <=> answer.kind # "data")
      /\ op'.args = op.args /\ op'.kind = op.kind
      /\ op'.wrote = IF done THEN <<Tag(op.args.text)>> ELSE <<>>
  BY <1>1, <1>2, <1>5, EndWriteStep
<1>7. LinkInv'
  BY <1>1, <1>3, <1>6, TrafficKeepsLinks DEF IInv
<1>8. /\ op'.wrote = <<>> \/ op'.wrote = <<Tag(op'.args.text)>>
      /\ ~op'.failed => op'.wrote # <<>>
  BY <1>5, <1>6
<1>9. Writing'
  BY <1>1, <1>2, <1>6, <1>8 DEF Writing
<1> QED
  BY <1>7, <1>9 DEF IInv

LEMMA PingKeepsInv == IInv /\ Ping => IInv'
<1> SUFFICES ASSUME IInv, Ping
             PROVE  IInv'
  OBVIOUS
<1>1. op.at = "idle" /\ conn # 0 /\ UNCHANGED client /\ DOMAIN op = Fields
  BY DEF Ping, At, IInv, LinkInv, Shape
<1>2. Traffic /\ UNCHANGED op
  BY DEF Ping, EipAsk, Traffic, Unsent, Transacted
<1>3. LinkInv'
  BY <1>1, <1>2, TrafficKeepsLinks DEF IInv
<1>4. op.kind # "write"
  BY <1>1 DEF IInv, Writing
<1> QED
  BY <1>1, <1>2, <1>3, <1>4 DEF IInv, Writing

-----------------------------------------------------------------------------
(* The connection *)

\* Outside a call no write runs.
LEMMA OutsideKeepsWriting ==
  ASSUME Writing, op.at = "idle", UNCHANGED op
  PROVE  Writing'
  BY DEF Writing

LEMMA ShutAll ==
  ASSUME LinkInv, flag' = Shut(flag, FALSE), link' = Shut(link, "closed"), wire' = Shut(wire, <<>>)
  PROVE  /\ flag' \in [Links -> BOOLEAN] /\ \A k \in Links : ~flag'[k]
         /\ link' \in [Links -> {"unused", "open", "broken", "closed"}]
         /\ \A k \in Links : link'[k] \notin Up
         /\ DOMAIN wire' = Links /\ \A k \in Links : link'[k] = "unused" => wire'[k] = <<>>
  BY DEF LinkInv, Shape, OneSocket, InStep, Shut, Up

LEMMA ClosedKeepsInv ==
  ASSUME IInv, op.at = "idle", flag' = Shut(flag, FALSE), link' = Shut(link, "closed"),
         wire' = Shut(wire, <<>>), up' = FALSE, conn' = 0, strayed' = FALSE,
         UNCHANGED <<transport, op>>
  PROVE  IInv'
<1>1. /\ flag' \in [Links -> BOOLEAN] /\ \A k \in Links : ~flag'[k]
      /\ link' \in [Links -> {"unused", "open", "broken", "closed"}]
      /\ \A k \in Links : link'[k] \notin Up
      /\ DOMAIN wire' = Links /\ \A k \in Links : link'[k] = "unused" => wire'[k] = <<>>
  BY ShutAll DEF IInv
<1>2. Shape'
  BY <1>1 DEF IInv, LinkInv, Shape
<1>3. OneSocket' /\ InStep'
  BY <1>1 DEF OneSocket, InStep, Asking
<1> QED
  BY <1>2, <1>3, OutsideKeepsWriting DEF IInv, LinkInv

LEMMA CloseKeepsInv == IInv /\ Close => IInv'
  BY ClosedKeepsInv DEF Close, At

LEMMA ReconnectFailsKeepsInv == IInv /\ ReconnectFails => IInv'
  BY ClosedKeepsInv DEF ReconnectFails, At

LEMMA SetDisconnectedKeepsInv == IInv /\ SetDisconnected => IInv'
<1> SUFFICES ASSUME IInv, SetDisconnected
             PROVE  IInv'
  OBVIOUS
<1>1. /\ op.at = "idle" /\ up' = FALSE /\ UNCHANGED <<transport, conn, link, wire, op, strayed>>
      /\ flag' = flag \/ (conn # 0 /\ flag' = [flag EXCEPT ![conn] = FALSE])
  BY DEF SetDisconnected, At
<1>2. flag' \in [Links -> BOOLEAN] /\ \A k \in Links : flag'[k] => flag[k]
  BY <1>1 DEF IInv, LinkInv, Shape
<1>3. LinkInv'
  BY <1>1, <1>2 DEF IInv, LinkInv, Shape, OneSocket, InStep
<1> QED
  BY <1>1, <1>3, OutsideKeepsWriting DEF IInv

LEMMA ReconnectKeepsInv == IInv /\ Reconnect => IInv'
<1> SUFFICES ASSUME IInv, Reconnect
             PROVE  IInv'
  OBVIOUS
<1>1. PICK k \in Links, t \in {"tcp", "udp", "eip"}, open \in BOOLEAN, withCip \in BOOLEAN :
        Fresh(k) /\ Opened(k, t, open, withCip)
  BY DEF Reconnect
<1>2. op.at = "idle" /\ strayed' = FALSE /\ UNCHANGED op
  BY DEF Reconnect, At
<1>3. /\ transport' = t /\ up' = TRUE /\ conn' = k
      /\ flag' = [Shut(flag, FALSE) EXCEPT ![k] = open]
      /\ link' = [Shut(link, "closed") EXCEPT ![k] = IF open THEN "open" ELSE "closed"]
      /\ wire' = Shut(wire, <<>>)
  BY <1>1 DEF Opened
<1>4. link[k] = "unused" /\ k # conn /\ wire[k] = <<>>
  BY <1>1 DEF Fresh, IInv, LinkInv, OneSocket, InStep, Links
<1>5. /\ \A j \in Links : Shut(flag, FALSE)[j] = FALSE
      /\ \A j \in Links : Shut(link, "closed")[j] \notin Up
      /\ DOMAIN Shut(flag, FALSE) = Links /\ DOMAIN Shut(link, "closed") = Links
      /\ Shut(link, "closed") \in [Links -> {"unused", "open", "broken", "closed"}]
      /\ Shut(flag, FALSE) \in [Links -> BOOLEAN]
  BY DEF IInv, LinkInv, Shape, OneSocket, Shut, Up
<1>6. /\ DOMAIN wire' = Links /\ wire'[k] = <<>>
      /\ \A j \in Links : Shut(link, "closed")[j] = "unused" => wire'[j] = <<>>
  BY <1>3, <1>4 DEF IInv, LinkInv, InStep, Shut
<1>7. /\ flag' \in [Links -> BOOLEAN] /\ link' \in [Links -> {"unused", "open", "broken", "closed"}]
      /\ \A j \in Links : j # k => ~flag'[j] /\ link'[j] \notin Up /\ link'[j] = Shut(link, "closed")[j]
      /\ flag'[k] => link'[k] = "open"
      /\ link'[k] \in {"open", "closed"} /\ k # 0
  <2>1. k # 0
    BY DEF Links
  <2> QED
    BY <1>1, <1>3, <1>5, <2>1
<1>8. Shape'
  BY <1>1, <1>2, <1>3, <1>6, <1>7 DEF IInv, LinkInv, Shape
<1>9. OneSocket'
  BY <1>1, <1>2, <1>3, <1>7 DEF OneSocket, Asking, Up
<1>10. InStep'
  BY <1>6, <1>7 DEF InStep
<1> QED
  BY <1>2, <1>8, <1>9, <1>10, OutsideKeepsWriting DEF IInv, LinkInv

LEMMA BreakKeepsInv ==
  ASSUME IInv, NEW k \in Links, Break(k)
  PROVE  IInv'
<1>1. /\ link[k] = "open" /\ link' = [link EXCEPT ![k] = "broken"]
      /\ UNCHANGED <<transport, up, conn, flag, wire, op, strayed>>
  BY DEF Break, client
<1>2. /\ link' \in [Links -> {"unused", "open", "broken", "closed"}]
      /\ \A j \in Links : /\ link'[j] \in Up <=> link[j] \in Up
                          /\ link'[j] = "unused" <=> link[j] = "unused"
  BY <1>1 DEF IInv, LinkInv, Shape, Up
<1>3. LinkInv'
  BY <1>1, <1>2 DEF IInv, LinkInv, Shape, OneSocket, InStep, Links
<1> QED
  BY <1>1, <1>3 DEF IInv, Writing, Covered

LEMMA UnchangedKeepsInv == IInv /\ UNCHANGED vars => IInv'
  BY DEF vars, IInv, LinkInv, Shape, OneSocket, InStep, Writing, Covered

-----------------------------------------------------------------------------
(* The invariant and the theorems *)

LEMMA InitInv == Init => IInv
<1> SUFFICES ASSUME Init
             PROVE  IInv
  OBVIOUS
<1>1. Shape
  BY IdleFields DEF Init, Shape
<1>2. OneSocket /\ InStep
  BY IdleFields DEF Init, OneSocket, InStep, Up, Asking
<1>3. Writing
  BY IdleFields DEF Init, Writing
<1> QED
  BY <1>1, <1>2, <1>3 DEF IInv, LinkInv

LEMMA NextInv == IInv /\ Next => IInv'
<1> SUFFICES ASSUME IInv, Next
             PROVE  IInv'
  OBVIOUS
<1>1. CASE Panic
  <2>1. UNCHANGED vars \/ UNCHANGED <<transport, up, conn, cip, op, network>>
    BY <1>1 DEF Panic
  <2> QED
    BY <2>1, UnchangedKeepsInv DEF network, IInv, LinkInv, Shape, OneSocket, InStep, Writing, Covered
<1>2. CASE BeginRead \/ BeginStatus \/ ReadFins \/ ReadTags \/ EndRead
  BY <1>2, BeginReadKeepsInv, BeginStatusKeepsInv, ReadFinsKeepsInv, ReadTagsKeepsInv, EndReadKeepsInv
<1>3. CASE BeginWrite \/ WriteFins \/ AskType \/ WriteTag \/ Ping \/ Return
  BY <1>3, BeginWriteKeepsInv, WriteFinsKeepsInv, AskTypeKeepsInv, WriteTagKeepsInv, PingKeepsInv,
     ReturnKeepsInv
<1>4. CASE Close \/ SetDisconnected \/ Reconnect \/ ReconnectFails
  BY <1>4, CloseKeepsInv, SetDisconnectedKeepsInv, ReconnectKeepsInv, ReconnectFailsKeepsInv
<1>5. CASE \E k \in Links : Break(k)
  BY <1>5, BreakKeepsInv
<1> QED
  BY <1>1, <1>2, <1>3, <1>4, <1>5 DEF Next

\* A request of a listing: a round trip like that of a read.
LEMMA AskKeepsInv ==
  ASSUME IInv, op.at = "browse", Traffic, UNCHANGED client,
         op' = op \/ op' = [op EXCEPT !.at = "done"]
  PROVE  IInv'
<1>1. DOMAIN op = Fields
  BY DEF IInv, LinkInv, Shape
<1>2. DOMAIN op' = Fields /\ op'.kind = op.kind /\ op'.at \in {op.at, "done"}
  BY <1>1 DEF Fields
<1> QED
  BY <1>2, ReadTrafficKeepsInv

LEMMA BrowseKeepsInv ==
  IInv /\ (AskPage55 \/ AskPage5F \/ AskTypes \/ AskType1 \/ AskCount \/ AskInstance) => IInv'
<1> SUFFICES ASSUME IInv, AskPage55 \/ AskPage5F \/ AskTypes \/ AskType1 \/ AskCount \/ AskInstance
             PROVE  IInv'
  OBVIOUS
<1> DEFINE Asks == /\ op.at = "browse" /\ UNCHANGED client /\ Traffic
                   /\ op' = op \/ op' = [op EXCEPT !.at = "done"]
<1> USE DEF Send, EipAsk, Traffic, Unsent, Transacted, At
<1>1. AskPage55 => Asks
  BY DEF AskPage55
<1>2. AskPage5F => Asks
  BY DEF AskPage5F
<1>3. AskTypes => Asks
  BY DEF AskTypes
<1>4. AskType1 => Asks
  BY DEF AskType1
<1>5. AskCount => Asks
  BY DEF AskCount
<1>6. AskInstance => Asks
  BY DEF AskInstance
<1> QED
  BY <1>1, <1>2, <1>3, <1>4, <1>5, <1>6, AskKeepsInv

LEMMA BeginBrowseKeepsInv == IInv /\ BeginBrowse => IInv'
<1> SUFFICES ASSUME IInv, BeginBrowse
             PROVE  IInv'
  OBVIOUS
<1>1. /\ UNCHANGED client /\ UNCHANGED network /\ conn # 0
      /\ op' = [Idle EXCEPT !.at = "browse", !.kind = "browse"]
  BY DEF BeginBrowse
<1>2. DOMAIN op' = Fields /\ op'.at = "browse" /\ op'.kind = "browse"
  BY <1>1, IdleFields DEF Fields
<1>3. LinkInv'
  BY <1>1, <1>2, CallKeepsLinks DEF IInv
<1> QED
  BY <1>2, <1>3 DEF IInv, Writing

\* The inductive invariant: one socket at most, nothing unread on it but what strayed there, and a
\* write that has put nothing yet, or its own cell once.
THEOREM Invariant == Spec => []IInv
<1>1. IInv /\ [Next]_vars => IInv'
  BY NextInv, UnchangedKeepsInv
<1> QED
  BY InitInv, <1>1, PTL DEF Spec

\* It holds with tag listings between the calls as well.
THEOREM BrowseInvariant == BrowseSpec => []IInv
<1>1. BrowseInit => IInv
  BY InitInv DEF BrowseInit
<1>2. IInv /\ [BrowseNext]_<<vars, browse>> => IInv'
  BY NextInv, BeginBrowseKeepsInv, BrowseKeepsInv, UnchangedKeepsInv DEF BrowseNext
<1> QED
  BY <1>1, <1>2, PTL DEF BrowseSpec

LEMMA LinksOfInv == IInv => LinksAccounted
  BY DEF IInv, LinkInv, OneSocket, LinksAccounted, Up

\* The client never leaves a socket open behind it, and never takes a closed one for connected:
\* the only socket open is the one in use (omron/client.go, Reconnect, Close).
THEOREM LinksStayAccounted == BrowseSpec => []LinksAccounted
  BY BrowseInvariant, LinksOfInv, PTL

\* What a value encodes to fills the words of as many elements as it has.
LEMMA CoveredIsWanted ==
  ASSUME NEW w \in Writes, NEW a, a = ParseAddressWithType(w), a # BadAddress,
         Encoded(a.type, w) > 0, w.kind # "string"
  PROVE  (IF a.type = "BOOL" THEN BitsFrom(a.area, a.addr, a.bit, 1)
          ELSE Words(a.area, a.addr, (Encoded(a.type, w) + 1) \div 2))
           = Wanted([a EXCEPT !.count = IF w.n = 0 THEN 1 ELSE w.n])
<1> DEFINE count == IF w.n = 0 THEN 1 ELSE w.n
           v == [a EXCEPT !.count = count]
<1>1. w.n \in Nat /\ count \in Nat \ {0}
  BY WritesAssumption
<1>2. DOMAIN a = {"area", "addr", "bit", "count", "type"}
  BY DEF ParseAddressWithType
<1> HIDE DEF count
<1>3. /\ v.area = a.area /\ v.addr = a.addr /\ v.bit = a.bit /\ v.type = a.type
      /\ v.count = count
  BY <1>2
<1> HIDE DEF v
<1>4. CASE a.type = "BOOL"
  <2>1. w.n = 0
    BY <1>4 DEF Encoded
  <2>2. count = 1
    BY <2>1 DEF count
  <2> QED
    BY <1>3, <1>4, <2>2 DEF Wanted, v, count
<1>5. CASE a.type # "BOOL"
  <2>1. Encoded(a.type, w) = TypeSize(a.type) * count
    BY <1>5 DEF Encoded, count
  <2>2. TypeSize(a.type) \in {0, 1, 2, 4, 8}
    BY DEF TypeSize
  <2>3. WordCount(v) = (Encoded(a.type, w) + 1) \div 2
    BY <1>1, <1>3, <2>1, <2>2 DEF WordCount
  <2> QED
    BY <1>3, <1>5, <2>3 DEF Wanted, v, count
<1> QED
  BY <1>4, <1>5

LEMMA WritesOfInv == IInv => WritesLand
<1> SUFFICES ASSUME IInv, op.kind = "write"
             PROVE  /\ Len(op.wrote) <= 1
                    /\ op.at = "done" /\ ~op.failed /\ ~strayed => op.wrote # <<>>
                    /\ op.wrote # <<>> /\ transport = "eip" => op.wrote[1] = Tag(op.args.text)
                    /\ op.wrote # <<>> /\ transport # "eip" /\ op.args.kind # "string" =>
                         LET v == Wanted([op.target EXCEPT !.count = IF op.args.n = 0 THEN 1 ELSE op.args.n])
                         IN  op.wrote[1] = v
  BY DEF WritesLand
<1>1. /\ op.args \in Writes
      /\ op.wrote = <<>> \/ op.wrote = <<IF transport = "eip" THEN Tag(op.args.text) ELSE Covered>>
      /\ op.at = "done" /\ ~op.failed /\ ~strayed => op.wrote # <<>>
      /\ transport # "eip" /\ op.wrote # <<>> =>
            /\ op.target = ParseAddressWithType(op.args) /\ op.target # BadAddress
            /\ Encoded(op.target.type, op.args) > 0
  BY DEF IInv, Writing
<1> DEFINE cell == IF transport = "eip" THEN Tag(op.args.text) ELSE Covered
<1>2. op.wrote = <<>> \/ op.wrote = <<cell>>
  BY <1>1
<1>3. Len(op.wrote) <= 1 /\ (op.wrote # <<>> => op.wrote[1] = cell)
  <2> HIDE DEF cell
  <2>1. CASE op.wrote = <<>>
    BY <2>1
  <2>2. CASE op.wrote = <<cell>>
    BY <2>2
  <2> QED
    BY <1>2, <2>1, <2>2
<1>4. transport # "eip" /\ op.wrote # <<>> /\ op.args.kind # "string" =>
        Covered = Wanted([op.target EXCEPT !.count = IF op.args.n = 0 THEN 1 ELSE op.args.n])
  BY <1>1, CoveredIsWanted DEF Covered
<1> QED
  BY <1>1, <1>3, <1>4

\* A write touches its own cell only, once at most, and if it returns without an error it has,
\* unless something strayed onto the socket (omron/client.go, writeFINS, writeEIP).
THEOREM WritesStayInPlace == BrowseSpec => []WritesLand
  BY BrowseInvariant, WritesOfInv, PTL

--------------------------------------------------------------------------------

(* Stretches and slices *)

LEMMA StretchTypes ==
  ASSUME NEW area \in DOMAIN AreaCode \cup {"CPU"}, NEW addr \in Nat, NEW n \in Nat, NEW bit \in Nat
  PROVE  /\ Words(area, addr, n) \in Memory /\ BitsFrom(area, addr, bit, n) \in Memory
         /\ Words(area, addr, n).area = area /\ Words(area, addr, n).unit = "word"
         /\ Words(area, addr, n).off = 2 * addr /\ Words(area, addr, n).len = 2 * n
         /\ BitsFrom(area, addr, bit, n).off = 16 * addr + bit /\ BitsFrom(area, addr, bit, n).len = n
         /\ BitsFrom(area, addr, bit, n).area = area /\ BitsFrom(area, addr, bit, n).unit = "bit"
  BY DEF Words, BitsFrom, Memory

\* What a slice has after one stretch more: the bytes gone by, and those taken.
Acc == [at : Nat, out : Seq(Memory)]

Part(s, lo, hi) == [s EXCEPT !.off = @ + lo, !.len = hi - lo]

Taken(from, n, acc, s) ==
  LET lo == IF from > acc.at THEN from - acc.at ELSE 0
      hi == IF from + n - acc.at < s.len THEN from + n - acc.at ELSE s.len
  IN  [at |-> acc.at + s.len, out |-> IF lo < hi THEN Append(acc.out, Part(s, lo, hi)) ELSE acc.out]

LEMMA PartType ==
  ASSUME NEW s \in Memory, NEW lo \in Nat, NEW hi \in Int, lo < hi
  PROVE  /\ Part(s, lo, hi) \in Memory
         /\ Part(s, lo, hi) = [area |-> s.area, unit |-> s.unit, off |-> s.off + lo, len |-> hi - lo]
<1>1. s \in [area : DOMAIN AreaCode \cup {"CPU"}, unit : {"word", "bit"}, off : Nat, len : Nat]
  BY DEF Memory
<1>2. Part(s, lo, hi) = [area |-> s.area, unit |-> s.unit, off |-> s.off + lo, len |-> hi - lo]
  <2> DEFINE t == [s EXCEPT !.off = s.off + lo]
             u == [t EXCEPT !.len = hi - lo]
  <2>1. DOMAIN s = {"area", "unit", "off", "len"} /\ s = [x \in DOMAIN s |-> s[x]]
    BY <1>1
  <2>2. Part(s, lo, hi) = u
    BY <2>1 DEF Part
  <2>3. /\ DOMAIN t = DOMAIN s /\ t.off = s.off + lo /\ t.area = s.area /\ t.unit = s.unit
        /\ t = [x \in DOMAIN s |-> t[x]]
    BY <2>1
  <2> HIDE DEF t
  <2>4. u = [area |-> s.area, unit |-> s.unit, off |-> s.off + lo, len |-> hi - lo]
    BY <2>1, <2>3
  <2> QED
    BY <2>2, <2>4
<1>3. s.off + lo \in Nat /\ hi - lo \in Nat
  BY <1>1
<1> QED
  BY <1>1, <1>2, <1>3 DEF Memory

LEMMA TakenType ==
  ASSUME NEW from \in Nat, NEW n \in Nat, NEW acc \in Acc, NEW s \in Memory
  PROVE  Taken(from, n, acc, s) \in Acc
<1> DEFINE lo == IF from > acc.at THEN from - acc.at ELSE 0
           hi == IF from + n - acc.at < s.len THEN from + n - acc.at ELSE s.len
           out == IF lo < hi THEN Append(acc.out, Part(s, lo, hi)) ELSE acc.out
<1>1. acc.at \in Nat /\ acc.out \in Seq(Memory) /\ s.len \in Nat
  BY DEF Acc, Memory
<1>2. lo \in Nat /\ hi \in Int
  BY <1>1
<1>3. Taken(from, n, acc, s) = [at |-> acc.at + s.len, out |-> out]
  BY DEF Taken
<1> HIDE DEF lo, hi
<1>4. out \in Seq(Memory)
  <2>1. CASE lo < hi
    <3>1. Part(s, lo, hi) \in Memory
      BY <1>2, <2>1, PartType
    <3> QED
      BY <1>1, <2>1, <3>1
  <2> QED
    BY <1>1, <2>1
<1> HIDE DEF out
<1> QED
  BY <1>1, <1>3, <1>4 DEF Acc

LEMMA SliceSteps ==
  ASSUME NEW data \in Seq(Memory), NEW from \in Nat, NEW n \in Nat
  PROVE  \E F : /\ Slice(data, from, n) = F[1..Len(data)].out
                /\ F[1..0] = [at |-> 0, out |-> <<>>]
                /\ \A k \in 0..Len(data) : F[1..k] \in Acc
                /\ \A k \in 1..Len(data) : F[1..k] = Taken(from, n, F[1..(k - 1)], data[k])
<1> DEFINE m == Len(data)
           none == [at |-> 0, out |-> <<>>]
           Made(f) == f = [s \in SUBSET (1..m) |->
                             IF s = {} THEN none ELSE Taken(from, n, f[s \ {Max(s)}], data[Max(s)])]
           F == CHOOSE f : Made(f)
<1>1. m \in Nat /\ DOMAIN data = 1..m /\ \A k \in 1..m : data[k] \in Memory
  OBVIOUS
<1>2. Slice(data, from, n) = F[1..m].out
  BY <1>1 DEF Slice, Taken, Part, FoldLeft, MapThenFoldSet
<1>3. none \in Acc
  BY DEF Acc
<1>4. \A acc \in Acc, k \in 1..m : Taken(from, n, acc, data[k]) \in Acc
  BY <1>1, TakenType
<1> HIDE DEF none, m
<1>5. Made(F)
  <2> DEFINE g == [x \in Acc \X (1..m) |-> Taken(from, n, x[1], data[x[2]])]
  <2>1. g \in [Acc \X (1..m) -> Acc]
    BY <1>4
  <2>2. \A acc \in Acc, k \in 1..m : g[<<acc, k>>] = Taken(from, n, acc, data[k])
    OBVIOUS
  <2> HIDE DEF g
  <2>3. PICK f \in [SUBSET (1..m) -> Acc] : Folds(f, m, none, g)
    BY <1>1, <1>3, <2>1, FoldExists
  <2>4. \A s \in SUBSET (1..m) : s # {} => /\ Max(s) \in 1..m /\ s \ {Max(s)} \in SUBSET (1..m)
    BY <1>1, MaxOf
  <2>5. \A s \in SUBSET (1..m) : s # {} =>
          g[<<f[s \ {Max(s)}], Max(s)>>] = Taken(from, n, f[s \ {Max(s)}], data[Max(s)])
    BY <2>2, <2>4
  <2>6. Made(f)
    BY <2>3, <2>5 DEF Folds
  <2> HIDE DEF Made
  <2> QED
    BY <2>6
<1> HIDE DEF F
<1>6. F[1..0] = none
  BY <1>1, <1>5, NoPrefix
<1>7. ASSUME NEW k \in 1..m
      PROVE  F[1..k] = Taken(from, n, F[1..(k - 1)], data[k])
  <2>1. 1..k \in SUBSET (1..m) /\ 1..k # {} /\ Max(1..k) = k
    BY <1>1, PrefixMax
  <2>2. (1..k) \ {Max(1..k)} = 1..(k - 1)
    BY <1>1, PrefixLess
  <2>3. F[1..k] = Taken(from, n, F[(1..k) \ {Max(1..k)}], data[Max(1..k)])
    BY <1>5, <2>1
  <2> QED
    BY <2>1, <2>2, <2>3
<1> DEFINE S == {k \in 0..m : F[1..k] \in Acc}
<1>8. 0 \in S
  BY <1>1, <1>3, <1>6
<1>9. \A k \in 1..m : k - 1 \in S => k \in S
  BY <1>4, <1>7
<1>10. \A k \in 0..m : k \in S
  <2> HIDE DEF S
  <2> QED
    BY <1>1, <1>8, <1>9, PrefixInduction
<1>11. \A k \in 0..m : F[1..k] \in Acc
  BY <1>10
<1> QED
  BY <1>2, <1>6, <1>7, <1>11 DEF none, m

LEMMA SliceType ==
  ASSUME NEW data \in Seq(Memory), NEW from \in Nat, NEW n \in Nat
  PROVE  Slice(data, from, n) \in Seq(Memory)
<1>1. PICK F : /\ Slice(data, from, n) = F[1..Len(data)].out
               /\ F[1..0] = [at |-> 0, out |-> <<>>]
               /\ \A k \in 0..Len(data) : F[1..k] \in Acc
               /\ \A k \in 1..Len(data) : F[1..k] = Taken(from, n, F[1..(k - 1)], data[k])
  BY SliceSteps
<1>2. Len(data) \in 0..Len(data)
  OBVIOUS
<1> QED
  BY <1>1, <1>2 DEF Acc

\* Of one stretch a slice is a part.
LEMMA SliceOne ==
  ASSUME NEW s \in Memory, NEW from \in Nat, NEW n \in Nat, n > 0, from + n <= s.len
  PROVE  Slice(<<s>>, from, n) = <<[area |-> s.area, unit |-> s.unit, off |-> s.off + from, len |-> n]>>
<1>1. s.len \in Nat
  BY DEF Memory
<1>2. <<s>> \in Seq(Memory) /\ Len(<<s>>) = 1 /\ <<s>>[1] = s
  OBVIOUS
<1>3. PICK F : /\ Slice(<<s>>, from, n) = F[1..1].out
               /\ F[1..0] = [at |-> 0, out |-> <<>>]
               /\ F[1..1] = Taken(from, n, F[1..(1 - 1)], s)
  <2> DEFINE data == <<s>>
  <2>1. data \in Seq(Memory) /\ Len(data) = 1 /\ data[1] = s
    BY <1>2
  <2> HIDE DEF data
  <2>2. PICK F : /\ Slice(data, from, n) = F[1..Len(data)].out
                 /\ F[1..0] = [at |-> 0, out |-> <<>>]
                 /\ \A k \in 0..Len(data) : F[1..k] \in Acc
                 /\ \A k \in 1..Len(data) : F[1..k] = Taken(from, n, F[1..(k - 1)], data[k])
    BY <2>1, SliceSteps
  <2>3. 1 \in 1..1
    OBVIOUS
  <2> QED
    BY <2>1, <2>2, <2>3 DEF data
<1>4. 1..(1 - 1) = 1..0
  OBVIOUS
<1>5. Slice(<<s>>, from, n) = Taken(from, n, [at |-> 0, out |-> <<>>], s).out
  BY <1>3, <1>4
<1> DEFINE lo == IF from > 0 THEN from - 0 ELSE 0
           hi == IF from + n - 0 < s.len THEN from + n - 0 ELSE s.len
<1>6. lo = from /\ hi = from + n /\ lo < hi
  BY <1>1
<1>7. Taken(from, n, [at |-> 0, out |-> <<>>], s).out = Append(<<>>, Part(s, lo, hi))
  BY <1>6 DEF Taken
<1> HIDE DEF lo, hi
<1>8. Part(s, lo, hi) = [area |-> s.area, unit |-> s.unit, off |-> s.off + from, len |-> n]
  <2>1. hi - lo = n /\ hi \in Int /\ lo \in Nat
    BY <1>6
  <2> QED
    BY <1>6, <2>1, PartType
<1> QED
  BY <1>5, <1>7, <1>8

\* Of words one after another a slice of two bytes is one of them.
LEMMA SliceWord ==
  ASSUME NEW data \in Seq(Memory), \A k \in 1..Len(data) : data[k].len = 2, NEW i \in 1..Len(data)
  PROVE  Slice(data, 2 * (i - 1), 2) = <<data[i]>>
<1> DEFINE m == Len(data)
           from == 2 * (i - 1)
           Out(k) == IF k < i THEN <<>> ELSE <<data[i]>>
<1>1. m \in Nat /\ from \in Nat /\ i \in Nat /\ i >= 1 /\ 2 \in Nat
  OBVIOUS
<1>2. PICK F : /\ Slice(data, from, 2) = F[1..m].out
               /\ F[1..0] = [at |-> 0, out |-> <<>>]
               /\ \A k \in 0..m : F[1..k] \in Acc
               /\ \A k \in 1..m : F[1..k] = Taken(from, 2, F[1..(k - 1)], data[k])
  BY <1>1, SliceSteps
<1> DEFINE S == {k \in 0..m : F[1..k].at = 2 * k /\ F[1..k].out = Out(k)}
<1>3. 0 \in S
  BY <1>1, <1>2
<1>4. ASSUME NEW k \in 1..m, k - 1 \in S
      PROVE  k \in S
  <2> DEFINE acc == F[1..(k - 1)]
             s == data[k]
             lo == IF from > acc.at THEN from - acc.at ELSE 0
             hi == IF from + 2 - acc.at < s.len THEN from + 2 - acc.at ELSE s.len
  <2>1. acc.at = 2 * (k - 1) /\ acc.out = Out(k - 1)
    BY <1>4
  <2>2. s.len = 2 /\ s \in Memory
    OBVIOUS
  <2>3. F[1..k] = [at |-> acc.at + s.len, out |-> IF lo < hi THEN Append(acc.out, Part(s, lo, hi)) ELSE acc.out]
    BY <1>2 DEF Taken
  <2> HIDE DEF acc, S
  <2>4. CASE k = i
    <3>1. lo = 0 /\ hi = 2 /\ acc.out = <<>>
      BY <1>1, <2>1, <2>2, <2>4
    <3> HIDE DEF lo, hi
    <3>2. Part(s, lo, hi) = [area |-> s.area, unit |-> s.unit, off |-> s.off + 0, len |-> 2 - 0]
      <4>1. lo \in Nat /\ hi \in Int /\ lo < hi /\ s \in Memory
        BY <2>2, <3>1
      <4>2. Part(s, lo, hi) = [area |-> s.area, unit |-> s.unit, off |-> s.off + lo, len |-> hi - lo]
        BY <4>1, PartType
      <4> QED
        BY <3>1, <4>2
    <3>3. [area |-> s.area, unit |-> s.unit, off |-> s.off + 0, len |-> 2 - 0] = s
      BY <2>2 DEF Memory
    <3> HIDE DEF s
    <3>4. F[1..k].out = <<s>>
      BY <2>3, <3>1, <3>2, <3>3
    <3>5. F[1..k].at = 2 * k
      BY <2>1, <2>2, <2>3
    <3> QED
      BY <2>4, <3>4, <3>5 DEF S, s
  <2>5. CASE k # i
    <3>1. ~(lo < hi) /\ Out(k) = Out(k - 1)
      BY <1>1, <2>1, <2>2, <2>5
    <3> HIDE DEF lo, hi, s
    <3>2. F[1..k].out = Out(k) /\ F[1..k].at = 2 * k
      BY <2>1, <2>2, <2>3, <3>1
    <3> QED
      BY <3>2 DEF S
  <2> QED
    BY <2>4, <2>5
<1>5. m \in S
  <2> HIDE DEF S
  <2>1. \A k \in 0..m : k \in S
    BY <1>1, <1>3, <1>4, PrefixInduction
  <2> QED
    BY <1>1, <2>1
<1> QED
  BY <1>2, <1>5

LEMMA BytesOne ==
  ASSUME NEW s, s.len \in Nat
  PROVE  Bytes(<<s>>) = s.len
<1> DEFINE d == <<s>>
           g == [k \in 1..1 |-> s.len]
           G == CHOOSE f : f = [t \in SUBSET DOMAIN d |-> IF t = {} THEN 0 ELSE f[t \ {Max(t)}] + d[Max(t)].len]
<1>1. Bytes(d) = G[DOMAIN d]
  BY DEF Bytes, FoldLeft, MapThenFoldSet
<1>2. DOMAIN d = 1..1 /\ d[1] = s
  OBVIOUS
<1>3. \A t \in SUBSET (1..1) : t # {} => d[Max(t)].len = g[Max(t)]
  <2>1. \A t \in SUBSET (1..1) : t # {} => Max(t) \in 1..1
    BY MaxOf
  <2> QED
    BY <1>2, <2>1
<1>4. g \in [1..1 -> Int] /\ g[1] = s.len
  OBVIOUS
<1> HIDE DEF d, g
<1>5. \A f : SumsUp(f, 1, 0, g)
               <=> f = [t \in SUBSET DOMAIN d |-> IF t = {} THEN 0 ELSE f[t \ {Max(t)}] + d[Max(t)].len]
  BY <1>2, <1>3 DEF SumsUp
<1>6. RunningSum(1, 0, g) = G
  BY <1>5 DEF RunningSum
<1> HIDE DEF G
<1>7. PICK F : /\ F = RunningSum(1, 0, g)
               /\ F[1..0] = 0
               /\ \A k \in 0..1 : F[1..k] \in Int
               /\ \A k \in 1..1 : F[1..k] = F[1..(k - 1)] + g[k]
  <2> DEFINE n == 1
             base == 0
  <2>1. n \in Nat /\ base \in Int /\ g \in [1..n -> Int]
    BY <1>4
  <2> HIDE DEF n, base
  <2>2. \E F : /\ F = RunningSum(n, base, g)
               /\ F[1..0] = base
               /\ \A k \in 0..n : F[1..k] \in Int
               /\ \A k \in 1..n : F[1..k] = F[1..(k - 1)] + g[k]
    BY <2>1, SumFold
  <2> QED
    BY <2>2 DEF n, base
<1>8. F[1..1] = F[1..(1 - 1)] + g[1] /\ 1..(1 - 1) = 1..0
  BY <1>7
<1> QED
  BY <1>1, <1>2, <1>4, <1>6, <1>7, <1>8 DEF d


(* Addresses and groups *)

Addrs == {x \in Nat : x <= 65535}

IsAddress(a) ==
  /\ a # BadAddress
  /\ a.area \in DOMAIN AreaCode /\ a.addr \in Addrs /\ a.bit \in 0..15 /\ a.count \in Nat

IsRequest(args) ==
  /\ Len(args) \in Nat /\ DOMAIN args = 1..Len(args)
  /\ \A i \in DOMAIN args : args[i] = BadAddress \/ IsAddress(args[i])

\* What fits 16 bits is left as it is.
LEMMA Within16 ==
  ASSUME NEW x \in Nat, x <= 65535
  PROVE  x % 65536 = x /\ x \in Addrs
  BY SMT DEF Addrs

LEMMA CutTo16 ==
  ASSUME NEW x \in Nat
  PROVE  (IF x > 65535 THEN 65535 ELSE x) \in Addrs
  BY SMT DEF Addrs

LEMMA AddrsNat == \A x \in Addrs : x \in Nat /\ x <= 65535
  BY SMT DEF Addrs

LEMMA ParsedAddress ==
  ASSUME NEW request, IsText(request.text)
  PROVE  ParseAddressWithType(request) = BadAddress \/ IsAddress(ParseAddressWithType(request))
<1> DEFINE t == request.text
           hint == TypeOfName(request.hint)
           type == IF hint # None THEN hint ELSE IF t.bit # None THEN "BOOL" ELSE "WORD"
           addr == IF t.addr > 65535 THEN 65535 ELSE t.addr
           bit == IF t.bit = None THEN 0 ELSE t.bit
           count == IF t.count = None THEN 1 ELSE t.count
           a == [area |-> t.area, addr |-> addr, bit |-> bit, count |-> count, type |-> type]
           bad == t = BadAddress \/ t.area \notin DOMAIN AreaCode \/ (t.bit # None /\ t.bit > 15)
<1>1. ParseAddressWithType(request) = IF bad THEN BadAddress ELSE a
  BY DEF ParseAddressWithType
<1>2. ASSUME ~bad
      PROVE  IsAddress(a)
  <2>1. /\ t.addr \in Nat /\ t.bit \in Nat \cup {None} /\ t.count \in Nat \cup {None}
        /\ t.area \in DOMAIN AreaCode /\ (t.bit = None \/ ~(t.bit > 15))
    BY <1>2 DEF IsText
  <2>2. addr \in Addrs
    <3>1. t.addr \in Nat
      BY <2>1
    <3> QED
      BY <3>1, CutTo16
  <2>3. bit \in 0..15
    <3>1. CASE t.bit = None
      BY <3>1
    <3>2. CASE t.bit # None
      <4>1. t.bit \in Nat /\ ~(t.bit > 15)
        BY <2>1, <3>2
      <4> QED
        BY <3>2, <4>1
    <3> QED
      BY <3>1, <3>2
  <2>4. count \in Nat
    BY <2>1
  <2> HIDE DEF addr, bit, count, type
  <2>5. a.area \in DOMAIN AreaCode /\ a.area # "?"
    BY <2>1 DEF AreaCode
  <2>6. a # BadAddress
    BY <2>5 DEF BadAddress
  <2> QED
    BY <2>2, <2>3, <2>4, <2>5, <2>6 DEF IsAddress
<1> HIDE DEF bad, a
<1> QED
  BY <1>1, <1>2

LEMMA AddressesType ==
  ASSUME NEW requests \in Reads
  PROVE  /\ IsRequest(Addresses(requests)) /\ DOMAIN Addresses(requests) = DOMAIN requests
         /\ Len(requests) \in Nat /\ DOMAIN requests = 1..Len(requests)
<1>1. /\ Len(requests) \in Nat /\ DOMAIN requests = 1..Len(requests)
      /\ \A i \in DOMAIN requests : IsText(requests[i].text)
  BY ReadsAssumption
<1>2. \A i \in DOMAIN requests : Addresses(requests)[i] = ParseAddressWithType(requests[i])
  BY DEF Addresses
<1>3. DOMAIN Addresses(requests) = 1..Len(requests) /\ Len(Addresses(requests)) = Len(requests)
  BY <1>1 DEF Addresses
<1> QED
  BY <1>1, <1>2, <1>3, ParsedAddress DEF IsRequest

LEMMA WordCountType ==
  ASSUME NEW a, IsAddress(a)
  PROVE  WordCount(a) \in Nat /\ WordCount(a) >= 1
<1>1. TypeSize(a.type) \in {0, 1, 2, 4, 8}
  BY DEF TypeSize
<1>2. a.count \in Nat
  BY DEF IsAddress
<1> QED
  BY <1>1, <1>2 DEF WordCount

\* The words of the first requests, of one after another.
Sums(args, items, sums) ==
  /\ sums \in [0..Len(items) -> Nat] /\ sums[0] = 0
  /\ \A k \in 1..Len(items) : sums[k] = sums[k - 1] + WordCount(args[items[k]])

\* Requests for words that follow one another, which one command may ask for.
Follow(args, g, sums) ==
  /\ Sums(args, g.items, sums) /\ g.words = sums[Len(g.items)]
  /\ \A k \in 1..Len(g.items) : LET a == args[g.items[k]]
                                IN  /\ IsAddress(a) /\ IsWord(a) /\ a.area = g.area
                                    /\ a.addr = (g.addr + sums[k - 1]) % 65536

GroupsOf(args) ==
  {g \in [area : DOMAIN AreaCode, addr : Addrs, words : Nat, items : Seq(DOMAIN args)] :
     /\ g.items # <<>> /\ (Len(g.items) > 1 => g.words <= Limit)
     /\ \E sums : Follow(args, g, sums)}

\* A request is in one of the groups.
InSome(groups, i) == \E g \in DOMAIN groups : i \in ToSet(groups[g].items)

LEMMA NewGroupType ==
  ASSUME NEW args, IsRequest(args), NEW i \in DOMAIN args, IsWord(args[i])
  PROVE  NewGroup(args, i) \in GroupsOf(args) /\ i \in ToSet(NewGroup(args, i).items)
<1> DEFINE w == WordCount(args[i])
           items == <<i>>
           g == [area |-> args[i].area, addr |-> args[i].addr, words |-> w, items |-> items]
           sums == [k \in 0..1 |-> IF k = 0 THEN 0 ELSE w]
<1>1. IsAddress(args[i])
  BY DEF IsRequest, IsWord
<1>2. w \in Nat
  BY <1>1, WordCountType
<1>3. NewGroup(args, i) = g
  BY DEF NewGroup
<1>4. items \in Seq(DOMAIN args) /\ items # <<>> /\ Len(items) = 1 /\ items[1] = i /\ DOMAIN items = 1..1
  OBVIOUS
<1>5. /\ args[i].addr \in Addrs /\ args[i].area \in DOMAIN AreaCode
      /\ args[i].addr = (args[i].addr + 0) % 65536
  <2>1. args[i].addr \in Nat /\ args[i].addr <= 65535
    BY <1>1, AddrsNat DEF IsAddress
  <2>2. args[i].addr + 0 = args[i].addr
    BY <2>1
  <2> QED
    BY <1>1, <2>1, <2>2, Within16 DEF IsAddress
<1>6. sums \in [0..1 -> Nat] /\ sums[0] = 0 /\ sums[1] = w
  BY <1>2
<1> HIDE DEF sums, items
<1>7. Sums(args, items, sums)
  <2> HIDE DEF w
  <2>1. \A k \in 1..1 : sums[k] = sums[k - 1] + WordCount(args[items[k]])
    BY <1>2, <1>4, <1>6 DEF w
  <2> QED
    BY <1>4, <1>6, <2>1 DEF Sums
<1>8. Follow(args, g, sums)
  <2>1. g.items = items /\ g.words = w /\ g.area = args[i].area /\ g.addr = args[i].addr
    OBVIOUS
  <2> HIDE DEF g, w
  <2>2. Sums(args, g.items, sums) /\ Len(g.items) = 1 /\ g.words = sums[Len(g.items)]
    BY <1>4, <1>6, <1>7, <2>1
  <2>3. ASSUME NEW k \in 1..Len(g.items)
        PROVE  LET a == args[g.items[k]]
               IN  /\ IsAddress(a) /\ IsWord(a) /\ a.area = g.area
                   /\ a.addr = (g.addr + sums[k - 1]) % 65536
    <3>1. k = 1 /\ k - 1 = 0
      BY <2>2
    <3>2. g.items[k] = i /\ sums[k - 1] = 0
      BY <1>4, <1>6, <2>1, <3>1
    <3> QED
      BY <1>1, <1>5, <2>1, <3>2
  <2> QED
    BY <2>2, <2>3 DEF Follow
<1>9. g \in GroupsOf(args)
  <2>1. g \in [area : DOMAIN AreaCode, addr : Addrs, words : Nat, items : Seq(DOMAIN args)]
    BY <1>2, <1>4, <1>5
  <2>2. g.items # <<>> /\ Len(g.items) = 1
    BY <1>4
  <2> HIDE DEF g
  <2>3. \E s : Follow(args, g, s)
    BY <1>8
  <2>4. g.items # <<>> /\ ~(Len(g.items) > 1)
    BY <2>2
  <2> QED
    BY <2>1, <2>3, <2>4 DEF GroupsOf
<1>10. i \in ToSet(items)
  BY <1>4 DEF ToSet
<1> QED
  BY <1>3, <1>9, <1>10

\* A group with a request more that continues it.
Extended(args, g, i) == [g EXCEPT !.words = @ + WordCount(args[i]), !.items = Append(@, i)]

LEMMA ExtendedFields ==
  ASSUME NEW args, NEW g, DOMAIN g = {"area", "addr", "words", "items"}, NEW i
  PROVE  Extended(args, g, i) = [area |-> g.area, addr |-> g.addr,
                                 words |-> g.words + WordCount(args[i]), items |-> Append(g.items, i)]
<1> DEFINE t == [g EXCEPT !.words = g.words + WordCount(args[i])]
           items == Append(g.items, i)
           u == [t EXCEPT !.items = items]
<1> HIDE DEF items
<1>1. Extended(args, g, i) = u
  BY DEF Extended, items
<1>2. /\ DOMAIN t = DOMAIN g /\ t.area = g.area /\ t.addr = g.addr
      /\ t.words = g.words + WordCount(args[i])
  OBVIOUS
<1>3. DOMAIN u = {"area", "addr", "words", "items"} /\ u = [x \in DOMAIN u |-> u[x]]
  BY <1>2
<1>4. u.area = g.area /\ u.addr = g.addr /\ u.words = g.words + WordCount(args[i]) /\ u.items = items
  BY <1>2
<1> HIDE DEF u, t
<1>5. u = [area |-> g.area, addr |-> g.addr, words |-> g.words + WordCount(args[i]), items |-> items]
  BY <1>3, <1>4
<1> QED
  BY <1>1, <1>5 DEF items

LEMMA ExtendedType ==
  ASSUME NEW args, IsRequest(args), NEW i \in DOMAIN args, IsWord(args[i]),
         NEW g \in GroupsOf(args), Continues(args, g, i)
  PROVE  /\ Extended(args, g, i) \in GroupsOf(args)
         /\ Extended(args, g, i).items = Append(g.items, i)
<1> DEFINE w == WordCount(args[i])
           n == Len(g.items)
           items == Append(g.items, i)
           h == [area |-> g.area, addr |-> g.addr, words |-> g.words + w, items |-> items]
<1>1. /\ g.area \in DOMAIN AreaCode /\ g.addr \in Addrs /\ g.words \in Nat /\ g.items \in Seq(DOMAIN args)
      /\ DOMAIN g = {"area", "addr", "words", "items"}
  BY DEF GroupsOf
<1>2. Extended(args, g, i) = h
  BY <1>1, ExtendedFields
<1>3. IsAddress(args[i]) /\ w \in Nat
  BY WordCountType DEF IsRequest, IsWord
<1>4. PICK sums : Follow(args, g, sums)
  BY DEF GroupsOf
<1>5. /\ sums \in [0..n -> Nat] /\ sums[0] = 0 /\ g.words = sums[n]
      /\ \A k \in 1..n : sums[k] = sums[k - 1] + WordCount(args[g.items[k]])
      /\ \A k \in 1..n : LET a == args[g.items[k]]
                         IN  /\ IsAddress(a) /\ IsWord(a) /\ a.area = g.area
                             /\ a.addr = (g.addr + sums[k - 1]) % 65536
  BY <1>4 DEF Follow, Sums
<1>6. /\ n \in Nat /\ items \in Seq(DOMAIN args) /\ items # <<>> /\ Len(items) = n + 1
      /\ items[n + 1] = i /\ \A k \in 1..n : items[k] = g.items[k]
  BY <1>1
<1>7. /\ args[i].area = g.area /\ args[i].addr = (g.addr + g.words) % 65536 /\ g.words + w <= Limit
  BY DEF Continues
<1> DEFINE more == [k \in 0..(n + 1) |-> IF k = n + 1 THEN g.words + w ELSE sums[k]]
<1>8. /\ more \in [0..(n + 1) -> Nat] /\ more[n + 1] = g.words + w
      /\ \A k \in 0..n : more[k] = sums[k]
  <2> HIDE DEF n, w
  <2> QED
    BY <1>1, <1>3, <1>5, <1>6
<1> HIDE DEF more, items, n
<1>9. more[0] = 0
  BY <1>5, <1>6, <1>8
<1>10. ASSUME NEW k \in 1..(n + 1)
       PROVE  /\ more[k] = more[k - 1] + WordCount(args[items[k]])
              /\ LET a == args[items[k]]
                 IN  /\ IsAddress(a) /\ IsWord(a) /\ a.area = g.area
                     /\ a.addr = (g.addr + more[k - 1]) % 65536
  <2>1. CASE k = n + 1
    <3>1. k - 1 = n /\ n \in 0..n /\ more[n] = g.words
      BY <1>5, <1>6, <1>8, <2>1
    <3>2. items[k] = i /\ more[k] = g.words + w
      BY <1>6, <1>8, <2>1
    <3> HIDE DEF w
    <3>3. more[k] = more[k - 1] + WordCount(args[items[k]])
      BY <3>1, <3>2 DEF w
    <3> QED
      BY <1>3, <1>7, <3>1, <3>2, <3>3
  <2>2. CASE k # n + 1
    <3>1. k \in 1..n /\ k \in 0..n /\ k - 1 \in 0..n
      BY <1>6, <2>2
    <3>2. items[k] = g.items[k] /\ more[k] = sums[k] /\ more[k - 1] = sums[k - 1]
      BY <1>6, <1>8, <3>1
    <3>3. /\ sums[k] = sums[k - 1] + WordCount(args[g.items[k]])
          /\ LET a == args[g.items[k]]
             IN  /\ IsAddress(a) /\ IsWord(a) /\ a.area = g.area
                 /\ a.addr = (g.addr + sums[k - 1]) % 65536
      BY <1>5, <3>1
    <3> QED
      BY <3>2, <3>3
  <2> QED
    BY <2>1, <2>2
<1>11. h.items = items /\ h.words = g.words + w /\ h.area = g.area /\ h.addr = g.addr
  OBVIOUS
<1>12. h \in [area : DOMAIN AreaCode, addr : Addrs, words : Nat, items : Seq(DOMAIN args)]
  BY <1>1, <1>3, <1>6
<1> HIDE DEF h, w
<1>13. Sums(args, items, more)
  BY <1>6, <1>8, <1>9, <1>10 DEF Sums
<1>14. Follow(args, h, more)
  BY <1>6, <1>8, <1>10, <1>11, <1>13 DEF Follow
<1>15. h \in GroupsOf(args)
  BY <1>6, <1>7, <1>11, <1>12, <1>14 DEF GroupsOf
<1> QED
  BY <1>2, <1>11, <1>15 DEF items

\* One request more, after others.
Joined(args, groups, i) ==
  IF groups # <<>> /\ Continues(args, Last(groups), i)
  THEN Append(Front(groups), Extended(args, Last(groups), i))
  ELSE Append(groups, NewGroup(args, i))

LEMMA JoinedType ==
  ASSUME NEW args, IsRequest(args), NEW i \in DOMAIN args, IsWord(args[i]),
         NEW groups \in Seq(GroupsOf(args))
  PROVE  /\ Joined(args, groups, i) \in Seq(GroupsOf(args))
         /\ \A j : InSome(groups, j) \/ j = i => InSome(Joined(args, groups, i), j)
<1> DEFINE R == GroupsOf(args)
           n == Len(groups)
           e == NewGroup(args, i)
           last == Last(groups)
           x == Extended(args, last, i)
<1>1. n \in Nat /\ DOMAIN groups = 1..n
  OBVIOUS
<1>2. CASE ~(groups # <<>> /\ Continues(args, last, i))
  <2>1. e \in R /\ i \in ToSet(e.items)
    BY NewGroupType
  <2>2. Joined(args, groups, i) = Append(groups, e)
    BY <1>2 DEF Joined
  <2> HIDE DEF R, e
  <2> DEFINE all == Append(groups, e)
  <2>3. /\ all \in Seq(R) /\ DOMAIN all = 1..(n + 1) /\ all[n + 1] = e
        /\ \A g \in 1..n : all[g] = groups[g]
    BY <2>1 DEF R
  <2> HIDE DEF all
  <2>4. \A g \in 1..n : g \in 1..(n + 1)
    BY <1>1
  <2>5. n + 1 \in 1..(n + 1)
    BY <1>1
  <2>6. \A j : InSome(groups, j) \/ j = i => InSome(all, j)
    BY <1>1, <2>1, <2>3, <2>4, <2>5 DEF InSome
  <2> QED
    BY <2>2, <2>3, <2>6 DEF all, R
<1>3. CASE groups # <<>> /\ Continues(args, last, i)
  <2>1. n >= 1 /\ last = groups[n] /\ last \in R /\ n \in 1..n
    <3> HIDE DEF R
    <3>1. groups \in Seq(R) /\ groups # <<>>
      BY <1>3 DEF R
    <3> QED
      BY <3>1 DEF Last
  <2>2. x \in R /\ x.items = Append(last.items, i)
    BY <1>3, <2>1, ExtendedType
  <2>3. Joined(args, groups, i) = Append(Front(groups), x)
    BY <1>3 DEF Joined
  <2> HIDE DEF x
  <2> DEFINE all == Append(Front(groups), x)
  <2>4. /\ all \in Seq(R) /\ DOMAIN all = 1..n /\ all[n] = x
        /\ \A g \in 1..(n - 1) : all[g] = groups[g]
    <3> HIDE DEF R
    <3> DEFINE front == Front(groups)
    <3>1. groups \in Seq(R) /\ x \in R
      BY <2>2 DEF R
    <3>2. /\ front \in Seq(R) /\ Len(front) = n - 1
          /\ \A g \in 1..(n - 1) : front[g] = groups[g]
      BY <1>1, <2>1, <3>1 DEF Front
    <3> HIDE DEF front, n
    <3>3. /\ Append(front, x) \in Seq(R) /\ DOMAIN Append(front, x) = 1..((n - 1) + 1)
          /\ Append(front, x)[(n - 1) + 1] = x /\ \A g \in 1..(n - 1) : Append(front, x)[g] = front[g]
      BY <1>1, <2>1, <3>1, <3>2
    <3>4. (n - 1) + 1 = n
      BY <1>1
    <3> QED
      BY <3>2, <3>3, <3>4 DEF front
  <2> HIDE DEF all
  <2>5. last.items \in Seq(DOMAIN args)
    BY <2>1 DEF GroupsOf
  <2>6. \A j : j \in ToSet(last.items) \/ j = i => j \in ToSet(x.items)
    <3> DEFINE items == last.items
               m == Len(items)
    <3>1. /\ m \in Nat /\ DOMAIN items = 1..m /\ DOMAIN x.items = 1..(m + 1) /\ x.items[m + 1] = i
          /\ \A k \in 1..m : x.items[k] = items[k]
      BY <2>2, <2>5
    <3> HIDE DEF items, m
    <3>2. m + 1 \in 1..(m + 1) /\ \A k \in 1..m : k \in 1..(m + 1)
      BY <3>1
    <3>3. \A j : j \in ToSet(items) \/ j = i => j \in ToSet(x.items)
      BY <3>1, <3>2 DEF ToSet
    <3> QED
      BY <3>3 DEF items
  <2>7. ASSUME NEW j, InSome(groups, j) \/ j = i
        PROVE  InSome(all, j)
    <3>1. CASE j = i
      BY <2>1, <2>4, <2>6, <3>1 DEF InSome
    <3>2. CASE InSome(groups, j)
      <4>1. PICK g \in 1..n : j \in ToSet(groups[g].items)
        BY <1>1, <3>2 DEF InSome
      <4>2. CASE g = n
        BY <2>1, <2>4, <2>6, <4>1, <4>2 DEF InSome
      <4>3. CASE g # n
        <5>1. g \in 1..(n - 1)
          <6>1. n \in Nat /\ g \in 1..n /\ g # n
            BY <1>1, <4>1, <4>3
          <6> HIDE DEF n
          <6> QED
            BY <6>1
        <5> QED
          BY <2>4, <4>1, <5>1 DEF InSome
      <4> QED
        BY <4>2, <4>3
    <3> QED
      BY <2>7, <3>1, <3>2
  <2> QED
    BY <2>3, <2>4, <2>7 DEF all
<1> QED
  BY <1>2, <1>3

\* groupContiguousAddresses makes groups of requests that follow one another, and leaves none out.
LEMMA GroupsType ==
  ASSUME NEW args, IsRequest(args), NEW sorted \in Seq({i \in DOMAIN args : IsWord(args[i])})
  PROVE  /\ Groups(args, sorted) \in Seq(GroupsOf(args))
         /\ \A k \in 1..Len(sorted) : InSome(Groups(args, sorted), sorted[k])
<1> DEFINE R == Seq(GroupsOf(args))
           n == Len(sorted)
           Made(f) == f = [s \in SUBSET (1..n) |->
                             IF s = {} THEN <<>> ELSE Joined(args, f[s \ {Max(s)}], sorted[Max(s)])]
           F == CHOOSE f : Made(f)
<1>1. n \in Nat /\ DOMAIN sorted = 1..n /\ \A k \in 1..n : sorted[k] \in DOMAIN args /\ IsWord(args[sorted[k]])
  OBVIOUS
<1>2. Groups(args, sorted) = F[1..n]
  <2>1. Groups(args, sorted) = FoldLeft(LAMBDA groups, i : Joined(args, groups, i), <<>>, sorted)
    BY DEF Groups, Joined, Extended
  <2> QED
    BY <1>1, <2>1 DEF FoldLeft, MapThenFoldSet
<1>3. <<>> \in R
  OBVIOUS
<1>4. \A groups \in R, k \in 1..n :
        /\ Joined(args, groups, sorted[k]) \in R
        /\ \A j : InSome(groups, j) \/ j = sorted[k] => InSome(Joined(args, groups, sorted[k]), j)
  BY <1>1, JoinedType
<1> HIDE DEF R, n
<1>5. Made(F)
  <2> DEFINE g == [x \in R \X (1..n) |-> Joined(args, x[1], sorted[x[2]])]
  <2>1. g \in [R \X (1..n) -> R]
    BY <1>4
  <2>2. \A groups \in R, k \in 1..n : g[<<groups, k>>] = Joined(args, groups, sorted[k])
    OBVIOUS
  <2> HIDE DEF g
  <2>3. PICK f \in [SUBSET (1..n) -> R] : Folds(f, n, <<>>, g)
    BY <1>1, <1>3, <2>1, FoldExists
  <2>4. \A s \in SUBSET (1..n) : s # {} => /\ Max(s) \in 1..n /\ s \ {Max(s)} \in SUBSET (1..n)
    BY <1>1, MaxOf
  <2>5. \A s \in SUBSET (1..n) : s # {} =>
          g[<<f[s \ {Max(s)}], Max(s)>>] = Joined(args, f[s \ {Max(s)}], sorted[Max(s)])
    BY <2>2, <2>4
  <2>6. Made(f)
    BY <2>3, <2>5 DEF Folds
  <2> HIDE DEF Made
  <2> QED
    BY <2>6
<1> HIDE DEF F
<1> DEFINE S == {k \in 0..n : F[1..k] \in R /\ \A j \in 1..k : InSome(F[1..k], sorted[j])}
<1>6. 0 \in S
  <2>1. F[1..0] = <<>>
    BY <1>1, <1>5, NoPrefix
  <2> QED
    BY <1>1, <1>3, <2>1
<1>7. ASSUME NEW k \in 1..n, k - 1 \in S
      PROVE  k \in S
  <2>1. 1..k \in SUBSET (1..n) /\ 1..k # {} /\ Max(1..k) = k
    BY <1>1, PrefixMax
  <2>2. (1..k) \ {Max(1..k)} = 1..(k - 1)
    BY <1>1, PrefixLess
  <2>3. F[1..k] = Joined(args, F[(1..k) \ {Max(1..k)}], sorted[Max(1..k)])
    BY <1>5, <2>1
  <2>4. F[1..k] = Joined(args, F[1..(k - 1)], sorted[k])
    BY <2>1, <2>2, <2>3
  <2>5. F[1..(k - 1)] \in R /\ \A j \in 1..(k - 1) : InSome(F[1..(k - 1)], sorted[j])
    BY <1>7
  <2>6. F[1..k] \in R
    BY <1>4, <2>4, <2>5
  <2>7. \A j \in 1..k : j \in 1..(k - 1) \/ j = k
    BY <1>1
  <2>8. \A j \in 1..k : InSome(F[1..k], sorted[j])
    BY <1>4, <2>4, <2>5, <2>7
  <2> QED
    BY <1>1, <2>6, <2>8
<1>8. n \in S
  <2> HIDE DEF S
  <2>1. \A k \in 1..n : k - 1 \in S => k \in S
    BY <1>7
  <2>2. \A k \in 0..n : k \in S
    BY <1>1, <1>6, <2>1, PrefixInduction
  <2> QED
    BY <1>1, <2>2
<1> QED
  BY <1>2, <1>8 DEF R, n

(* The commands of a read *)

\* Commands for a group of words, for a word of each of several groups, and for the bits of one request.
JobsOf(args) ==
  {Job("group", <<g>>) : g \in GroupsOf(args)}
    \cup {Job("multi", groups) : groups \in {gs \in Seq(GroupsOf(args)) : \A g \in DOMAIN gs : gs[g].words = 1}}
    \cup {Job("bits", <<NewGroup(args, i)>>) : i \in {j \in DOMAIN args : IsBit(args[j])}}

\* A request is asked for by one of the commands.
Covers(jobs, i) == \E k \in DOMAIN jobs : i \in Items(jobs[k])

LEMMA ItemsOfJob ==
  ASSUME NEW kind, NEW groups, NEW i
  PROVE  i \in Items(Job(kind, groups)) <=> InSome(groups, i)
<1>1. Job(kind, groups).groups = groups
  BY DEF Job
<1> QED
  BY <1>1 DEF Items, InSome

LEMMA CoversConcat ==
  ASSUME NEW X, NEW a \in Seq(X), NEW b \in Seq(X), NEW i, Covers(a, i) \/ Covers(b, i)
  PROVE  Covers(a \o b, i)
<1>1. /\ Len(a) \in Nat /\ Len(b) \in Nat /\ DOMAIN a = 1..Len(a) /\ DOMAIN b = 1..Len(b)
      /\ DOMAIN (a \o b) = 1..(Len(a) + Len(b))
      /\ \A k \in 1..Len(a) : (a \o b)[k] = a[k]
      /\ \A k \in 1..Len(b) : (a \o b)[Len(a) + k] = b[k]
  OBVIOUS
<1> DEFINE c == a \o b
<1> HIDE DEF c
<1>2. CASE Covers(a, i)
  <2>1. PICK k \in 1..Len(a) : i \in Items(a[k])
    BY <1>1, <1>2 DEF Covers
  <2>2. k \in 1..(Len(a) + Len(b))
    BY <1>1
  <2> QED
    BY <1>1, <2>1, <2>2 DEF Covers, c
<1>3. CASE Covers(b, i)
  <2>1. PICK k \in 1..Len(b) : i \in Items(b[k])
    BY <1>1, <1>3 DEF Covers
  <2>2. Len(a) + k \in 1..(Len(a) + Len(b))
    BY <1>1
  <2> QED
    BY <1>1, <2>1, <2>2 DEF Covers, c
<1> QED
  BY <1>2, <1>3

LEMMA AloneType ==
  ASSUME NEW args, NEW groups \in Seq(GroupsOf(args))
  PROVE  /\ Alone(groups) \in Seq(JobsOf(args))
         /\ \A i : InSome(groups, i) => Covers(Alone(groups), i)
<1> DEFINE n == Len(groups)
<1>1. n \in Nat /\ DOMAIN groups = 1..n /\ \A g \in 1..n : groups[g] \in GroupsOf(args)
  OBVIOUS
<1>2. DOMAIN Alone(groups) = 1..n /\ \A g \in 1..n : Alone(groups)[g] = Job("group", <<groups[g]>>)
  BY <1>1 DEF Alone
<1>3. \A g \in 1..n : Alone(groups)[g] \in JobsOf(args)
  BY <1>1, <1>2 DEF JobsOf
<1>4. Alone(groups) = [g \in 1..n |-> Job("group", <<groups[g]>>)]
  BY <1>1 DEF Alone
<1>5. Alone(groups) \in Seq(JobsOf(args))
  <2> HIDE DEF n
  <2>1. \A g \in 1..n : Job("group", <<groups[g]>>) \in JobsOf(args)
    BY <1>2, <1>3
  <2> QED
    BY <1>1, <1>4, <2>1
<1>6. ASSUME NEW i, InSome(groups, i)
      PROVE  Covers(Alone(groups), i)
  <2>1. PICK g \in 1..n : i \in ToSet(groups[g].items)
    BY <1>1, <1>6 DEF InSome
  <2> DEFINE one == <<groups[g]>>
  <2>2. 1 \in DOMAIN one /\ one[1] = groups[g]
    OBVIOUS
  <2> HIDE DEF one
  <2>3. InSome(one, i)
    BY <2>1, <2>2 DEF InSome
  <2>4. i \in Items(Job("group", one))
    BY <2>3, ItemsOfJob
  <2> QED
    BY <1>2, <2>4 DEF Covers, one
<1> QED
  BY <1>5, <1>6

LEMMA GroupWords ==
  ASSUME NEW args, NEW g \in GroupsOf(args)
  PROVE  g.words \in Nat /\ g.words >= 1
<1>1. g.items \in Seq(DOMAIN args) /\ g.items # <<>> /\ g.words \in Nat
  BY DEF GroupsOf
<1>2. PICK sums : Follow(args, g, sums)
  BY DEF GroupsOf
<1> DEFINE n == Len(g.items)
<1>3. n \in Nat /\ n >= 1 /\ n \in 1..n /\ n - 1 \in 0..n
  BY <1>1
<1>4. /\ sums \in [0..n -> Nat] /\ g.words = sums[n] /\ sums[n] = sums[n - 1] + WordCount(args[g.items[n]])
      /\ IsAddress(args[g.items[n]])
  BY <1>2, <1>3 DEF Follow, Sums
<1>5. WordCount(args[g.items[n]]) \in Nat /\ WordCount(args[g.items[n]]) >= 1
  BY <1>4, WordCountType
<1>6. sums[n - 1] \in Nat
  BY <1>3, <1>4
<1> QED
  BY <1>1, <1>4, <1>5, <1>6

LEMMA TogetherType ==
  ASSUME NEW args, NEW groups \in Seq(GroupsOf(args))
  PROVE  /\ Together(groups) \in Seq(JobsOf(args))
         /\ \A i : InSome(groups, i) => Covers(Together(groups), i)
<1>1. CASE \E g \in DOMAIN groups : groups[g].words > 1
  BY <1>1, AloneType DEF Together
<1>2. CASE ~\E g \in DOMAIN groups : groups[g].words > 1
  <2> DEFINE job == Job("multi", groups)
  <2>1. Together(groups) = <<job>>
    BY <1>2 DEF Together
  <2>2. \A g \in DOMAIN groups : groups[g].words = 1
    BY <1>2, GroupWords
  <2>3. job \in JobsOf(args)
    BY <2>2 DEF JobsOf
  <2>4. \A i : InSome(groups, i) => i \in Items(job)
    BY ItemsOfJob
  <2> HIDE DEF job
  <2>5. <<job>> \in Seq(JobsOf(args)) /\ 1 \in DOMAIN <<job>> /\ <<job>>[1] = job
    BY <2>3
  <2> QED
    BY <2>1, <2>4, <2>5 DEF Covers
<1> QED
  BY <1>1, <1>2

\* A part of the groups, as many as go together.
PartOf(groups, k) ==
  SubSeq(groups, (k - 1) * MaxMultiAreas + 1,
         IF k * MaxMultiAreas < Len(groups) THEN k * MaxMultiAreas ELSE Len(groups))

Parts(groups) == (Len(groups) + MaxMultiAreas - 1) \div MaxMultiAreas

LEMMA PartsType ==
  ASSUME NEW R, NEW groups \in Seq(R)
  PROVE  /\ Parts(groups) \in Nat
         /\ \A k \in 1..Parts(groups) : PartOf(groups, k) \in Seq(R)
         /\ \A j \in 1..Len(groups) : \E k \in 1..Parts(groups) :
              \E i \in DOMAIN PartOf(groups, k) : PartOf(groups, k)[i] = groups[j]
<1> DEFINE M == MaxMultiAreas
           n == Len(groups)
           B == Parts(groups)
           End_(k) == IF k * M < n THEN k * M ELSE n
           From(k) == (k - 1) * M + 1
<1>1. M \in Nat /\ M >= 1 /\ n \in Nat
  BY BatchAssumption
<1> HIDE DEF M, n
<1>2. B \in Nat /\ B * M <= n + M - 1 /\ n + M - 1 < (B + 1) * M
  <2>1. B = (n + M - 1) \div M
    BY DEF Parts, M, n
  <2> HIDE DEF B
  <2> QED
    BY <1>1, <2>1
<1> HIDE DEF B
<1>3. ASSUME NEW k \in 1..B
      PROVE  /\ PartOf(groups, k) \in Seq(R)
             /\ \A j \in From(k)..End_(k) : \E i \in DOMAIN PartOf(groups, k) : PartOf(groups, k)[i] = groups[j]
  <2> DEFINE b == (k - 1) * M
             d == PartOf(groups, k)
  <2>1. b \in Nat /\ k * M = b + M
    BY <1>1, <1>2
  <2>2. k * M <= B * M /\ B * M \in Nat
    BY <1>1, <1>2, Times
  <2> HIDE DEF b
  <2>3. b <= n - 1
    BY <1>1, <1>2, <2>1, <2>2
  <2>4. From(k) = b + 1 /\ End_(k) \in Nat /\ End_(k) > b /\ End_(k) <= n
    BY <1>1, <2>1, <2>3 DEF b
  <2>5. d = SubSeq(groups, From(k), End_(k))
    BY DEF PartOf, M, n
  <2> DEFINE m == End_(k) - b
  <2> HIDE DEF End_, From, d
  <2>6. m \in Nat
    BY <2>1, <2>4
  <2>7. d \in Seq(R) /\ Len(d) = m /\ \A i \in 1..m : d[i] = groups[b + i]
    <3>1. From(k) \in 1..(n + 1) /\ End_(k) \in 0..n
      BY <1>1, <2>1, <2>4
    <3>2. groups \in Seq(R) /\ n = Len(groups)
      BY DEF n
    <3>3. \A i \in 1..m : From(k) + i - 1 = b + i
      BY <2>1, <2>4
    <3> QED
      BY <2>1, <2>4, <2>5, <2>6, <3>1, <3>2, <3>3, SubSeqProperties
  <2>8. ASSUME NEW j \in From(k)..End_(k)
        PROVE  \E i \in DOMAIN d : d[i] = groups[j]
    <3>1. j - b \in 1..m /\ b + (j - b) = j
      BY <2>1, <2>4
    <3>2. DOMAIN d = 1..m
      BY <2>7
    <3> QED
      BY <2>7, <3>1, <3>2
  <2> QED
    BY <2>7, <2>8 DEF d
<1>4. ASSUME NEW j \in 1..n
      PROVE  \E k \in 1..B : j \in From(k)..End_(k)
  <2> DEFINE k == ((j - 1) \div M) + 1
  <2>1. j \in Nat /\ j >= 1 /\ j <= n
    BY <1>1
  <2>2. k \in Nat /\ k >= 1 /\ (k - 1) * M <= j - 1 /\ j - 1 < k * M
    BY <1>1, <2>1
  <2> HIDE DEF k
  <2>3. k <= B
    <3> SUFFICES ASSUME k > B
                 PROVE  FALSE
      BY <1>2, <2>2
    <3>1. B <= k - 1 /\ k - 1 \in Nat
      BY <1>2, <2>2
    <3>2. B * M <= (k - 1) * M /\ (k - 1) * M \in Nat
      BY <1>1, <1>2, <3>1, Times
    <3>3. (B + 1) * M = B * M + M /\ B * M \in Nat
      BY <1>1, <1>2
    <3> QED
      BY <1>1, <1>2, <2>1, <2>2, <3>2, <3>3
  <2>4. (k - 1) * M \in Nat /\ k * M \in Nat
    BY <1>1, <2>2
  <2>5. j \in From(k)..End_(k)
    BY <1>1, <2>1, <2>2, <2>4
  <2> QED
    BY <1>2, <2>2, <2>3, <2>5
<1> HIDE DEF From, End_
<1>5. \A j \in 1..n : \E k \in 1..B :
              \E i \in DOMAIN PartOf(groups, k) : PartOf(groups, k)[i] = groups[j]
  BY <1>3, <1>4
<1> QED
  BY <1>2, <1>3, <1>5 DEF B, n

AllTogether(groups, jobs, k) == jobs \o Together(PartOf(groups, k))

\* readFINSWordsBatched asks for every group.
LEMMA WordJobsType ==
  ASSUME NEW args, NEW groups \in Seq(GroupsOf(args))
  PROVE  /\ WordJobs(groups) \in Seq(JobsOf(args))
         /\ \A i : InSome(groups, i) => Covers(WordJobs(groups), i)
<1> DEFINE J == JobsOf(args)
           R == Seq(J)
           n == Parts(groups)
           seq == [k \in 1..n |-> k]
           Made(f) == f = [s \in SUBSET (1..n) |->
                             IF s = {} THEN <<>> ELSE AllTogether(groups, f[s \ {Max(s)}], seq[Max(s)])]
           F == CHOOSE f : Made(f)
<1>1. CASE Len(groups) <= 3
  BY <1>1, AloneType DEF WordJobs
<1>2. CASE ~(Len(groups) <= 3)
  <2>1. n \in Nat /\ \A k \in 1..n : PartOf(groups, k) \in Seq(GroupsOf(args))
    BY PartsType
  <2>2. WordJobs(groups) = FoldLeft(LAMBDA jobs, k : AllTogether(groups, jobs, k), <<>>, seq)
    BY <1>2 DEF WordJobs, AllTogether, PartOf, Parts
  <2>3. WordJobs(groups) = F[1..n]
    <3>1. DOMAIN seq = 1..n
      OBVIOUS
    <3> HIDE DEF n, seq
    <3> QED
      BY <2>2, <3>1 DEF FoldLeft, MapThenFoldSet
  <2>4. <<>> \in R
    OBVIOUS
  <2>5. \A k \in 1..n : seq[k] = k
    OBVIOUS
  <2>6. \A jobs \in R, k \in 1..n :
          /\ AllTogether(groups, jobs, k) \in R
          /\ \A i : Covers(jobs, i) \/ InSome(PartOf(groups, k), i) => Covers(AllTogether(groups, jobs, k), i)
    <3> SUFFICES ASSUME NEW jobs \in R, NEW k \in 1..n
                 PROVE  /\ AllTogether(groups, jobs, k) \in R
                        /\ \A i : Covers(jobs, i) \/ InSome(PartOf(groups, k), i)
                                    => Covers(AllTogether(groups, jobs, k), i)
      OBVIOUS
    <3> DEFINE more == Together(PartOf(groups, k))
    <3>1. more \in R /\ \A i : InSome(PartOf(groups, k), i) => Covers(more, i)
      BY <2>1, TogetherType
    <3> HIDE DEF more, J
    <3>2. jobs \o more \in R
      BY <3>1
    <3>3. \A i : Covers(jobs, i) \/ Covers(more, i) => Covers(jobs \o more, i)
      BY <3>1, CoversConcat
    <3> QED
      BY <3>1, <3>2, <3>3 DEF AllTogether, more
  <2> HIDE DEF J, R, n, seq
  <2>7. Made(F)
    <3> DEFINE g == [x \in R \X (1..n) |-> AllTogether(groups, x[1], x[2])]
    <3>1. g \in [R \X (1..n) -> R]
      BY <2>6
    <3>2. \A jobs \in R, k \in 1..n : g[<<jobs, k>>] = AllTogether(groups, jobs, k)
      OBVIOUS
    <3> HIDE DEF g
    <3>3. PICK f \in [SUBSET (1..n) -> R] : Folds(f, n, <<>>, g)
      BY <2>1, <2>4, <3>1, FoldExists
    <3>4. \A s \in SUBSET (1..n) : s # {} => /\ Max(s) \in 1..n /\ s \ {Max(s)} \in SUBSET (1..n)
      BY <2>1, MaxOf
    <3>5. \A s \in SUBSET (1..n) : s # {} =>
            g[<<f[s \ {Max(s)}], Max(s)>>] = AllTogether(groups, f[s \ {Max(s)}], seq[Max(s)])
      BY <2>5, <3>2, <3>4
    <3>6. Made(f)
      BY <3>3, <3>5 DEF Folds
    <3> HIDE DEF Made
    <3> QED
      BY <3>6
  <2> HIDE DEF F
  <2> DEFINE S == {k \in 0..n : /\ F[1..k] \in R
                                /\ \A l \in 1..k : \A i : InSome(PartOf(groups, l), i) => Covers(F[1..k], i)}
  <2>8. 0 \in S
    <3>1. F[1..0] = <<>>
      BY <2>1, <2>7, NoPrefix
    <3> QED
      BY <2>1, <2>4, <3>1
  <2>9. ASSUME NEW k \in 1..n, k - 1 \in S
        PROVE  k \in S
    <3>1. 1..k \in SUBSET (1..n) /\ 1..k # {} /\ Max(1..k) = k
      BY <2>1, PrefixMax
    <3>2. (1..k) \ {Max(1..k)} = 1..(k - 1)
      BY <2>1, PrefixLess
    <3>3. F[1..k] = AllTogether(groups, F[(1..k) \ {Max(1..k)}], seq[Max(1..k)])
      BY <2>7, <3>1
    <3>4. F[1..k] = AllTogether(groups, F[1..(k - 1)], k)
      BY <2>5, <3>1, <3>2, <3>3
    <3>5. /\ F[1..(k - 1)] \in R
          /\ \A l \in 1..(k - 1) : \A i : InSome(PartOf(groups, l), i) => Covers(F[1..(k - 1)], i)
      BY <2>9
    <3>6. F[1..k] \in R
      BY <2>6, <3>4, <3>5
    <3>7. \A l \in 1..k : l \in 1..(k - 1) \/ l = k
      BY <2>1
    <3>8. \A l \in 1..k : \A i : InSome(PartOf(groups, l), i) => Covers(F[1..k], i)
      BY <2>6, <3>4, <3>5, <3>7
    <3> QED
      BY <2>1, <3>6, <3>8
  <2>10. n \in S
    <3> HIDE DEF S
    <3>1. \A k \in 1..n : k - 1 \in S => k \in S
      BY <2>9
    <3>2. \A k \in 0..n : k \in S
      BY <2>1, <2>8, <3>1, PrefixInduction
    <3> QED
      BY <2>1, <3>2
  <2>11. ASSUME NEW i, InSome(groups, i)
         PROVE  \E k \in 1..n : InSome(PartOf(groups, k), i)
    <3>1. PICK g \in 1..Len(groups) : i \in ToSet(groups[g].items)
      BY <2>11 DEF InSome
    <3>2. PICK k \in 1..n : \E j \in DOMAIN PartOf(groups, k) : PartOf(groups, k)[j] = groups[g]
      BY PartsType DEF n
    <3> QED
      BY <3>1, <3>2 DEF InSome
  <2>12. WordJobs(groups) \in R
    BY <2>3, <2>10
  <2>13. \A i : InSome(groups, i) => Covers(WordJobs(groups), i)
    BY <2>3, <2>10, <2>11
  <2> QED
    BY <2>12, <2>13 DEF R, J
<1> QED
  BY <1>1, <1>2

BitAdded(args, jobs, i) ==
  IF IsBit(args[i]) THEN Append(jobs, Job("bits", <<NewGroup(args, i)>>)) ELSE jobs

\* The bits are all asked for.
LEMMA BitJobsType ==
  ASSUME NEW args, IsRequest(args)
  PROVE  /\ BitJobs(args) \in Seq(JobsOf(args))
         /\ \A i \in DOMAIN args : IsBit(args[i]) => Covers(BitJobs(args), i)
<1> DEFINE J == JobsOf(args)
           R == Seq(J)
           n == Len(args)
           seq == [i \in DOMAIN args |-> i]
           Made(f) == f = [s \in SUBSET (1..n) |->
                             IF s = {} THEN <<>> ELSE BitAdded(args, f[s \ {Max(s)}], seq[Max(s)])]
           F == CHOOSE f : Made(f)
<1>1. n \in Nat /\ DOMAIN args = 1..n
  BY DEF IsRequest
<1>2. BitJobs(args) = FoldLeft(LAMBDA jobs, i : BitAdded(args, jobs, i), <<>>, seq)
  BY DEF BitJobs, BitAdded
<1>3. BitJobs(args) = F[1..n]
  <2>1. DOMAIN seq = 1..n
    BY <1>1
  <2> HIDE DEF n, seq
  <2> QED
    BY <1>2, <2>1 DEF FoldLeft, MapThenFoldSet
<1>4. <<>> \in R
  OBVIOUS
<1>5. \A k \in 1..n : seq[k] = k
  BY <1>1
<1>6. \A jobs \in R, k \in 1..n :
        /\ BitAdded(args, jobs, k) \in R
        /\ \A i : Covers(jobs, i) \/ (i = k /\ IsBit(args[k])) => Covers(BitAdded(args, jobs, k), i)
  <2> SUFFICES ASSUME NEW jobs \in R, NEW k \in 1..n
               PROVE  /\ BitAdded(args, jobs, k) \in R
                      /\ \A i : Covers(jobs, i) \/ (i = k /\ IsBit(args[k])) => Covers(BitAdded(args, jobs, k), i)
    OBVIOUS
  <2>1. CASE IsBit(args[k])
    <3> DEFINE one == <<NewGroup(args, k)>>
               job == Job("bits", one)
    <3>1. job \in J
      BY <1>1, <2>1 DEF JobsOf
    <3>2. k \in Items(job)
      <4>1. NewGroup(args, k).items = <<k>>
        BY DEF NewGroup
      <4>2. k \in ToSet(<<k>>)
        <5>1. 1 \in DOMAIN <<k>> /\ <<k>>[1] = k
          OBVIOUS
        <5> QED
          BY <5>1 DEF ToSet
      <4>3. 1 \in DOMAIN one /\ one[1] = NewGroup(args, k)
        OBVIOUS
      <4> HIDE DEF one
      <4>4. InSome(one, k)
        BY <4>1, <4>2, <4>3 DEF InSome
      <4> QED
        BY <4>4, ItemsOfJob
    <3>3. BitAdded(args, jobs, k) = Append(jobs, job)
      BY <2>1 DEF BitAdded
    <3> HIDE DEF J, job
    <3> DEFINE m == Len(jobs)
               all == Append(jobs, job)
    <3>4. /\ m \in Nat /\ DOMAIN jobs = 1..m /\ all \in Seq(J) /\ DOMAIN all = 1..(m + 1)
          /\ all[m + 1] = job /\ \A l \in 1..m : all[l] = jobs[l]
      BY <3>1
    <3> HIDE DEF all, m
    <3>5. m + 1 \in 1..(m + 1) /\ \A l \in 1..m : l \in 1..(m + 1)
      BY <3>4
    <3>6. \A i : Covers(jobs, i) \/ i = k => Covers(all, i)
      BY <3>2, <3>4, <3>5 DEF Covers
    <3> QED
      BY <3>3, <3>4, <3>6 DEF all
  <2>2. CASE ~IsBit(args[k])
    BY <2>2 DEF BitAdded
  <2> QED
    BY <2>1, <2>2
<1> HIDE DEF J, R, n, seq
<1>7. Made(F)
  <2> DEFINE g == [x \in R \X (1..n) |-> BitAdded(args, x[1], x[2])]
  <2>1. g \in [R \X (1..n) -> R]
    BY <1>6
  <2>2. \A jobs \in R, k \in 1..n : g[<<jobs, k>>] = BitAdded(args, jobs, k)
    OBVIOUS
  <2> HIDE DEF g
  <2>3. PICK f \in [SUBSET (1..n) -> R] : Folds(f, n, <<>>, g)
    BY <1>1, <1>4, <2>1, FoldExists
  <2>4. \A s \in SUBSET (1..n) : s # {} => /\ Max(s) \in 1..n /\ s \ {Max(s)} \in SUBSET (1..n)
    BY <1>1, MaxOf
  <2>5. \A s \in SUBSET (1..n) : s # {} =>
          g[<<f[s \ {Max(s)}], Max(s)>>] = BitAdded(args, f[s \ {Max(s)}], seq[Max(s)])
    BY <1>5, <2>2, <2>4
  <2>6. Made(f)
    BY <2>3, <2>5 DEF Folds
  <2> HIDE DEF Made
  <2> QED
    BY <2>6
<1> HIDE DEF F
<1> DEFINE S == {k \in 0..n : /\ F[1..k] \in R
                              /\ \A i \in 1..k : IsBit(args[i]) => Covers(F[1..k], i)}
<1>8. 0 \in S
  <2>1. F[1..0] = <<>>
    BY <1>1, <1>7, NoPrefix
  <2> QED
    BY <1>1, <1>4, <2>1
<1>9. ASSUME NEW k \in 1..n, k - 1 \in S
      PROVE  k \in S
  <2>1. 1..k \in SUBSET (1..n) /\ 1..k # {} /\ Max(1..k) = k
    BY <1>1, PrefixMax
  <2>2. (1..k) \ {Max(1..k)} = 1..(k - 1)
    BY <1>1, PrefixLess
  <2>3. F[1..k] = BitAdded(args, F[(1..k) \ {Max(1..k)}], seq[Max(1..k)])
    BY <1>7, <2>1
  <2>4. F[1..k] = BitAdded(args, F[1..(k - 1)], k)
    BY <1>5, <2>1, <2>2, <2>3
  <2>5. /\ F[1..(k - 1)] \in R
        /\ \A i \in 1..(k - 1) : IsBit(args[i]) => Covers(F[1..(k - 1)], i)
    BY <1>9
  <2>6. F[1..k] \in R
    BY <1>6, <2>4, <2>5
  <2>7. \A i \in 1..k : i \in 1..(k - 1) \/ i = k
    BY <1>1
  <2>8. \A i \in 1..k : IsBit(args[i]) => Covers(F[1..k], i)
    BY <1>6, <2>4, <2>5, <2>7
  <2> QED
    BY <1>1, <2>6, <2>8
<1>10. n \in S
  <2> HIDE DEF S
  <2>1. \A k \in 1..n : k - 1 \in S => k \in S
    BY <1>9
  <2>2. \A k \in 0..n : k \in S
    BY <1>1, <1>8, <2>1, PrefixInduction
  <2> QED
    BY <1>1, <2>2
<1> QED
  BY <1>1, <1>3, <1>10 DEF R, J

\* An order of the positions has each of them.
LEMMA OrderIsFull ==
  ASSUME NEW S, IsFiniteSet(S), NEW s \in SetToSeqs(S)
  PROVE  s \in Seq(S) /\ \A i \in S : \E k \in 1..Len(s) : s[k] = i
<1> DEFINE n == Cardinality(S)
<1>1. n \in Nat
  BY FS_CardinalityType
<1>2. s \in [1..n -> S] /\ \A i, j \in 1..n : i # j => s[i] # s[j]
  BY DEF SetToSeqs
<1>3. Cardinality(1..n) = n
  <2>1. 1 \in Int /\ n \in Int
    BY <1>1
  <2>2. Cardinality(1..n) = IF 1 > n THEN 0 ELSE n - 1 + 1
    BY <2>1, FS_Interval
  <2> HIDE DEF n
  <2> QED
    BY <1>1, <2>2
<1>4. s \in Injection(1..n, S)
  BY <1>2 DEF Injection, IsInjective
<1>5. s \in Surjection(1..n, S)
  <2> HIDE DEF n
  <2> QED
    BY <1>3, <1>4, FS_Injection DEF n
<1>6. \A i \in S : \E k \in 1..n : s[k] = i
  BY <1>5 DEF Surjection
<1>7. s \in Seq(S) /\ Len(s) = n
  <2> HIDE DEF n
  <2> QED
    BY <1>1, <1>2
<1> QED
  BY <1>6, <1>7

\* The commands of a read ask for every address that can be read.
LEMMA FinsJobsType ==
  ASSUME NEW args, IsRequest(args), NEW jobs \in FinsJobs(args)
  PROVE  /\ jobs \in Seq(JobsOf(args))
         /\ \A i \in DOMAIN args : args[i] # BadAddress => Covers(jobs, i)
<1> DEFINE words == {i \in DOMAIN args : IsWord(args[i])}
<1>1. PICK sorted \in Orders(args, words) : jobs = WordJobs(Groups(args, sorted)) \o BitJobs(args)
  BY DEF FinsJobs
<1>2. IsFiniteSet(words)
  <2>1. IsFiniteSet(DOMAIN args)
    BY FS_Interval DEF IsRequest
  <2>2. words \in SUBSET (DOMAIN args)
    OBVIOUS
  <2> QED
    BY <2>1, <2>2, FS_Subset
<1>3. sorted \in SetToSeqs(words)
  BY DEF Orders
<1>4. sorted \in Seq(words) /\ \A i \in words : \E k \in 1..Len(sorted) : sorted[k] = i
  <2> HIDE DEF words
  <2> QED
    BY <1>2, <1>3, OrderIsFull
<1> DEFINE groups == Groups(args, sorted)
<1>5. groups \in Seq(GroupsOf(args)) /\ \A i \in words : InSome(groups, i)
  <2>1. /\ groups \in Seq(GroupsOf(args))
        /\ \A k \in 1..Len(sorted) : InSome(groups, sorted[k])
    BY <1>4, GroupsType
  <2> QED
    BY <1>4, <2>1
<1> HIDE DEF groups
<1> DEFINE w == WordJobs(groups)
           b == BitJobs(args)
<1>6. w \in Seq(JobsOf(args)) /\ \A i \in words : Covers(w, i)
  BY <1>5, WordJobsType
<1>7. b \in Seq(JobsOf(args)) /\ \A i \in DOMAIN args : IsBit(args[i]) => Covers(b, i)
  BY BitJobsType
<1> HIDE DEF w, b
<1>8. jobs = w \o b
  BY <1>1 DEF w, b, groups
<1>9. w \o b \in Seq(JobsOf(args))
  BY <1>6, <1>7
<1>10. \A i : Covers(w, i) \/ Covers(b, i) => Covers(w \o b, i)
  BY <1>6, <1>7, CoversConcat
<1>11. \A i \in DOMAIN args : args[i] # BadAddress => i \in words \/ IsBit(args[i])
  BY DEF IsBit, IsWord
<1> QED
  BY <1>6, <1>7, <1>8, <1>9, <1>10, <1>11

(* Reads of tags *)

TagJobs == [kind : {"batch", "single"}, items : Seq(Nat)]

TagResults(args, i) == {None, Failed, Success(1, <<Tag(args[i].text)>>)}

\* The batches are of neighbours, one after the other up to the last argument; no result before
\* the first of them is missing. Batch k ends with argument b[k].
Bounds(args, jobs, results, b) ==
  /\ b \in [0..Len(jobs) -> 0..Len(args)] /\ b[Len(jobs)] = Len(args)
  /\ \A k \in 1..Len(jobs) : /\ b[k - 1] < b[k]
                             /\ jobs[k].items = [j \in 1..(b[k] - b[k - 1]) |-> b[k - 1] + j]
  /\ \A i \in DOMAIN args : results[i] = None => i > b[0]

TagsRead(args, jobs, results) ==
  /\ args \in Reads /\ jobs \in Seq(TagJobs)
  /\ DOMAIN results = DOMAIN args /\ \A i \in DOMAIN args : results[i] \in TagResults(args, i)
  /\ \E b : Bounds(args, jobs, results, b)

LEMMA ReadsType ==
  ASSUME NEW args \in Reads
  PROVE  Len(args) \in Nat /\ DOMAIN args = 1..Len(args)
  BY ReadsAssumption

LEMMA TailOf ==
  ASSUME NEW X, NEW jobs \in Seq(X), jobs # <<>>
  PROVE  /\ Len(jobs) \in Nat /\ Len(jobs) >= 1 /\ Head(jobs) = jobs[1] /\ jobs[1] \in X
         /\ Tail(jobs) \in Seq(X) /\ Len(Tail(jobs)) = Len(jobs) - 1
         /\ \A k \in 1..(Len(jobs) - 1) : Tail(jobs)[k] = jobs[k + 1]
OBVIOUS

\* readEIPBatched begins with such batches.
LEMMA EipJobsType ==
  ASSUME NEW args \in Reads, NEW results, \A i \in DOMAIN args : i > 0
  PROVE  /\ EipJobs(Len(args)) \in Seq(TagJobs)
         /\ \E b : Bounds(args, EipJobs(Len(args)), results, b)
<1> DEFINE n == Len(args)
           size == IF cip THEN BatchConnected ELSE BatchSingle
           B == (n + size - 1) \div size
           b == [k \in 0..B |-> IF k * size < n THEN k * size ELSE n]
           count(k) == IF k * size < n THEN size ELSE n - (k - 1) * size
           items(k) == [i \in 1..count(k) |-> (k - 1) * size + i]
           job(k) == [kind |-> "batch", items |-> items(k)]
<1>1. n \in Nat
  BY ReadsType
<1>2. size \in Nat /\ size >= 1
  BY BatchAssumption
<1>3. EipJobs(n) = [k \in 1..B |-> job(k)]
  BY DEF EipJobs
<1> HIDE DEF size, n
<1>4. B \in Nat /\ B * size <= n + size - 1 /\ n + size - 1 < (B + 1) * size
  BY <1>1, <1>2
<1> HIDE DEF B
<1>5. B * size >= n /\ B * size \in Nat
  <2>1. (B + 1) * size = B * size + size /\ B * size \in Nat
    BY <1>2, <1>4
  <2> QED
    BY <1>1, <1>2, <1>4, <2>1
<1>6. ASSUME NEW k \in 1..B
      PROVE  (k - 1) * size \in Nat /\ (k - 1) * size < n /\ k * size = (k - 1) * size + size
  <2>1. (k - 1) * size \in Nat /\ k * size = (k - 1) * size + size
    BY <1>2, <1>4
  <2>2. k * size <= B * size
    BY <1>2, <1>4, Times
  <2> QED
    BY <1>1, <1>2, <1>4, <1>5, <2>1, <2>2
<1>7. \A k \in 0..B : k * size \in Nat
  BY <1>2, <1>4
<1>8. /\ b \in [0..B -> 0..n] /\ b[B] = n /\ b[0] = 0
  <2>1. \A k \in 0..B : (IF k * size < n THEN k * size ELSE n) \in 0..n
    BY <1>1, <1>7
  <2>2. B \in 0..B /\ 0 \in 0..B /\ 0 * size = 0
    BY <1>2, <1>4
  <2>3. b[B] = n
    BY <1>1, <1>5, <2>2
  <2>4. b[0] = 0
    BY <1>1, <2>2
  <2> QED
    BY <2>1, <2>3, <2>4
<1>9. \A k \in 0..B : b[k] = IF k * size < n THEN k * size ELSE n
  OBVIOUS
<1> HIDE DEF b
<1>10. ASSUME NEW k \in 1..B
       PROVE  /\ b[k - 1] < b[k] /\ b[k - 1] = (k - 1) * size /\ count(k) = b[k] - b[k - 1]
              /\ count(k) \in Nat
  <2>1. k \in 0..B /\ k - 1 \in 0..B
    BY <1>4
  <2>2. b[k - 1] = (k - 1) * size
    BY <1>6, <1>9, <2>1
  <2>3. b[k] = IF (k - 1) * size + size < n THEN (k - 1) * size + size ELSE n
    BY <1>6, <1>9, <2>1
  <2>4. count(k) = IF (k - 1) * size + size < n THEN size ELSE n - (k - 1) * size
    BY <1>6
  <2> DEFINE low == (k - 1) * size
  <2>5. low \in Nat /\ low < n
    BY <1>6
  <2> HIDE DEF low, count
  <2>6. b[k] = (IF low + size < n THEN low + size ELSE n) /\ b[k - 1] = low
        /\ count(k) = IF low + size < n THEN size ELSE n - low
    BY <2>2, <2>3, <2>4 DEF low
  <2> QED
    BY <1>1, <1>2, <2>2, <2>5, <2>6
<1> HIDE DEF count
<1>11. \A k \in 1..B : items(k) = [j \in 1..(b[k] - b[k - 1]) |-> b[k - 1] + j]
  BY <1>10
<1>12. \A k \in 1..B : items(k) \in Seq(Nat)
  <2> SUFFICES ASSUME NEW k \in 1..B
               PROVE  items(k) \in Seq(Nat)
    OBVIOUS
  <2>1. count(k) \in Nat /\ (k - 1) * size \in Nat
    BY <1>6, <1>10
  <2>2. \A i \in 1..count(k) : (k - 1) * size + i \in Nat
    BY <2>1
  <2> QED
    BY <2>1, <2>2
<1> HIDE DEF items
<1>13. \A k \in 1..B : job(k) \in TagJobs /\ job(k).items = items(k)
  BY <1>12 DEF TagJobs
<1> HIDE DEF job
<1> DEFINE jobs == [k \in 1..B |-> job(k)]
<1>14. jobs \in Seq(TagJobs) /\ Len(jobs) = B /\ \A k \in 1..B : jobs[k].items = items(k)
  BY <1>4, <1>13
<1> HIDE DEF jobs
<1>15. Bounds(args, jobs, results, b)
  <2>1. \A k \in 1..B : b[k - 1] < b[k] /\ jobs[k].items = [j \in 1..(b[k] - b[k - 1]) |-> b[k - 1] + j]
    BY <1>10, <1>11, <1>14
  <2>2. \A i \in DOMAIN args : i > b[0]
    BY <1>8
  <2> QED
    BY <1>8, <1>14, <2>1, <2>2 DEF Bounds, n
<1> QED
  BY <1>3, <1>14, <1>15 DEF jobs, n

\* The first batch: the arguments from one on.
LEMMA FirstBatch ==
  ASSUME NEW args, NEW jobs, NEW results, TagsRead(args, jobs, results), jobs # <<>>,
         NEW b, Bounds(args, jobs, results, b)
  PROVE  /\ b[0] \in Nat /\ b[1] \in Nat /\ b[0] < b[1] /\ b[1] <= Len(args)
         /\ Head(jobs).items = [j \in 1..(b[1] - b[0]) |-> b[0] + j]
<1>1. Len(args) \in Nat /\ Len(jobs) \in Nat /\ Len(jobs) >= 1 /\ Head(jobs) = jobs[1]
  BY ReadsType, TailOf DEF TagsRead
<1>2. 0 \in 0..Len(jobs) /\ 1 \in 0..Len(jobs) /\ 1 \in 1..Len(jobs) /\ 1 - 1 = 0
  BY <1>1
<1>3. b[0] \in 0..Len(args) /\ b[1] \in 0..Len(args)
  BY <1>2 DEF Bounds
<1>4. b[0] < b[1] /\ jobs[1].items = [j \in 1..(b[1] - b[0]) |-> b[0] + j]
  BY <1>2 DEF Bounds
<1> QED
  BY <1>1, <1>3, <1>4

\* Its results come in.
LEMMA BatchRead ==
  ASSUME NEW args, NEW jobs, NEW results, TagsRead(args, jobs, results), jobs # <<>>,
         NEW b, Bounds(args, jobs, results, b), NEW next, DOMAIN next = DOMAIN args,
         \A i \in DOMAIN args : next[i] \in TagResults(args, i),
         \A i \in DOMAIN args : next[i] = None => results[i] = None /\ ~(i <= b[1])
  PROVE  TagsRead(args, Tail(jobs), next)
<1> DEFINE n == Len(jobs)
           c == [k \in 0..(n - 1) |-> b[k + 1]]
<1>1. /\ n \in Nat /\ n >= 1 /\ Tail(jobs) \in Seq(TagJobs) /\ Len(Tail(jobs)) = n - 1
      /\ \A k \in 1..(n - 1) : Tail(jobs)[k] = jobs[k + 1]
  BY TailOf DEF TagsRead
<1>2. /\ b \in [0..n -> 0..Len(args)] /\ b[n] = Len(args)
      /\ \A k \in 1..n : b[k - 1] < b[k] /\ jobs[k].items = [j \in 1..(b[k] - b[k - 1]) |-> b[k - 1] + j]
  BY DEF Bounds
<1>3. Len(args) \in Nat /\ DOMAIN args = 1..Len(args)
  BY ReadsType DEF TagsRead
<1> HIDE DEF n
<1>4. c \in [0..(n - 1) -> 0..Len(args)] /\ c[n - 1] = Len(args) /\ c[0] = b[1]
  <2>1. \A k \in 0..(n - 1) : k + 1 \in 0..n
    BY <1>1
  <2>2. n - 1 \in 0..(n - 1) /\ 0 \in 0..(n - 1) /\ (n - 1) + 1 = n /\ 0 + 1 = 1
    BY <1>1
  <2> QED
    BY <1>2, <2>1, <2>2
<1>5. ASSUME NEW k \in 1..(n - 1)
      PROVE  /\ c[k - 1] < c[k]
             /\ Tail(jobs)[k].items = [j \in 1..(c[k] - c[k - 1]) |-> c[k - 1] + j]
  <2>1. k + 1 \in 1..n /\ (k + 1) - 1 = (k - 1) + 1 /\ k \in 0..(n - 1) /\ k - 1 \in 0..(n - 1)
    BY <1>1
  <2>2. c[k] = b[k + 1] /\ c[k - 1] = b[(k + 1) - 1]
    BY <2>1
  <2> HIDE DEF c
  <2> QED
    BY <1>1, <1>2, <2>1, <2>2
<1>6. \A i \in DOMAIN args : next[i] = None => i > c[0]
  <2>1. b[1] \in 0..Len(args)
    <3>1. 1 \in 0..n
      BY <1>1
    <3> QED
      BY <1>2, <3>1
  <2> HIDE DEF c
  <2> QED
    BY <1>3, <1>4, <2>1
<1> HIDE DEF c
<1>7. Bounds(args, Tail(jobs), next, c)
  BY <1>1, <1>4, <1>5, <1>6 DEF Bounds
<1> QED
  BY <1>1, <1>7 DEF TagsRead

\* It is asked for again one by one.
LEMMA BatchSplit ==
  ASSUME NEW args, NEW jobs, NEW results, TagsRead(args, jobs, results), jobs # <<>>,
         NEW b, Bounds(args, jobs, results, b)
  PROVE  TagsRead(args, [j \in 1..(b[1] - b[0]) |-> Single(b[0] + j)] \o Tail(jobs), results)
<1> DEFINE n == Len(jobs)
           m == b[1] - b[0]
           low == b[0]
           singles == [j \in 1..m |-> Single(low + j)]
           t == Tail(jobs)
           all == singles \o t
           c == [k \in 0..(m + n - 1) |-> IF k <= m THEN low + k ELSE b[k - m + 1]]
<1>1. /\ n \in Nat /\ n >= 1 /\ t \in Seq(TagJobs) /\ Len(t) = n - 1
      /\ \A k \in 1..(n - 1) : t[k] = jobs[k + 1]
  BY TailOf DEF TagsRead
<1>2. /\ b \in [0..n -> 0..Len(args)] /\ b[n] = Len(args)
      /\ \A k \in 1..n : b[k - 1] < b[k] /\ jobs[k].items = [j \in 1..(b[k] - b[k - 1]) |-> b[k - 1] + j]
      /\ \A i \in DOMAIN args : results[i] = None => i > low
  BY DEF Bounds
<1>3. Len(args) \in Nat
  BY ReadsType DEF TagsRead
<1>4. m \in Nat /\ m >= 1 /\ low \in Nat /\ low + m = b[1] /\ b[1] <= Len(args)
  <2>1. b[0] \in Nat /\ b[1] \in Nat /\ b[0] < b[1] /\ b[1] <= Len(args)
    BY FirstBatch
  <2>2. \A x, y \in Nat : x < y => y - x \in Nat /\ y - x >= 1 /\ x + (y - x) = y
    OBVIOUS
  <2> QED
    BY <2>1, <2>2
<1> HIDE DEF n, m, low, t
<1>5. \A j \in 1..m : Single(low + j) \in TagJobs /\ Single(low + j).items = <<low + j>>
  <2>1. \A j \in 1..m : low + j \in Nat
    BY <1>4
  <2> QED
    BY <2>1 DEF Single, TagJobs
<1>6. singles \in Seq(TagJobs) /\ Len(singles) = m /\ \A j \in 1..m : singles[j] = Single(low + j)
  BY <1>4, <1>5
<1> HIDE DEF singles
<1>7. /\ all \in Seq(TagJobs) /\ Len(all) = m + n - 1
      /\ \A k \in 1..m : all[k] = singles[k]
      /\ \A k \in 1..(n - 1) : all[m + k] = t[k]
  <2>1. /\ all \in Seq(TagJobs) /\ Len(all) = Len(singles) + Len(t)
        /\ \A k \in 1..Len(singles) : all[k] = singles[k]
        /\ \A k \in 1..Len(t) : all[Len(singles) + k] = t[k]
    <3> DEFINE R == TagJobs
    <3>1. singles \in Seq(R) /\ t \in Seq(R)
      BY <1>1, <1>6
    <3> HIDE DEF R
    <3>2. \A x, y \in Seq(R) : /\ x \o y \in Seq(R) /\ Len(x \o y) = Len(x) + Len(y)
                               /\ \A k \in 1..Len(x) : (x \o y)[k] = x[k]
                               /\ \A k \in 1..Len(y) : (x \o y)[Len(x) + k] = y[k]
      OBVIOUS
    <3> QED
      BY <3>1, <3>2 DEF R
  <2>2. m + (n - 1) = m + n - 1
    BY <1>1, <1>4
  <2> HIDE DEF all
  <2> QED
    BY <1>1, <1>6, <2>1, <2>2
<1> HIDE DEF all
<1>8. \A k \in 0..m : k \in 0..(m + n - 1) /\ c[k] = low + k
  BY <1>1, <1>4
<1>9. \A k \in 0..(n - 1) : m + k \in 0..(m + n - 1) /\ c[m + k] = b[k + 1]
  <2> SUFFICES ASSUME NEW k \in 0..(n - 1)
               PROVE  m + k \in 0..(m + n - 1) /\ c[m + k] = b[k + 1]
    OBVIOUS
  <2>1. m + k \in 0..(m + n - 1) /\ (m + k) - m + 1 = k + 1
    BY <1>1, <1>4
  <2>2. CASE k = 0
    <3>1. m + k = m /\ k + 1 = 1
      BY <1>4, <2>2
    <3> QED
      BY <1>4, <1>8, <2>1, <3>1
  <2>3. CASE k # 0
    <3>1. ~(m + k <= m)
      BY <1>4, <2>3
    <3> QED
      BY <2>1, <3>1
  <2> QED
    BY <2>2, <2>3
<1> HIDE DEF c
<1>10. c \in [0..(m + n - 1) -> 0..Len(args)]
  <2>1. DOMAIN c = 0..(m + n - 1) /\ c = [k \in DOMAIN c |-> c[k]]
    BY DEF c
  <2>2. ASSUME NEW k \in 0..(m + n - 1)
        PROVE  c[k] \in 0..Len(args)
    <3>1. CASE k <= m
      <4>1. k \in 0..m
        BY <3>1
      <4> QED
        BY <1>3, <1>4, <1>8, <4>1
    <3>2. CASE ~(k <= m)
      <4>1. k - m \in 0..(n - 1) /\ m + (k - m) = k /\ (k - m) + 1 \in 0..n
        BY <1>1, <1>4, <3>2
      <4>2. c[k] = b[(k - m) + 1]
        BY <1>9, <4>1
      <4> QED
        BY <1>2, <4>1, <4>2
    <3> QED
      BY <3>1, <3>2
  <2> QED
    BY <2>1, <2>2
<1>11. c[m + n - 1] = Len(args) /\ c[0] = low
  <2>1. n - 1 \in 0..(n - 1) /\ m + (n - 1) = m + n - 1 /\ (n - 1) + 1 = n
    BY <1>1, <1>4
  <2>2. 0 \in 0..m /\ low + 0 = low
    BY <1>4
  <2> QED
    BY <1>2, <1>8, <1>9, <2>1, <2>2
<1>12. ASSUME NEW k \in 1..(m + n - 1)
       PROVE  c[k - 1] < c[k] /\ all[k].items = [j \in 1..(c[k] - c[k - 1]) |-> c[k - 1] + j]
  <2>1. CASE k <= m
    <3>1. k \in 1..m /\ k \in 0..m /\ k - 1 \in 0..m
      BY <1>1, <1>4, <2>1
    <3>2. c[k] = low + k /\ c[k - 1] = low + (k - 1)
      BY <1>8, <3>1
    <3>3. c[k - 1] < c[k] /\ c[k] - c[k - 1] = 1 /\ c[k - 1] + 1 = low + k
      BY <1>4, <3>1, <3>2
    <3>4. all[k].items = <<low + k>>
      BY <1>5, <1>6, <1>7, <3>1
    <3>5. <<low + k>> = [j \in 1..1 |-> c[k - 1] + j]
      BY <3>3
    <3> QED
      BY <3>3, <3>4, <3>5
  <2>2. CASE ~(k <= m)
    <3> DEFINE l == k - m
    <3>1. /\ l \in 1..(n - 1) /\ m + l = k /\ l \in 0..(n - 1) /\ l - 1 \in 0..(n - 1)
          /\ m + (l - 1) = k - 1 /\ l + 1 \in 1..n /\ (l + 1) - 1 = (l - 1) + 1
      BY <1>1, <1>4, <2>2
    <3> HIDE DEF l
    <3>2. c[k] = b[l + 1] /\ c[k - 1] = b[(l + 1) - 1]
      BY <1>9, <3>1
    <3>3. all[k] = jobs[l + 1]
      BY <1>1, <1>7, <3>1
    <3> QED
      BY <1>2, <3>1, <3>2, <3>3
  <2> QED
    BY <2>1, <2>2
<1>13. Bounds(args, all, results, c)
  BY <1>2, <1>7, <1>10, <1>11, <1>12 DEF Bounds
<1>14. TagsRead(args, all, results)
  BY <1>7, <1>13 DEF TagsRead
<1> QED
  BY <1>14 DEF all, singles, m, low, t

\* What is left fails.
LEMMA BatchAbort ==
  ASSUME NEW args, NEW jobs, NEW results, TagsRead(args, jobs, results), NEW next,
         DOMAIN next = DOMAIN args, \A i \in DOMAIN args : next[i] \in TagResults(args, i),
         \A i \in DOMAIN args : next[i] # None
  PROVE  TagsRead(args, <<>>, next)
<1> DEFINE none == <<>>
           c == [k \in 0..0 |-> Len(args)]
<1>1. Len(args) \in Nat
  BY ReadsType DEF TagsRead
<1>2. c \in [0..0 -> 0..Len(args)] /\ c[0] = Len(args)
  BY <1>1
<1>3. none \in Seq(TagJobs) /\ Len(none) = 0 /\ 1..0 = {}
  OBVIOUS
<1> HIDE DEF c, none
<1>4. Bounds(args, none, next, c)
  BY <1>2, <1>3 DEF Bounds
<1> QED
  BY <1>3, <1>4 DEF TagsRead, none

--------------------------------------------------------------------------------

(* The results of a FINS read *)

\* What a result may say of a request: the bytes of its own address.
Right(a, r, str) ==
  r.ok /\ ~str => /\ a # BadAddress
                  /\ Expressible(a) => r.data = <<Wanted(a)>>
                  /\ r.count # a.count => WordCount(a) = 1

\* Every address that can be read has its result or is asked for yet.
WordsRead(args, jobs, results, str) ==
  /\ IsRequest(args) /\ jobs \in Seq(JobsOf(args)) /\ DOMAIN results = DOMAIN args
  /\ \A i \in DOMAIN args :
       /\ results[i] \in {None} \cup Results(Memory)
       /\ results[i] = None => args[i] # BadAddress /\ Covers(jobs, i)
       /\ results[i] # None => Right(args[i], results[i], str)

LEMMA SuccessType ==
  ASSUME NEW S, NEW count \in Nat, NEW data \in Seq(S)
  PROVE  /\ Success(count, data) \in Results(S) /\ Success(count, data).ok
         /\ Success(count, data).count = count /\ Success(count, data).data = data
  BY DEF Success, Results

LEMMA FailedType ==
  ASSUME NEW S
  PROVE  Failed \in Results(S) /\ ~Failed.ok
<1>1. <<>> \in Seq(S)
  OBVIOUS
<1> QED
  BY <1>1 DEF Failed, Results

LEMMA NotMissing == None \notin Frames /\ None \notin Results(Memory) /\ None \notin Results(Tags)
  BY MissingAssumption

\* What the first command asked for has results now.
LEMMA WordsFill ==
  ASSUME NEW args, NEW jobs, NEW results, NEW str, WordsRead(args, jobs, results, str), jobs # <<>>,
         NEW next, DOMAIN next = DOMAIN args, NEW now \in BOOLEAN, str => now,
         \A i \in DOMAIN args :
           IF i \in Items(Head(jobs)) THEN next[i] \in Results(Memory) /\ Right(args[i], next[i], now)
           ELSE next[i] = results[i]
  PROVE  WordsRead(args, Tail(jobs), next, now)
<1>1. /\ IsRequest(args) /\ jobs \in Seq(JobsOf(args)) /\ DOMAIN results = DOMAIN args
      /\ \A i \in DOMAIN args :
           /\ results[i] \in {None} \cup Results(Memory)
           /\ results[i] = None => args[i] # BadAddress /\ Covers(jobs, i)
           /\ results[i] # None => Right(args[i], results[i], str)
  BY DEF WordsRead
<1> DEFINE J == JobsOf(args)
           n == Len(jobs)
<1>2. /\ n \in Nat /\ n >= 1 /\ Head(jobs) = jobs[1] /\ DOMAIN jobs = 1..n
      /\ Tail(jobs) \in Seq(J) /\ Len(Tail(jobs)) = n - 1 /\ DOMAIN Tail(jobs) = 1..(n - 1)
      /\ \A k \in 1..(n - 1) : Tail(jobs)[k] = jobs[k + 1]
  <2>1. jobs \in Seq(J)
    BY <1>1
  <2> HIDE DEF J
  <2>2. /\ n \in Nat /\ n >= 1 /\ Head(jobs) = jobs[1]
        /\ Tail(jobs) \in Seq(J) /\ Len(Tail(jobs)) = n - 1
        /\ \A k \in 1..(n - 1) : Tail(jobs)[k] = jobs[k + 1]
    BY <2>1, TailOf
  <2>3. DOMAIN jobs = 1..n /\ DOMAIN Tail(jobs) = 1..Len(Tail(jobs))
    BY <2>1, <2>2
  <2> QED
    BY <2>2, <2>3
<1> HIDE DEF n, J
<1>3. ASSUME NEW i, Covers(jobs, i), i \notin Items(Head(jobs))
      PROVE  Covers(Tail(jobs), i)
  <2>1. PICK k \in 1..n : i \in Items(jobs[k])
    BY <1>2, <1>3 DEF Covers
  <2>2. k # 1
    BY <1>2, <1>3, <2>1
  <2>3. k - 1 \in 1..(n - 1) /\ (k - 1) + 1 = k
    BY <1>2, <2>2
  <2>4. Tail(jobs)[k - 1] = jobs[k]
    BY <1>2, <2>3
  <2> QED
    BY <1>2, <2>1, <2>3, <2>4 DEF Covers
<1>4. ASSUME NEW i \in DOMAIN args
      PROVE  /\ next[i] \in {None} \cup Results(Memory)
             /\ next[i] = None => args[i] # BadAddress /\ Covers(Tail(jobs), i)
             /\ next[i] # None => Right(args[i], next[i], now)
  <2>1. CASE i \in Items(Head(jobs))
    BY <2>1, NotMissing
  <2>2. CASE i \notin Items(Head(jobs))
    <3>1. next[i] = results[i]
      BY <2>2
    <3>2. Right(args[i], results[i], str) => Right(args[i], results[i], now)
      BY DEF Right
    <3> QED
      BY <1>1, <1>3, <2>2, <3>1, <3>2
  <2> QED
    BY <2>1, <2>2
<1> QED
  BY <1>1, <1>2, <1>4 DEF WordsRead, J

\* Groups that were asked for together are asked for one by one.
LEMMA WordsRetry ==
  ASSUME NEW args, NEW jobs, NEW results, NEW str, WordsRead(args, jobs, results, str), jobs # <<>>,
         NEW groups \in Seq(GroupsOf(args)), Head(jobs) = Job("multi", groups),
         NEW now \in BOOLEAN, str => now
  PROVE  WordsRead(args, Alone(groups) \o Tail(jobs), results, now)
<1>1. /\ IsRequest(args) /\ jobs \in Seq(JobsOf(args)) /\ DOMAIN results = DOMAIN args
      /\ \A i \in DOMAIN args :
           /\ results[i] \in {None} \cup Results(Memory)
           /\ results[i] = None => args[i] # BadAddress /\ Covers(jobs, i)
           /\ results[i] # None => Right(args[i], results[i], str)
  BY DEF WordsRead
<1> DEFINE J == JobsOf(args)
           n == Len(jobs)
           alone == Alone(groups)
           t == Tail(jobs)
<1>2. /\ n \in Nat /\ n >= 1 /\ Head(jobs) = jobs[1]
      /\ t \in Seq(J) /\ Len(t) = n - 1 /\ \A k \in 1..(n - 1) : t[k] = jobs[k + 1]
  BY <1>1, TailOf
<1>3. DOMAIN jobs = 1..n
  BY <1>1
<1>4. alone \in Seq(J) /\ \A i : InSome(groups, i) => Covers(alone, i)
  BY AloneType
<1> HIDE DEF J, n, alone, t
<1>5. DOMAIN t = 1..(n - 1)
  BY <1>2
<1>6. ASSUME NEW i, Covers(jobs, i)
      PROVE  Covers(alone, i) \/ Covers(t, i)
  <2>1. PICK k \in 1..n : i \in Items(jobs[k])
    BY <1>3, <1>6 DEF Covers
  <2>2. CASE k = 1
    <3>1. InSome(groups, i)
      BY <1>2, <2>1, <2>2, ItemsOfJob
    <3> QED
      BY <1>4, <3>1
  <2>3. CASE k # 1
    <3>1. k - 1 \in 1..(n - 1) /\ (k - 1) + 1 = k
      BY <1>2, <2>3
    <3> QED
      BY <1>2, <1>5, <2>1, <3>1 DEF Covers
  <2> QED
    BY <2>2, <2>3
<1>7. alone \o t \in Seq(J)
  BY <1>2, <1>4
<1>8. \A i : Covers(jobs, i) => Covers(alone \o t, i)
  BY <1>2, <1>4, <1>6, CoversConcat
<1>9. \A i : Right(args[i], results[i], str) => Right(args[i], results[i], now)
  BY DEF Right
<1> QED
  BY <1>1, <1>7, <1>8, <1>9 DEF WordsRead, J, alone, t

--------------------------------------------------------------------------------

(* Where an item's words are in the answer to its group *)

LEMMA GroupFields ==
  ASSUME NEW args, NEW g \in GroupsOf(args)
  PROVE  /\ g.area \in DOMAIN AreaCode /\ g.addr \in Addrs /\ g.words \in Nat
         /\ g.items \in Seq(DOMAIN args) /\ Len(g.items) \in Nat /\ Len(g.items) >= 1
         /\ Len(g.items) > 1 => g.words <= Limit
         /\ \E sums : Follow(args, g, sums)
<1>1. g.items \in Seq(DOMAIN args) /\ g.items # <<>>
  BY DEF GroupsOf
<1>2. Len(g.items) \in Nat /\ Len(g.items) >= 1
  BY <1>1
<1> QED
  BY <1>1, <1>2 DEF GroupsOf

LEMMA PlaceIs ==
  ASSUME NEW g, NEW S, g.items \in Seq(S), NEW i \in ToSet(g.items)
  PROVE  Place(g, i) \in 1..Len(g.items) /\ g.items[Place(g, i)] = i
<1>1. DOMAIN g.items = 1..Len(g.items)
  OBVIOUS
<1>2. \E k \in DOMAIN g.items : g.items[k] = i
  BY DEF ToSet
<1> QED
  BY <1>1, <1>2 DEF Place

\* The words before it.
LEMMA OffsetIs ==
  ASSUME NEW g \in GroupsOf(op.args), NEW i \in ToSet(g.items), NEW sums, Sums(op.args, g.items, sums)
  PROVE  Offset(g, i) = sums[Place(g, i) - 1]
<1> DEFINE n == Place(g, i) - 1
           d == SubSeq(g.items, 1, n)
           h == [j \in 1..n |-> WordCount(op.args[g.items[j]])]
           G == CHOOSE f : f = [t \in SUBSET DOMAIN d |->
                                  IF t = {} THEN 0 ELSE f[t \ {Max(t)}] + WordCount(op.args[d[Max(t)]])]
<1>1. g.items \in Seq(DOMAIN op.args) /\ Len(g.items) \in Nat
  BY GroupFields
<1>2. Place(g, i) \in 1..Len(g.items)
  BY <1>1, PlaceIs
<1>3. n \in Nat /\ n <= Len(g.items) /\ \A j \in 1..n : j \in 1..Len(g.items)
  BY <1>1, <1>2
<1> HIDE DEF n
<1>4. DOMAIN d = 1..n /\ \A j \in 1..n : d[j] = g.items[j]
  <2> DEFINE s == g.items
  <2>1. s \in Seq(DOMAIN op.args) /\ n <= Len(s)
    BY <1>1, <1>3
  <2> HIDE DEF s
  <2>2. Len(SubSeq(s, 1, n)) = n /\ \A j \in 1..n : SubSeq(s, 1, n)[j] = s[j]
    BY <1>3, <2>1
  <2>3. DOMAIN SubSeq(s, 1, n) = 1..n
    BY <1>3, <2>1, <2>2
  <2> QED
    BY <2>2, <2>3 DEF s
<1> HIDE DEF d
<1>5. Offset(g, i) = G[DOMAIN d]
  BY DEF Offset, FoldLeft, MapThenFoldSet, d, n
<1>6. /\ sums \in [0..Len(g.items) -> Nat] /\ sums[0] = 0
      /\ \A k \in 1..Len(g.items) : sums[k] = sums[k - 1] + WordCount(op.args[g.items[k]])
  BY DEF Sums
<1>7. h \in [1..n -> Int] /\ \A j \in 1..n : h[j] = WordCount(op.args[g.items[j]])
  <2>1. \A j \in 1..n : WordCount(op.args[g.items[j]]) \in Int
    <3> SUFFICES ASSUME NEW j \in 1..n
                 PROVE  WordCount(op.args[g.items[j]]) \in Int
      OBVIOUS
    <3>1. j \in 1..Len(g.items)
      BY <1>3
    <3>2. PICK all : Follow(op.args, g, all)
      BY GroupFields
    <3>3. IsAddress(op.args[g.items[j]])
      BY <3>1, <3>2 DEF Follow
    <3> QED
      BY <3>3, WordCountType
  <2> QED
    BY <2>1
<1> HIDE DEF h
<1>8. \A t \in SUBSET (1..n) : t # {} => WordCount(op.args[d[Max(t)]]) = h[Max(t)]
  <2>1. \A t \in SUBSET (1..n) : t # {} => Max(t) \in 1..n
    BY <1>3, MaxOf
  <2> QED
    BY <1>4, <1>7, <2>1
<1> DEFINE base == 0
<1>9. \A f : SumsUp(f, n, base, h)
               <=> f = [t \in SUBSET DOMAIN d |->
                          IF t = {} THEN 0 ELSE f[t \ {Max(t)}] + WordCount(op.args[d[Max(t)]])]
  BY <1>4, <1>8 DEF SumsUp
<1>10. RunningSum(n, base, h) = G
  BY <1>9 DEF RunningSum
<1> HIDE DEF G
<1>11. base \in Int /\ base = 0
  OBVIOUS
<1> HIDE DEF base
<1>12. PICK F : /\ F = RunningSum(n, base, h)
                /\ F[1..0] = base
                /\ \A k \in 0..n : F[1..k] \in Int
                /\ \A k \in 1..n : F[1..k] = F[1..(k - 1)] + h[k]
  BY <1>3, <1>7, <1>11, SumFold
<1> DEFINE S == {k \in 0..n : F[1..k] = sums[k]}
<1>13. 0 \in S
  BY <1>3, <1>6, <1>11, <1>12
<1>14. \A k \in 1..n : k - 1 \in S => k \in S
  <2> SUFFICES ASSUME NEW k \in 1..n, k - 1 \in S
               PROVE  F[1..k] = sums[k] /\ k \in 0..n
    OBVIOUS
  <2>1. F[1..(k - 1)] = sums[k - 1] /\ k \in 1..Len(g.items) /\ k \in 0..n
    BY <1>3
  <2>2. F[1..k] = F[1..(k - 1)] + h[k]
    BY <1>12
  <2> QED
    BY <1>6, <1>7, <2>1, <2>2
<1>15. n \in S
  <2> HIDE DEF S
  <2>1. \A k \in 0..n : k \in S
    BY <1>3, <1>13, <1>14, PrefixInduction
  <2> QED
    BY <1>3, <2>1
<1> QED
  BY <1>4, <1>5, <1>10, <1>12, <1>15 DEF n

\* The item's words are among those of the group.
LEMMA SumsGrow ==
  ASSUME NEW args, NEW g \in GroupsOf(args), NEW sums, Follow(args, g, sums), NEW k \in 1..Len(g.items)
  PROVE  /\ sums[k - 1] \in Nat /\ WordCount(args[g.items[k]]) \in Nat /\ WordCount(args[g.items[k]]) >= 1
         /\ sums[k - 1] + WordCount(args[g.items[k]]) <= g.words
<1> DEFINE n == Len(g.items)
<1>1. n \in Nat /\ n >= 1
  BY GroupFields
<1>2. /\ sums \in [0..n -> Nat] /\ g.words = sums[n]
      /\ \A j \in 1..n : sums[j] = sums[j - 1] + WordCount(args[g.items[j]])
      /\ \A j \in 1..n : IsAddress(args[g.items[j]])
  BY DEF Follow, Sums
<1> HIDE DEF n
<1>3. \A j \in 1..n : WordCount(args[g.items[j]]) \in Nat /\ WordCount(args[g.items[j]]) >= 1
  BY <1>2, WordCountType
<1>4. k \in 1..n /\ k \in 0..n /\ k - 1 \in 0..n
  BY <1>1 DEF n
<1> DEFINE S == {j \in 0..n : j < k \/ sums[j] >= sums[k]}
<1>5. 0 \in S
  BY <1>1, <1>4
<1>6. ASSUME NEW j \in 1..n, j - 1 \in S
      PROVE  j \in S
  <2>0. j \in 0..n /\ j - 1 \in 0..n
    BY <1>1
  <2>1. sums[j] = sums[j - 1] + WordCount(args[g.items[j]]) /\ j \in 0..n /\ j - 1 \in 0..n
    <3>1. sums[j] = sums[j - 1] + WordCount(args[g.items[j]])
      BY <1>2
    <3> QED
      BY <2>0, <3>1
  <2>2. sums[j] \in Nat /\ sums[j - 1] \in Nat /\ sums[k] \in Nat /\ sums[j] >= sums[j - 1]
    <3> DEFINE w == WordCount(args[g.items[j]])
    <3>1. w \in Nat /\ sums[j] = sums[j - 1] + w
      BY <1>3, <2>1
    <3>2. sums[j] \in Nat /\ sums[j - 1] \in Nat /\ sums[k] \in Nat
      BY <1>2, <1>4, <2>0
    <3> HIDE DEF w
    <3> QED
      BY <3>1, <3>2
  <2>3. CASE j - 1 < k
    <3>1. j < k \/ j = k
      BY <1>4, <2>1, <2>3
    <3> QED
      BY <2>1, <2>2, <3>1
  <2>4. CASE ~(j - 1 < k)
    <3>1. sums[j - 1] >= sums[k]
      BY <1>6, <2>4
    <3> QED
      BY <2>1, <2>2, <3>1
  <2> QED
    BY <2>3, <2>4
<1>7. n \in S
  <2> HIDE DEF S
  <2>1. \A j \in 0..n : j \in S
    BY <1>1, <1>5, <1>6, PrefixInduction
  <2>2. n \in 0..n
    BY <1>1
  <2> QED
    BY <2>1, <2>2
<1>8. sums[n] >= sums[k]
  BY <1>1, <1>4, <1>7
<1>9. sums[k] = sums[k - 1] + WordCount(args[g.items[k]]) /\ sums[k - 1] \in Nat
  BY <1>2, <1>4
<1> QED
  BY <1>2, <1>3, <1>4, <1>8, <1>9

--------------------------------------------------------------------------------

(* What the PLC's answers hold *)

Cut(n) == n % 65536

LEMMA CutType ==
  ASSUME NEW n \in Nat
  PROVE  Cut(n) \in Nat /\ (n < 65536 => Cut(n) = n)
  BY SMT DEF Cut

LEMMA CutLimit ==
  ASSUME NEW n \in Nat, n <= Limit
  PROVE  Cut(n) = n
  BY SMT DEF Cut, Limit

LEMMA NoWrap ==
  ASSUME NEW addr \in Addrs, NEW before \in Nat, NEW words \in Nat, before < words, addr + words <= 65536
  PROVE  (addr + before) % 65536 = addr + before
<1>1. addr \in Nat
  BY AddrsNat
<1> QED
  BY <1>1, SMT

LEMMA StretchOf ==
  ASSUME NEW area \in DOMAIN AreaCode, NEW addr \in Addrs, NEW n \in Nat, NEW bit \in Nat
  PROVE  /\ Words(area, addr, n) \in Memory /\ BitsFrom(area, addr, bit, n) \in Memory
         /\ Words(area, addr, n).area = area /\ Words(area, addr, n).unit = "word"
         /\ Words(area, addr, n).off = 2 * addr /\ Words(area, addr, n).len = 2 * n
         /\ BitsFrom(area, addr, bit, n).len = n
<1>1. area \in DOMAIN AreaCode \cup {"CPU"} /\ addr \in Nat
  BY AddrsNat
<1> QED
  BY <1>1 DEF Words, BitsFrom, Memory

LEMMA DataType ==
  ASSUME NEW s \in Memory
  PROVE  Data(<<s>>) \in Frames /\ Data(<<s>>).kind = "data" /\ Data(<<s>>).data = <<s>>
<1>1. <<s>> \in Seq(Memory)
  OBVIOUS
<1> QED
  BY <1>1 DEF Data, Frames

LEMMA OtherType ==
  ASSUME NEW kind \in {"endcode", "error", "header", "body"}
  PROVE  Other(kind) \in Frames /\ Other(kind).kind # "data"
<1>1. <<>> \in Seq(Memory)
  OBVIOUS
<1> QED
  BY <1>1 DEF Other, Frames

\* A read is answered by the bytes from its address on, if they are there.
LEMMA AnswerOfRead ==
  ASSUME NEW area \in DOMAIN AreaCode, NEW addr \in Addrs, NEW bit \in 0..15, NEW count \in Nat,
         NEW bits \in BOOLEAN, NEW answer, answer = ReadAnswer(area, addr, bit, count, bits)
  PROVE  /\ answer \in Frames
         /\ answer.kind = "data" =>
              /\ Cut(count) >= 1
              /\ bits => answer.data = <<BitsFrom(area, addr, bit, Cut(count))>>
              /\ ~bits => addr + Cut(count) <= 65536 /\ answer.data = <<Words(area, addr, Cut(count))>>
<1> DEFINE n == Cut(count)
           s == IF bits THEN BitsFrom(area, addr, bit, n) ELSE Words(area, addr, n)
           none == n = 0 \/ n > Limit \/ (~bits /\ addr + n > 65536)
<1>1. answer = IF none THEN Other("endcode") ELSE Data(<<s>>)
  BY DEF ReadAnswer, Cut
<1>2. n \in Nat /\ addr \in Nat /\ bit \in Nat
  BY CutType, AddrsNat
<1> HIDE DEF n
<1>3. s \in Memory
  <2>1. BitsFrom(area, addr, bit, n) \in Memory /\ Words(area, addr, n) \in Memory
    BY <1>2, StretchOf
  <2> QED
    BY <2>1
<1>4. ~none => n >= 1 /\ (~bits => ~(addr + n > 65536))
  BY <1>2
<1>5. \A x \in Nat : ~(x > 65536) => x <= 65536
  OBVIOUS
<1>6. addr + n \in Nat
  BY <1>2
<1> HIDE DEF none, s
<1>7. CASE none
  <2>1. answer = Other("endcode")
    BY <1>1, <1>7
  <2> QED
    BY <2>1, OtherType
<1>8. CASE ~none
  <2>1. answer = Data(<<s>>)
    BY <1>1, <1>8
  <2>2. answer \in Frames /\ answer.data = <<s>>
    BY <1>3, <2>1, DataType
  <2> QED
    BY <1>4, <1>5, <1>6, <1>8, <2>2 DEF s, n
<1> QED
  BY <1>7, <1>8

(* The results of a group *)

\* What the group's answer gives for one of its items.
GroupResult(g, answer, i) ==
  Success(op.args[i].count, Slice(Slice(answer.data, 0, 2 * Cut(g.words)),
                                  2 * Offset(g, i), 2 * WordCount(op.args[i])))

LEMMA GroupResultType ==
  ASSUME NEW g \in GroupsOf(op.args), NEW i \in ToSet(g.items), NEW answer \in Frames
  PROVE  /\ GroupResult(g, answer, i) \in Results(Memory)
         /\ GroupResult(g, answer, i).count = op.args[i].count
         /\ GroupResult(g, answer, i).data = Slice(Slice(answer.data, 0, 2 * Cut(g.words)),
                                                   2 * Offset(g, i), 2 * WordCount(op.args[i]))
<1> DEFINE w == 2 * Cut(g.words)
           from == 2 * Offset(g, i)
           n == 2 * WordCount(op.args[i])
           d == Slice(answer.data, 0, w)
           e == Slice(d, from, n)
<1>1. PICK sums : Follow(op.args, g, sums)
  BY GroupFields
<1>2. g.items \in Seq(DOMAIN op.args) /\ g.words \in Nat
  BY GroupFields
<1>3. Place(g, i) \in 1..Len(g.items) /\ g.items[Place(g, i)] = i
  BY <1>2, PlaceIs
<1>4. IsAddress(op.args[i])
  BY <1>1, <1>3 DEF Follow
<1>5. Offset(g, i) = sums[Place(g, i) - 1]
  BY <1>1, OffsetIs DEF Follow
<1>6. Offset(g, i) \in Nat
  BY <1>1, <1>3, <1>5, SumsGrow
<1>7. WordCount(op.args[i]) \in Nat /\ op.args[i].count \in Nat
  BY <1>4, WordCountType DEF IsAddress
<1>8. w \in Nat /\ from \in Nat /\ n \in Nat
  <2>1. Cut(g.words) \in Nat
    BY <1>2, CutType
  <2> QED
    BY <1>6, <1>7, <2>1
<1>9. answer.data \in Seq(Memory) /\ 0 \in Nat
  BY DEF Frames
<1> HIDE DEF w, from, n
<1>10. d \in Seq(Memory)
  BY <1>8, <1>9, SliceType
<1> HIDE DEF d
<1>11. e \in Seq(Memory)
  BY <1>8, <1>10, SliceType
<1>12. GroupResult(g, answer, i) = Success(op.args[i].count, e)
  BY DEF GroupResult, e, d, from, n, w
<1> HIDE DEF e
<1>13. /\ Success(op.args[i].count, e) \in Results(Memory)
       /\ Success(op.args[i].count, e).count = op.args[i].count /\ Success(op.args[i].count, e).data = e
  BY <1>7, <1>11, SuccessType
<1> QED
  BY <1>12, <1>13 DEF e, d, from, n, w

\* If the answer is the PLC's, and the item's words fit a command, they are the item's own.
LEMMA GroupBytes ==
  ASSUME NEW g \in GroupsOf(op.args), NEW i \in ToSet(g.items), NEW answer,
         answer = ReadAnswer(g.area, g.addr, 0, g.words, g.area = "TK"),
         Took(answer, 2 * Cut(g.words)), Expressible(op.args[i])
  PROVE  Slice(Slice(answer.data, 0, 2 * Cut(g.words)), 2 * Offset(g, i), 2 * WordCount(op.args[i]))
           = <<Wanted(op.args[i])>>
<1> DEFINE a == op.args[i]
           k == Place(g, i)
           n == WordCount(a)
           w == g.words
<1>1. PICK sums : Follow(op.args, g, sums)
  BY GroupFields
<1>2. /\ g.area \in DOMAIN AreaCode /\ g.addr \in Addrs /\ w \in Nat
      /\ g.items \in Seq(DOMAIN op.args) /\ Len(g.items) \in Nat /\ Len(g.items) >= 1
      /\ Len(g.items) > 1 => w <= Limit
  BY GroupFields
<1>3. k \in 1..Len(g.items) /\ g.items[k] = i
  BY <1>2, PlaceIs
<1>4. IsAddress(a) /\ IsWord(a) /\ a.area = g.area /\ a.addr = (g.addr + sums[k - 1]) % 65536
  BY <1>1, <1>3 DEF Follow
<1>5. sums[k - 1] \in Nat /\ n \in Nat /\ n >= 1 /\ sums[k - 1] + n <= w
  BY <1>1, <1>3, SumsGrow
<1>6. Offset(g, i) = sums[k - 1]
  BY <1>1, OffsetIs DEF Follow
<1> DEFINE before == sums[k - 1]
<1> HIDE DEF before
<1>7. Cut(w) = w
  <2>1. CASE Len(g.items) > 1
    BY <1>2, <2>1, CutLimit
  <2>2. CASE ~(Len(g.items) > 1)
    <3>1. Len(g.items) = 1 /\ k = 1
      <4> DEFINE m == Len(g.items)
      <4>1. m \in Nat /\ m >= 1 /\ k \in 1..m /\ ~(m > 1)
        BY <1>2, <1>3, <2>2
      <4> HIDE DEF m, k
      <4>2. m = 1 /\ k = 1
        BY <4>1
      <4> QED
        BY <4>2 DEF m
    <3>2. w = sums[1] /\ sums[1] = sums[1 - 1] + WordCount(op.args[g.items[1]]) /\ sums[0] = 0
      BY <1>1, <3>1 DEF Follow, Sums
    <3>3. w = 0 + n
      BY <1>3, <3>1, <3>2
    <3>4. w = n /\ n < 65536
      <4>1. n < 65536
        BY DEF Expressible
      <4> QED
        BY <1>5, <3>3, <4>1
    <3> QED
      BY <1>2, <3>4, CutType
  <2> QED
    BY <2>1, <2>2
<1> HIDE DEF k, n, w
<1>8. answer.kind = "data" /\ Bytes(answer.data) >= 2 * w
  BY <1>7 DEF Took, w
<1> DEFINE bits == g.area = "TK"
           bit == 0
<1>9. bits \in BOOLEAN /\ bit \in 0..15
  OBVIOUS
<1>10. answer = ReadAnswer(g.area, g.addr, bit, g.words, bits)
  OBVIOUS
<1> HIDE DEF bits, bit
<1>11. /\ Cut(w) >= 1
       /\ bits => answer.data = <<BitsFrom(g.area, g.addr, bit, Cut(w))>>
       /\ ~bits => g.addr + Cut(w) <= 65536 /\ answer.data = <<Words(g.area, g.addr, Cut(w))>>
  <2>1. g.area \in DOMAIN AreaCode /\ g.addr \in Addrs /\ g.words \in Nat /\ w = g.words
    BY <1>2 DEF w
  <2>2. answer.kind = "data"
    BY <1>8
  <2>3. answer.kind = "data" =>
              /\ Cut(g.words) >= 1
              /\ bits => answer.data = <<BitsFrom(g.area, g.addr, bit, Cut(g.words))>>
              /\ ~bits => /\ g.addr + Cut(g.words) <= 65536
                         /\ answer.data = <<Words(g.area, g.addr, Cut(g.words))>>
    <3> DEFINE area == g.area
               addr == g.addr
               count == g.words
    <3>1. /\ area \in DOMAIN AreaCode /\ addr \in Addrs /\ bit \in 0..15 /\ count \in Nat
          /\ bits \in BOOLEAN /\ answer = ReadAnswer(area, addr, bit, count, bits)
      BY <1>9, <1>10, <2>1
    <3> HIDE DEF area, addr, count
    <3>2. answer.kind = "data" =>
              /\ Cut(count) >= 1
              /\ bits => answer.data = <<BitsFrom(area, addr, bit, Cut(count))>>
              /\ ~bits => addr + Cut(count) <= 65536 /\ answer.data = <<Words(area, addr, Cut(count))>>
      BY <3>1, AnswerOfRead
    <3> QED
      BY <3>2 DEF area, addr, count
  <2> QED
    BY <2>1, <2>2, <2>3
<1>12. g.addr \in Nat /\ bit \in Nat
  BY <1>2, <1>9, AddrsNat
<1>13. ~bits
  <2> SUFFICES ASSUME bits
               PROVE  FALSE
    OBVIOUS
  <2> DEFINE s == BitsFrom(g.area, g.addr, bit, w)
  <2>1. s.len = w /\ answer.data = <<s>>
    <3>1. s.len = w
      <4>1. g.area \in DOMAIN AreaCode /\ g.addr \in Addrs /\ w \in Nat /\ bit \in Nat
        BY <1>2, <1>12
      <4> QED
        BY <4>1, StretchOf
    <3>2. answer.data = <<s>>
      BY <1>7, <1>11
    <3> QED
      BY <3>1, <3>2
  <2> HIDE DEF s
  <2>2. Bytes(<<s>>) = w
    BY <1>2, <2>1, BytesOne
  <2> QED
    BY <1>2, <1>7, <1>8, <1>11, <2>1, <2>2
<1> DEFINE s == Words(g.area, g.addr, w)
<1>14. /\ answer.data = <<s>> /\ g.addr + w <= 65536 /\ s \in Memory
       /\ s.area = g.area /\ s.unit = "word" /\ s.off = 2 * g.addr /\ s.len = 2 * w
  <2>1. answer.data = <<s>> /\ g.addr + w <= 65536
    BY <1>7, <1>11, <1>13
  <2>2. /\ s \in Memory /\ s.area = g.area /\ s.unit = "word" /\ s.off = 2 * g.addr /\ s.len = 2 * w
    <3>1. g.area \in DOMAIN AreaCode /\ g.addr \in Addrs /\ w \in Nat /\ bit \in Nat
      BY <1>2, <1>12
    <3> QED
      BY <3>1, StretchOf
  <2> QED
    BY <2>1, <2>2
<1>15. a.addr = g.addr + before
  <2>1. before \in Nat /\ before < w
    BY <1>2, <1>5 DEF before
  <2>2. (g.addr + before) % 65536 = g.addr + before
    BY <1>2, <1>14, <2>1, NoWrap
  <2> QED
    BY <1>4, <2>2 DEF before
<1> HIDE DEF s
<1>16. Slice(<<s>>, 0, 2 * w) = <<s>>
  <2> DEFINE len == 2 * w
             none == 0
  <2>1. none \in Nat /\ len \in Nat /\ len > 0 /\ none + len <= s.len /\ s.off + none = s.off
    <3>1. s.off \in Nat
      BY <1>12, <1>14
    <3> QED
      BY <1>2, <1>7, <1>11, <1>14, <3>1
  <2> HIDE DEF len, none
  <2>2. Slice(<<s>>, none, len) = <<[area |-> s.area, unit |-> s.unit, off |-> s.off + none, len |-> len]>>
    BY <1>14, <2>1, SliceOne
  <2>3. s = [area |-> s.area, unit |-> s.unit, off |-> s.off, len |-> s.len]
    BY <1>14 DEF Memory
  <2>4. [area |-> s.area, unit |-> s.unit, off |-> s.off + none, len |-> len] = s
    BY <1>14, <2>1, <2>3 DEF len
  <2> QED
    BY <2>2, <2>4 DEF len, none
<1>17. Slice(<<s>>, 2 * before, 2 * n) = <<Words(g.area, g.addr + before, n)>>
  <2> DEFINE from == 2 * before
             len == 2 * n
  <2>1. /\ from \in Nat /\ len \in Nat /\ len > 0 /\ from + len <= s.len
        /\ s.off + from = 2 * (g.addr + before)
    <3>1. before \in Nat /\ n \in Nat /\ n >= 1 /\ before + n <= w
      BY <1>5 DEF before
    <3> QED
      BY <1>2, <1>12, <1>14, <3>1
  <2> HIDE DEF from
  <2>2. Slice(<<s>>, from, len) = <<[area |-> s.area, unit |-> s.unit, off |-> s.off + from, len |-> len]>>
    BY <1>14, <2>1, SliceOne
  <2> QED
    BY <1>14, <2>1, <2>2 DEF Words, from
<1>18. Wanted(a) = Words(g.area, g.addr + before, n)
  BY <1>4, <1>15 DEF Wanted, IsWord, n
<1>19. Cut(g.words) = w /\ Offset(g, i) = before /\ WordCount(op.args[i]) = n
  BY <1>6, <1>7 DEF n, w, before, k
<1> QED
  BY <1>14, <1>16, <1>17, <1>18, <1>19

LEMMA GroupRead ==
  ASSUME NEW g \in GroupsOf(op.args), NEW i \in ToSet(g.items), NEW answer \in Frames,
         Took(answer, 2 * Cut(g.words)), NEW str,
         ~str => answer \in {ReadAnswer(g.area, g.addr, 0, g.words, g.area = "TK"),
                             Other("endcode"), Other("error")}
  PROVE  /\ GroupResult(g, answer, i) \in Results(Memory)
         /\ Right(op.args[i], GroupResult(g, answer, i), str)
<1> DEFINE r == GroupResult(g, answer, i)
           a == op.args[i]
<1>1. /\ r \in Results(Memory) /\ r.count = a.count
      /\ r.data = Slice(Slice(answer.data, 0, 2 * Cut(g.words)), 2 * Offset(g, i), 2 * WordCount(a))
  BY GroupResultType
<1>2. a # BadAddress
  <2>1. PICK sums : Follow(op.args, g, sums)
    BY GroupFields
  <2>2. Place(g, i) \in 1..Len(g.items) /\ g.items[Place(g, i)] = i
    BY GroupFields, PlaceIs
  <2> QED
    BY <2>1, <2>2 DEF Follow, IsAddress
<1>3. ~str /\ Expressible(a) => r.data = <<Wanted(a)>>
  <2> SUFFICES ASSUME ~str, Expressible(a)
               PROVE  r.data = <<Wanted(a)>>
    OBVIOUS
  <2>1. answer.kind = "data"
    BY DEF Took
  <2>2. answer = ReadAnswer(g.area, g.addr, 0, g.words, g.area = "TK")
    BY <2>1, OtherType
  <2> QED
    BY <1>1, <2>2, GroupBytes
<1> HIDE DEF r, a
<1> QED
  BY <1>1, <1>2, <1>3 DEF Right, r, a

--------------------------------------------------------------------------------

(* The results of the other commands *)

\* A group of one word is of one request, at its address.
LEMMA OneWord ==
  ASSUME NEW args, NEW g \in GroupsOf(args), g.words = 1, NEW i \in ToSet(g.items)
  PROVE  /\ args[i] # BadAddress /\ WordCount(args[i]) = 1
         /\ Wanted(args[i]) = Words(g.area, g.addr, 1)
<1> DEFINE k == Place(g, i)
<1>1. PICK sums : Follow(args, g, sums)
  BY GroupFields
<1>2. g.addr \in Addrs
  BY GroupFields
<1>3. k \in 1..Len(g.items) /\ g.items[k] = i
  BY GroupFields, PlaceIs
<1>4. /\ IsAddress(args[i]) /\ IsWord(args[i]) /\ args[i].area = g.area
      /\ args[i].addr = (g.addr + sums[k - 1]) % 65536
  BY <1>1, <1>3 DEF Follow
<1>5. sums[k - 1] \in Nat /\ WordCount(args[i]) \in Nat /\ WordCount(args[i]) >= 1
      /\ sums[k - 1] + WordCount(args[i]) <= g.words
  BY <1>1, <1>3, SumsGrow
<1>6. sums[k - 1] = 0 /\ WordCount(args[i]) = 1
  BY <1>5
<1>7. args[i].addr = g.addr
  <2>1. g.addr \in Nat /\ g.addr <= 65535 /\ g.addr + 0 = g.addr
    BY <1>2, AddrsNat
  <2>2. g.addr % 65536 = g.addr
    BY <2>1, Within16
  <2> QED
    BY <1>4, <1>6, <2>1, <2>2
<1> QED
  BY <1>4, <1>6, <1>7 DEF Wanted, IsWord, IsAddress

MultiPlace(groups, i) == CHOOSE g \in DOMAIN groups : i \in ToSet(groups[g].items)

MultiResult(groups, answer, i) == Success(1, Slice(answer.data, 2 * (MultiPlace(groups, i) - 1), 2))

FirstWords(groups) == [j \in DOMAIN groups |-> Words(groups[j].area, groups[j].addr, 1)]

LEMMA FirstWordsType ==
  ASSUME NEW args, NEW groups \in Seq(GroupsOf(args))
  PROVE  /\ FirstWords(groups) \in Seq(Memory) /\ DOMAIN FirstWords(groups) = DOMAIN groups
         /\ Len(FirstWords(groups)) = Len(groups)
         /\ \A j \in 1..Len(groups) : /\ FirstWords(groups)[j].len = 2
                                      /\ FirstWords(groups)[j] = Words(groups[j].area, groups[j].addr, 1)
<1> DEFINE n == Len(groups)
           one == 1
           d == [j \in 1..n |-> Words(groups[j].area, groups[j].addr, one)]
<1>1. n \in Nat /\ DOMAIN groups = 1..n /\ \A j \in 1..n : groups[j] \in GroupsOf(args)
  OBVIOUS
<1>2. one \in Nat /\ 2 * one = 2
  OBVIOUS
<1> HIDE DEF n, one
<1>3. ASSUME NEW j \in 1..n
      PROVE  /\ Words(groups[j].area, groups[j].addr, one) \in Memory
             /\ Words(groups[j].area, groups[j].addr, one).len = 2
  <2> DEFINE area == groups[j].area
             addr == groups[j].addr
  <2>1. area \in DOMAIN AreaCode /\ addr \in Addrs
    BY <1>1, GroupFields
  <2> HIDE DEF area, addr
  <2>2. Words(area, addr, one) \in Memory /\ Words(area, addr, one).len = 2 * one
    BY <1>2, <2>1, StretchOf
  <2> QED
    BY <1>2, <2>2 DEF area, addr
<1>4. d \in Seq(Memory) /\ Len(d) = n
  BY <1>1, <1>3
<1>5. FirstWords(groups) = d
  BY <1>1 DEF FirstWords, one
<1>6. DOMAIN d = 1..n /\ \A j \in 1..n : d[j] = Words(groups[j].area, groups[j].addr, one)
  OBVIOUS
<1> HIDE DEF d
<1> QED
  BY <1>1, <1>3, <1>4, <1>5, <1>6 DEF n, one

LEMMA MultiRead ==
  ASSUME NEW groups \in Seq(GroupsOf(op.args)), \A g \in DOMAIN groups : groups[g].words = 1,
         NEW i, InSome(groups, i), NEW answer \in Frames, Took(answer, 2 * Len(groups)), NEW str,
         ~str => answer \in {Data(FirstWords(groups)), Other("endcode"), Other("error")}
  PROVE  /\ MultiResult(groups, answer, i) \in Results(Memory)
         /\ Right(op.args[i], MultiResult(groups, answer, i), str)
<1> DEFINE g == MultiPlace(groups, i)
           from == 2 * (g - 1)
           n == 2
           d == Slice(answer.data, from, n)
           one == 1
           r == MultiResult(groups, answer, i)
<1>1. DOMAIN groups = 1..Len(groups) /\ Len(groups) \in Nat
  OBVIOUS
<1>2. g \in DOMAIN groups /\ i \in ToSet(groups[g].items)
  BY DEF InSome, MultiPlace
<1>3. groups[g] \in GroupsOf(op.args) /\ groups[g].words = 1
  BY <1>2
<1>4. /\ op.args[i] # BadAddress /\ WordCount(op.args[i]) = 1
      /\ Wanted(op.args[i]) = Words(groups[g].area, groups[g].addr, 1)
  BY <1>2, <1>3, OneWord
<1>5. g \in 1..Len(groups)
  BY <1>1, <1>2
<1> HIDE DEF g
<1>6. from \in Nat /\ n \in Nat /\ one \in Nat
  BY <1>1, <1>5
<1>7. answer.data \in Seq(Memory)
  BY DEF Frames
<1> HIDE DEF n, from
<1>8. d \in Seq(Memory)
  BY <1>6, <1>7, SliceType
<1>9. r = Success(one, d)
  BY DEF MultiResult, d, from, n, g
<1> HIDE DEF d, one, r
<1>10. r \in Results(Memory) /\ r.data = d
  BY <1>6, <1>8, <1>9, SuccessType
<1>11. ~str => d = <<Words(groups[g].area, groups[g].addr, 1)>>
  <2> SUFFICES ASSUME ~str
               PROVE  d = <<Words(groups[g].area, groups[g].addr, 1)>>
    OBVIOUS
  <2> DEFINE w == FirstWords(groups)
  <2>1. answer.kind = "data"
    BY DEF Took
  <2>2. answer = Data(w)
    BY <2>1, OtherType
  <2>3. answer.data = w
    BY <2>2 DEF Data
  <2>4. /\ w \in Seq(Memory) /\ Len(w) = Len(groups) /\ \A j \in 1..Len(groups) : w[j].len = 2
        /\ w[g] = Words(groups[g].area, groups[g].addr, 1)
    BY <1>5, FirstWordsType
  <2> HIDE DEF w
  <2>5. Slice(w, 2 * (g - 1), 2) = <<w[g]>>
    <3>1. \A j \in 1..Len(w) : w[j].len = 2
      BY <2>4
    <3>2. g \in 1..Len(w)
      BY <1>5, <2>4
    <3> QED
      BY <2>4, <3>1, <3>2, SliceWord
  <2> QED
    BY <2>3, <2>4, <2>5 DEF d, from, n
<1> QED
  BY <1>4, <1>10, <1>11 DEF Right, r

\* The bits of one request.
BitsResult(a, answer) == Success(a.count, Slice(answer.data, 0, Cut(a.count)))

LEMMA BitsRead ==
  ASSUME NEW a, IsAddress(a), IsBit(a), NEW answer \in Frames, Took(answer, Cut(a.count)), NEW str,
         ~str => answer \in {ReadAnswer(a.area, a.addr, a.bit, a.count, a.area \in BitAreas),
                             Other("endcode"), Other("error")}
  PROVE  BitsResult(a, answer) \in Results(Memory) /\ Right(a, BitsResult(a, answer), str)
<1> DEFINE n == Cut(a.count)
           none == 0
           d == Slice(answer.data, none, n)
           r == BitsResult(a, answer)
<1>1. a # BadAddress /\ a.area \in DOMAIN AreaCode /\ a.addr \in Addrs /\ a.bit \in 0..15 /\ a.count \in Nat
  BY DEF IsAddress
<1>2. n \in Nat /\ none \in Nat /\ none = 0
  BY <1>1, CutType
<1>3. answer.data \in Seq(Memory)
  BY DEF Frames
<1> HIDE DEF n, none
<1>4. d \in Seq(Memory)
  BY <1>2, <1>3, SliceType
<1>5. r = Success(a.count, d)
  BY DEF BitsResult, d, n, none
<1> HIDE DEF d, r
<1>6. r \in Results(Memory) /\ r.data = d /\ r.count = a.count
  BY <1>1, <1>4, <1>5, SuccessType
<1>7. ASSUME ~str, Expressible(a)
      PROVE  d = <<Wanted(a)>>
  <2> DEFINE bits == a.area \in BitAreas
             s == BitsFrom(a.area, a.addr, a.bit, n)
  <2>1. answer.kind = "data"
    BY DEF Took
  <2>2. answer = ReadAnswer(a.area, a.addr, a.bit, a.count, bits)
    BY <1>7, <2>1, OtherType
  <2>3. bits \in BOOLEAN /\ bits
    BY <1>7 DEF Expressible, IsBit
  <2> HIDE DEF bits
  <2>4. n >= 1 /\ answer.data = <<s>>
    <3> DEFINE area == a.area
               addr == a.addr
               bit == a.bit
               count == a.count
    <3>1. /\ area \in DOMAIN AreaCode /\ addr \in Addrs /\ bit \in 0..15 /\ count \in Nat
          /\ bits \in BOOLEAN /\ answer = ReadAnswer(area, addr, bit, count, bits)
      BY <1>1, <2>2, <2>3
    <3> HIDE DEF area, addr, bit, count
    <3>2. answer.kind = "data" =>
              /\ Cut(count) >= 1
              /\ bits => answer.data = <<BitsFrom(area, addr, bit, Cut(count))>>
              /\ ~bits => addr + Cut(count) <= 65536 /\ answer.data = <<Words(area, addr, Cut(count))>>
      BY <3>1, AnswerOfRead
    <3> QED
      BY <2>1, <2>3, <3>2 DEF area, addr, bit, count, n
  <2>5. s \in Memory /\ s.len = n
    <3>1. a.bit \in Nat
      BY <1>1
    <3> QED
      BY <1>1, <1>2, <3>1, StretchOf
  <2>6. s.off \in Nat /\ s = [area |-> s.area, unit |-> s.unit, off |-> s.off, len |-> s.len]
    BY <2>5 DEF Memory
  <2> HIDE DEF s
  <2>7. Slice(<<s>>, none, n) = <<[area |-> s.area, unit |-> s.unit, off |-> s.off + none, len |-> n]>>
    <3>1. n > 0 /\ none + n <= s.len
      BY <1>2, <2>4, <2>5
    <3> QED
      BY <1>2, <2>5, <3>1, SliceOne
  <2>8. d = <<s>>
    <3>1. s.off + none = s.off
      BY <1>2, <2>6
    <3> QED
      BY <2>4, <2>5, <2>6, <2>7, <3>1 DEF d
  <2>9. n = a.count
    <3>1. TypeSize(a.type) = 2
      BY DEF IsBit, TypeSize
    <3>2. WordCount(a) < 65536
      BY <1>7 DEF Expressible
    <3>3. a.count < 65536
      <4> DEFINE count == a.count
      <4>1. count \in Nat /\ WordCount(a) = IF (2 * count + 1) \div 2 < 1 THEN 1 ELSE (2 * count + 1) \div 2
        BY <1>1, <3>1 DEF WordCount
      <4> HIDE DEF count
      <4>2. (2 * count + 1) \div 2 = count
        BY <4>1
      <4>3. count = 0 \/ count = WordCount(a)
        BY <4>1, <4>2
      <4> QED
        BY <3>2, <4>3 DEF count
    <3> QED
      BY <1>1, <3>3, CutType DEF n
  <2>10. Wanted(a) = s
    BY <2>9 DEF Wanted, IsBit, s
  <2> QED
    BY <2>8, <2>10
<1> QED
  BY <1>1, <1>6, <1>7 DEF Right, r

--------------------------------------------------------------------------------

(* A command of a read *)

Filled(results) ==
  [i \in DOMAIN op.results |-> IF i \in DOMAIN results THEN results[i] ELSE op.results[i]]

LEMMA FillIs ==
  ASSUME DOMAIN op = Fields, NEW results
  PROVE  /\ DOMAIN Fill(results) = Fields
         /\ Fill(results).jobs = Tail(op.jobs) /\ Fill(results).results = Filled(results)
         /\ Fill(results).at = op.at /\ Fill(results).kind = op.kind /\ Fill(results).args = op.args
         /\ Fill(results).wrote = op.wrote /\ Fill(results).failed = op.failed
         /\ Fill(results).broke = op.broke
<1> DEFINE filled == Filled(results)
<1>1. Fill(results) = [op EXCEPT !.jobs = Tail(op.jobs), !.results = filled]
  BY DEF Fill, Filled
<1> HIDE DEF filled
<1>2. /\ DOMAIN Fill(results) = Fields
      /\ Fill(results).jobs = Tail(op.jobs) /\ Fill(results).results = filled
      /\ Fill(results).at = op.at /\ Fill(results).kind = op.kind /\ Fill(results).args = op.args
      /\ Fill(results).wrote = op.wrote /\ Fill(results).failed = op.failed
      /\ Fill(results).broke = op.broke
  BY <1>1 DEF Fields
<1> QED
  BY <1>2 DEF filled

LEMMA FillWords ==
  ASSUME DOMAIN op = Fields, NEW str, WordsRead(op.args, op.jobs, op.results, str), op.jobs # <<>>,
         NEW now \in BOOLEAN, str => now, NEW R, \A i : i \in DOMAIN R <=> i \in Items(Head(op.jobs)),
         \A i \in DOMAIN R : R[i] \in Results(Memory) /\ Right(op.args[i], R[i], now)
  PROVE  WordsRead(op.args, Fill(R).jobs, Fill(R).results, now)
<1> DEFINE next == Filled(R)
           args == op.args
<1>1. Fill(R).jobs = Tail(op.jobs) /\ Fill(R).results = next
  BY FillIs
<1>2. DOMAIN next = DOMAIN args
  BY DEF Filled, WordsRead
<1>3. \A i \in DOMAIN args : next[i] = IF i \in DOMAIN R THEN R[i] ELSE op.results[i]
  BY DEF Filled, WordsRead
<1> HIDE DEF next
<1>4. \A i \in DOMAIN args :
           IF i \in Items(Head(op.jobs)) THEN next[i] \in Results(Memory) /\ Right(args[i], next[i], now)
           ELSE next[i] = op.results[i]
  BY <1>3
<1>5. WordsRead(args, Tail(op.jobs), next, now)
  BY <1>2, <1>4, WordsFill
<1> QED
  BY <1>1, <1>5

LEMMA JobKinds ==
  ASSUME NEW args, NEW job \in JobsOf(args)
  PROVE  \/ \E g \in GroupsOf(args) : job = Job("group", <<g>>)
         \/ \E groups \in Seq(GroupsOf(args)) :
              job = Job("multi", groups) /\ \A g \in DOMAIN groups : groups[g].words = 1
         \/ \E i \in DOMAIN args : job = Job("bits", <<NewGroup(args, i)>>) /\ IsBit(args[i])
  BY DEF JobsOf

LEMMA JobFields ==
  ASSUME NEW kind, NEW groups
  PROVE  Job(kind, groups).kind = kind /\ Job(kind, groups).groups = groups
  BY DEF Job

LEMMA InOne ==
  ASSUME NEW g, NEW kind, NEW i
  PROVE  i \in Items(Job(kind, <<g>>)) <=> i \in ToSet(g.items)
<1>1. DOMAIN <<g>> = {1} /\ <<g>>[1] = g
  OBVIOUS
<1>2. InSome(<<g>>, i) <=> i \in ToSet(g.items)
  BY <1>1 DEF InSome
<1> QED
  BY <1>2, ItemsOfJob

LEMMA NewGroupFields ==
  ASSUME NEW args, NEW i
  PROVE  /\ NewGroup(args, i).area = args[i].area /\ NewGroup(args, i).addr = args[i].addr
         /\ NewGroup(args, i).items = <<i>> /\ <<i>>[1] = i
         /\ \A k : k \in ToSet(NewGroup(args, i).items) <=> k = i
<1>1. NewGroup(args, i).items = <<i>> /\ <<i>>[1] = i /\ DOMAIN <<i>> = {1}
  BY DEF NewGroup
<1>2. \A k : k \in ToSet(<<i>>) <=> k = i
  BY <1>1 DEF ToSet
<1> QED
  BY <1>1, <1>2 DEF NewGroup

\* What the PLC may answer, in the terms of the lemmas above.
LEMMA GroupAnswer ==
  ASSUME NEW g
  PROVE  FinsAnswer(Job("group", <<g>>)) = ReadAnswer(g.area, g.addr, 0, g.words, g.area = "TK")
<1>1. Job("group", <<g>>).kind = "group" /\ Job("group", <<g>>).groups[1] = g
  BY JobFields
<1> QED
  BY <1>1 DEF FinsAnswer

LEMMA MultiAnswer ==
  ASSUME NEW groups
  PROVE  FinsAnswer(Job("multi", groups)) = Data(FirstWords(groups))
<1>1. Job("multi", groups).kind = "multi" /\ Job("multi", groups).groups = groups
  BY JobFields
<1> QED
  BY <1>1 DEF FinsAnswer, FirstWords

LEMMA BitsAnswer ==
  ASSUME NEW i
  PROVE  LET a == op.args[i]
         IN  FinsAnswer(Job("bits", <<NewGroup(op.args, i)>>))
               = ReadAnswer(a.area, a.addr, a.bit, a.count, a.area \in BitAreas)
<1> DEFINE g == NewGroup(op.args, i)
           job == Job("bits", <<g>>)
<1>1. job.kind = "bits" /\ job.groups[1] = g
  BY JobFields
<1>2. g.area = op.args[i].area /\ g.addr = op.args[i].addr /\ g.items[1] = i
  BY NewGroupFields
<1> HIDE DEF g, job
<1>3. FinsAnswer(job) = ReadAnswer(g.area, g.addr, op.args[i].bit, op.args[i].count, g.area \in BitAreas)
  BY <1>1, <1>2 DEF FinsAnswer
<1> QED
  BY <1>2, <1>3 DEF g, job

LEMMA ReadAnswerType ==
  ASSUME NEW area \in DOMAIN AreaCode, NEW addr \in Addrs, NEW bit \in 0..15, NEW count \in Nat,
         NEW bits \in BOOLEAN
  PROVE  ReadAnswer(area, addr, bit, count, bits) \in Frames
  BY AnswerOfRead

LEMMA FinsAnswerType ==
  ASSUME IsRequest(op.args), NEW job \in JobsOf(op.args)
  PROVE  FinsAnswer(job) \in Frames
<1>1. ASSUME NEW g \in GroupsOf(op.args), job = Job("group", <<g>>)
      PROVE  FinsAnswer(job) \in Frames
  <2> DEFINE bit == 0
             bits == g.area = "TK"
             area == g.area
             addr == g.addr
             count == g.words
  <2>1. area \in DOMAIN AreaCode /\ addr \in Addrs /\ count \in Nat /\ bit \in 0..15 /\ bits \in BOOLEAN
    BY GroupFields
  <2>2. FinsAnswer(job) = ReadAnswer(area, addr, bit, count, bits)
    BY <1>1, GroupAnswer
  <2> HIDE DEF bit, bits, area, addr, count
  <2> QED
    BY <2>1, <2>2, ReadAnswerType
<1>2. ASSUME NEW groups \in Seq(GroupsOf(op.args)), job = Job("multi", groups)
      PROVE  FinsAnswer(job) \in Frames
  <2>1. FirstWords(groups) \in Seq(Memory)
    BY FirstWordsType
  <2> QED
    BY <1>2, <2>1, MultiAnswer DEF Data, Frames
<1>3. ASSUME NEW i \in DOMAIN op.args, job = Job("bits", <<NewGroup(op.args, i)>>), IsBit(op.args[i])
      PROVE  FinsAnswer(job) \in Frames
  <2> DEFINE area == op.args[i].area
             addr == op.args[i].addr
             bit == op.args[i].bit
             count == op.args[i].count
             bits == area \in BitAreas
  <2>1. IsAddress(op.args[i])
    BY <1>3 DEF IsRequest, IsBit
  <2>2. area \in DOMAIN AreaCode /\ addr \in Addrs /\ count \in Nat /\ bit \in 0..15 /\ bits \in BOOLEAN
    BY <2>1 DEF IsAddress
  <2>3. FinsAnswer(job) = ReadAnswer(area, addr, bit, count, bits)
    BY <1>3, BitsAnswer
  <2> HIDE DEF bit, bits, area, addr, count
  <2> QED
    BY <2>2, <2>3, ReadAnswerType
<1> QED
  BY <1>1, <1>2, <1>3, JobKinds

\* Whatever comes for a command, what has a result then is right.
LEMMA WordsAnswered ==
  ASSUME DOMAIN op = Fields, NEW str, WordsRead(op.args, op.jobs, op.results, str), op.jobs # <<>>,
         NEW now \in BOOLEAN, str => now, NEW answer \in Frames \cup {None},
         ~now => answer \in {None, FinsAnswer(Head(op.jobs)), Other("endcode"), Other("error")}
  PROVE  LET c == AfterFins(Head(op.jobs), answer)
         IN  WordsRead(op.args, c.jobs, c.results, now)
<1> DEFINE job == Head(op.jobs)
           c == AfterFins(job, answer)
<1>1. IsRequest(op.args) /\ job \in JobsOf(op.args)
  <2>1. op.jobs \in Seq(JobsOf(op.args)) /\ IsRequest(op.args)
    BY DEF WordsRead
  <2> DEFINE J == JobsOf(op.args)
  <2>2. op.jobs \in Seq(J)
    BY <2>1
  <2> HIDE DEF J
  <2>3. Head(op.jobs) \in J
    BY <2>2, TailOf
  <2> QED
    BY <2>1, <2>3 DEF J
<1>2. \A a : Failed \in Results(Memory) /\ Right(a, Failed, now)
  BY FailedType DEF Right
<1>3. \A n : Took(answer, n) => answer \in Frames /\ answer.kind = "data"
  BY DEF Took
<1> HIDE DEF job
<1>4. ASSUME NEW g \in GroupsOf(op.args), job = Job("group", <<g>>)
      PROVE  WordsRead(op.args, c.jobs, c.results, now)
  <2> DEFINE took == Took(answer, 2 * Cut(g.words))
             R == [i \in Items(job) |-> IF took THEN GroupResult(g, answer, i) ELSE Failed]
  <2>1. job.kind = "group" /\ job.groups[1] = g
    BY <1>4, JobFields
  <2>2. c = AfterGroup(answer)
    BY <2>1 DEF AfterFins
  <2>3. AfterGroup(answer) = Fill(R)
    BY <2>1 DEF AfterGroup, GroupResult, Cut, job
  <2>4. DOMAIN R = Items(job) /\ \A i \in Items(job) : R[i] = IF took THEN GroupResult(g, answer, i) ELSE Failed
    OBVIOUS
  <2> HIDE DEF R
  <2>5. ASSUME NEW i \in Items(job), took
        PROVE  /\ GroupResult(g, answer, i) \in Results(Memory)
               /\ Right(op.args[i], GroupResult(g, answer, i), now)
    <3>1. i \in ToSet(g.items)
      BY <1>4, InOne
    <3>2. answer \in Frames /\ answer # None
      BY <1>3, <2>5, NotMissing
    <3>3. ~now => answer \in {ReadAnswer(g.area, g.addr, 0, g.words, g.area = "TK"),
                              Other("endcode"), Other("error")}
      BY <1>4, <3>2, GroupAnswer DEF job
    <3> QED
      BY <2>5, <3>1, <3>2, <3>3, GroupRead
  <2> HIDE DEF took
  <2>6. \A i \in DOMAIN R : R[i] \in Results(Memory) /\ Right(op.args[i], R[i], now)
    BY <1>2, <2>4, <2>5
  <2>7. \A i : i \in DOMAIN R <=> i \in Items(Head(op.jobs))
    BY <2>4 DEF job
  <2>8. WordsRead(op.args, Fill(R).jobs, Fill(R).results, now)
    BY <2>6, <2>7, FillWords
  <2> QED
    BY <2>2, <2>3, <2>8
<1>5. ASSUME NEW groups \in Seq(GroupsOf(op.args)), job = Job("multi", groups),
             \A g \in DOMAIN groups : groups[g].words = 1
      PROVE  WordsRead(op.args, c.jobs, c.results, now)
  <2> DEFINE took == Took(answer, 2 * Len(groups))
             R == [i \in Items(job) |-> MultiResult(groups, answer, i)]
  <2>1. job.kind = "multi" /\ job.groups = groups
    BY <1>5, JobFields
  <2>2. c = AfterMulti(answer)
    BY <2>1 DEF AfterFins
  <2>3. AfterMulti(answer) = IF took THEN Fill(R) ELSE [op EXCEPT !.jobs = Alone(groups) \o Tail(op.jobs)]
    <3>1. AfterMulti(answer)
            = IF Took(answer, 2 * Len(job.groups))
              THEN Fill([i \in Items(job) |-> MultiResult(job.groups, answer, i)])
              ELSE [op EXCEPT !.jobs = Alone(job.groups) \o Tail(op.jobs)]
      BY Zenon DEF AfterMulti, MultiResult, MultiPlace, job
    <3> QED
      BY <2>1, <3>1
  <2>4. DOMAIN R = Items(job) /\ \A i \in Items(job) : R[i] = MultiResult(groups, answer, i)
    OBVIOUS
  <2> HIDE DEF R
  <2>5. CASE took
    <3>1. ASSUME NEW i \in Items(job)
          PROVE  /\ MultiResult(groups, answer, i) \in Results(Memory)
                 /\ Right(op.args[i], MultiResult(groups, answer, i), now)
      <4>1. InSome(groups, i)
        BY <1>5, <3>1, ItemsOfJob
      <4>2. answer \in Frames /\ answer # None
        BY <1>3, <2>5, NotMissing
      <4>3. ~now => answer \in {Data(FirstWords(groups)), Other("endcode"), Other("error")}
        BY <1>5, <4>2, MultiAnswer DEF job
      <4> QED
        BY <1>5, <2>5, <4>1, <4>2, <4>3, MultiRead
    <3>2. \A i \in DOMAIN R : R[i] \in Results(Memory) /\ Right(op.args[i], R[i], now)
      BY <2>4, <3>1
    <3>3. \A i : i \in DOMAIN R <=> i \in Items(Head(op.jobs))
      BY <2>4 DEF job
    <3>4. WordsRead(op.args, Fill(R).jobs, Fill(R).results, now)
      BY <3>2, <3>3, FillWords
    <3> QED
      BY <2>2, <2>3, <2>5, <3>4
  <2>6. CASE ~took
    <3> DEFINE jobs == Alone(groups) \o Tail(op.jobs)
    <3>1. c = [op EXCEPT !.jobs = jobs]
      BY <2>2, <2>3, <2>6
    <3>2. Head(op.jobs) = Job("multi", groups)
      BY <1>5 DEF job
    <3>3. WordsRead(op.args, jobs, op.results, now)
      BY <3>2, WordsRetry
    <3> HIDE DEF jobs
    <3>4. c.jobs = jobs /\ c.results = op.results
      BY <3>1 DEF Fields
    <3> QED
      BY <3>3, <3>4
  <2> QED
    BY <2>5, <2>6
<1>6. ASSUME NEW i \in DOMAIN op.args, job = Job("bits", <<NewGroup(op.args, i)>>), IsBit(op.args[i])
      PROVE  WordsRead(op.args, c.jobs, c.results, now)
  <2> DEFINE a == op.args[i]
             took == Took(answer, Cut(a.count))
             R == [k \in Items(job) |-> IF took THEN BitsResult(a, answer) ELSE Failed]
  <2>1. job.kind = "bits" /\ job.groups[1] = NewGroup(op.args, i)
    BY <1>6, JobFields
  <2>2. job.groups[1].items[1] = i
    BY <2>1, NewGroupFields
  <2>3. c = AfterBits(answer)
    BY <2>1 DEF AfterFins
  <2>4. AfterBits(answer) = Fill(R)
    <3> DEFINE b == op.args[job.groups[1].items[1]]
    <3>1. AfterBits(answer)
            = Fill([k \in Items(job) |-> IF Took(answer, Cut(b.count)) THEN BitsResult(b, answer) ELSE Failed])
      BY DEF AfterBits, BitsResult, Cut, job
    <3>2. b = a
      BY <2>2
    <3> QED
      BY <3>1, <3>2
  <2>5. DOMAIN R = Items(job) /\ \A k \in Items(job) : R[k] = IF took THEN BitsResult(a, answer) ELSE Failed
    OBVIOUS
  <2> HIDE DEF R
  <2>6. ASSUME NEW k \in Items(job)
        PROVE  k = i
    <3>1. k \in Items(Job("bits", <<NewGroup(op.args, i)>>))
      BY <1>6
    <3>2. k \in ToSet(NewGroup(op.args, i).items)
      BY <3>1, InOne
    <3>3. NewGroup(op.args, i).items = <<i>>
      BY NewGroupFields
    <3>4. \A l : l \in ToSet(<<i>>) => l = i
      BY DEF ToSet
    <3> QED
      BY <3>2, <3>3, <3>4
  <2>7. IsAddress(a)
    BY <1>1, <1>6 DEF IsRequest, IsBit
  <2>8. ASSUME took
        PROVE  BitsResult(a, answer) \in Results(Memory) /\ Right(a, BitsResult(a, answer), now)
    <3>1. answer \in Frames /\ answer # None
      BY <1>3, <2>8, NotMissing
    <3>2. ~now => answer \in {ReadAnswer(a.area, a.addr, a.bit, a.count, a.area \in BitAreas),
                              Other("endcode"), Other("error")}
      BY <1>6, <3>1, BitsAnswer DEF job
    <3> HIDE DEF a
    <3>3. IsBit(a)
      BY <1>6 DEF a
    <3> QED
      BY <2>7, <2>8, <3>1, <3>2, <3>3, BitsRead
  <2> HIDE DEF took
  <2>9. \A k \in DOMAIN R : R[k] \in Results(Memory) /\ Right(op.args[k], R[k], now)
    BY <1>2, <2>5, <2>6, <2>8
  <2>10. \A k : k \in DOMAIN R <=> k \in Items(Head(op.jobs))
    BY <2>5 DEF job
  <2>11. WordsRead(op.args, Fill(R).jobs, Fill(R).results, now)
    BY <2>9, <2>10, FillWords
  <2> QED
    BY <2>3, <2>4, <2>11
<1>7. WordsRead(op.args, c.jobs, c.results, now)
  BY <1>1, <1>4, <1>5, <1>6, JobKinds
<1> QED
  BY <1>7 DEF job

--------------------------------------------------------------------------------

(* What a FINS command hears *)

FinsHears(whole, answer) ==
  \/ Unsent /\ answer = None
  \/ \E sent \in {whole, Other("endcode")} : \E arrival \in Arrivals(sent) :
       Answered(arrival) /\ answer = Head(wire[conn] \o arrival)
  \/ \E done \in BOOLEAN : Unanswered(whole, done) /\ answer = None

LEMMA ArrivalType ==
  ASSUME NEW sent \in Frames, NEW arrival \in Arrivals(sent)
  PROVE  arrival \in Seq(Frames)
<1> DEFINE F == Frames
           error == Other("error")
           header == Other("header")
           body == Other("body")
<1>1. error \in F /\ header \in F /\ body \in F /\ sent \in F
  BY OtherType
<1>2. arrival \in {<<sent>>, <<>>, <<sent, sent>>, <<error>>, <<header, body, sent>>}
  BY DEF Arrivals
<1> HIDE DEF F, error, header, body
<1>3. arrival \in Seq(F)
  <2>1. <<sent>> \in Seq(F) /\ <<>> \in Seq(F) /\ <<sent, sent>> \in Seq(F) /\ <<error>> \in Seq(F)
    BY <1>1
  <2>2. <<header, body, sent>> \in Seq(F)
    BY <1>1
  <2> QED
    BY <1>2, <2>1, <2>2
<1> QED
  BY <1>3 DEF F

LEMMA ConcatFrames ==
  ASSUME NEW X, NEW a \in Seq(X), NEW b \in Seq(X)
  PROVE  /\ a \o b \in Seq(X) /\ (a = <<>> => a \o b = b)
         /\ a \o b # <<>> => Head(a \o b) \in X /\ Tail(a \o b) \in Seq(X)
<1>1. a \o b \in Seq(X)
  OBVIOUS
<1>2. a = <<>> => a \o b = b
  OBVIOUS
<1> DEFINE c == a \o b
<1>3. c \in Seq(X)
  BY <1>1
<1> HIDE DEF c
<1>4. c # <<>> => Head(c) \in X /\ Tail(c) \in Seq(X)
  BY <1>3
<1> QED
  BY <1>1, <1>2, <1>4 DEF c

LEMMA FinsHeard ==
  ASSUME LinkInv, conn # 0, wire \in [Links -> Seq(Frames)], NEW whole \in Frames, NEW answer,
         FinsHears(whole, answer), UNCHANGED conn
  PROVE  /\ wire' \in [Links -> Seq(Frames)] /\ answer \in Frames \cup {None}
         /\ strayed' \in BOOLEAN /\ (strayed => strayed')
         /\ ~strayed' => answer \in {None, whole, Other("endcode"), Other("error")}
         /\ answer = None => ~flag'[conn]
         /\ ~flag[conn] => ~flag'[conn]
<1>1. conn \in Links /\ flag \in [Links -> BOOLEAN] /\ strayed \in BOOLEAN
  BY DEF LinkInv, Shape
<1>2. wire[conn] \in Seq(Frames)
  BY <1>1
<1>3. Unsent => UNCHANGED <<wire, flag, strayed>> /\ ~flag[conn]
  BY DEF Unsent, network
<1>4. ASSUME NEW sent \in {whole, Other("endcode")}, NEW arrival \in Arrivals(sent),
             Answered(arrival), answer = Head(wire[conn] \o arrival)
      PROVE  /\ wire' \in [Links -> Seq(Frames)] /\ answer \in Frames
             /\ strayed' \in BOOLEAN /\ (strayed => strayed')
             /\ ~strayed' => answer \in {whole, Other("endcode"), Other("error")}
             /\ flag[conn]
  <2>1. sent \in Frames
    BY OtherType
  <2>2. arrival \in Seq(Frames)
    BY <2>1, ArrivalType
  <2>3. /\ flag[conn] /\ wire[conn] \o arrival # <<>>
        /\ wire' = [wire EXCEPT ![conn] = Tail(wire[conn] \o arrival)]
        /\ strayed' = (strayed \/ Len(arrival) > 1)
    BY <1>4 DEF Answered
  <2>4. answer \in Frames /\ Tail(wire[conn] \o arrival) \in Seq(Frames)
    BY <1>2, <1>4, <2>2, <2>3, ConcatFrames
  <2> DEFINE rest == Tail(wire[conn] \o arrival)
  <2> HIDE DEF rest
  <2>5. wire' \in [Links -> Seq(Frames)]
    <3>1. wire' = [wire EXCEPT ![conn] = rest] /\ rest \in Seq(Frames)
      BY <2>3, <2>4 DEF rest
    <3> QED
      BY <3>1
  <2>6. ASSUME ~strayed'
        PROVE  answer \in {whole, Other("endcode"), Other("error")}
    <3>1. ~strayed /\ ~(Len(arrival) > 1)
      BY <2>3, <2>6
    <3>2. wire[conn] = <<>>
      BY <1>1, <2>3, <3>1 DEF LinkInv, InStep
    <3>3. wire[conn] \o arrival = arrival
      BY <1>2, <2>2, <3>2, ConcatFrames
    <3>4. PICK frame : arrival = <<frame>> /\ frame \in {sent, Other("error")}
      BY <2>3, <3>1, <3>3, OneFrame
    <3>5. answer = frame
      BY <1>4, <3>3, <3>4
    <3> QED
      BY <3>4, <3>5
  <2>7. strayed' \in BOOLEAN /\ (strayed => strayed')
    BY <1>1, <2>3
  <2> QED
    BY <2>3, <2>4, <2>5, <2>6, <2>7
<1>5. ASSUME NEW done \in BOOLEAN, Unanswered(whole, done)
      PROVE  wire' \in [Links -> Seq(Frames)] /\ ~flag'[conn] /\ strayed' = strayed
  <2>1. /\ wire' = (IF done THEN [wire EXCEPT ![conn] = Append(@, whole)] ELSE wire)
        /\ flag' = [flag EXCEPT ![conn] = FALSE] /\ strayed' = strayed
    BY <1>5 DEF Unanswered
  <2> DEFINE F == Frames
             more == Append(wire[conn], whole)
  <2>2. wire[conn] \in Seq(F) /\ whole \in F
    BY <1>2
  <2> HIDE DEF F
  <2>3. more \in Seq(F)
    BY <2>2
  <2> HIDE DEF more
  <2>4. [wire EXCEPT ![conn] = more] \in [Links -> Seq(Frames)]
    BY <2>3 DEF F
  <2>5. wire' \in [Links -> Seq(Frames)]
    BY <2>1, <2>4 DEF more
  <2> QED
    BY <1>1, <2>1, <2>5
<1> DEFINE Heard == /\ wire' \in [Links -> Seq(Frames)] /\ answer \in Frames \cup {None}
                    /\ strayed' \in BOOLEAN /\ (strayed => strayed')
                    /\ ~strayed' => answer \in {None, whole, Other("endcode"), Other("error")}
                    /\ answer = None => ~flag'[conn]
                    /\ ~flag[conn] => ~flag'[conn]
<1>6. Unsent /\ answer = None => Heard
  BY <1>1, <1>3
<1>7. ASSUME NEW sent \in {whole, Other("endcode")}, NEW arrival \in Arrivals(sent),
             Answered(arrival), answer = Head(wire[conn] \o arrival)
      PROVE  Heard
  <2>1. answer \in Frames /\ flag[conn]
    BY <1>4, <1>7
  <2>2. answer # None
    BY <2>1, NotMissing
  <2> QED
    BY <1>4, <1>7, <2>1, <2>2
<1>8. ASSUME NEW done \in BOOLEAN, Unanswered(whole, done), answer = None
      PROVE  Heard
  BY <1>1, <1>5, <1>8
<1> HIDE DEF Heard
<1>9. Heard
  BY <1>6, <1>7, <1>8 DEF FinsHears
<1> QED
  BY <1>9 DEF Heard

(* A batch of tags *)

\* What a step of a call leaves as it was.
Kept(c) ==
  /\ DOMAIN c = Fields /\ c.at = op.at /\ c.kind = op.kind /\ c.args = op.args /\ c.wrote = op.wrote
  /\ op.failed => c.failed

Cutoff(from) == [i \in DOMAIN op.results |-> IF i >= from THEN Failed ELSE op.results[i]]

LEMMA AbortIs ==
  ASSUME DOMAIN op = Fields, NEW from
  PROVE  Kept(Abort(from)) /\ Abort(from).jobs = <<>> /\ Abort(from).results = Cutoff(from) /\ Abort(from).failed
<1> DEFINE cut == Cutoff(from)
<1>1. Abort(from) = [op EXCEPT !.jobs = <<>>, !.failed = TRUE, !.broke = TRUE, !.results = cut]
  BY DEF Abort, Cutoff
<1> HIDE DEF cut
<1>2. /\ Kept(Abort(from)) /\ Abort(from).jobs = <<>> /\ Abort(from).results = cut
      /\ Abort(from).failed
  BY <1>1 DEF Fields, Kept
<1> QED
  BY <1>2 DEF cut

LEMMA TagResultTypes ==
  ASSUME NEW args \in Reads, NEW i \in DOMAIN args
  PROVE  /\ Failed # None /\ Success(1, <<Tag(args[i].text)>>) # None
         /\ TagResults(args, i) \subseteq {None} \cup Results(Tags)
<1>1. Tag(args[i].text) \in Tags
  BY DEF Tags
<1> DEFINE T == Tags
           t == Tag(args[i].text)
           data == <<t>>
           one == 1
<1>2. t \in T
  BY <1>1
<1> HIDE DEF T, t
<1>3. data \in Seq(T) /\ one \in Nat
  BY <1>2
<1> HIDE DEF data, one
<1>4. Success(one, data) \in Results(T)
  BY <1>3, SuccessType
<1>5. Failed \in Results(T)
  BY FailedType
<1> QED
  BY <1>4, <1>5, NotMissing DEF TagResults, T, t, data, one

\* The first batch's items.
Between(low, high) == [j \in 1..(high - low) |-> low + j]

\* The positions of a batch, which follow one another.
RunsOn(items, low, high) ==
  /\ DOMAIN items = 1..(high - low) /\ Len(items) = high - low /\ items[1] = low + 1
  /\ \A i : i \in ToSet(items) <=> i \in Nat /\ low < i /\ i <= high
  /\ \A j \in 1..(high - low) : items[j] = low + j
  /\ \A i \in ToSet(items) : i - items[1] + 1 \in 1..(high - low) /\ items[i - items[1] + 1] = i

LEMMA ItemsOfBatch ==
  ASSUME NEW items, NEW low \in Nat, NEW high \in Nat, low < high, items = Between(low, high)
  PROVE  RunsOn(items, low, high)
<1> DEFINE n == high - low
<1>1. n \in Nat /\ n >= 1 /\ low + n = high
  OBVIOUS
<1> HIDE DEF n
<1>2. items = [j \in 1..n |-> low + j]
  BY DEF n, Between
<1>3. DOMAIN items = 1..n /\ Len(items) = n /\ \A j \in 1..n : items[j] = low + j
  BY <1>1, <1>2
<1>4. items[1] = low + 1
  BY <1>1, <1>3
<1>5. ASSUME NEW i
      PROVE  i \in ToSet(items) <=> i \in Nat /\ low < i /\ i <= high
  <2>1. i \in ToSet(items) <=> \E j \in 1..n : i = low + j
    BY <1>3 DEF ToSet
  <2>2. (\E j \in 1..n : i = low + j) => i \in Nat /\ low < i /\ i <= high
    BY <1>1
  <2>3. ASSUME i \in Nat, low < i, i <= high
        PROVE  \E j \in 1..n : i = low + j
    <3>1. i - low \in 1..n /\ i = low + (i - low)
      BY <1>1, <2>3
    <3> QED
      BY <3>1
  <2> QED
    BY <2>1, <2>2, <2>3
<1>6. ASSUME NEW i \in ToSet(items)
      PROVE  i - items[1] + 1 \in 1..n /\ items[i - items[1] + 1] = i
  <2>1. i \in Nat /\ low < i /\ i <= high
    BY <1>5
  <2>2. i - items[1] + 1 = i - low /\ i - low \in 1..n /\ low + (i - low) = i
    BY <1>1, <1>4, <2>1
  <2> QED
    BY <1>3, <2>2
<1> QED
  BY <1>3, <1>4, <1>5, <1>6 DEF n, RunsOn

\* What becomes of the read with an answer.
TagsGo(answer, c) ==
  /\ Kept(c) /\ TagsRead(op.args, c.jobs, c.results)
  /\ c.broke => c.failed \/ op.broke \/ answer.kind \in {"down", "odd"}

LEMMA TagsAnswered ==
  ASSUME DOMAIN op = Fields, TagsRead(op.args, op.jobs, op.results), op.jobs # <<>>, NEW answer,
         answer \in TagAnswers(Head(op.jobs).items) \cup {Other("refused"), Other("down"), Other("odd")}
  PROVE  LET job == Head(op.jobs)
             c == IF Len(job.items) > 1 THEN AfterBatch(job.items, answer) ELSE AfterSingle(job, answer)
         IN  /\ Kept(c) /\ TagsRead(op.args, c.jobs, c.results)
             /\ c.broke => c.failed \/ op.broke \/ answer.kind \in {"down", "odd"}
<1> DEFINE job == Head(op.jobs)
           items == job.items
           args == op.args
           c == IF Len(items) > 1 THEN AfterBatch(items, answer) ELSE AfterSingle(job, answer)
<1>1. /\ args \in Reads /\ DOMAIN op.results = DOMAIN args /\ op.jobs \in Seq(TagJobs)
      /\ \A i \in DOMAIN args : op.results[i] \in TagResults(args, i)
  BY DEF TagsRead
<1>2. PICK b : Bounds(args, op.jobs, op.results, b)
  BY DEF TagsRead
<1> DEFINE low == b[0]
           high == b[1]
<1>3. Len(args) \in Nat /\ DOMAIN args = 1..Len(args)
  BY <1>1, ReadsType
<1>4. /\ low \in Nat /\ high \in Nat /\ low < high /\ high <= Len(args)
      /\ items = Between(low, high)
  <2>1. /\ low \in Nat /\ high \in Nat /\ low < high /\ high <= Len(args)
        /\ items = [j \in 1..(high - low) |-> low + j]
    BY <1>2, FirstBatch
  <2> QED
    BY <2>1 DEF Between
<1>5. \A i \in DOMAIN args : op.results[i] = None => i > low
  BY <1>2 DEF Bounds
<1> HIDE DEF items, job
<1>6. /\ DOMAIN items = 1..(high - low) /\ Len(items) = high - low /\ items[1] = low + 1
      /\ \A i : i \in ToSet(items) <=> i \in Nat /\ low < i /\ i <= high
      /\ \A j \in 1..(high - low) : items[j] = low + j
      /\ \A i \in ToSet(items) : /\ i - items[1] + 1 \in 1..(high - low)
                                 /\ items[i - items[1] + 1] = i
  <2> HIDE DEF low, high
  <2>1. low \in Nat /\ high \in Nat /\ low < high /\ items = Between(low, high)
    BY <1>4
  <2>2. RunsOn(items, low, high)
    BY <2>1, ItemsOfBatch
  <2> QED
    BY <2>2 DEF RunsOn
<1>7. answer.kind \in {"data", "refused", "down", "odd"}
  BY TagAnswerKinds DEF items, job
<1>8. \A i \in DOMAIN args : Failed # None /\ Failed \in TagResults(args, i)
  BY <1>1, TagResultTypes DEF TagResults
\* What a batch answers is for its tags, or an error.
<1>9. ASSUME answer.kind = "data", NEW j \in 1..(high - low)
      PROVE  answer.data[j] \in TagResults(args, items[j]) /\ answer.data[j] # None
  <2> DEFINE whole == [k \in DOMAIN items |-> Success(1, <<Tag(args[items[k]].text)>>)]
  <2>1. items[j] \in DOMAIN args
    <3> HIDE DEF low, high
    <3>1. low + j \in 1..Len(args)
      BY <1>3, <1>4
    <3> QED
      BY <1>3, <1>6, <3>1
  <2>2. Other("refused").kind # "data" /\ Other("down").kind # "data" /\ Other("odd").kind # "data"
    BY DEF Other
  <2>3. answer = Data(whole) \/ \E k \in DOMAIN items : answer = Data([whole EXCEPT ![k] = Failed])
    BY <1>9, <2>2 DEF TagAnswers, items, job
  <2>4. j \in DOMAIN items /\ whole[j] = Success(1, <<Tag(args[items[j]].text)>>)
    BY <1>6
  <2> HIDE DEF whole
  <2>5. DOMAIN whole = DOMAIN items
    BY DEF whole
  <2>6. answer.data = whole \/ \E k \in DOMAIN items : answer.data = [whole EXCEPT ![k] = Failed]
    BY <2>3 DEF Data
  <2>7. answer.data[j] \in {Failed, whole[j]}
    BY <2>4, <2>5, <2>6
  <2>8. Failed # None /\ Success(1, <<Tag(args[items[j]].text)>>) # None
    BY <1>1, <2>1, TagResultTypes
  <2> QED
    BY <2>4, <2>7, <2>8 DEF TagResults
\* An error of the connection.
<1>10. TagsGo(answer, Abort(items[1]))
  <2> DEFINE from == items[1]
             next == Cutoff(from)
  <2>1. /\ Kept(Abort(from)) /\ Abort(from).jobs = <<>> /\ Abort(from).results = next
        /\ Abort(from).failed
    BY AbortIs
  <2>2. DOMAIN next = DOMAIN args /\ \A i \in DOMAIN args : next[i] = IF i >= from THEN Failed ELSE op.results[i]
    BY <1>1 DEF Cutoff
  <2>3. from = low + 1
    BY <1>6
  <2> HIDE DEF from, next, low, high
  <2>4. \A i \in DOMAIN args : next[i] \in TagResults(args, i) /\ next[i] # None
    <3> SUFFICES ASSUME NEW i \in DOMAIN args
                 PROVE  next[i] \in TagResults(args, i) /\ next[i] # None
      OBVIOUS
    <3>1. i >= from \/ ~(i > low)
      BY <1>3, <1>4, <2>3
    <3> QED
      BY <1>1, <1>5, <1>8, <2>2, <3>1
  <2>5. TagsRead(args, <<>>, next)
    BY <2>2, <2>4, BatchAbort
  <2>6. TagsRead(args, Abort(from).jobs, Abort(from).results)
    BY <2>1, <2>5
  <2>7. TagsGo(answer, Abort(from))
    BY <2>1, <2>6 DEF TagsGo
  <2> QED
    BY <2>7 DEF from
\* The results of the batch.
<1>11. ASSUME NEW R, DOMAIN R = ToSet(items),
              \A i \in ToSet(items) : R[i] \in TagResults(args, i) /\ R[i] # None
       PROVE  /\ Kept(Fill(R)) /\ TagsRead(args, Fill(R).jobs, Fill(R).results)
              /\ Fill(R).broke = op.broke
  <2> DEFINE next == Filled(R)
  <2>1. /\ Kept(Fill(R)) /\ Fill(R).jobs = Tail(op.jobs) /\ Fill(R).results = next
        /\ Fill(R).broke = op.broke
    BY FillIs DEF Kept
  <2>2. DOMAIN next = DOMAIN args
        /\ \A i \in DOMAIN args : next[i] = IF i \in ToSet(items) THEN R[i] ELSE op.results[i]
    BY <1>1, <1>11 DEF Filled
  <2> HIDE DEF next
  <2>3. \A i \in DOMAIN args : next[i] \in TagResults(args, i)
    BY <1>1, <1>11, <2>2
  <2>4. ASSUME NEW i \in DOMAIN args, next[i] = None
        PROVE  op.results[i] = None /\ ~(i <= high)
    <3>1. i \notin ToSet(items) /\ op.results[i] = None
      BY <1>11, <2>2, <2>4
    <3>2. i > low /\ i \in Nat
      BY <1>3, <1>5, <3>1
    <3> HIDE DEF low, high
    <3> QED
      BY <1>4, <1>6, <3>1, <3>2
  <2>5. TagsRead(args, Tail(op.jobs), next)
    BY <1>2, <2>2, <2>3, <2>4, BatchRead
  <2> QED
    BY <2>1, <2>5
\* Another error: one by one.
<1> DEFINE singles == [i \in DOMAIN items |-> Single(items[i])]
           again == [op EXCEPT !.jobs = singles \o Tail(op.jobs), !.broke = @ \/ answer.kind = "odd"]
<1>12. TagsGo(answer, again)
  <2> DEFINE jobs == singles \o Tail(op.jobs)
             broke == op.broke \/ answer.kind = "odd"
  <2>1. singles = [j \in 1..(high - low) |-> Single(low + j)]
    BY <1>6
  <2>2. TagsRead(args, [j \in 1..(high - low) |-> Single(low + j)] \o Tail(op.jobs), op.results)
    BY <1>2, BatchSplit
  <2>3. TagsRead(args, jobs, op.results)
    BY <2>1, <2>2
  <2>4. again = [op EXCEPT !.jobs = jobs, !.broke = broke]
    OBVIOUS
  <2> HIDE DEF jobs, broke, again
  <2>5. Kept(again) /\ again.jobs = jobs /\ again.results = op.results /\ again.broke = broke
    BY <2>4 DEF Kept, Fields
  <2>6. TagsRead(args, again.jobs, again.results)
    BY <2>3, <2>5
  <2>7. again.broke => op.broke \/ answer.kind \in {"down", "odd"}
    BY <2>5 DEF broke
  <2> QED
    BY <2>5, <2>6, <2>7 DEF TagsGo
<1> HIDE DEF again, singles
<1> HIDE DEF c
<1>13. ASSUME Len(items) > 1
       PROVE  TagsGo(answer, c)
  <2>1. c = AfterBatch(items, answer)
    BY <1>13 DEF c
  <2>2. CASE answer.kind = "down"
    <3>1. AfterBatch(items, answer) = Abort(items[1])
      BY <2>2 DEF AfterBatch
    <3> QED
      BY <1>10, <2>1, <3>1
  <2>3. CASE answer.kind \in {"odd", "refused"}
    <3>1. AfterBatch(items, answer) = again
      BY <2>3 DEF AfterBatch, again, singles
    <3> QED
      BY <1>12, <2>1, <3>1
  <2>4. CASE answer.kind = "data"
    <3> DEFINE R == [i \in ToSet(items) |-> answer.data[i - items[1] + 1]]
    <3>1. AfterBatch(items, answer) = Fill(R)
      BY <2>4 DEF AfterBatch
    <3>2. DOMAIN R = ToSet(items) /\ \A i \in ToSet(items) : R[i] = answer.data[i - items[1] + 1]
      OBVIOUS
    <3> HIDE DEF R
    <3>3. ASSUME NEW i \in ToSet(items)
          PROVE  R[i] \in TagResults(args, i) /\ R[i] # None
      <4> DEFINE j == i - items[1] + 1
      <4>1. j \in 1..(high - low) /\ items[j] = i
        BY <1>6
      <4> HIDE DEF j
      <4>2. R[i] = answer.data[j]
        BY <3>2 DEF j
      <4> QED
        BY <1>9, <2>4, <4>1, <4>2
    <3>4. /\ Kept(Fill(R)) /\ TagsRead(args, Fill(R).jobs, Fill(R).results)
          /\ Fill(R).broke = op.broke
      BY <1>11, <3>2, <3>3
    <3>5. TagsGo(answer, Fill(R))
      BY <3>4 DEF TagsGo
    <3> QED
      BY <2>1, <3>1, <3>5
  <2> QED
    BY <1>7, <2>2, <2>3, <2>4
<1>14. ASSUME ~(Len(items) > 1)
       PROVE  TagsGo(answer, c)
  <2>1. c = AfterSingle(job, answer)
    BY <1>14 DEF c
  <2> DEFINE i == items[1]
             result == IF answer.kind = "data" THEN answer.data[1] ELSE Failed
             R == [k \in {i} |-> result]
             down == answer.kind \in {"down", "odd"}
             next == [Fill(R) EXCEPT !.broke = @ \/ down]
  <2>2. AfterSingle(job, answer) = IF answer.kind = "down" /\ job.kind = "single" THEN Abort(i) ELSE next
    BY DEF AfterSingle, items
  <2>3. high - low = 1 /\ 1 \in 1..(high - low)
    <3> HIDE DEF low, high
    <3>1. high - low \in Nat /\ high - low >= 1 /\ ~(high - low > 1)
      BY <1>4, <1>6, <1>14
    <3> QED
      BY <3>1
  <2>4. i = low + 1 /\ ToSet(items) = {i} /\ i \in DOMAIN args
    <3> HIDE DEF low, high
    <3>1. i = low + 1
      BY <1>6
    <3>2. \A k : k \in ToSet(items) <=> k = i
      <4>1. high = low + 1
        BY <1>4, <2>3
      <4> HIDE DEF i
      <4> QED
        BY <1>4, <1>6, <3>1, <4>1
    <3>3. i \in 1..Len(args)
      BY <1>3, <1>4, <3>1
    <3> QED
      BY <1>3, <3>1, <3>2, <3>3
  <2>5. result \in TagResults(args, i) /\ result # None
    BY <1>8, <1>9, <2>3, <2>4
  <2>6. DOMAIN R = {i} /\ R[i] = result
    OBVIOUS
  <2> HIDE DEF R, result
  <2>7. /\ Kept(Fill(R)) /\ TagsRead(args, Fill(R).jobs, Fill(R).results)
        /\ Fill(R).broke = op.broke
    <3>1. DOMAIN R = ToSet(items) /\ \A k \in ToSet(items) : R[k] \in TagResults(args, k) /\ R[k] # None
      BY <2>4, <2>5, <2>6
    <3> QED
      BY <1>11, <3>1
  <2>8. TagsGo(answer, next)
    <3> DEFINE f == Fill(R)
               broke == f.broke \/ down
    <3> HIDE DEF f, down
    <3>1. next = [f EXCEPT !.broke = broke]
      BY DEF f
    <3>2. DOMAIN f = Fields
      BY <2>7 DEF Kept, f
    <3> HIDE DEF broke, next
    <3>3. /\ DOMAIN next = Fields /\ next.at = f.at /\ next.kind = f.kind /\ next.args = f.args
          /\ next.wrote = f.wrote /\ next.failed = f.failed /\ next.jobs = f.jobs
          /\ next.results = f.results /\ next.broke = broke
      BY <3>1, <3>2 DEF Fields
    <3>4. Kept(next)
      BY <2>7, <3>3 DEF Kept, f
    <3>5. TagsRead(args, next.jobs, next.results)
      BY <2>7, <3>3 DEF f
    <3>6. next.broke => op.broke \/ answer.kind \in {"down", "odd"}
      BY <2>7, <3>3 DEF broke, f, down
    <3> QED
      BY <3>4, <3>5, <3>6 DEF TagsGo
  <2> HIDE DEF next
  <2> QED
    BY <1>10, <2>1, <2>2, <2>8
<1>15. TagsGo(answer, c)
  <2> QED
    BY <1>13, <1>14
<1> QED
  BY <1>15 DEF job, items, c, TagsGo

--------------------------------------------------------------------------------

(* The invariant of reads and types *)

ReadKinds == {"words", "tags", "status"}

WiresTyped == {up, cip, panicked} \subseteq BOOLEAN /\ wire \in [Links -> Seq(Frames)]

\* Where a call of each kind can be, and what calls that are not reads, or writes, leave empty.
Placed ==
  /\ op.at \in {"idle", "read", "type", "write", "browse", "done"}
  /\ op.kind \in ReadKinds \cup {"none", "write", "browse"}
  /\ op.at = "idle" => op.kind = "none"
  /\ op.at = "read" => op.kind \in ReadKinds
  /\ op.at = "browse" => op.kind = "browse"
  /\ op.kind \in ReadKinds => op.at \in {"read", "done"}
  /\ op.kind \notin ReadKinds => op.results = <<>>
  /\ op.kind # "write" => op.wrote = <<>>

StatusRead(jobs, results, str) ==
  /\ jobs \in {<<>>, <<Job("status", <<>>)>>} /\ DOMAIN results = {1}
  /\ results[1] \in {None} \cup Results(Memory)
  /\ results[1] = None => jobs # <<>>
  /\ results[1] # None /\ results[1].ok /\ ~str => results[1].data = <<Words("CPU", 0, 8)>>

\* What the read that runs has, and that it knows of a link it lost.
Reading ==
  /\ op.kind = "words" => WordsRead(op.args, op.jobs, op.results, strayed)
  /\ op.kind = "tags" => TagsRead(op.args, op.jobs, op.results)
  /\ op.kind = "status" => StatusRead(op.jobs, op.results, strayed)
  /\ op.kind \in ReadKinds /\ op.at = "done" => op.jobs = <<>>
  /\ op.kind \in {"words", "tags"} /\ op.broke => op.failed \/ (op.at = "read" /\ ~flag[conn])

ReadInv == WiresTyped /\ Placed /\ Reading

FullInv == IInv /\ ReadInv

(* Steps of calls that are not reads *)

LEMMA NoReading ==
  ASSUME op'.kind \notin ReadKinds
  PROVE  Reading'
  BY DEF Reading, ReadKinds

\* Outside a call.
LEMMA OutsideKeepsReads ==
  ASSUME ReadInv, op.at = "idle", UNCHANGED op
  PROVE  Placed' /\ Reading'
<1>1. op.kind = "none"
  BY DEF ReadInv, Placed
<1>2. op'.kind \notin ReadKinds
  BY <1>1 DEF ReadKinds
<1>3. Placed'
  BY DEF ReadInv, Placed
<1> QED
  BY <1>2, <1>3, NoReading

LEMMA ClientTypes ==
  ASSUME WiresTyped, UNCHANGED client, wire' \in [Links -> Seq(Frames)]
  PROVE  WiresTyped'
  BY DEF WiresTyped, client

LEMMA NetworkTypes ==
  ASSUME WiresTyped, UNCHANGED client, UNCHANGED wire
  PROVE  WiresTyped'
  BY DEF WiresTyped, client

LEMMA ShutWire ==
  ASSUME WiresTyped
  PROVE  Shut(wire, <<>>) \in [Links -> Seq(Frames)]
<1>1. <<>> \in Seq(Frames)
  OBVIOUS
<1> QED
  BY <1>1 DEF WiresTyped, Shut

LEMMA PanicKeepsReads == FullInv /\ Panic => ReadInv'
<1> SUFFICES ASSUME FullInv, Panic
             PROVE  ReadInv'
  OBVIOUS
<1>1. /\ op.at = "idle" /\ UNCHANGED op /\ panicked' = TRUE /\ UNCHANGED <<up, cip, wire>>
  BY DEF Panic, At, network
<1>2. WiresTyped'
  BY <1>1 DEF FullInv, ReadInv, WiresTyped
<1> QED
  BY <1>1, <1>2, OutsideKeepsReads DEF FullInv, ReadInv

LEMMA CloseKeepsReads == FullInv /\ (Close \/ ReconnectFails) => ReadInv'
<1> SUFFICES ASSUME FullInv, Close \/ ReconnectFails
             PROVE  ReadInv'
  OBVIOUS
<1>1. /\ op.at = "idle" /\ UNCHANGED op /\ up' = FALSE /\ cip' = FALSE /\ UNCHANGED panicked
      /\ wire' = Shut(wire, <<>>)
  BY DEF Close, ReconnectFails, At
<1>2. WiresTyped'
  BY <1>1, ShutWire DEF FullInv, ReadInv, WiresTyped
<1> QED
  BY <1>1, <1>2, OutsideKeepsReads DEF FullInv, ReadInv

LEMMA SetDisconnectedKeepsReads == FullInv /\ SetDisconnected => ReadInv'
<1> SUFFICES ASSUME FullInv, SetDisconnected
             PROVE  ReadInv'
  OBVIOUS
<1>1. op.at = "idle" /\ UNCHANGED op /\ up' = FALSE /\ UNCHANGED <<cip, panicked, wire>>
  BY DEF SetDisconnected, At
<1>2. WiresTyped'
  BY <1>1 DEF FullInv, ReadInv, WiresTyped
<1> QED
  BY <1>1, <1>2, OutsideKeepsReads DEF FullInv, ReadInv

LEMMA ReconnectKeepsReads == FullInv /\ Reconnect => ReadInv'
<1> SUFFICES ASSUME FullInv, Reconnect
             PROVE  ReadInv'
  OBVIOUS
<1>1. op.at = "idle" /\ UNCHANGED op /\ UNCHANGED panicked
  BY DEF Reconnect, At
<1>2. PICK k \in Links, t \in {"tcp", "udp", "eip"}, open \in BOOLEAN, withCip \in BOOLEAN :
        Opened(k, t, open, withCip)
  BY DEF Reconnect
<1>3. up' = TRUE /\ cip' \in BOOLEAN /\ wire' = Shut(wire, <<>>)
  BY <1>2 DEF Opened
<1>4. WiresTyped'
  BY <1>1, <1>3, ShutWire DEF FullInv, ReadInv, WiresTyped
<1> QED
  BY <1>1, <1>4, OutsideKeepsReads DEF FullInv, ReadInv

LEMMA BreakKeepsReads ==
  ASSUME FullInv, NEW k \in Links, Break(k)
  PROVE  ReadInv'
<1>1. UNCHANGED <<up, cip, panicked, wire, op, flag, conn, strayed>>
  BY DEF Break, client
<1>2. WiresTyped' /\ Placed'
  BY <1>1 DEF FullInv, ReadInv, WiresTyped, Placed
<1>3. Reading'
  BY <1>1 DEF FullInv, ReadInv, Reading
<1> QED
  BY <1>2, <1>3 DEF ReadInv

LEMMA UnchangedKeepsReads == FullInv /\ UNCHANGED vars => ReadInv'
<1> SUFFICES ASSUME FullInv, UNCHANGED vars
             PROVE  ReadInv'
  OBVIOUS
<1>1. UNCHANGED <<up, cip, panicked, wire, op, flag, conn, strayed>>
  BY DEF vars
<1>2. WiresTyped' /\ Placed'
  BY <1>1 DEF FullInv, ReadInv, WiresTyped, Placed
<1>3. Reading'
  BY <1>1 DEF FullInv, ReadInv, Reading
<1> QED
  BY <1>2, <1>3 DEF ReadInv

LEMMA IdleCall == /\ DOMAIN Idle = Fields /\ Idle.at = "idle" /\ Idle.kind = "none"
                  /\ Idle.results = <<>> /\ Idle.wrote = <<>> /\ Idle.failed = FALSE
                  /\ Idle.broke = FALSE
  BY DEF Idle, Fields

LEMMA ReturnKeepsReads == FullInv /\ Return => ReadInv'
<1> SUFFICES ASSUME FullInv, Return
             PROVE  ReadInv'
  OBVIOUS
<1>1. op' = Idle /\ UNCHANGED client /\ UNCHANGED wire
  BY DEF Return, network
<1>2. WiresTyped'
  BY <1>1, NetworkTypes DEF FullInv, ReadInv
<1>3. Placed'
  BY <1>1, IdleCall DEF Placed, ReadKinds
<1>4. Reading'
  BY <1>1, IdleCall, NoReading DEF ReadKinds
<1> QED
  BY <1>2, <1>3, <1>4 DEF ReadInv

LEMMA BeginWriteCall ==
  ASSUME BeginWrite
  PROVE  op'.kind = "write" /\ op'.results = <<>> /\ op'.at \in {"done", "type", "write"}
<1>1. PICK w \in Writes :
     LET a == ParseAddressWithType(w)
         c == [Idle EXCEPT !.at = "done", !.kind = "write", !.args = w, !.target = a,
                           !.failed = TRUE]
     IN  op' = CASE transport = "eip" /\ w.text # BadAddress ->
                      [c EXCEPT !.at = "type", !.failed = FALSE]
                 [] transport # "eip" /\ a # BadAddress /\ Encoded(a.type, w) > 0 ->
                      [c EXCEPT !.at = "write", !.failed = FALSE]
                 [] OTHER -> c
  BY DEF BeginWrite
<1> DEFINE a == ParseAddressWithType(w)
           c == [Idle EXCEPT !.at = "done", !.kind = "write", !.args = w, !.target = a,
                             !.failed = TRUE]
<1>2. DOMAIN c = Fields /\ c.kind = "write" /\ c.results = <<>> /\ c.at = "done"
  <2> HIDE DEF a
  <2> QED
    BY IdleCall DEF Fields
<1>3. \/ op' = c \/ op' = [c EXCEPT !.at = "type", !.failed = FALSE]
      \/ op' = [c EXCEPT !.at = "write", !.failed = FALSE]
  BY <1>1
<1> HIDE DEF c
<1> QED
  BY <1>2, <1>3 DEF Fields

LEMMA BeginWriteKeepsReads == FullInv /\ BeginWrite => ReadInv'
<1> SUFFICES ASSUME FullInv, BeginWrite
             PROVE  ReadInv'
  OBVIOUS
<1>1. UNCHANGED client /\ UNCHANGED wire
  BY DEF BeginWrite, network
<1>2. op'.kind = "write" /\ op'.results = <<>> /\ op'.at \in {"done", "type", "write"}
  BY BeginWriteCall
<1>3. WiresTyped'
  BY <1>1, NetworkTypes DEF FullInv, ReadInv
<1>4. Placed'
  BY <1>2 DEF Placed, ReadKinds
<1>5. Reading'
  BY <1>2, NoReading DEF ReadKinds
<1> QED
  BY <1>3, <1>4, <1>5 DEF ReadInv

\* A step of a write or of a listing.
LEMMA OtherCallKeepsReads ==
  ASSUME FullInv, op.kind \in {"write", "browse"}, op'.kind = op.kind, op'.results = op.results,
         op'.at \in {op.at, "done", "write"}, op.kind = "browse" => op'.at # "write" /\ op'.wrote = op.wrote,
         UNCHANGED client, wire' \in [Links -> Seq(Frames)]
  PROVE  ReadInv'
<1>1. op.results = <<>> /\ (op.kind = "browse" => op.wrote = <<>>)
      /\ op.at \in {"idle", "read", "type", "write", "browse", "done"}
      /\ (op.at = "idle" => op.kind = "none") /\ (op.at = "read" => op.kind \in ReadKinds)
      /\ (op.at = "browse" => op.kind = "browse")
  BY DEF FullInv, ReadInv, Placed, ReadKinds
<1>2. Placed'
  BY <1>1 DEF Placed, ReadKinds
<1>3. WiresTyped'
  BY ClientTypes DEF FullInv, ReadInv
<1>4. Reading'
  BY NoReading DEF ReadKinds
<1> QED
  BY <1>2, <1>3, <1>4 DEF ReadInv

LEMMA EndWriteFields ==
  ASSUME DOMAIN op = Fields, NEW failed, NEW broke, NEW cell, NEW done, EndWrite(failed, broke, cell, done)
  PROVE  op'.at = "done" /\ op'.kind = op.kind /\ op'.results = op.results
<1> DEFINE b == op.broke \/ broke
           w == IF done THEN Append(op.wrote, cell) ELSE op.wrote
<1>1. op' = [op EXCEPT !.at = "done", !.failed = failed, !.broke = b, !.wrote = w]
  BY DEF EndWrite
<1> HIDE DEF b, w
<1> QED
  BY <1>1 DEF Fields

LEMMA WriteFinsKeepsReads == FullInv /\ WriteFins => ReadInv'
<1> SUFFICES ASSUME FullInv, WriteFins
             PROVE  ReadInv'
  OBVIOUS
<1> DEFINE refused == \/ op.target.type = "BOOL" /\ op.target.area \notin BitAreas
                      \/ op.target.type # "BOOL" /\ op.target.area = "TK"
           whole == IF refused THEN Other("endcode") ELSE Data(<<>>)
           Ends(answer, done) == EndWrite(answer = None \/ answer.kind # "data", answer = None,
                                          Covered, done /\ ~refused)
<1>1. op.kind = "write" /\ UNCHANGED client /\ DOMAIN op = Fields /\ LinkInv /\ conn # 0
  BY DEF WriteFins, At, FullInv, IInv, LinkInv, Shape, OneSocket, Asking
<1>2. whole \in Frames
  <2>1. <<>> \in Seq(Memory)
    OBVIOUS
  <2>2. Data(<<>>) \in Frames
    BY <2>1 DEF Data, Frames
  <2> QED
    BY <2>2, OtherType
<1>3. \E answer, done : FinsHears(whole, answer) /\ Ends(answer, done)
  <2> HIDE DEF Ends
  <2>1. FinsAsk(whole, Ends)
    BY DEF WriteFins, Ends
  <2> QED
    BY <2>1 DEF FinsAsk, FinsHears
<1>4. PICK answer, done : FinsHears(whole, answer) /\ Ends(answer, done)
  BY <1>3
<1>5. wire' \in [Links -> Seq(Frames)]
  <2>1. UNCHANGED conn
    BY <1>1 DEF client
  <2> HIDE DEF whole
  <2> QED
    BY <1>1, <1>2, <1>4, <2>1, FinsHeard DEF FullInv, ReadInv, WiresTyped
<1>6. op'.at = "done" /\ op'.kind = op.kind /\ op'.results = op.results
  BY <1>1, <1>4, EndWriteFields
<1> QED
  BY <1>1, <1>5, <1>6, OtherCallKeepsReads

(* Requests over EtherNet/IP *)

LEMMA EipWire ==
  ASSUME UNCHANGED network \/ Transacted \/ Unsent \/ \E done \in BOOLEAN : Dropped(done)
  PROVE  wire' = wire /\ strayed' = strayed
  BY DEF network, Transacted, Unsent, Dropped

LEMMA AskTypeKeepsReads == FullInv /\ AskType => ReadInv'
<1> SUFFICES ASSUME FullInv, AskType
             PROVE  ReadInv'
  OBVIOUS
<1>1. op.at = "type" /\ UNCHANGED client /\ DOMAIN op = Fields /\ op.kind = "write"
  BY DEF AskType, At, FullInv, IInv, LinkInv, Shape, Writing
<1>2. \/ op' = [op EXCEPT !.at = "write"]
      \/ \E broke : op' = [op EXCEPT !.at = "done", !.failed = TRUE, !.broke = broke]
  BY DEF AskType, EipAsk
<1>3. wire' = wire
  BY EipWire DEF AskType, EipAsk
<1>4. op'.at \in {"write", "done"} /\ op'.kind = op.kind /\ op'.results = op.results
  BY <1>1, <1>2 DEF Fields
<1>5. wire' \in [Links -> Seq(Frames)]
  BY <1>3 DEF FullInv, ReadInv, WiresTyped
<1> QED
  BY <1>1, <1>4, <1>5, OtherCallKeepsReads

LEMMA WriteTagKeepsReads == FullInv /\ WriteTag => ReadInv'
<1> SUFFICES ASSUME FullInv, WriteTag
             PROVE  ReadInv'
  OBVIOUS
<1> DEFINE Ends(answer, done) ==
             EndWrite(answer.kind # "data", answer.kind \in {"down", "odd"}, Tag(op.args.text), done)
<1>1. op.at = "write" /\ UNCHANGED client /\ DOMAIN op = Fields /\ op.kind = "write"
  BY DEF WriteTag, At, FullInv, IInv, LinkInv, Shape, Writing
<1>2. \E answer, done : Ends(answer, done)
  BY DEF WriteTag, EipAsk
<1>3. wire' = wire
  BY EipWire DEF WriteTag, EipAsk
<1>4. op'.at = "done" /\ op'.kind = op.kind /\ op'.results = op.results
  BY <1>1, <1>2, EndWriteFields
<1>5. wire' \in [Links -> Seq(Frames)]
  BY <1>3 DEF FullInv, ReadInv, WiresTyped
<1> QED
  BY <1>1, <1>4, <1>5, OtherCallKeepsReads

LEMMA PingKeepsReads == FullInv /\ Ping => ReadInv'
<1> SUFFICES ASSUME FullInv, Ping
             PROVE  ReadInv'
  OBVIOUS
<1>1. op.at = "idle" /\ UNCHANGED client /\ UNCHANGED op
  BY DEF Ping, At, EipAsk
<1>2. wire' = wire
  BY EipWire DEF Ping, EipAsk
<1>3. WiresTyped'
  BY <1>1, <1>2, NetworkTypes DEF FullInv, ReadInv
<1> QED
  BY <1>1, <1>3, OutsideKeepsReads DEF FullInv, ReadInv

--------------------------------------------------------------------------------

(* Reads *)

Begun(kind, args, jobs, results) ==
  [Idle EXCEPT !.at = "read", !.kind = kind, !.args = args, !.jobs = jobs, !.results = results]

LEMMA BegunFields ==
  ASSUME NEW kind, NEW args, NEW jobs, NEW results, NEW c, c = Begun(kind, args, jobs, results)
  PROVE  /\ c.at = "read" /\ c.kind = kind /\ c.args = args /\ c.jobs = jobs
         /\ c.results = results /\ c.wrote = <<>> /\ ~c.broke
  BY IdleCall DEF Fields, Begun

LEMMA TagsBegin ==
  ASSUME NEW requests \in Reads
  PROVE  TagsRead(requests, EipJobs(Len(requests)), [i \in DOMAIN requests |-> None])
<1> DEFINE results == [i \in DOMAIN requests |-> None]
<1>1. \A i \in DOMAIN requests : i > 0
  BY ReadsType
<1>2. DOMAIN results = DOMAIN requests /\ \A i \in DOMAIN requests : results[i] = None
  OBVIOUS
<1> HIDE DEF results
<1>3. EipJobs(Len(requests)) \in Seq(TagJobs)
  BY <1>1, EipJobsType
<1>4. \E b : Bounds(requests, EipJobs(Len(requests)), results, b)
  BY <1>1, EipJobsType
<1>5. \A i \in DOMAIN requests : results[i] \in TagResults(requests, i)
  BY <1>2 DEF TagResults
<1>6. TagsRead(requests, EipJobs(Len(requests)), results)
  BY <1>2, <1>3, <1>4, <1>5 DEF TagsRead
<1> QED
  BY <1>6 DEF results

LEMMA WordsBegin ==
  ASSUME NEW requests \in Reads, NEW jobs \in FinsJobs(Addresses(requests)), NEW str
  PROVE  WordsRead(Addresses(requests), jobs,
                   [i \in DOMAIN requests |-> IF Addresses(requests)[i] = BadAddress THEN Failed ELSE None],
                   str)
<1> DEFINE args == Addresses(requests)
           results == [i \in DOMAIN requests |-> IF args[i] = BadAddress THEN Failed ELSE None]
<1>1. IsRequest(args) /\ DOMAIN args = DOMAIN requests
  BY AddressesType
<1>2. DOMAIN results = DOMAIN requests
      /\ \A i \in DOMAIN requests : results[i] = IF args[i] = BadAddress THEN Failed ELSE None
  OBVIOUS
<1> HIDE DEF args
<1>3. jobs \in FinsJobs(args)
  BY DEF args
<1> HIDE DEF results
<1>4. /\ jobs \in Seq(JobsOf(args))
      /\ \A i \in DOMAIN args : args[i] # BadAddress => Covers(jobs, i)
  BY <1>1, <1>3, FinsJobsType
<1>5. Failed \in Results(Memory) /\ ~Failed.ok /\ Failed # None
  BY FailedType, NotMissing
<1>6. ASSUME NEW i \in DOMAIN args
      PROVE  /\ results[i] \in {None} \cup Results(Memory)
             /\ results[i] = None => args[i] # BadAddress /\ Covers(jobs, i)
             /\ results[i] # None => Right(args[i], results[i], str)
  <2>1. results[i] = IF args[i] = BadAddress THEN Failed ELSE None
    BY <1>1, <1>2
  <2>2. CASE args[i] = BadAddress
    <3>1. results[i] = Failed
      BY <2>1, <2>2
    <3> QED
      BY <1>5, <3>1 DEF Right
  <2>3. CASE args[i] # BadAddress
    <3>1. results[i] = None
      BY <2>1, <2>3
    <3> QED
      BY <1>4, <2>3, <3>1
  <2> QED
    BY <2>2, <2>3
<1>7. WordsRead(args, jobs, results, str)
  BY <1>1, <1>2, <1>4, <1>6 DEF WordsRead
<1> QED
  BY <1>7 DEF args, results

LEMMA BeginReadKeepsReads == FullInv /\ BeginRead => ReadInv'
<1> SUFFICES ASSUME FullInv, BeginRead
             PROVE  ReadInv'
  OBVIOUS
<1>1. UNCHANGED client /\ UNCHANGED wire /\ strayed' = strayed
  BY DEF BeginRead, network
<1>2. PICK requests \in Reads :
         IF transport = "eip"
         THEN op' = [Idle EXCEPT !.at = "read", !.kind = "tags", !.args = requests,
                                 !.jobs = EipJobs(Len(requests)),
                                 !.results = [i \in DOMAIN requests |-> None]]
         ELSE \E jobs \in FinsJobs(Addresses(requests)) :
                op' = [Idle EXCEPT !.at = "read", !.kind = "words", !.args = Addresses(requests),
                                   !.jobs = jobs,
                                   !.results = [i \in DOMAIN requests |->
                                      IF Addresses(requests)[i] = BadAddress THEN Failed ELSE None]]
  BY DEF BeginRead
<1>3. WiresTyped'
  BY <1>1, NetworkTypes DEF FullInv, ReadInv
<1> DEFINE Begins(kind) == /\ op'.at = "read" /\ op'.kind = kind /\ op'.wrote = <<>> /\ ~op'.broke
<1>4. ASSUME transport = "eip"
      PROVE  Begins("tags") /\ TagsRead(op'.args, op'.jobs, op'.results)
  <2> DEFINE jobs == EipJobs(Len(requests))
             results == [i \in DOMAIN requests |-> None]
  <2>1. TagsRead(requests, jobs, results)
    BY TagsBegin
  <2> DEFINE kind == "tags"
  <2>2. op' = Begun(kind, requests, jobs, results)
    BY <1>2, <1>4 DEF Begun
  <2> HIDE DEF jobs, results, kind
  <2>3. /\ op'.at = "read" /\ op'.kind = kind /\ op'.args = requests /\ op'.jobs = jobs
        /\ op'.results = results /\ op'.wrote = <<>> /\ ~op'.broke
    BY <2>2, BegunFields
  <2> QED
    BY <2>1, <2>3 DEF kind
<1>5. ASSUME transport # "eip"
      PROVE  Begins("words") /\ WordsRead(op'.args, op'.jobs, op'.results, strayed')
  <2> DEFINE args == Addresses(requests)
             results == [i \in DOMAIN requests |-> IF args[i] = BadAddress THEN Failed ELSE None]
  <2>1. PICK jobs \in FinsJobs(args) :
          op' = Begun("words", args, jobs, results)
    BY <1>2, <1>5 DEF Begun
  <2>2. WordsRead(args, jobs, results, strayed)
    BY WordsBegin
  <2> DEFINE kind == "words"
  <2>3. op' = Begun(kind, args, jobs, results)
    BY <2>1
  <2> HIDE DEF args, results, kind
  <2>4. /\ op'.at = "read" /\ op'.kind = kind /\ op'.args = args /\ op'.jobs = jobs
        /\ op'.results = results /\ op'.wrote = <<>> /\ ~op'.broke
    BY <2>3, BegunFields
  <2> QED
    BY <1>1, <2>2, <2>4 DEF kind
<1>6. Placed'
  BY <1>4, <1>5 DEF Placed, ReadKinds
<1>7. Reading'
  <2>1. CASE transport = "eip"
    BY <1>4, <2>1 DEF Reading
  <2>2. CASE transport # "eip"
    BY <1>5, <2>2 DEF Reading
  <2> QED
    BY <2>1, <2>2
<1> QED
  BY <1>3, <1>6, <1>7 DEF ReadInv

LEMMA BeginStatusKeepsReads == FullInv /\ BeginStatus => ReadInv'
<1> SUFFICES ASSUME FullInv, BeginStatus
             PROVE  ReadInv'
  OBVIOUS
<1> DEFINE jobs == <<Job("status", <<>>)>>
           results == <<None>>
<1>1. UNCHANGED client /\ UNCHANGED wire
  BY DEF BeginStatus, network
<1>2. op' = [Idle EXCEPT !.at = "read", !.kind = "status", !.jobs = jobs, !.results = results]
  BY DEF BeginStatus
<1>3. jobs # <<>> /\ DOMAIN results = {1} /\ results[1] = None
  OBVIOUS
<1> HIDE DEF results
<1>4. StatusRead(jobs, results, strayed')
  BY <1>3 DEF StatusRead
<1> HIDE DEF jobs
<1>5. /\ op'.at = "read" /\ op'.kind = "status" /\ op'.jobs = jobs /\ op'.results = results
      /\ op'.wrote = <<>>
  BY <1>2, IdleCall DEF Fields
<1>6. WiresTyped'
  BY <1>1, NetworkTypes DEF FullInv, ReadInv
<1>7. Placed'
  BY <1>5 DEF Placed, ReadKinds
<1>8. Reading'
  BY <1>4, <1>5 DEF Reading
<1> QED
  BY <1>6, <1>7, <1>8 DEF ReadInv

\* A step of a read that goes on.
LEMMA ReadGoesOn ==
  ASSUME FullInv, op.at = "read", op'.at = "read", op'.kind = op.kind, op'.wrote = op.wrote,
         UNCHANGED client, wire' \in [Links -> Seq(Frames)],
         op.kind = "words" => WordsRead(op'.args, op'.jobs, op'.results, strayed'),
         op.kind = "tags" => TagsRead(op'.args, op'.jobs, op'.results),
         op.kind = "status" => StatusRead(op'.jobs, op'.results, strayed'),
         op.kind \in {"words", "tags"} /\ op'.broke => op'.failed \/ ~flag'[conn]
  PROVE  ReadInv'
<1>1. op.kind \in ReadKinds /\ op.wrote = <<>>
  BY DEF FullInv, ReadInv, Placed, ReadKinds
<1>2. Placed'
  BY <1>1 DEF Placed, ReadKinds
<1>3. conn' = conn
  BY DEF client
<1>4. Reading'
  BY <1>3 DEF Reading, ReadKinds
<1>5. WiresTyped'
  BY ClientTypes DEF FullInv, ReadInv
<1> QED
  BY <1>2, <1>4, <1>5 DEF ReadInv

LEMMA StatusAnswered ==
  ASSUME DOMAIN op = Fields, NEW str, StatusRead(op.jobs, op.results, str), op.jobs # <<>>,
         NEW now, NEW answer \in Frames \cup {None},
         ~now => answer \in {None, FinsAnswer(Head(op.jobs)), Other("endcode"), Other("error")}
  PROVE  LET c == AfterFins(Head(op.jobs), answer)
         IN  StatusRead(c.jobs, c.results, now)
<1> DEFINE job == Head(op.jobs)
           c == AfterFins(job, answer)
           whole == <<Words("CPU", 0, 8)>>
           took == Took(answer, 16)
           one == 1
           result == IF took THEN Success(1, answer.data) ELSE Failed
           R == <<result>>
<1>1. op.jobs = <<Job("status", <<>>)>>
  BY DEF StatusRead
<1>2. job = Job("status", <<>>) /\ Tail(op.jobs) = <<>>
  BY <1>1
<1>3. job.kind = "status"
  BY <1>2, JobFields
<1> HIDE DEF job
<1>4. c = Fill(R)
  BY <1>3 DEF AfterFins
<1>5. FinsAnswer(job) = Data(whole)
  BY <1>3 DEF FinsAnswer
<1>6. DOMAIN R = {1} /\ R[1] = result
  OBVIOUS
<1> HIDE DEF R, whole
<1>7. Fill(R).jobs = Tail(op.jobs) /\ Fill(R).results = Filled(R)
  BY FillIs
<1>8. DOMAIN op.results = {1}
  BY DEF StatusRead
<1>9. DOMAIN Filled(R) = {1} /\ Filled(R)[1] = result
  BY <1>6, <1>8 DEF Filled
<1>10. result \in Results(Memory) /\ (result.ok /\ ~now => result.data = whole)
  <2>1. CASE took
    <3>1. answer.kind = "data" /\ answer \in Frames
      BY <2>1 DEF Took
    <3> DEFINE data == answer.data
    <3>2. data \in Seq(Memory)
      BY <3>1 DEF Frames
    <3>3. ~now => answer = Data(whole)
      <4>1. answer # None
        BY <3>1, NotMissing
      <4> QED
        BY <1>5, <3>1, <4>1, OtherType DEF job
    <3>4. ~now => data = whole
      BY <3>3 DEF Data
    <3>5. one \in Nat /\ result = Success(one, data)
      BY <2>1
    <3> HIDE DEF one, data, result
    <3>6. result \in Results(Memory) /\ result.data = data
      BY <3>2, <3>5, SuccessType
    <3> QED
      BY <3>4, <3>6
  <2>2. CASE ~took
    <3>1. result = Failed
      BY <2>2
    <3> HIDE DEF result
    <3> QED
      BY <3>1, FailedType
  <2> QED
    BY <2>1, <2>2
<1> HIDE DEF result, c
<1>11. c.jobs = <<>> /\ c.results = Filled(R)
  BY <1>2, <1>4, <1>7
<1>12. result # None
  BY <1>10, NotMissing
<1>13. StatusRead(c.jobs, c.results, now)
  BY <1>9, <1>10, <1>11, <1>12 DEF StatusRead, whole
<1> QED
  BY <1>13 DEF c, job

\* An answer changes what is asked for and what is known, and nothing else.
LEMMA AfterFinsKept ==
  ASSUME DOMAIN op = Fields, NEW job, NEW answer
  PROVE  Kept(AfterFins(job, answer)) /\ AfterFins(job, answer).broke = op.broke
<1> DEFINE j == Head(op.jobs)
<1>1. ASSUME NEW results
      PROVE  Kept(Fill(results)) /\ Fill(results).broke = op.broke
  BY FillIs DEF Kept
<1>2. ASSUME NEW jobs
      PROVE  Kept([op EXCEPT !.jobs = jobs]) /\ [op EXCEPT !.jobs = jobs].broke = op.broke
  BY DEF Kept, Fields
<1>3. Kept(AfterGroup(answer)) /\ AfterGroup(answer).broke = op.broke
  BY <1>1 DEF AfterGroup
<1>4. Kept(AfterMulti(answer)) /\ AfterMulti(answer).broke = op.broke
  <2>1. \/ \E results : AfterMulti(answer) = Fill(results)
        \/ AfterMulti(answer) = [op EXCEPT !.jobs = Alone(j.groups) \o Tail(op.jobs)]
    BY DEF AfterMulti
  <2> QED
    BY <1>1, <1>2, <2>1
<1>5. Kept(AfterBits(answer)) /\ AfterBits(answer).broke = op.broke
  <2> DEFINE a == op.args[Head(op.jobs).groups[1].items[1]]
             n == a.count % 65536
             results == [i \in Items(Head(op.jobs)) |->
                           IF Took(answer, n) THEN Success(a.count, Slice(answer.data, 0, n)) ELSE Failed]
  <2>1. AfterBits(answer) = Fill(results)
    BY DEF AfterBits
  <2> HIDE DEF results
  <2> QED
    BY <1>1, <2>1
<1>6. \/ AfterFins(job, answer) \in {AfterGroup(answer), AfterMulti(answer), AfterBits(answer)}
      \/ \E results : AfterFins(job, answer) = Fill(results)
  BY DEF AfterFins
<1> QED
  BY <1>1, <1>3, <1>4, <1>5, <1>6

LEMMA ReadFinsKeepsReads == FullInv /\ ReadFins => ReadInv'
<1> SUFFICES ASSUME FullInv, ReadFins
             PROVE  ReadInv'
  OBVIOUS
<1> DEFINE job == Head(op.jobs)
           whole == FinsAnswer(job)
           d(answer) == [AfterFins(job, answer) EXCEPT !.broke = @ \/ answer = None]
           Got(answer, done) == op' = d(answer)
<1>1. /\ op.at = "read" /\ op.jobs # <<>> /\ op.kind # "tags" /\ UNCHANGED client /\ DOMAIN op = Fields
      /\ LinkInv /\ conn # 0 /\ conn' = conn
  BY DEF ReadFins, At, FullInv, IInv, LinkInv, Shape, OneSocket, Asking, client
<1>2. op.kind \in {"words", "status"}
  BY <1>1 DEF FullInv, ReadInv, Placed, ReadKinds
<1>3. \E answer : FinsHears(whole, answer) /\ op' = d(answer)
  <2>1. FinsAsk(whole, Got)
    <3> HIDE DEF d
    <3> QED
      BY DEF ReadFins, d
  <2>2. \A answer, done : Got(answer, done) => op' = d(answer)
    OBVIOUS
  <2> HIDE DEF Got, d, whole
  <2> QED
    BY <2>1, <2>2 DEF FinsAsk, FinsHears
<1>4. PICK answer : FinsHears(whole, answer) /\ op' = d(answer)
  BY <1>3
<1>5. whole \in Frames
  <2>1. CASE op.kind = "words"
    <3>1. IsRequest(op.args) /\ op.jobs \in Seq(JobsOf(op.args))
      BY <2>1 DEF FullInv, ReadInv, Reading, WordsRead
    <3> DEFINE J == JobsOf(op.args)
    <3>2. op.jobs \in Seq(J)
      BY <3>1
    <3> HIDE DEF J
    <3>3. job \in J
      BY <1>1, <3>2, TailOf
    <3> QED
      BY <3>1, <3>3, FinsAnswerType DEF J
  <2>2. CASE op.kind = "status"
    <3>1. op.jobs = <<Job("status", <<>>)>>
      BY <1>1, <2>2 DEF FullInv, ReadInv, Reading, StatusRead
    <3>2. job.kind = "status"
      BY <3>1, JobFields
    <3> DEFINE area == "CPU"
               addr == 0
               n == 8
               s == Words(area, addr, n)
    <3>3. whole = Data(<<s>>)
      BY <3>2 DEF FinsAnswer
    <3>4. area \in DOMAIN AreaCode \cup {"CPU"} /\ addr \in Nat /\ n \in Nat
      OBVIOUS
    <3> HIDE DEF area, addr, n
    <3>5. s \in Memory
      BY <3>4 DEF Words, Memory
    <3> HIDE DEF s
    <3> QED
      BY <3>3, <3>5, DataType
  <2> QED
    BY <1>2, <2>1, <2>2
<1> HIDE DEF whole, job
<1>6. /\ wire' \in [Links -> Seq(Frames)] /\ answer \in Frames \cup {None}
      /\ strayed' \in BOOLEAN /\ (strayed => strayed')
      /\ ~strayed' => answer \in {None, whole, Other("endcode"), Other("error")}
      /\ answer = None => ~flag'[conn]
      /\ ~flag[conn] => ~flag'[conn]
  BY <1>1, <1>4, <1>5, FinsHeard DEF FullInv, ReadInv, WiresTyped
<1> DEFINE c == AfterFins(job, answer)
           broke == c.broke \/ answer = None
<1>7. Kept(c) /\ c.broke = op.broke
  BY <1>1, AfterFinsKept
<1>8. op' = [c EXCEPT !.broke = broke]
  BY <1>4
<1> HIDE DEF c, broke
<1>9. /\ op'.at = op.at /\ op'.kind = op.kind /\ op'.wrote = op.wrote /\ op'.args = op.args
      /\ op'.failed = c.failed /\ op'.jobs = c.jobs /\ op'.results = c.results /\ op'.broke = broke
  BY <1>7, <1>8 DEF Kept, Fields
<1>10. op.kind = "words" => WordsRead(op'.args, op'.jobs, op'.results, strayed')
  <2> SUFFICES ASSUME op.kind = "words"
               PROVE  WordsRead(op.args, c.jobs, c.results, strayed')
    BY <1>9
  <2>1. WordsRead(op.args, op.jobs, op.results, strayed)
    BY DEF FullInv, ReadInv, Reading
  <2>2. ~strayed' => answer \in {None, FinsAnswer(Head(op.jobs)), Other("endcode"), Other("error")}
    BY <1>6 DEF whole, job
  <2> DEFINE now == strayed'
  <2>3. now \in BOOLEAN /\ (strayed => now)
        /\ (~now => answer \in {None, FinsAnswer(Head(op.jobs)), Other("endcode"), Other("error")})
    BY <1>6, <2>2
  <2> HIDE DEF now
  <2>4. WordsRead(op.args, c.jobs, c.results, now)
    BY <1>1, <1>6, <2>1, <2>3, WordsAnswered DEF c, job
  <2> QED
    BY <2>4 DEF now
<1>11. op.kind = "status" => StatusRead(op'.jobs, op'.results, strayed')
  <2> SUFFICES ASSUME op.kind = "status"
               PROVE  StatusRead(c.jobs, c.results, strayed')
    BY <1>9
  <2>1. StatusRead(op.jobs, op.results, strayed)
    BY DEF FullInv, ReadInv, Reading
  <2>2. ~strayed' => answer \in {None, FinsAnswer(Head(op.jobs)), Other("endcode"), Other("error")}
    BY <1>6 DEF whole, job
  <2> QED
    BY <1>1, <1>6, <2>1, <2>2, StatusAnswered DEF c, job
<1>12. op.kind \in {"words", "tags"} /\ op'.broke => op'.failed \/ ~flag'[conn]
  <2> SUFFICES ASSUME op.kind = "words", op'.broke, ~op'.failed
               PROVE  ~flag'[conn]
    BY <1>1
  <2>1. op.broke \/ answer = None
    BY <1>7, <1>9 DEF broke
  <2>2. ~op.failed
    BY <1>7, <1>9 DEF Kept
  <2>3. op.broke => ~flag[conn]
    BY <2>2 DEF FullInv, ReadInv, Reading
  <2> QED
    BY <1>6, <2>1, <2>3
<1> QED
  BY <1>1, <1>6, <1>9, <1>10, <1>11, <1>12, ReadGoesOn

--------------------------------------------------------------------------------

LEMMA TagAnswerData ==
  ASSUME NEW items, NEW answer \in TagAnswers(items)
  PROVE  answer.kind \in {"data", "refused"}
<1>1. \A values : Data(values).kind = "data"
  BY DEF Data
<1>2. Other("refused").kind = "refused"
  BY DEF Other
<1>3. (\E values : answer = Data(values)) \/ answer = Other("refused")
  BY DEF TagAnswers
<1> QED
  BY <1>1, <1>2, <1>3

\* What the sockets tell of an error of the link.
LEMMA EipHeard ==
  ASSUME LinkInv, conn # 0
  PROVE  /\ Unsent => ~flag'[conn]
         /\ Transacted => flag[conn] /\ flag' = flag
         /\ \A done \in BOOLEAN : Dropped(done) => ~flag'[conn]
         /\ UNCHANGED network => flag' = flag
<1>1. conn \in Links /\ flag \in [Links -> BOOLEAN]
  BY DEF LinkInv, Shape
<1> QED
  BY <1>1 DEF Unsent, Transacted, Dropped, network

LEMMA ReadTagsKeepsReads == FullInv /\ ReadTags => ReadInv'
<1> SUFFICES ASSUME FullInv, ReadTags
             PROVE  ReadInv'
  OBVIOUS
<1> DEFINE job == Head(op.jobs)
           d(answer) == IF Len(job.items) > 1 THEN AfterBatch(job.items, answer)
                        ELSE AfterSingle(job, answer)
           Errors == {Other("refused"), Other("down"), Other("odd")}
           Heard(answer) == /\ answer.kind \in {"down", "odd"} => ~flag'[conn]
                            /\ ~flag[conn] => ~flag'[conn]
<1>1. /\ op.at = "read" /\ op.jobs # <<>> /\ op.kind = "tags" /\ UNCHANGED client /\ DOMAIN op = Fields
      /\ LinkInv /\ conn # 0
  BY DEF ReadTags, At, FullInv, IInv, LinkInv, Shape, OneSocket, Asking
<1>2. /\ Other("refused").kind = "refused" /\ Other("down").kind = "down" /\ Other("odd").kind = "odd"
  BY DEF Other
<1>3. \E answer : /\ op' = d(answer) /\ answer \in TagAnswers(job.items) \cup Errors
                  /\ \/ answer = Other("refused") /\ UNCHANGED network
                     \/ Unsent
                     \/ answer \in TagAnswers(job.items) /\ Transacted
                     \/ \E done \in BOOLEAN : Dropped(done)
  <2> HIDE DEF d
  <2> QED
    BY DEF ReadTags, EipAsk, d
<1>4. PICK answer : /\ op' = d(answer) /\ answer \in TagAnswers(job.items) \cup Errors
                    /\ \/ answer = Other("refused") /\ UNCHANGED network
                       \/ Unsent
                       \/ answer \in TagAnswers(job.items) /\ Transacted
                       \/ \E done \in BOOLEAN : Dropped(done)
  BY <1>3
<1>5. wire' = wire /\ strayed' = strayed
  BY <1>4, EipWire
<1>6. (answer.kind \in {"down", "odd"} => ~flag'[conn]) /\ (~flag[conn] => ~flag'[conn])
  <2>1. answer \in TagAnswers(job.items) => answer.kind \notin {"down", "odd"}
    BY TagAnswerData
  <2> HIDE DEF job
  <2> QED
    BY <1>1, <1>2, <1>4, <2>1, EipHeard
<1>7. TagsRead(op.args, op.jobs, op.results)
  BY <1>1 DEF FullInv, ReadInv, Reading
<1> DEFINE c == d(answer)
<1>8. /\ Kept(c) /\ TagsRead(op.args, c.jobs, c.results)
      /\ c.broke => c.failed \/ op.broke \/ answer.kind \in {"down", "odd"}
  BY <1>1, <1>4, <1>7, TagsAnswered
<1>9. op' = c
  BY <1>4
<1> HIDE DEF c, d
<1>10. /\ op'.at = op.at /\ op'.kind = op.kind /\ op'.wrote = op.wrote /\ op'.args = op.args
       /\ TagsRead(op'.args, op'.jobs, op'.results) /\ (op.failed => op'.failed)
       /\ op'.broke => op'.failed \/ op.broke \/ answer.kind \in {"down", "odd"}
  BY <1>8, <1>9 DEF Kept
<1>11. op.broke => op.failed \/ ~flag[conn]
  BY <1>1 DEF FullInv, ReadInv, Reading
<1>12. op'.broke => op'.failed \/ ~flag'[conn]
  BY <1>6, <1>10, <1>11
<1>13. wire' \in [Links -> Seq(Frames)]
  BY <1>5 DEF FullInv, ReadInv, WiresTyped
<1> QED
  BY <1>1, <1>10, <1>12, <1>13, ReadGoesOn

LEMMA EndReadKeepsReads == FullInv /\ EndRead => ReadInv'
<1> SUFFICES ASSUME FullInv, EndRead
             PROVE  ReadInv'
  OBVIOUS
<1> DEFINE failed == op.failed \/ (op.kind # "status" /\ ~(up /\ flag[conn]))
<1>1. /\ op.at = "read" /\ op.jobs = <<>> /\ UNCHANGED client /\ UNCHANGED network
      /\ op' = [op EXCEPT !.at = "done", !.failed = failed] /\ DOMAIN op = Fields
  BY DEF EndRead, At, FullInv, IInv, LinkInv, Shape
<1> HIDE DEF failed
<1>2. /\ op'.at = "done" /\ op'.kind = op.kind /\ op'.args = op.args /\ op'.jobs = <<>>
      /\ op'.results = op.results /\ op'.wrote = op.wrote /\ (op'.broke <=> op.broke)
      /\ (op'.failed <=> failed)
  BY <1>1 DEF Fields
<1>3. op.kind \in ReadKinds /\ op.wrote = <<>>
  BY <1>1 DEF FullInv, ReadInv, Placed, ReadKinds
<1>4. wire' = wire /\ strayed' = strayed
  BY <1>1 DEF network
<1>5. WiresTyped'
  BY <1>1, <1>4, NetworkTypes DEF FullInv, ReadInv
<1>6. Placed'
  BY <1>2, <1>3 DEF Placed, ReadKinds
<1>7. op.kind \in {"words", "tags"} /\ op.broke => failed
  BY DEF FullInv, ReadInv, Reading, failed
<1>8. /\ op.kind = "words" => WordsRead(op'.args, op'.jobs, op'.results, strayed')
      /\ op.kind = "tags" => TagsRead(op'.args, op'.jobs, op'.results)
      /\ op.kind = "status" => StatusRead(op'.jobs, op'.results, strayed')
  BY <1>1, <1>2, <1>4 DEF FullInv, ReadInv, Reading
<1>9. Reading'
  BY <1>2, <1>7, <1>8 DEF Reading
<1> QED
  BY <1>5, <1>6, <1>9 DEF ReadInv

(* Listings *)

LEMMA BeginBrowseKeepsReads == FullInv /\ BeginBrowse => ReadInv'
<1> SUFFICES ASSUME FullInv, BeginBrowse
             PROVE  ReadInv'
  OBVIOUS
<1>1. /\ UNCHANGED client /\ UNCHANGED wire /\ op' = [Idle EXCEPT !.at = "browse", !.kind = "browse"]
  BY DEF BeginBrowse, network
<1>2. op'.at = "browse" /\ op'.kind = "browse" /\ op'.results = <<>> /\ op'.wrote = <<>>
  BY <1>1, IdleCall DEF Fields
<1>3. WiresTyped'
  BY <1>1, NetworkTypes DEF FullInv, ReadInv
<1>4. Placed'
  BY <1>2 DEF Placed, ReadKinds
<1>5. Reading'
  BY <1>2, NoReading DEF ReadKinds
<1> QED
  BY <1>3, <1>4, <1>5 DEF ReadInv

LEMMA BrowseKeepsReads ==
  FullInv /\ (AskPage55 \/ AskPage5F \/ AskTypes \/ AskType1 \/ AskCount \/ AskInstance) => ReadInv'
<1> SUFFICES ASSUME FullInv, AskPage55 \/ AskPage5F \/ AskTypes \/ AskType1 \/ AskCount \/ AskInstance
             PROVE  ReadInv'
  OBVIOUS
<1> DEFINE Asks == /\ op.at = "browse" /\ UNCHANGED client /\ wire' = wire
                   /\ op' = op \/ op' = [op EXCEPT !.at = "done"]
<1>1. Asks
  <2> USE EipWire DEF Send, EipAsk, At
  <2>1. AskPage55 => Asks
    BY DEF AskPage55
  <2>2. AskPage5F => Asks
    BY DEF AskPage5F
  <2>3. AskTypes => Asks
    BY DEF AskTypes
  <2>4. AskType1 => Asks
    BY DEF AskType1
  <2>5. AskCount => Asks
    BY DEF AskCount
  <2>6. AskInstance => Asks
    BY DEF AskInstance
  <2> QED
    BY <2>1, <2>2, <2>3, <2>4, <2>5, <2>6
<1>2. op.kind = "browse" /\ DOMAIN op = Fields
  BY <1>1 DEF FullInv, IInv, LinkInv, Shape, ReadInv, Placed
<1>3. op'.kind = op.kind /\ op'.results = op.results /\ op'.wrote = op.wrote /\ op'.at \in {"browse", "done"}
  BY <1>1, <1>2 DEF Fields
<1>4. wire' \in [Links -> Seq(Frames)]
  BY <1>1 DEF FullInv, ReadInv, WiresTyped
<1> QED
  BY <1>1, <1>2, <1>3, <1>4, OtherCallKeepsReads

(* The invariant and the theorems *)

LEMMA InitReads == Init => FullInv
<1> SUFFICES ASSUME Init
             PROVE  FullInv
  OBVIOUS
<1>1. IInv
  BY InitInv
<1>2. WiresTyped
  <2>1. <<>> \in Seq(Frames)
    OBVIOUS
  <2> QED
    BY <2>1 DEF Init, WiresTyped
<1>3. op = Idle
  BY DEF Init
<1>4. Placed
  BY <1>3, IdleCall DEF Placed, ReadKinds
<1>5. Reading
  BY <1>3, IdleCall DEF Reading, ReadKinds
<1> QED
  BY <1>1, <1>2, <1>4, <1>5 DEF FullInv, ReadInv

LEMMA NextReads == FullInv /\ Next => ReadInv'
<1> SUFFICES ASSUME FullInv, Next
             PROVE  ReadInv'
  OBVIOUS
<1>1. CASE BeginRead \/ BeginStatus \/ ReadFins \/ ReadTags \/ EndRead
  BY <1>1, BeginReadKeepsReads, BeginStatusKeepsReads, ReadFinsKeepsReads, ReadTagsKeepsReads,
     EndReadKeepsReads
<1>2. CASE BeginWrite \/ WriteFins \/ AskType \/ WriteTag \/ Ping \/ Return
  BY <1>2, BeginWriteKeepsReads, WriteFinsKeepsReads, AskTypeKeepsReads, WriteTagKeepsReads,
     PingKeepsReads, ReturnKeepsReads
<1>3. CASE Close \/ SetDisconnected \/ Reconnect \/ ReconnectFails \/ Panic
  BY <1>3, CloseKeepsReads, SetDisconnectedKeepsReads, ReconnectKeepsReads, PanicKeepsReads
<1>4. CASE \E k \in Links : Break(k)
  BY <1>4, BreakKeepsReads
<1> QED
  BY <1>1, <1>2, <1>3, <1>4 DEF Next

\* The invariant of the sockets and writes, with what the reads have and ask for yet, and the types.
THEOREM ReadInvariant == BrowseSpec => []FullInv
<1>1. BrowseInit => FullInv
  BY InitReads DEF BrowseInit
<1>2. FullInv /\ [BrowseNext]_<<vars, browse>> => FullInv'
  <2> SUFFICES ASSUME FullInv, [BrowseNext]_<<vars, browse>>
               PROVE  IInv' /\ ReadInv'
    BY DEF FullInv
  <2>1. IInv'
    BY NextInv, BeginBrowseKeepsInv, BrowseKeepsInv, UnchangedKeepsInv DEF BrowseNext, FullInv
  <2>2. ReadInv'
    BY NextReads, BeginBrowseKeepsReads, BrowseKeepsReads, UnchangedKeepsReads DEF BrowseNext
  <2> QED
    BY <2>1, <2>2
<1> QED
  BY <1>1, <1>2, PTL DEF BrowseSpec

LEMMA ReadsOfInv == FullInv => ReadsExact
<1> SUFFICES ASSUME FullInv, op.at = "done", op.kind \in {"words", "tags", "status"}
             PROVE  /\ op.broke /\ op.kind # "status" => op.failed
                    /\ \A i \in DOMAIN op.results :
                         LET r == op.results[i]
                         IN  /\ r # None
                             /\ r.ok /\ ~strayed =>
                                  CASE op.kind = "tags" -> r.data = <<Tag(op.args[i].text)>>
                                    [] op.kind = "status" -> r.data = <<Words("CPU", 0, 8)>>
                                    [] OTHER ->
                                         /\ Expressible(op.args[i]) => r.data = <<Wanted(op.args[i])>>
                                         /\ r.count # op.args[i].count => WordCount(op.args[i]) = 1
  BY DEF ReadsExact
<1>1. op.jobs = <<>> /\ (op.broke /\ op.kind # "status" => op.failed)
  BY DEF FullInv, ReadInv, Reading, ReadKinds
<1> DEFINE Told(i) ==
      LET r == op.results[i]
      IN  /\ r # None
          /\ r.ok /\ ~strayed =>
               CASE op.kind = "tags" -> r.data = <<Tag(op.args[i].text)>>
                 [] op.kind = "status" -> r.data = <<Words("CPU", 0, 8)>>
                 [] OTHER ->
                      /\ Expressible(op.args[i]) => r.data = <<Wanted(op.args[i])>>
                      /\ r.count # op.args[i].count => WordCount(op.args[i]) = 1
<1>2. ASSUME op.kind = "words", NEW i \in DOMAIN op.results
      PROVE  Told(i)
  <2>1. WordsRead(op.args, op.jobs, op.results, strayed)
    BY <1>2 DEF FullInv, ReadInv, Reading
  <2>2. i \in DOMAIN op.args /\ ~Covers(op.jobs, i)
    <3>1. i \in DOMAIN op.args
      BY <1>2, <2>1 DEF WordsRead
    <3>2. DOMAIN op.jobs = {}
      BY <1>1
    <3> QED
      BY <3>1, <3>2 DEF Covers
  <2>3. op.results[i] # None /\ Right(op.args[i], op.results[i], strayed)
    BY <2>1, <2>2 DEF WordsRead
  <2> QED
    BY <1>2, <2>3 DEF Right
<1>3. ASSUME op.kind = "tags", NEW i \in DOMAIN op.results
      PROVE  Told(i)
  <2>1. TagsRead(op.args, op.jobs, op.results)
    BY <1>3 DEF FullInv, ReadInv, Reading
  <2>2. i \in DOMAIN op.args /\ op.args \in Reads /\ op.results[i] \in TagResults(op.args, i)
    BY <1>3, <2>1 DEF TagsRead
  <2>3. PICK b : Bounds(op.args, op.jobs, op.results, b)
    BY <2>1 DEF TagsRead
  <2>4. Len(op.args) \in Nat /\ DOMAIN op.args = 1..Len(op.args)
    BY <2>2, ReadsType
  <2>5. op.results[i] # None
    <3>1. Len(op.jobs) = 0
      BY <1>1
    <3>2. b[0] = Len(op.args)
      BY <2>3, <3>1 DEF Bounds
    <3>3. ~(i > b[0])
      BY <2>2, <2>4, <3>2
    <3> QED
      BY <2>2, <2>3, <3>3 DEF Bounds
  <2>6. ~Failed.ok
    BY FailedType
  <2>7. \A one, data : Success(one, data).data = data
    BY DEF Success
  <2>8. op.results[i].ok => op.results[i].data = <<Tag(op.args[i].text)>>
    BY <2>2, <2>5, <2>6, <2>7, NotMissing DEF TagResults
  <2> QED
    BY <1>3, <2>5, <2>8
<1>4. ASSUME op.kind = "status", NEW i \in DOMAIN op.results
      PROVE  Told(i)
  <2>1. StatusRead(op.jobs, op.results, strayed)
    BY <1>4 DEF FullInv, ReadInv, Reading
  <2>2. i = 1
    BY <1>4, <2>1 DEF StatusRead
  <2>3. op.results[1] # None /\ (op.results[1].ok /\ ~strayed => op.results[1].data = <<Words("CPU", 0, 8)>>)
    BY <1>1, <2>1 DEF StatusRead
  <2> QED
    BY <1>4, <2>2, <2>3
<1> QED
  BY <1>1, <1>2, <1>3, <1>4

\* A read has a result for each address, its own bytes if the result says so and no stray frame came,
\* whatever it was grouped or batched with; a lost link is told (omron/client.go, readFINS, readEIP,
\* batch.go).
THEOREM ReadsStayExact == BrowseSpec => []ReadsExact
  BY ReadInvariant, ReadsOfInv, PTL

LEMMA TypesOfInv == FullInv => TypeOK
<1> SUFFICES ASSUME FullInv
             PROVE  TypeOK
  OBVIOUS
<1>1. /\ transport \in {"fins", "tcp", "udp", "eip"} /\ flag \in [Links -> BOOLEAN]
      /\ link \in [Links -> {"unused", "open", "broken", "closed"}] /\ strayed \in BOOLEAN
      /\ (up => conn # 0) /\ conn \in {0} \cup Links
  BY DEF FullInv, IInv, LinkInv, Shape, OneSocket
<1>2. {up, cip, strayed, panicked} \subseteq BOOLEAN /\ wire \in [Links -> Seq(Frames)]
  BY <1>1 DEF FullInv, ReadInv, WiresTyped
<1>3. conn \in 0..MaxLinks
  <2>1. MaxLinks \in Nat
    BY MaxLinksAssumption
  <2> QED
    BY <1>1, <2>1 DEF Links
<1>4. op.at \in {"idle", "read", "type", "write", "browse", "done"}
  BY DEF FullInv, ReadInv, Placed
<1>5. LET known == IF op.kind = "tags" THEN Results(Tags) ELSE Results(Memory)
      IN  \A i \in DOMAIN op.results : op.results[i] \in {None} \cup known
  <2>1. ASSUME op.kind = "tags", NEW i \in DOMAIN op.results
        PROVE  op.results[i] \in {None} \cup Results(Tags)
    <3>1. TagsRead(op.args, op.jobs, op.results)
      BY <2>1 DEF FullInv, ReadInv, Reading
    <3>2. op.args \in Reads /\ i \in DOMAIN op.args /\ op.results[i] \in TagResults(op.args, i)
      BY <2>1, <3>1 DEF TagsRead
    <3>3. TagResults(op.args, i) \subseteq {None} \cup Results(Tags)
      BY <3>2, TagResultTypes
    <3> QED
      BY <3>2, <3>3
  <2>2. ASSUME op.kind # "tags", NEW i \in DOMAIN op.results
        PROVE  op.results[i] \in {None} \cup Results(Memory)
    <3>1. CASE op.kind = "words"
      <4>1. WordsRead(op.args, op.jobs, op.results, strayed)
        BY <3>1 DEF FullInv, ReadInv, Reading
      <4> QED
        BY <2>2, <4>1 DEF WordsRead
    <3>2. CASE op.kind = "status"
      <4>1. StatusRead(op.jobs, op.results, strayed)
        BY <3>2 DEF FullInv, ReadInv, Reading
      <4>2. i = 1
        BY <2>2, <4>1 DEF StatusRead
      <4> QED
        BY <4>1, <4>2 DEF StatusRead
    <3>3. CASE op.kind \notin ReadKinds
      <4>1. op.results = <<>>
        BY <3>3 DEF FullInv, ReadInv, Placed
      <4> QED
        BY <2>2, <4>1
    <3> QED
      BY <2>2, <3>1, <3>2, <3>3 DEF ReadKinds
  <2> QED
    BY <2>1, <2>2
<1>6. op.wrote \in IF transport = "eip" THEN Seq(Tags) ELSE Seq(Memory)
  <2>1. op.wrote = <<>> \/ op.kind = "write"
    BY DEF FullInv, ReadInv, Placed
  <2>2. CASE op.wrote = <<>>
    BY <2>2
  <2>3. CASE op.wrote # <<>>
    <3>1. /\ op.args \in Writes
          /\ op.wrote = <<IF transport = "eip" THEN Tag(op.args.text) ELSE Covered>>
          /\ transport # "eip" =>
               /\ op.target = ParseAddressWithType(op.args) /\ op.target # BadAddress
               /\ Encoded(op.target.type, op.args) > 0
      BY <2>1, <2>3 DEF FullInv, IInv, Writing
    <3>2. CASE transport = "eip"
      <4>1. Tag(op.args.text) \in Tags
        BY <3>1 DEF Tags
      <4> QED
        BY <3>1, <3>2, <4>1
    <3>3. CASE transport # "eip"
      <4> DEFINE a == op.target
                 n == (Encoded(a.type, op.args) + 1) \div 2
      <4>1. IsAddress(a)
        <5>1. IsText(op.args.text)
          BY <3>1, WritesAssumption
        <5> QED
          BY <3>1, <3>3, <5>1, ParsedAddress
      <4>2. op.args.n \in Nat
        BY <3>1, WritesAssumption
      <4>3. Encoded(a.type, op.args) \in Nat
        <5>1. TypeSize(a.type) \in Nat
          BY DEF TypeSize
        <5> DEFINE size == TypeSize(a.type)
        <5>2. size \in Nat
          BY <5>1
        <5> HIDE DEF size
        <5>3. size * (IF op.args.n = 0 THEN 1 ELSE op.args.n) \in Nat /\ op.args.n + 1 \in Nat
          BY <4>2, <5>2
        <5>4. Encoded(a.type, op.args)
                \in {0, 2, op.args.n + 1, size * (IF op.args.n = 0 THEN 1 ELSE op.args.n)}
          BY DEF Encoded, size
        <5> QED
          BY <5>3, <5>4
      <4>4. n \in Nat
        BY <4>3
      <4>5. /\ a.area \in DOMAIN AreaCode /\ a.addr \in Addrs /\ a.bit \in Nat
        BY <4>1 DEF IsAddress
      <4>6. Covered = IF a.type = "BOOL" THEN BitsFrom(a.area, a.addr, a.bit, 1) ELSE Words(a.area, a.addr, n)
        BY DEF Covered
      <4> DEFINE one == 1
      <4>7. one \in Nat
        OBVIOUS
      <4> HIDE DEF n, one, a
      <4>8. Words(a.area, a.addr, n) \in Memory /\ BitsFrom(a.area, a.addr, a.bit, one) \in Memory
        BY <4>4, <4>5, <4>7, StretchOf
      <4>9. Covered \in Memory
        BY <4>6, <4>8 DEF one
      <4> DEFINE cell == Covered
      <4>10. cell \in Memory /\ op.wrote = <<cell>>
        BY <3>1, <3>3, <4>9
      <4> HIDE DEF cell
      <4> QED
        BY <3>3, <4>10
    <3> QED
      BY <3>2, <3>3
  <2> QED
    BY <2>2, <2>3
<1> QED
  BY <1>1, <1>2, <1>3, <1>4, <1>5, <1>6 DEF TypeOK

\* The variables keep their types; the connected flag goes with a transport.
THEOREM TypesHold == BrowseSpec => []TypeOK
  BY ReadInvariant, TypesOfInv, PTL

-----------------------------------------------------------------------------
(* Sets of numbers in order *)

LEMMA RankGrows ==
  ASSUME NEW S \in SUBSET Nat, IsFiniteSet(S), NEW i \in S, NEW j \in S, i < j
  PROVE  Cardinality({k \in S : k <= i}) < Cardinality({k \in S : k <= j})
<1> DEFINE I == {k \in S : k <= i}
           J == {k \in S : k <= j}
<1>1. IsFiniteSet(J)
  BY FS_Subset
<1>2. I \in SUBSET J /\ j \in J /\ j \notin I
  <2>1. \A k \in S : k \in Nat
    OBVIOUS
  <2>2. \A k \in S : k <= i => k <= j
    BY <2>1
  <2>3. j <= j /\ ~(j <= i)
    BY <2>1
  <2> QED
    BY <2>2, <2>3
<1> HIDE DEF I, J
<1>3. IsFiniteSet(I) /\ Cardinality(I) <= Cardinality(J) /\ (Cardinality(J) = Cardinality(I) => J = I)
  BY <1>1, <1>2, FS_Subset
<1>4. Cardinality(I) \in Nat /\ Cardinality(J) \in Nat
  BY <1>1, <1>3, FS_CardinalityType
<1>5. Cardinality(I) < Cardinality(J)
  BY <1>2, <1>3, <1>4
<1> QED
  BY <1>5 DEF I, J

\* Every number of the set has a rank of its own, and every rank is taken.
LEMMA RankOnto ==
  ASSUME NEW S \in SUBSET Nat, IsFiniteSet(S)
  PROVE  /\ Cardinality(S) \in Nat
         /\ \A i \in S : Cardinality({k \in S : k <= i}) \in 1..Cardinality(S)
         /\ \A n \in 1..Cardinality(S) : \E i \in S : Cardinality({k \in S : k <= i}) = n
<1> DEFINE Rank(i) == Cardinality({k \in S : k <= i})
           N == Cardinality(S)
           f == [i \in S |-> Rank(i)]
<1>1. N \in Nat
  BY FS_CardinalityType
<1>2. ASSUME NEW i \in S
      PROVE  Rank(i) \in 1..N
  <2> DEFINE I == {k \in S : k <= i}
  <2>1. I \in SUBSET S /\ I # {}
    <3>1. i <= i
      OBVIOUS
    <3> QED
      BY <3>1
  <2> HIDE DEF I
  <2>2. IsFiniteSet(I) /\ Cardinality(I) <= N
    BY <2>1, FS_Subset
  <2>3. Cardinality(I) \in Nat /\ Cardinality(I) # 0
    BY <2>1, <2>2, FS_CardinalityType, FS_EmptySet
  <2>4. Cardinality(I) \in 1..N
    BY <1>1, <2>2, <2>3
  <2> QED
    BY <2>4 DEF I
<1>3. ASSUME NEW i \in S, NEW j \in S, Rank(i) = Rank(j)
      PROVE  i = j
  <2>1. ~(i < j)
    BY <1>3, <1>2, <1>1, RankGrows
  <2>2. ~(j < i)
    BY <1>3, <1>2, <1>1, RankGrows
  <2> QED
    BY <2>1, <2>2
<1> HIDE DEF Rank, N
<1>4. f \in Injection(S, 1..N)
  BY <1>2, <1>3 DEF Injection, IsInjective
<1>5. IsFiniteSet(1..N) /\ Cardinality(1..N) = N
  BY <1>1, FS_Interval
<1>6. f \in Surjection(S, 1..N)
  BY <1>4, <1>5, FS_Injection DEF N
<1>7. ASSUME NEW n \in 1..N
      PROVE  \E i \in S : Rank(i) = n
  BY <1>6 DEF Surjection
<1> QED
  BY <1>1, <1>2, <1>7 DEF Rank, N

\* The numbers of a finite set in order: each once, and the last one is the greatest.
LEMMA IncreasingIs ==
  ASSUME NEW S \in SUBSET Nat, IsFiniteSet(S)
  PROVE  /\ Increasing(S) \in Seq(S) /\ Increasing(S) \in Seq(Nat)
         /\ \A m, n \in DOMAIN Increasing(S) : Increasing(S)[m] = Increasing(S)[n] => m = n
         /\ \A i \in S : \E n \in DOMAIN Increasing(S) : Increasing(S)[n] = i
         /\ Increasing(S) = <<>> <=> S = {}
         /\ S # {} => Last(Increasing(S)) \in S /\ \A i \in S : i <= Last(Increasing(S))
<1> DEFINE Rank(i) == Cardinality({k \in S : k <= i})
           N == Cardinality(S)
           s == Increasing(S)
<1>1. /\ N \in Nat
      /\ \A i \in S : Rank(i) \in 1..N
      /\ \A n \in 1..N : \E i \in S : Rank(i) = n
  BY RankOnto
<1>2. /\ \A i, j \in S : i < j => Rank(i) < Rank(j)
      /\ \A i \in S : i \in Nat
  BY RankGrows
<1>3. s = [n \in 1..N |-> CHOOSE i \in S : Rank(i) = n]
  BY DEF Increasing
<1> HIDE DEF Rank, N, s
<1>4. DOMAIN s = 1..N
  BY <1>3
<1>5. \A n \in 1..N : s[n] \in S /\ Rank(s[n]) = n
  BY <1>1, <1>3
<1>6. s \in [1..N -> S]
  BY <1>3, <1>5
<1>7. s \in Seq(S) /\ Len(s) = N /\ s \in Seq(Nat)
  <2>1. s \in [1..N -> Nat]
    BY <1>2, <1>3, <1>5
  <2> QED
    BY <1>1, <1>6, <2>1
<1>8. \A m, n \in DOMAIN s : s[m] = s[n] => m = n
  BY <1>4, <1>5
<1>9. ASSUME NEW i \in S
      PROVE  Rank(i) \in DOMAIN s /\ s[Rank(i)] = i
  <2>1. Rank(i) \in 1..N
    BY <1>1
  <2>2. s[Rank(i)] \in S /\ Rank(s[Rank(i)]) = Rank(i)
    BY <1>5, <2>1
  <2>3. ~(s[Rank(i)] < i) /\ ~(i < s[Rank(i)])
    <3>1. s[Rank(i)] \in Nat /\ i \in Nat
      BY <1>2, <2>2
    <3>2. Rank(i) \in Nat
      BY <1>1, <2>1
    <3> QED
      BY <1>2, <2>2, <3>1, <3>2
  <2>4. s[Rank(i)] \in Nat /\ i \in Nat
    BY <1>2, <2>2
  <2> QED
    BY <1>4, <2>1, <2>3, <2>4
<1>10. s = <<>> <=> S = {}
  <2>1. ASSUME s = <<>>
        PROVE  S = {}
    BY <1>9, <2>1
  <2>2. ASSUME S = {}
        PROVE  s = <<>>
    <3>1. N = 0
      BY <1>1, <1>5, <2>2
    <3> QED
      BY <1>7, <3>1
  <2> QED
    BY <2>1, <2>2
<1>11. ASSUME S # {}
       PROVE  Last(s) \in S /\ \A i \in S : i <= Last(s)
  <2>1. PICK x \in S : TRUE
    BY <1>11
  <2>2. N \in 1..N
    BY <1>1, <2>1
  <2>3. Last(s) = s[N] /\ s[N] \in S /\ Rank(s[N]) = N
    BY <1>5, <1>7, <2>2 DEF Last
  <2>4. ASSUME NEW i \in S
        PROVE  i <= Last(s)
    <3>1. Rank(i) <= N /\ Rank(i) \in Nat
      BY <1>1
    <3>2. s[N] \in Nat /\ i \in Nat
      BY <1>2, <2>3
    <3>3. s[N] < i => N < Rank(i)
      BY <1>2, <2>3
    <3>4. ~(s[N] < i)
      BY <1>1, <3>1, <3>3
    <3> QED
      BY <2>3, <3>2, <3>4
  <2> QED
    BY <2>3, <2>4
<1> QED
  BY <1>7, <1>8, <1>9, <1>10, <1>11 DEF s

\* The elements of a sequence that are in a set, each as often as it was there.
LEMMA OnlyIs ==
  ASSUME NEW T, NEW s \in Seq(T), NEW S
  PROVE  /\ Only(s, S) \in Seq(T \cap S)
         /\ (\A m, n \in DOMAIN s : s[m] = s[n] => m = n) =>
              \A m, n \in DOMAIN Only(s, S) : Only(s, S)[m] = Only(s, S)[n] => m = n
         /\ \A n \in DOMAIN Only(s, S) : \E m \in DOMAIN s : Only(s, S)[n] = s[m]
         /\ \A m \in DOMAIN s : s[m] \in S => \E n \in DOMAIN Only(s, S) : Only(s, S)[n] = s[m]
<1> DEFINE P == {n \in DOMAIN s : s[n] \in S}
           at == Increasing(P)
           r == Only(s, S)
<1>1. DOMAIN s = 1..Len(s) /\ Len(s) \in Nat /\ \A n \in DOMAIN s : s[n] \in T
  OBVIOUS
<1>2. IsFiniteSet(1..Len(s))
  BY <1>1, FS_Interval
<1>3. P \in SUBSET Nat /\ IsFiniteSet(P)
  BY <1>1, <1>2, FS_Subset
<1>4. r = [n \in DOMAIN at |-> s[at[n]]]
  BY DEF Only
<1>5. \A m : m \in P <=> m \in DOMAIN s /\ s[m] \in S
  OBVIOUS
<1> HIDE DEF P
<1>6. /\ at \in Seq(P)
      /\ \A m, n \in DOMAIN at : at[m] = at[n] => m = n
      /\ \A i \in P : \E n \in DOMAIN at : at[n] = i
  BY <1>3, IncreasingIs
<1> HIDE DEF at, r
<1>7. DOMAIN at = 1..Len(at) /\ Len(at) \in Nat /\ \A n \in DOMAIN at : at[n] \in P
  BY <1>6
<1>8. DOMAIN r = 1..Len(at) /\ \A n \in DOMAIN r : r[n] = s[at[n]] /\ at[n] \in P
  BY <1>4, <1>7
<1>9. r \in Seq(T \cap S)
  <2>1. \A n \in DOMAIN r : r[n] \in T \cap S
    BY <1>1, <1>5, <1>8
  <2> QED
    BY <1>4, <1>7, <1>8, <2>1
<1>10. \A n \in DOMAIN r : \E m \in DOMAIN s : r[n] = s[m]
  BY <1>5, <1>8
<1>11. ASSUME NEW m \in DOMAIN s, s[m] \in S
       PROVE  \E n \in DOMAIN r : r[n] = s[m]
  <2>1. m \in P
    BY <1>5, <1>11
  <2> QED
    BY <1>6, <1>7, <1>8, <2>1
<1>12. ASSUME \A m, n \in DOMAIN s : s[m] = s[n] => m = n, NEW m \in DOMAIN r, NEW n \in DOMAIN r,
              r[m] = r[n]
       PROVE  m = n
  <2>1. at[m] = at[n]
    BY <1>5, <1>8, <1>12
  <2> QED
    BY <1>6, <1>7, <1>8, <2>1
<1> QED
  BY <1>9, <1>10, <1>11, <1>12 DEF r

-----------------------------------------------------------------------------
(* The tag listing: what each of its stages knows. A stage takes the listing and, apart, whether *)
(* an exchange of it failed, which a request decides together with where it goes on.             *)

BrowseFields == {"way", "part", "plc", "list", "next", "page", "names", "types", "tags", "limit",
                 "errors", "gasErrors", "short"}

Readables(p) == {i \in DOMAIN p.tags : Readable(p, i)}
Users(p) == {i \in DOMAIN p.tags : p.tags[i].kind = "user"}

Distinct(s) == \A m, n \in DOMAIN s : s[m] = s[n] => m = n
Holds(s, i) == \E n \in DOMAIN s : s[n] = i

\* The tags found are tags of the PLC, each once, with its own type.
Has(b, i) == \E n \in DOMAIN b.tags : b.tags[n].id = i

TagsRight(b, short) ==
  /\ b.tags \in Seq([id : Nat, type : Nat])
  /\ \A m, n \in DOMAIN b.tags : b.tags[m].id = b.tags[n].id => m = n
  /\ \A n \in DOMAIN b.tags :
       LET tag == b.tags[n]
       IN  /\ tag.id \in Readables(b.plc) /\ tag.type \in {0, tag.id}
           /\ System(b.plc, tag.id) => b.way = "list55"
           /\ tag.type = 0 => short \/ "named" \notin b.plc.services

Whole(b, short) ==
  TagsRight(b, short) /\ (~short /\ Reached(b) => \A i \in Users(b.plc) : Has(b, i))

\* A paged list: each page before this one has brought a name.
Before(ids, n) == {i \in ids : i < n}

Turning(b, ids) ==
  /\ b.page \in Nat /\ b.page < MaxPages
  /\ b.next \in {0, 1} \cup {i + 1 : i \in ids}
  /\ b.page <= Cardinality(Before(ids, b.next))

Paging55(b, short) ==
  /\ b.way = "list55" /\ b.list = 1 /\ b.names = <<>> /\ b.types = <<>>
  /\ TagsRight(b, short) /\ Turning(b, Readables(b.plc))
  /\ \A n \in DOMAIN b.tags : b.tags[n].id < b.next
  /\ \A i \in Before(Readables(b.plc), b.next) : Has(b, i)

\* The readable names of a list, and whether all of those that can be had are there.
NamesOf(p, list) == {i \in Listed(p, list) : Readable(p, i)}

Complete(b, list, short) ==
  ~short /\ "list5F" \in b.plc.services /\ PagesReach(b.plc, Listed(b.plc, list)) =>
    \A i \in NamesOf(b.plc, list) : Holds(b.names, i)

Named5F(b) ==
  /\ b.names \in Seq(Readables(b.plc)) /\ Distinct(b.names)
  /\ b.names # <<>> => "list5F" \in b.plc.services

Paging5F(b, short) ==
  /\ b.way = "list5F" /\ b.list \in {1, 2} /\ b.types = <<>> /\ b.tags = <<>>
  /\ Named5F(b) /\ Turning(b, NamesOf(b.plc, b.list))
  /\ \A n \in DOMAIN b.names :
       /\ b.plc.tags[b.names[n]].list <= b.list
       /\ b.plc.tags[b.names[n]].list = b.list => b.names[n] < b.next
  /\ \A i \in Before(NamesOf(b.plc, b.list), b.next) : Holds(b.names, i)
  /\ b.list = 2 => Complete(b, 1, short)

\* The types of the names before the next one are known, or were asked for.
Typing(b, short) ==
  /\ b.way = "types" /\ b.names \in Seq(Users(b.plc)) /\ Distinct(b.names)
  /\ ~short /\ PagesReach(b.plc, Listed(b.plc, 1)) /\ PagesReach(b.plc, Listed(b.plc, 2)) =>
       \A i \in Users(b.plc) : Holds(b.names, i)
  /\ b.next \in 1..Len(b.names) /\ b.types \in Seq(Nat) /\ Len(b.types) = b.next - 1
  /\ \A n \in DOMAIN b.types :
       /\ b.types[n] \in {0, b.names[n]}
       /\ b.types[n] = 0 => short \/ "named" \notin b.plc.services
  /\ b.part = "one" => b.page \in b.next..Len(b.names)

\* As many numbers in a row before the next one as the errors counted have no readable tag. With GAS
\* alone that is so until it has failed too often; then there is such a row somewhere before.
Blank(p, from, to) == \A k \in from..to : ~Readable(p, k)

Trail(b, next) ==
  \/ /\ "all" \in b.plc.services \/ (b.gasErrors < MaxGasErrors /\ b.gasErrors = b.errors)
     /\ b.errors < next /\ Blank(b.plc, next - b.errors, next - 1)
  \/ /\ "all" \notin b.plc.services
     /\ \E k \in 1..next : k + MaxGasErrors <= next /\ Blank(b.plc, k, k + MaxGasErrors - 1)

Tried(b, n, short) ==
  ~short /\ InstancesReach(b.plc, b.limit) => \A i \in Users(b.plc) : i < n => Has(b, i)

Trying(b, short) ==
  /\ b.way \in {"instances", "legacy"} /\ b.limit \in Nat \ {0} /\ b.next \in 1..b.limit
  /\ b.errors \in Nat /\ b.gasErrors \in Nat
  /\ TagsRight(b, short) /\ Tried(b, b.next, short)
  /\ \A n \in DOMAIN b.tags : b.tags[n].id < b.next
  /\ ~short /\ b.plc.services \cap {"all", "single"} # {} => Trail(b, b.next)
  /\ b.part = "name" =>
       b.gasErrors < MaxGasErrors /\ (~short /\ "all" \in b.plc.services => ~Readable(b.plc, b.next))
  /\ b.part = "type" => Readable(b.plc, b.next) /\ "single" \in b.plc.services

Stage(b, short) ==
  /\ DOMAIN b = BrowseFields /\ b.plc \in Plcs
  /\ b.part \in {"list55", "list5F", "multi", "one", "count", "all", "name", "type", "over"}
  /\ b.part = "list55" => Paging55(b, short)
  /\ b.part = "list5F" => Paging5F(b, short)
  /\ b.part \in {"multi", "one"} => Typing(b, short)
  /\ b.part = "count" => b.way = "instances" /\ b.tags = <<>>
  /\ b.part \in {"all", "name", "type"} => Trying(b, short)
  /\ b.part = "over" => Whole(b, short)

ListInv ==
  op.kind = "browse" =>
    /\ browse.short \in BOOLEAN /\ Stage(browse, browse.short)
    /\ op.at \in {"browse", "done"} /\ (op.at = "done" <=> browse.part = "over")

-----------------------------------------------------------------------------
(* The PLC's tags and its pages of them *)

Good(p, ids) == {i \in ids : Readable(p, i)}

LEMMA PlcTags ==
  ASSUME NEW p \in Plcs
  PROVE  /\ DOMAIN p.tags \in SUBSET (Nat \ {0}) /\ IsFiniteSet(DOMAIN p.tags)
         /\ \A i \in DOMAIN p.tags : p.tags[i].kind \in {"user", "system", "bad"} /\ p.tags[i].list \in {1, 2}
         /\ p.page \in Nat \ {0} /\ p.count \in Nat
<1> DEFINE T == DOMAIN p.tags
<1>1. /\ T \in SUBSET InstanceIds
      /\ \A i \in T : p.tags[i].kind \in {"user", "system", "bad"} /\ p.tags[i].list \in {1, 2}
      /\ p.page \in Nat \ {0} /\ p.count \in Nat
  BY PlcsAssumption
<1> HIDE DEF T
<1>2. IsFiniteSet(InstanceIds)
  <2> DEFINE greatest == 65535
  <2>1. 1 \in Int /\ greatest \in Int /\ InstanceIds = 1..greatest
    BY DEF InstanceIds
  <2> HIDE DEF greatest
  <2>2. IsFiniteSet(1..greatest)
    BY <2>1, FS_Interval
  <2> QED
    BY <2>1, <2>2
<1>3. InstanceIds \subseteq Nat \ {0}
  BY DEF InstanceIds
<1>4. IsFiniteSet(T)
  BY <1>1, <1>2, FS_Subset
<1>5. T \in SUBSET (Nat \ {0})
  BY <1>1, <1>3
<1> QED
  BY <1>1, <1>4, <1>5 DEF T

\* A user tag is a readable one that is not the system's, and each is in one of the two lists.
LEMMA UserTags ==
  ASSUME NEW p \in Plcs
  PROVE  /\ \A i : i \in Users(p) <=> i \in Readables(p) /\ ~System(p, i)
         /\ \A i \in Readables(p) : i \in NamesOf(p, 1) \/ i \in NamesOf(p, 2)
         /\ \A list : \A i \in NamesOf(p, list) : i \in Readables(p) /\ p.tags[i].list = list
         /\ \A i \in Readables(p) : i \in Nat \ {0} /\ Readable(p, i)
  BY PlcTags DEF Users, Readables, Readable, System, NamesOf, Listed

LEMMA SomeOf ==
  ASSUME NEW p \in Plcs, NEW ids \in SUBSET DOMAIN p.tags, NEW n
  PROVE  /\ Good(p, ids) \in SUBSET Nat /\ IsFiniteSet(Good(p, ids))
         /\ Before(Good(p, ids), n) \in SUBSET Nat /\ IsFiniteSet(Before(Good(p, ids), n))
         /\ Cardinality(Before(Good(p, ids), n)) \in Nat
<1>1. Good(p, ids) \in SUBSET DOMAIN p.tags
  BY DEF Good
<1>2. Good(p, ids) \in SUBSET Nat /\ IsFiniteSet(Good(p, ids))
  BY <1>1, PlcTags, FS_Subset
<1>3. Before(Good(p, ids), n) \in SUBSET Good(p, ids)
  BY DEF Before
<1>4. IsFiniteSet(Before(Good(p, ids), n))
  BY <1>2, <1>3, FS_Subset
<1> QED
  BY <1>2, <1>3, <1>4, FS_CardinalityType

\* A page has the first of the instances asked for, without a gap, and all of them if no more follow.
LEMMA PageIs ==
  ASSUME NEW p \in Plcs, NEW ids \in SUBSET DOMAIN p.tags, NEW from \in Nat
  PROVE  LET page == Page(p, ids, from)
         IN  /\ page.kind = "data" /\ page.more \in BOOLEAN
             /\ page.data \in SUBSET ids /\ \A i \in page.data : i >= from
             /\ \A i \in page.data, j \in ids : from <= j /\ j <= i => j \in page.data
             /\ ~page.more => \A i \in ids : i >= from => i \in page.data
<1> DEFINE rest == {i \in ids : i >= from}
           Rank(i) == Cardinality({j \in rest : j <= i})
           first == {i \in rest : Rank(i) <= p.page}
           page == Page(p, ids, from)
<1>1. page = [kind |-> "data", data |-> first, more |-> first # rest]
  BY DEF Page
<1>2. rest \in SUBSET Nat /\ IsFiniteSet(rest) /\ ids \in SUBSET Nat /\ p.page \in Nat
  <2>1. rest \in SUBSET DOMAIN p.tags
    OBVIOUS
  <2> HIDE DEF rest
  <2> QED
    BY <2>1, PlcTags, FS_Subset
<1>3. \A i : i \in rest <=> i \in ids /\ i >= from
  OBVIOUS
<1> HIDE DEF rest
<1>4. ASSUME NEW i \in first, NEW j \in ids, from <= j, j <= i
      PROVE  j \in first
  <2>1. i \in rest /\ j \in rest /\ Rank(i) <= p.page
    BY <1>2, <1>3, <1>4
  <2>2. i \in Nat /\ j \in Nat
    BY <1>2, <2>1
  <2>3. i = j \/ j < i
    BY <1>4, <2>2
  <2>4. i # j => Rank(j) < Rank(i)
    BY <1>2, <2>1, <2>3, RankGrows
  <2>5. Rank(i) \in Nat /\ Rank(j) \in Nat
    <3>1. Cardinality(rest) \in Nat /\ \A k \in rest : Rank(k) \in 1..Cardinality(rest)
      BY <1>2, RankOnto
    <3> QED
      BY <2>1, <3>1
  <2> HIDE DEF Rank
  <2>6. Rank(j) <= p.page
    BY <1>2, <2>1, <2>4, <2>5
  <2> QED
    BY <2>1, <2>6
<1>5. \A i \in first : i \in ids /\ i >= from
  BY <1>3
<1> HIDE DEF first
<1>6. page.kind = "data" /\ page.data = first /\ page.more = (first # rest)
  BY <1>1
<1> HIDE DEF page
<1>7. page.more \in BOOLEAN /\ (~page.more => \A i \in ids : i >= from => i \in page.data)
  BY <1>3, <1>6
<1>8. page.data \in SUBSET ids /\ \A i \in page.data : i >= from
  BY <1>5, <1>6
<1>9. \A i \in page.data, j \in ids : from <= j /\ j <= i => j \in page.data
  BY <1>4, <1>6
<1> QED
  BY <1>6, <1>7, <1>8, <1>9 DEF page

\* The readable names of a page, and what is known of the list after them.
LEMMA PageNames ==
  ASSUME NEW p \in Plcs, NEW ids \in SUBSET DOMAIN p.tags,
         NEW from \in {0, 1} \cup {i + 1 : i \in Good(p, ids)}
  PROVE  LET page == Page(p, ids, from)
             good == Increasing({i \in page.data : Readable(p, i)})
             to == Last(good) + 1
         IN  /\ from \in Nat /\ good \in Seq(Nat) /\ Distinct(good)
             /\ \A n \in DOMAIN good : good[n] \in Good(p, ids) /\ good[n] >= from
             /\ good # <<>> =>
                  /\ to \in {i + 1 : i \in Good(p, ids)}
                  /\ \A n \in DOMAIN good : good[n] < to
                  /\ \A i \in Good(p, ids) : i < to => i < from \/ Holds(good, i)
                  /\ Cardinality(Before(Good(p, ids), from)) + 1 <= Cardinality(Before(Good(p, ids), to))
             /\ ~page.more => \A i \in Good(p, ids) : i < from \/ Holds(good, i)
             /\ good = <<>> /\ PagesReach(p, ids) => \A i \in Good(p, ids) : i < from
<1> DEFINE page == Page(p, ids, from)
           S == {i \in page.data : Readable(p, i)}
           good == Increasing(S)
           to == Last(good) + 1
           G == Good(p, ids)
<1>1. G \in SUBSET Nat /\ IsFiniteSet(G) /\ \A i : i \in G <=> i \in ids /\ Readable(p, i)
  BY SomeOf DEF Good
<1>2. from \in Nat
  BY <1>1
<1>3. /\ page.more \in BOOLEAN
      /\ page.data \in SUBSET ids /\ \A i \in page.data : i >= from
      /\ \A i \in page.data, j \in ids : from <= j /\ j <= i => j \in page.data
      /\ ~page.more => \A i \in ids : i >= from => i \in page.data
  BY <1>2, PageIs
<1> HIDE DEF page
<1>4. \A i : i \in S <=> i \in page.data /\ Readable(p, i)
  OBVIOUS
<1>5. S \in SUBSET G
  BY <1>1, <1>3
<1>6. S \in SUBSET Nat /\ IsFiniteSet(S)
  BY <1>1, <1>5, FS_Subset
<1> HIDE DEF S, G
<1>7. /\ good \in Seq(S)
      /\ \A m, n \in DOMAIN good : good[m] = good[n] => m = n
      /\ \A i \in S : \E n \in DOMAIN good : good[n] = i
      /\ good = <<>> <=> S = {}
      /\ S # {} => Last(good) \in S /\ \A i \in S : i <= Last(good)
  BY <1>6, IncreasingIs
<1> HIDE DEF good
<1>8. \A n \in DOMAIN good : good[n] \in S
  BY <1>7
<1>9. \A i \in S : Holds(good, i)
  BY <1>7 DEF Holds
<1>10. good \in Seq(Nat)
  BY <1>6, IncreasingIs DEF good
<1>11. \A n \in DOMAIN good : good[n] \in G /\ good[n] >= from
  BY <1>3, <1>4, <1>5, <1>8
<1>12. ASSUME good # <<>>
       PROVE  /\ to \in {i + 1 : i \in G}
              /\ \A n \in DOMAIN good : good[n] < to
              /\ \A i \in G : i < to => i < from \/ Holds(good, i)
              /\ Cardinality(Before(G, from)) + 1 <= Cardinality(Before(G, to))
  <2> DEFINE l == Last(good)
  <2>1. l \in S /\ \A i \in S : i <= l
    BY <1>7, <1>12
  <2> HIDE DEF l
  <2>2. l \in Nat /\ l \in G /\ l \in page.data /\ l >= from
    BY <1>3, <1>4, <1>5, <1>6, <2>1
  <2>3. to = l + 1
    BY DEF l
  <2> HIDE DEF to
  <2>4. ASSUME NEW n \in DOMAIN good
        PROVE  good[n] < to
    <3>1. good[n] \in S /\ good[n] \in Nat
      BY <1>6, <1>8
    <3>2. good[n] <= l
      BY <2>1, <3>1
    <3> QED
      BY <2>2, <2>3, <3>1, <3>2
  <2>5. ASSUME NEW i \in G, i < to, ~(i < from)
        PROVE  Holds(good, i)
    <3>1. i \in Nat /\ i \in ids /\ Readable(p, i)
      BY <1>1
    <3>2. from <= i /\ i <= l
      BY <1>2, <2>2, <2>3, <2>5, <3>1
    <3>3. i \in page.data
      BY <1>3, <2>2, <3>1, <3>2
    <3> QED
      BY <1>4, <1>9, <3>1, <3>3
  <2>6. Cardinality(Before(G, from)) + 1 <= Cardinality(Before(G, to))
    <3> DEFINE A == Before(G, from)
               B == Before(G, to)
    <3>1. /\ A \in SUBSET G /\ B \in SUBSET G
          /\ \A i : i \in A <=> i \in G /\ i < from
          /\ \A i : i \in B <=> i \in G /\ i < to
      BY DEF Before
    <3>2. IsFiniteSet(A) /\ IsFiniteSet(B)
      BY <1>1, <3>1, FS_Subset
    <3> HIDE DEF A, B
    <3>3. l \in B /\ l \notin A
      BY <1>2, <2>2, <2>3, <3>1
    <3>4. A \cup {l} \in SUBSET B
      <4>1. \A i \in A : i \in G /\ i \in Nat /\ i < from
        BY <1>1, <3>1
      <4>2. \A i \in A : i < to
        BY <1>2, <2>2, <2>3, <4>1
      <4> QED
        BY <3>1, <3>3, <4>1, <4>2
    <3>5. IsFiniteSet(A \cup {l}) /\ Cardinality(A \cup {l}) = Cardinality(A) + 1
      BY <3>2, <3>3, FS_AddElement
    <3>6. Cardinality(A \cup {l}) <= Cardinality(B)
      BY <3>2, <3>4, FS_Subset
    <3>7. Cardinality(A) + 1 <= Cardinality(B)
      BY <3>5, <3>6
    <3> QED
      BY <3>7 DEF A, B
  <2>7. to \in {i + 1 : i \in G}
    BY <2>2, <2>3
  <2> QED
    BY <2>4, <2>5, <2>6, <2>7
<1>13. ASSUME ~page.more, NEW i \in G, ~(i < from)
       PROVE  Holds(good, i)
  <2>1. i \in ids /\ Readable(p, i) /\ i \in Nat
    BY <1>1
  <2>2. i \in page.data
    BY <1>2, <1>3, <1>13, <2>1
  <2> QED
    BY <1>4, <1>9, <2>1, <2>2
<1>14. ASSUME good = <<>>, PagesReach(p, ids), NEW i \in G
       PROVE  i < from
  <2>1. S = {}
    BY <1>7, <1>14
  <2>2. page.data \cap {j \in ids : Readable(p, j)} = {}
    BY <1>4, <2>1
  <2>3. ~page.more
    <3>1. {j \in ids : Readable(p, j)} = G
      BY DEF G, Good
    <3>2. from \in {0, 1} \cup {j + 1 : j \in G}
      BY DEF G
    <3>3. page.more => page.data \cap {j \in ids : Readable(p, j)} # {}
      BY <1>14, <3>1, <3>2 DEF PagesReach, page
    <3> QED
      BY <2>2, <3>3
  <2>4. ASSUME ~(i < from)
        PROVE  FALSE
    <3>1. Holds(good, i)
      BY <1>13, <2>3, <2>4
    <3>2. DOMAIN good = {}
      BY <1>14
    <3> QED
      BY <3>1, <3>2 DEF Holds
  <2> QED
    BY <2>4
<1>15. ~page.more => \A i \in G : i < from \/ Holds(good, i)
  BY <1>13
<1>16. good = <<>> /\ PagesReach(p, ids) => \A i \in G : i < from
  BY <1>14
<1>17. Distinct(good)
  BY <1>7 DEF Distinct
<1>18. good # <<>> => /\ to \in {i + 1 : i \in G}
                      /\ \A n \in DOMAIN good : good[n] < to
                      /\ \A i \in G : i < to => i < from \/ Holds(good, i)
                      /\ Cardinality(Before(G, from)) + 1 <= Cardinality(Before(G, to))
  BY <1>12
<1> HIDE DEF to
<1> QED
  BY <1>2, <1>10, <1>11, <1>15, <1>16, <1>17, <1>18 DEF page, S, good, to, G

\* As many pages as a list may have, each with a name, have brought all of them.
LEMMA PagesEnough ==
  ASSUME NEW p \in Plcs, NEW ids \in SUBSET DOMAIN p.tags, NEW n, PagesReach(p, ids),
         MaxPages <= Cardinality(Before(Good(p, ids), n))
  PROVE  \A i \in Good(p, ids) : i < n
<1> DEFINE G == Good(p, ids)
           B == Before(G, n)
<1>1. IsFiniteSet(G) /\ IsFiniteSet(B) /\ Cardinality(B) \in Nat
  BY SomeOf
<1>2. Cardinality(G) <= MaxPages
  BY DEF PagesReach, Good
<1>3. B \in SUBSET G /\ \A i \in B : i < n
  BY DEF Before
<1> HIDE DEF G
<1>4. MaxPages <= Cardinality(B)
  BY DEF G
<1> HIDE DEF B
<1>5. Cardinality(G) \in Nat /\ MaxPages \in Nat
  BY <1>1, FS_CardinalityType, BrowseAssumption
<1>6. Cardinality(B) <= Cardinality(G) /\ (Cardinality(G) = Cardinality(B) => G = B)
  BY <1>1, <1>3, FS_Subset
<1>7. G = B
  BY <1>1, <1>2, <1>4, <1>5, <1>6
<1> QED
  BY <1>3, <1>7 DEF G

-----------------------------------------------------------------------------
(* Sequences of names and of tags *)

LEMMA ConcatIs ==
  ASSUME NEW T, NEW s \in Seq(T), NEW t \in Seq(T)
  PROVE  /\ s \o t \in Seq(T)
         /\ \A n \in DOMAIN s : n \in DOMAIN (s \o t) /\ (s \o t)[n] = s[n]
         /\ \A m \in DOMAIN t : \E n \in DOMAIN (s \o t) : (s \o t)[n] = t[m]
         /\ \A n \in DOMAIN (s \o t) :
              \/ n \in DOMAIN s /\ (s \o t)[n] = s[n]
              \/ \E m \in DOMAIN t : n = Len(s) + m /\ (s \o t)[n] = t[m]
<1> DEFINE u == s \o t
<1>1. /\ u \in Seq(T) /\ Len(u) = Len(s) + Len(t)
      /\ \A n \in 1..(Len(s) + Len(t)) : u[n] = IF n <= Len(s) THEN s[n] ELSE t[n - Len(s)]
  OBVIOUS
<1>2. /\ Len(s) \in Nat /\ Len(t) \in Nat
      /\ DOMAIN s = 1..Len(s) /\ DOMAIN t = 1..Len(t) /\ DOMAIN u = 1..(Len(s) + Len(t))
  BY <1>1
<1> HIDE DEF u
<1>3. ASSUME NEW n \in DOMAIN s
      PROVE  n \in DOMAIN u /\ u[n] = s[n]
  BY <1>1, <1>2
<1>4. ASSUME NEW m \in DOMAIN t
      PROVE  \E n \in DOMAIN u : u[n] = t[m]
  <2>1. Len(s) + m \in DOMAIN u /\ ~(Len(s) + m <= Len(s)) /\ Len(s) + m - Len(s) = m
    BY <1>2
  <2> QED
    BY <1>1, <1>2, <2>1
<1>5. ASSUME NEW n \in DOMAIN u
      PROVE  \/ n \in DOMAIN s /\ u[n] = s[n]
             \/ \E m \in DOMAIN t : n = Len(s) + m /\ u[n] = t[m]
  <2>1. CASE n <= Len(s)
    BY <1>1, <1>2, <2>1
  <2>2. CASE ~(n <= Len(s))
    <3>1. n - Len(s) \in DOMAIN t /\ n = Len(s) + (n - Len(s))
      BY <1>2, <2>2
    <3>2. u[n] = t[n - Len(s)]
      BY <1>1, <1>2, <2>2
    <3> QED
      BY <3>1, <3>2
  <2> QED
    BY <2>1, <2>2
<1> QED
  BY <1>1, <1>3, <1>4, <1>5 DEF u

\* Names joined to others that are not among them.
LEMMA DistinctConcat ==
  ASSUME NEW T, NEW s \in Seq(T), NEW t \in Seq(T), Distinct(s), Distinct(t),
         \A m \in DOMAIN s, n \in DOMAIN t : s[m] # t[n]
  PROVE  Distinct(s \o t)
<1> DEFINE u == s \o t
<1>1. \A n \in DOMAIN u : \/ n \in DOMAIN s /\ u[n] = s[n]
                          \/ \E m \in DOMAIN t : n = Len(s) + m /\ u[n] = t[m]
  BY ConcatIs
<1> HIDE DEF u
<1>2. ASSUME NEW m \in DOMAIN u, NEW n \in DOMAIN u, u[m] = u[n]
      PROVE  m = n
  <2>1. CASE m \in DOMAIN s /\ u[m] = s[m]
    <3>1. n \in DOMAIN s /\ u[n] = s[n]
      BY <1>1, <1>2, <2>1
    <3> QED
      BY <1>2, <2>1, <3>1 DEF Distinct
  <2>2. CASE \E k \in DOMAIN t : m = Len(s) + k /\ u[m] = t[k]
    <3>1. PICK k \in DOMAIN t : m = Len(s) + k /\ u[m] = t[k]
      BY <2>2
    <3>2. PICK l \in DOMAIN t : n = Len(s) + l /\ u[n] = t[l]
      BY <1>1, <1>2, <3>1
    <3>3. k = l
      BY <1>2, <3>1, <3>2 DEF Distinct
    <3> QED
      BY <3>1, <3>2, <3>3
  <2> QED
    BY <1>1, <2>1, <2>2
<1>3. \A m, n \in DOMAIN u : u[m] = u[n] => m = n
  BY <1>2
<1> QED
  BY <1>3 DEF u, Distinct

Entry == [id : Nat, type : Nat]

\* The tags of a page that begins where those found end.
NextTags(tags, from, good, new) ==
  /\ tags \in Seq(Entry) /\ good \in Seq(Nat) /\ from \in Nat
  /\ \A m, n \in DOMAIN tags : tags[m].id = tags[n].id => m = n
  /\ \A n \in DOMAIN tags : tags[n].id < from
  /\ Distinct(good) /\ \A n \in DOMAIN good : good[n] >= from
  /\ new \in Seq(Entry) /\ DOMAIN new = DOMAIN good
  /\ \A n \in DOMAIN good : new[n].id = good[n] /\ new[n].type = good[n]

TagsAppended(all, tags, good) ==
  /\ all \in Seq(Entry)
  /\ \A m, n \in DOMAIN all : all[m].id = all[n].id => m = n
  /\ \A n \in DOMAIN all :
       \/ \E m \in DOMAIN tags : all[n] = tags[m]
       \/ \E m \in DOMAIN good : all[n].id = good[m] /\ all[n].type = good[m]
  /\ \A m \in DOMAIN tags : \E n \in DOMAIN all : all[n].id = tags[m].id
  /\ \A m \in DOMAIN good : \E n \in DOMAIN all : all[n].id = good[m]

LEMMA TagsJoin ==
  ASSUME NEW tags, NEW from, NEW good, NEW new, NextTags(tags, from, good, new)
  PROVE  TagsAppended(tags \o new, tags, good)
<1> DEFINE all == tags \o new
<1>0. /\ tags \in Seq(Entry) /\ good \in Seq(Nat) /\ from \in Nat
      /\ \A m, n \in DOMAIN tags : tags[m].id = tags[n].id => m = n
      /\ \A n \in DOMAIN tags : tags[n].id < from
      /\ Distinct(good) /\ \A n \in DOMAIN good : good[n] >= from
      /\ new \in Seq(Entry) /\ DOMAIN new = DOMAIN good
      /\ \A n \in DOMAIN good : new[n].id = good[n] /\ new[n].type = good[n]
  BY DEF NextTags
<1>1. /\ DOMAIN good = 1..Len(good) /\ Len(good) \in Nat
      /\ \A n \in DOMAIN good : good[n] \in Nat
  BY <1>0
<1>2. \A n \in DOMAIN tags : tags[n].id \in Nat
  <2>1. \A n \in DOMAIN tags : tags[n] \in Entry
    BY <1>0
  <2> QED
    BY <2>1 DEF Entry
<1>3. /\ all \in Seq(Entry)
      /\ \A n \in DOMAIN tags : n \in DOMAIN all /\ all[n] = tags[n]
      /\ \A m \in DOMAIN new : \E n \in DOMAIN all : all[n] = new[m]
      /\ \A n \in DOMAIN all : \/ n \in DOMAIN tags /\ all[n] = tags[n]
                               \/ \E m \in DOMAIN new : n = Len(tags) + m /\ all[n] = new[m]
  <2>1. tags \in Seq(Entry) /\ new \in Seq(Entry)
    BY <1>0
  <2> QED
    BY <2>1, ConcatIs
<1> HIDE DEF all
<1>4. ASSUME NEW m \in DOMAIN all, NEW n \in DOMAIN all, all[m].id = all[n].id
      PROVE  m = n
  <2>1. \A k \in DOMAIN tags, l \in DOMAIN good : tags[k].id # good[l]
    BY <1>0, <1>1, <1>2
  <2>2. CASE m \in DOMAIN tags /\ all[m] = tags[m]
    <3>1. n \in DOMAIN tags /\ all[n] = tags[n]
      BY <1>0, <1>3, <1>4, <2>1, <2>2
    <3> QED
      BY <1>0, <1>4, <2>2, <3>1
  <2>3. CASE \E k \in DOMAIN new : m = Len(tags) + k /\ all[m] = new[k]
    <3>1. PICK k \in DOMAIN good : m = Len(tags) + k /\ all[m] = new[k] /\ all[m].id = good[k]
      BY <1>0, <2>3
    <3>2. PICK l \in DOMAIN good : n = Len(tags) + l /\ all[n] = new[l] /\ all[n].id = good[l]
      <4>1. ~(n \in DOMAIN tags /\ all[n] = tags[n])
        BY <1>0, <1>4, <2>1, <3>1
      <4>2. PICK l \in DOMAIN new : n = Len(tags) + l /\ all[n] = new[l]
        BY <1>0, <1>3, <4>1
      <4> QED
        BY <1>0, <4>2
    <3>3. k = l
      BY <1>0, <1>4, <3>1, <3>2 DEF Distinct
    <3> QED
      BY <3>1, <3>2, <3>3
  <2> QED
    BY <1>3, <2>2, <2>3
<1>5. ASSUME NEW n \in DOMAIN all
      PROVE  \/ \E m \in DOMAIN tags : all[n] = tags[m]
             \/ \E m \in DOMAIN good : all[n].id = good[m] /\ all[n].type = good[m]
  <2>1. CASE n \in DOMAIN tags /\ all[n] = tags[n]
    BY <2>1
  <2>2. CASE \E m \in DOMAIN new : n = Len(tags) + m /\ all[n] = new[m]
    <3>1. PICK m \in DOMAIN new : all[n] = new[m]
      BY <2>2
    <3> QED
      BY <1>0, <3>1
  <2> QED
    BY <1>3, <2>1, <2>2
<1>6. \A m \in DOMAIN tags : \E n \in DOMAIN all : all[n].id = tags[m].id
  BY <1>0, <1>3
<1>7. \A m \in DOMAIN good : \E n \in DOMAIN all : all[n].id = good[m]
  BY <1>0, <1>3
<1> QED
  BY <1>3, <1>4, <1>5, <1>6, <1>7 DEF TagsAppended, all

\* A stage asks no less of a listing in which nothing has failed yet.
LEMMA StageWeakens ==
  ASSUME NEW b, NEW s \in BOOLEAN, NEW t \in BOOLEAN, s => t, Stage(b, s)
  PROVE  Stage(b, t)
<1>1. TagsRight(b, s) => TagsRight(b, t)
  BY DEF TagsRight
<1>2. Whole(b, s) => Whole(b, t)
  BY <1>1 DEF Whole
<1>3. Paging55(b, s) => Paging55(b, t)
  BY <1>1 DEF Paging55
<1>4. Paging5F(b, s) => Paging5F(b, t)
  BY DEF Paging5F, Complete
<1>5. Typing(b, s) => Typing(b, t)
  BY DEF Typing
<1>6. Trying(b, s) => Trying(b, t)
  BY <1>1 DEF Trying, Tried
<1> QED
  BY <1>2, <1>3, <1>4, <1>5, <1>6 DEF Stage

\* It does not read the note that the listing itself has of it.
LEMMA StageNoted ==
  ASSUME NEW b, NEW s, Stage(b, s)
  PROVE  Stage([b EXCEPT !.short = s], s)
<1> DEFINE c == [b EXCEPT !.short = s]
<1>1. DOMAIN b = BrowseFields
  BY DEF Stage
<1>2. /\ DOMAIN c = BrowseFields
      /\ c.way = b.way /\ c.part = b.part /\ c.plc = b.plc /\ c.list = b.list /\ c.next = b.next
      /\ c.page = b.page /\ c.names = b.names /\ c.types = b.types /\ c.tags = b.tags
      /\ c.limit = b.limit /\ c.errors = b.errors /\ c.gasErrors = b.gasErrors
  BY <1>1 DEF BrowseFields
<1> HIDE DEF c
<1>3. TagsRight(c, s) <=> TagsRight(b, s)
  BY <1>2 DEF TagsRight
<1>4. Reached(c) <=> Reached(b)
  BY <1>2 DEF Reached
<1>5. Whole(b, s) => Whole(c, s)
  BY <1>2, <1>3, <1>4 DEF Whole, Has
<1>6. Paging55(b, s) => Paging55(c, s)
  BY <1>2, <1>3 DEF Paging55, Turning, Has
<1>7. Paging5F(b, s) => Paging5F(c, s)
  BY <1>2 DEF Paging5F, Turning, Named5F, Complete
<1>8. Typing(b, s) => Typing(c, s)
  BY <1>2 DEF Typing
<1>9. Trying(b, s) => Trying(c, s)
  BY <1>2, <1>3 DEF Trying, Tried, Trail, Has
<1> QED
  BY <1>2, <1>5, <1>6, <1>7, <1>8, <1>9 DEF Stage, c

-----------------------------------------------------------------------------
(* Listing by service 0x55 *)

LEMMA ReadablesAre ==
  /\ \A p : Readables(p) = Good(p, DOMAIN p.tags)
  /\ \A p, list : NamesOf(p, list) = Good(p, Listed(p, list)) /\ Listed(p, list) \in SUBSET DOMAIN p.tags
  BY DEF Readables, NamesOf, Good, Listed

LEMMA Page55FailedStage ==
  ASSUME NEW s \in BOOLEAN, DOMAIN browse = BrowseFields, browse.plc \in Plcs, browse.list = 1,
         browse.names = <<>>, browse.types = <<>>
  PROVE  Stage(Page55Failed, s)
<1> DEFINE b == Page55Failed
           p == browse.plc
<1>1. /\ DOMAIN b = BrowseFields /\ b.plc = p /\ b.way = "list5F" /\ b.part = "list5F" /\ b.next = 1
      /\ b.page = 0 /\ b.tags = <<>> /\ b.list = 1 /\ b.names = <<>> /\ b.types = <<>>
  BY DEF Page55Failed, BrowseFields
<1> HIDE DEF b
<1>2. Named5F(b)
  BY <1>1 DEF Named5F, Distinct
<1>3. Turning(b, NamesOf(p, 1))
  <2>1. Cardinality(Before(NamesOf(p, 1), 1)) \in Nat
    BY ReadablesAre, SomeOf
  <2>2. MaxPages \in Nat \ {0}
    BY BrowseAssumption
  <2> QED
    BY <1>1, <2>1, <2>2 DEF Turning
<1>4. Before(NamesOf(p, 1), 1) = {}
  <2>1. \A i \in NamesOf(p, 1) : i \in Nat \ {0}
    BY UserTags
  <2> QED
    BY <2>1 DEF Before
<1>5. Paging5F(b, s)
  BY <1>1, <1>2, <1>3, <1>4 DEF Paging5F
<1> QED
  BY <1>1, <1>5 DEF Stage, b

LEMMA After55Stage ==
  ASSUME NEW s \in BOOLEAN, Stage(browse, s), browse.part = "list55", NEW answer,
         answer.kind = "data" => answer = Page(browse.plc, DOMAIN browse.plc.tags, browse.next)
  PROVE  Stage(After55(answer), s)
<1> DEFINE p == browse.plc
           from == browse.next
           page == Page(p, DOMAIN p.tags, from)
           good == Increasing({i \in page.data : Readable(p, i)})
           to == Last(good) + 1
           all == browse.tags \o [n \in DOMAIN good |-> [id |-> good[n], type |-> good[n]]]
           b == [browse EXCEPT !.tags = all, !.page = browse.page + 1]
           G == Readables(p)
<1>1. DOMAIN browse = BrowseFields /\ p \in Plcs /\ Paging55(browse, s)
  BY DEF Stage
<1>2. /\ browse.way = "list55" /\ browse.list = 1 /\ browse.names = <<>> /\ browse.types = <<>>
      /\ TagsRight(browse, s) /\ Turning(browse, G)
      /\ \A n \in DOMAIN browse.tags : browse.tags[n].id < from
      /\ \A i \in G : i < from => Has(browse, i)
  BY <1>1 DEF Paging55, Before
<1>3. CASE answer.kind # "data"
  <2>1. After55(answer) = Page55Failed
    BY <1>3 DEF After55
  <2> QED
    BY <1>1, <1>2, <2>1, Page55FailedStage
<1>4. CASE answer.kind = "data"
  <2>1. answer = page /\ Names(answer) = good
    BY <1>4 DEF Names
  <2>2. /\ from \in Nat /\ good \in Seq(Nat) /\ Distinct(good)
        /\ \A n \in DOMAIN good : good[n] \in G /\ good[n] >= from
        /\ good # <<>> =>
             /\ to \in {i + 1 : i \in G}
             /\ \A n \in DOMAIN good : good[n] < to
             /\ \A i \in G : i < to => i < from \/ Holds(good, i)
             /\ Cardinality(Before(G, from)) + 1 <= Cardinality(Before(G, to))
        /\ ~page.more => \A i \in G : i < from \/ Holds(good, i)
        /\ good = <<>> /\ PagesReach(p, DOMAIN p.tags) => \A i \in G : i < from
    <3> DEFINE ids == DOMAIN p.tags
    <3>1. from \in {0, 1} \cup {i + 1 : i \in Good(p, ids)}
      BY <1>2, ReadablesAre DEF Turning
    <3>2. ids \in SUBSET DOMAIN p.tags /\ Good(p, ids) = G
      BY ReadablesAre
    <3> HIDE DEF ids, G, p, from
    <3> QED
      BY <1>1, <3>1, <3>2, PageNames DEF ids
  <2>3. \A i \in Users(p) : i \in G
    BY <1>1, UserTags
  <2>4. \A i \in G : i \in Nat \ {0}
    BY <1>1, UserTags
  <2>5. After55(answer) =
          IF good = <<>> /\ browse.page = 0 THEN Page55Failed
          ELSE IF good = <<>> /\ browse.page > 0 THEN Over(browse)
          ELSE IF ~page.more \/ b.page = MaxPages THEN Over(b)
          ELSE [b EXCEPT !.next = to]
    <3>1. browse.page \in Nat
      BY <1>2 DEF Turning
    <3> HIDE DEF good, page
    <3>2. browse.page = 0 \/ browse.page > 0
      BY <3>1
    <3>3. CASE good = <<>> /\ browse.page = 0
      BY <1>4, <2>1, <3>3 DEF After55
    <3>4. CASE good = <<>> /\ browse.page > 0
      BY <1>4, <2>1, <3>1, <3>4 DEF After55
    <3>5. CASE good # <<>>
      BY <1>4, <2>1, <3>5 DEF After55
    <3> QED
      BY <3>2, <3>3, <3>4, <3>5
  <2> HIDE DEF good, page, to
  <2>6. TagsAppended(all, browse.tags, good)
    <3> DEFINE new == [n \in DOMAIN good |-> [id |-> good[n], type |-> good[n]]]
               tags == browse.tags
    <3>1. DOMAIN good = 1..Len(good) /\ Len(good) \in Nat /\ \A n \in DOMAIN good : good[n] \in Nat
      BY <2>2
    <3>2. \A n \in DOMAIN good : new[n] \in Entry
      BY <3>1 DEF Entry
    <3>3. /\ new \in Seq(Entry) /\ DOMAIN new = DOMAIN good
          /\ \A n \in DOMAIN good : new[n].id = good[n] /\ new[n].type = good[n]
      BY <3>1, <3>2
    <3> HIDE DEF new
    <3>4. NextTags(tags, from, good, new)
      BY <1>2, <2>2, <3>3 DEF NextTags, TagsRight, Entry
    <3> HIDE DEF tags, from
    <3>5. TagsAppended(tags \o new, tags, good)
      BY <3>4, TagsJoin
    <3> QED
      BY <3>5 DEF tags, new
  <2> HIDE DEF all
  <2>7. /\ DOMAIN b = BrowseFields /\ b.way = "list55" /\ b.list = 1 /\ b.names = <<>> /\ b.types = <<>>
        /\ b.plc = p /\ b.tags = all /\ b.page = browse.page + 1 /\ b.part = "list55"
    BY <1>1, <1>2 DEF BrowseFields
  <2> HIDE DEF b
  <2>8. ASSUME NEW n \in DOMAIN all
        PROVE  /\ all[n].id \in G /\ all[n].type \in {0, all[n].id}
               /\ all[n].type = 0 => s \/ "named" \notin p.services
    <3>1. CASE \E m \in DOMAIN browse.tags : all[n] = browse.tags[m]
      BY <1>2, <3>1 DEF TagsRight
    <3>2. CASE \E m \in DOMAIN good : all[n].id = good[m] /\ all[n].type = good[m]
      BY <2>2, <2>4, <3>2
    <3> QED
      BY <2>6, <3>1, <3>2 DEF TagsAppended
  <2>9. ASSUME NEW c, c.way = "list55", c.plc = p, c.tags = all
        PROVE  /\ TagsRight(c, s)
               /\ \A i \in G : i < from \/ Holds(good, i) => Has(c, i)
    <3>1. TagsRight(c, s)
      BY <2>6, <2>8, <2>9 DEF TagsRight, Entry, TagsAppended
    <3>2. ASSUME NEW i \in G, i < from
          PROVE  Has(c, i)
      BY <1>2, <2>6, <2>9, <3>2 DEF Has, TagsAppended
    <3>3. ASSUME NEW i \in G, Holds(good, i)
          PROVE  Has(c, i)
      BY <2>6, <2>9, <3>3 DEF Has, Holds, TagsAppended
    <3> QED
      BY <3>1, <3>2, <3>3
  <2>10. CASE good = <<>> /\ browse.page = 0
    BY <1>1, <1>2, <2>5, <2>10, Page55FailedStage
  <2>11. CASE good = <<>> /\ browse.page > 0
    <3> DEFINE c == Over(browse)
    <3>1. browse.page # 0
      BY <1>2, <2>11 DEF Turning
    <3>2. After55(answer) = c
      BY <2>5, <2>11, <3>1
    <3>3. DOMAIN c = BrowseFields /\ c.part = "over" /\ c.way = "list55" /\ c.plc = p /\ c.tags = browse.tags
      BY <1>1, <1>2 DEF Over, BrowseFields
    <3> HIDE DEF c
    <3>4. TagsRight(c, s)
      BY <1>2, <3>3 DEF TagsRight
    <3>5. Reached(c) => \A i \in Users(p) : Has(c, i)
      BY <1>2, <2>2, <2>3, <2>11, <3>3 DEF Reached, Has
    <3>6. Whole(c, s)
      BY <3>3, <3>4, <3>5 DEF Whole
    <3> QED
      BY <1>1, <3>2, <3>3, <3>6 DEF Stage
  <2>12. CASE good # <<>> /\ (~page.more \/ b.page = MaxPages)
    <3> DEFINE c == Over(b)
    <3>1. After55(answer) = c
      BY <2>5, <2>12
    <3>2. DOMAIN c = BrowseFields /\ c.part = "over" /\ c.way = "list55" /\ c.plc = p /\ c.tags = all
      BY <2>7 DEF Over, BrowseFields
    <3> HIDE DEF c
    <3>3. TagsRight(c, s) /\ \A i \in G : i < from \/ Holds(good, i) => Has(c, i)
      BY <2>9, <3>2
    <3>4. ASSUME Reached(c), NEW i \in Users(p)
          PROVE  Has(c, i)
      <4>1. PagesReach(p, DOMAIN p.tags)
        BY <3>2, <3>4 DEF Reached
      <4>2. CASE ~page.more
        BY <2>2, <2>3, <3>3, <4>2
      <4>3. CASE b.page = MaxPages
        <5>1. browse.page <= Cardinality(Before(G, from)) /\ browse.page \in Nat
          BY <1>2 DEF Turning
        <5>2. /\ Cardinality(Before(G, from)) \in Nat /\ Cardinality(Before(G, to)) \in Nat
              /\ G = Good(p, DOMAIN p.tags)
          BY <1>1, ReadablesAre, SomeOf
        <5>3. MaxPages <= Cardinality(Before(G, to))
          BY <2>2, <2>7, <2>12, <4>3, <5>1, <5>2
        <5>4. \A j \in G : j < to
          BY <1>1, <4>1, <5>2, <5>3, PagesEnough
        <5> QED
          BY <2>2, <2>3, <2>12, <3>3, <5>4
      <4> QED
        BY <2>12, <4>2, <4>3
    <3>5. Whole(c, s)
      BY <3>2, <3>3, <3>4 DEF Whole
    <3> QED
      BY <1>1, <3>1, <3>2, <3>5 DEF Stage
  <2>13. CASE good # <<>> /\ page.more /\ b.page # MaxPages
    <3> DEFINE c == [b EXCEPT !.next = to]
    <3>1. After55(answer) = c
      BY <2>5, <2>13
    <3>2. /\ DOMAIN c = BrowseFields /\ c.part = "list55" /\ c.way = "list55" /\ c.plc = p /\ c.tags = all
          /\ c.next = to /\ c.page = browse.page + 1 /\ c.list = 1 /\ c.names = <<>> /\ c.types = <<>>
      BY <2>7 DEF BrowseFields
    <3>3. c.page # MaxPages
      BY <2>7, <2>13, <3>2
    <3> HIDE DEF c
    <3>4. TagsRight(c, s) /\ \A i \in G : i < from \/ Holds(good, i) => Has(c, i)
      BY <2>9, <3>2
    <3>5. Turning(c, G)
      <4>1. browse.page <= Cardinality(Before(G, from)) /\ browse.page \in Nat /\ browse.page < MaxPages
        BY <1>2 DEF Turning
      <4>2. /\ Cardinality(Before(G, from)) \in Nat /\ Cardinality(Before(G, to)) \in Nat
        BY <1>1, ReadablesAre, SomeOf
      <4>3. MaxPages \in Nat
        BY BrowseAssumption
      <4>4. browse.page + 1 <= Cardinality(Before(G, to)) /\ browse.page + 1 < MaxPages
        BY <2>2, <2>13, <3>2, <3>3, <4>1, <4>2, <4>3
      <4> QED
        BY <2>2, <2>13, <3>2, <4>1, <4>4 DEF Turning
    <3>6. ASSUME NEW n \in DOMAIN all
          PROVE  all[n].id < to
      <4>1. to \in Nat /\ from <= to
        <5>1. PICK i \in G : to = i + 1
          BY <2>2, <2>13
        <5>2. i \in Nat
          BY <2>4
        <5>3. Cardinality(Before(G, from)) + 1 <= Cardinality(Before(G, to))
          BY <2>2, <2>13
        <5>4. ASSUME ~(from <= to)
              PROVE  FALSE
          <6>1. DOMAIN good # {} /\ \A m \in DOMAIN good : good[m] >= from /\ good[m] < to
            BY <2>2, <2>13
          <6>2. PICK m \in DOMAIN good : TRUE
            BY <6>1
          <6>3. good[m] \in Nat
            BY <2>2
          <6> QED
            BY <2>2, <5>1, <5>2, <5>4, <6>1, <6>3
        <5> QED
          BY <5>1, <5>2, <5>4
      <4>2. CASE \E m \in DOMAIN browse.tags : all[n] = browse.tags[m]
        <5>1. PICK m \in DOMAIN browse.tags : all[n] = browse.tags[m]
          BY <4>2
        <5>2. all[n].id < from /\ all[n].id \in Nat
          BY <1>2, <2>4, <2>8, <5>1
        <5> QED
          BY <2>2, <4>1, <5>2
      <4>3. CASE \E m \in DOMAIN good : all[n].id = good[m] /\ all[n].type = good[m]
        BY <2>2, <2>13, <4>3
      <4> QED
        BY <2>6, <4>2, <4>3 DEF TagsAppended
    <3>7. \A i \in Before(G, to) : Has(c, i)
      BY <2>2, <2>13, <3>4 DEF Before
    <3>8. Paging55(c, s)
      BY <3>2, <3>4, <3>5, <3>6, <3>7 DEF Paging55
    <3> QED
      BY <1>1, <3>1, <3>2, <3>8 DEF Stage
  <2> QED
    <3>1. browse.page \in Nat
      BY <1>2 DEF Turning
    <3>2. browse.page = 0 \/ browse.page > 0
      BY <3>1
    <3> QED
      BY <2>10, <2>11, <2>12, <2>13, <3>1, <3>2
<1> QED
  BY <1>3, <1>4

-----------------------------------------------------------------------------
(* Listing by service 0x5F *)

LEMMA InSequence ==
  ASSUME NEW S, NEW T, NEW s \in Seq(S), \A n \in DOMAIN s : s[n] \in T
  PROVE  s \in Seq(T)
<1>1. Len(s) \in Nat /\ DOMAIN s = 1..Len(s) /\ s \in [1..Len(s) -> S]
  OBVIOUS
<1>2. s \in [1..Len(s) -> T]
  BY <1>1
<1> QED
  BY <1>1, <1>2

\* Trying the instances begins with the first one, after the count or again.
LEMMA IterateStage ==
  ASSUME NEW s \in BOOLEAN, DOMAIN browse = BrowseFields, browse.plc \in Plcs,
         NEW way \in {"instances", "legacy"}, NEW limit \in Nat \ {0}
  PROVE  Stage(Iterate(way, "all", limit), s)
<1> DEFINE b == Iterate(way, "all", limit)
<1>1. /\ DOMAIN b = BrowseFields /\ b.plc = browse.plc /\ b.way = way /\ b.part = "all"
      /\ b.limit = limit /\ b.next = 1 /\ b.tags = <<>> /\ b.errors = 0 /\ b.gasErrors = 0
  BY DEF Iterate, BrowseFields
<1> HIDE DEF b
<1>2. TagsRight(b, s)
  BY <1>1 DEF TagsRight
<1>3. Tried(b, b.next, s)
  <2>1. \A i \in Users(b.plc) : i \in Nat \ {0}
    BY <1>1, UserTags
  <2> QED
    BY <1>1, <2>1 DEF Tried
<1>4. Trail(b, b.next)
  <2>1. MaxGasErrors \in Nat \ {0}
    BY BrowseAssumption
  <2> QED
    BY <1>1, <2>1 DEF Trail, Blank
<1>5. Trying(b, s)
  BY <1>1, <1>2, <1>3, <1>4 DEF Trying
<1> QED
  BY <1>1, <1>5 DEF Stage, b

LEMMA CountStage ==
  ASSUME NEW s \in BOOLEAN, DOMAIN browse = BrowseFields, browse.plc \in Plcs
  PROVE  Stage(Iterate("instances", "count", 0), s)
<1> DEFINE b == Iterate("instances", "count", 0)
<1>1. /\ DOMAIN b = BrowseFields /\ b.plc = browse.plc /\ b.way = "instances" /\ b.part = "count"
      /\ b.tags = <<>>
  BY DEF Iterate, BrowseFields
<1> HIDE DEF b
<1> QED
  BY <1>1 DEF Stage, b

LEMMA AfterCountStage ==
  ASSUME NEW s \in BOOLEAN, Stage(browse, s), NEW answer, answer.kind = "data" => answer.data \in Nat
  PROVE  Stage(AfterCount(answer), s)
<1> DEFINE limit == IF answer.kind = "data" /\ answer.data > 0 THEN answer.data ELSE NoCount
<1>1. limit \in Nat \ {0}
  BY BrowseAssumption
<1>2. AfterCount(answer) = Iterate("instances", "all", limit)
  BY DEF AfterCount
<1> HIDE DEF limit
<1>3. DOMAIN browse = BrowseFields /\ browse.plc \in Plcs
  BY DEF Stage
<1> QED
  BY <1>1, <1>2, <1>3, IterateStage

\* The names of both lists, without the system's.
LEMMA NamedStage ==
  ASSUME NEW s \in BOOLEAN, DOMAIN browse = BrowseFields, browse.plc \in Plcs, browse.types = <<>>,
         NEW names \in Seq(Readables(browse.plc)), Distinct(names),
         names # <<>> => "list5F" \in browse.plc.services,
         \A list \in {1, 2} :
           ~s /\ "list5F" \in browse.plc.services /\ PagesReach(browse.plc, Listed(browse.plc, list)) =>
             \A i \in NamesOf(browse.plc, list) : Holds(names, i)
  PROVE  Stage(Named(names), s)
<1> DEFINE p == browse.plc
           U == {i \in DOMAIN p.tags : ~System(p, i)}
           users == Only(names, U)
           b == [browse EXCEPT !.way = "types", !.part = "multi", !.names = users, !.next = 1]
<1>1. /\ users \in Seq(Readables(p) \cap U)
      /\ \A m, n \in DOMAIN users : users[m] = users[n] => m = n
      /\ \A n \in DOMAIN users : \E m \in DOMAIN names : users[n] = names[m]
      /\ \A m \in DOMAIN names : names[m] \in U => \E n \in DOMAIN users : users[n] = names[m]
  <2> DEFINE T == Readables(p)
  <2>1. names \in Seq(T) /\ \A m, n \in DOMAIN names : names[m] = names[n] => m = n
    BY DEF Distinct
  <2> HIDE DEF T, U
  <2>2. /\ users \in Seq(T \cap U)
        /\ \A m, n \in DOMAIN users : users[m] = users[n] => m = n
        /\ \A n \in DOMAIN users : \E m \in DOMAIN names : users[n] = names[m]
        /\ \A m \in DOMAIN names : names[m] \in U => \E n \in DOMAIN users : users[n] = names[m]
    BY <2>1, OnlyIs
  <2> QED
    BY <2>2 DEF T
<1>2. Readables(p) \cap U = Users(p)
  BY UserTags DEF Readables
<1>3. Named(names) = IF users = <<>> THEN Iterate("instances", "count", 0) ELSE b
  BY DEF Named
<1>4. \A i \in Users(p) : i \in U
  BY <1>2
<1> HIDE DEF U, users
<1>5. users \in Seq(Users(p))
  BY <1>1, <1>2
<1>6. CASE users = <<>>
  BY <1>3, <1>6, CountStage
<1>7. CASE users # <<>>
  <2>1. /\ DOMAIN b = BrowseFields /\ b.plc = p /\ b.way = "types" /\ b.part = "multi"
        /\ b.names = users /\ b.next = 1 /\ b.types = <<>>
    BY DEF BrowseFields
  <2>2. Named(names) = b
    BY <1>3, <1>7
  <2> HIDE DEF b
  <2>3. Len(users) \in Nat \ {0}
    BY <1>5, <1>7
  <2>4. DOMAIN users = 1..Len(users) /\ 1 \in DOMAIN users
    BY <1>5, <2>3
  <2>5. names # <<>>
    <3>1. PICK m \in DOMAIN names : TRUE
      BY <1>1, <2>4
    <3> QED
      BY <3>1
  <2>6. ASSUME ~s, PagesReach(p, Listed(p, 1)), PagesReach(p, Listed(p, 2)), NEW i \in Users(p)
        PROVE  Holds(users, i)
    <3>1. i \in NamesOf(p, 1) \/ i \in NamesOf(p, 2)
      BY UserTags
    <3>2. Holds(names, i)
      BY <2>5, <2>6, <3>1
    <3>3. PICK m \in DOMAIN names : names[m] = i
      BY <3>2 DEF Holds
    <3> QED
      BY <1>1, <1>4, <3>3 DEF Holds
  <2>7. Typing(b, s)
    <3>1. Distinct(users)
      BY <1>1 DEF Distinct
    <3>2. b.next \in 1..Len(b.names) /\ b.types \in Seq(Nat) /\ Len(b.types) = b.next - 1 /\ DOMAIN b.types = {}
      BY <2>1, <2>3
    <3> QED
      BY <1>5, <2>1, <2>6, <3>1, <3>2 DEF Typing
  <2> QED
    BY <2>1, <2>2, <2>7 DEF Stage
<1> QED
  BY <1>6, <1>7

\* A list ends where the PLC has no more of it, or where a request of it fails.
LEMMA After5FStage ==
  ASSUME NEW s \in BOOLEAN, Stage(browse, s), browse.part = "list5F", NEW answer,
         \/ answer.kind = "data" /\ "list5F" \in browse.plc.services
            /\ answer = Page(browse.plc, Listed(browse.plc, browse.list), browse.next)
         \/ answer.kind # "data" /\ (s \/ "list5F" \notin browse.plc.services)
  PROVE  Stage(After5F(answer), s)
<1> DEFINE p == browse.plc
           from == browse.next
           list == browse.list
           good == Names(answer)
           to == Last(good) + 1
           names == browse.names \o good
           G == NamesOf(p, list)
           served == "list5F" \in p.services
<1>1. DOMAIN browse = BrowseFields /\ p \in Plcs /\ Paging5F(browse, s)
  BY DEF Stage
<1>2. /\ browse.way = "list5F" /\ list \in {1, 2} /\ browse.types = <<>> /\ browse.tags = <<>>
      /\ Named5F(browse) /\ Turning(browse, G)
      /\ \A n \in DOMAIN browse.names :
           /\ p.tags[browse.names[n]].list <= list
           /\ p.tags[browse.names[n]].list = list => browse.names[n] < from
      /\ \A i \in G : i < from => Holds(browse.names, i)
      /\ list = 2 => Complete(browse, 1, s)
  BY <1>1 DEF Paging5F, Before
<1>3. /\ browse.names \in Seq(Readables(p)) /\ Distinct(browse.names)
      /\ browse.names # <<>> => served
  BY <1>2 DEF Named5F
<1>4. /\ \A i \in G : i \in Readables(p) /\ p.tags[i].list = list /\ i \in Nat \ {0}
      /\ \A i \in Readables(p) : p.tags[i].list \in {1, 2} /\ i \in Nat \ {0}
      /\ Listed(p, list) \in SUBSET DOMAIN p.tags
  BY <1>1, UserTags, PlcTags, ReadablesAre DEF Readables
<1>5. /\ good \in Seq(G) /\ Distinct(good)
      /\ \A n \in DOMAIN good : good[n] >= from
      /\ good # <<>> =>
           /\ served
           /\ to \in {i + 1 : i \in G}
           /\ \A n \in DOMAIN good : good[n] < to
           /\ \A i \in G : i < to => i < from \/ Holds(good, i)
           /\ Cardinality(Before(G, from)) + 1 <= Cardinality(Before(G, to))
      /\ good = <<>> /\ ~s /\ served /\ PagesReach(p, Listed(p, list)) => \A i \in G : i < from
  <2>1. CASE answer.kind = "data"
    <3> DEFINE ids == Listed(p, list)
               page == Page(p, ids, from)
    <3>1. from \in {0, 1} \cup {i + 1 : i \in Good(p, ids)}
      BY <1>2, ReadablesAre DEF Turning
    <3>2. good = Increasing({i \in page.data : Readable(p, i)})
      BY <2>1 DEF Names
    <3>3. ids \in SUBSET DOMAIN p.tags /\ Good(p, ids) = G
      BY ReadablesAre
    <3> HIDE DEF ids, G, p, from, page, good, to
    <3>4. /\ good \in Seq(Nat) /\ Distinct(good)
          /\ \A n \in DOMAIN good : good[n] \in G /\ good[n] >= from
          /\ good # <<>> =>
               /\ to \in {i + 1 : i \in G}
               /\ \A n \in DOMAIN good : good[n] < to
               /\ \A i \in G : i < to => i < from \/ Holds(good, i)
               /\ Cardinality(Before(G, from)) + 1 <= Cardinality(Before(G, to))
          /\ good = <<>> /\ PagesReach(p, ids) => \A i \in G : i < from
      BY <1>1, <3>1, <3>2, <3>3, PageNames DEF page, to
    <3>5. good \in Seq(G)
      BY <3>4, InSequence
    <3> QED
      BY <2>1, <3>4, <3>5 DEF ids, p
  <2>2. CASE answer.kind # "data"
    <3>1. good = <<>>
      BY <2>2 DEF Names
    <3>2. <<>> \in Seq(G) /\ DOMAIN (<<>>) = {}
      OBVIOUS
    <3> HIDE DEF good, G
    <3> QED
      BY <2>2, <3>1, <3>2 DEF Distinct
  <2> QED
    BY <2>1, <2>2
<1>6. After5F(answer) =
        IF good # <<>> /\ browse.page + 1 # MaxPages
        THEN [browse EXCEPT !.names = names, !.next = to, !.page = browse.page + 1]
        ELSE IF list = 1
        THEN [browse EXCEPT !.names = names, !.list = 2, !.next = 1, !.page = 0]
        ELSE Named(names)
  <2> DEFINE ends == good = <<>> \/ browse.page + 1 = MaxPages
  <2>1. CASE ~ends
    BY <2>1 DEF After5F
  <2>2. CASE ends /\ list = 1
    BY <2>2 DEF After5F
  <2>3. CASE ends /\ list # 1
    BY <2>3 DEF After5F
  <2> QED
    BY <2>1, <2>2, <2>3
<1> HIDE DEF good, to
<1>7. DOMAIN good = 1..Len(good) /\ \A n \in DOMAIN good : good[n] \in G
  BY <1>5
<1>8. from \in Nat /\ browse.page \in Nat /\ browse.page < MaxPages
      /\ browse.page <= Cardinality(Before(G, from))
  BY <1>2, <1>4 DEF Turning
<1>9. /\ names \in Seq(Readables(p))
      /\ \A n \in DOMAIN browse.names : n \in DOMAIN names /\ names[n] = browse.names[n]
      /\ \A m \in DOMAIN good : \E n \in DOMAIN names : names[n] = good[m]
      /\ \A n \in DOMAIN names :
           \/ n \in DOMAIN browse.names /\ names[n] = browse.names[n]
           \/ \E m \in DOMAIN good : n = Len(browse.names) + m /\ names[n] = good[m]
  <2> DEFINE T == Readables(p)
             old == browse.names
  <2>1. old \in Seq(T) /\ good \in Seq(T)
    BY <1>3, <1>4, <1>5, <1>7, InSequence
  <2> HIDE DEF T, old
  <2>2. /\ old \o good \in Seq(T)
        /\ \A n \in DOMAIN old : n \in DOMAIN (old \o good) /\ (old \o good)[n] = old[n]
        /\ \A m \in DOMAIN good : \E n \in DOMAIN (old \o good) : (old \o good)[n] = good[m]
        /\ \A n \in DOMAIN (old \o good) :
             \/ n \in DOMAIN old /\ (old \o good)[n] = old[n]
             \/ \E m \in DOMAIN good : n = Len(old) + m /\ (old \o good)[n] = good[m]
    BY <2>1, ConcatIs
  <2> QED
    BY <2>2 DEF T, old
<1>10. Distinct(names)
  <2> DEFINE T == Readables(p)
             old == browse.names
  <2>1. old \in Seq(T) /\ good \in Seq(T)
    BY <1>3, <1>4, <1>5, <1>7, InSequence
  <2>2. ASSUME NEW m \in DOMAIN old, NEW n \in DOMAIN good
        PROVE  old[m] # good[n]
    <3>1. good[n] \in Nat /\ p.tags[good[n]].list = list /\ good[n] >= from
      BY <1>4, <1>5, <1>7
    <3>2. old[m] \in Nat /\ (p.tags[old[m]].list = list => old[m] < from)
      <4>1. old[m] \in Readables(p)
        BY <1>3
      <4> QED
        BY <1>2, <1>4, <4>1
    <3> QED
      BY <1>8, <3>1, <3>2
  <2>3. Distinct(old) /\ Distinct(good)
    BY <1>3, <1>5
  <2> HIDE DEF T, old
  <2>4. Distinct(old \o good)
    BY <2>1, <2>2, <2>3, DistinctConcat
  <2> QED
    BY <2>4 DEF old
<1>11. /\ \A i : Holds(browse.names, i) \/ Holds(good, i) => Holds(names, i)
       /\ names # <<>> => served
  <2>1. \A i : Holds(browse.names, i) \/ Holds(good, i) => Holds(names, i)
    BY <1>9 DEF Holds
  <2>2. browse.names = <<>> /\ good = <<>> => names = <<>>
    OBVIOUS
  <2> QED
    BY <1>3, <1>5, <2>1, <2>2
<1>12. ASSUME NEW n \in DOMAIN names
       PROVE  p.tags[names[n]].list <= list
  <2>1. CASE n \in DOMAIN browse.names /\ names[n] = browse.names[n]
    BY <1>2, <2>1
  <2>2. CASE \E m \in DOMAIN good : n = Len(browse.names) + m /\ names[n] = good[m]
    <3>1. p.tags[names[n]].list = list
      BY <1>4, <1>7, <2>2
    <3> QED
      BY <1>2, <3>1
  <2> QED
    BY <1>9, <2>1, <2>2
<1> HIDE DEF names
<1>13. CASE good # <<>> /\ browse.page + 1 # MaxPages
  <2> DEFINE c == [browse EXCEPT !.names = names, !.next = to, !.page = browse.page + 1]
  <2>1. After5F(answer) = c
    BY <1>6, <1>13
  <2>2. /\ DOMAIN c = BrowseFields /\ c.part = "list5F" /\ c.way = "list5F" /\ c.plc = p /\ c.tags = <<>>
        /\ c.next = to /\ c.page = browse.page + 1 /\ c.list = list /\ c.names = names /\ c.types = <<>>
    BY <1>1, <1>2 DEF BrowseFields
  <2> HIDE DEF c
  <2>3. Named5F(c)
    BY <1>9, <1>10, <1>11, <2>2 DEF Named5F
  <2>4. Turning(c, G)
    <3>1. Cardinality(Before(G, from)) \in Nat /\ Cardinality(Before(G, to)) \in Nat
      BY <1>1, ReadablesAre, SomeOf
    <3>2. MaxPages \in Nat
      BY BrowseAssumption
    <3>3. browse.page + 1 <= Cardinality(Before(G, to)) /\ browse.page + 1 < MaxPages
      BY <1>5, <1>8, <1>13, <3>1, <3>2
    <3> QED
      BY <1>5, <1>8, <1>13, <2>2, <3>3 DEF Turning
  <2>5. to \in Nat /\ from <= to
    <3>1. PICK i \in G : to = i + 1
      BY <1>5, <1>13
    <3>2. PICK m \in DOMAIN good : TRUE
      BY <1>5, <1>13
    <3>3. good[m] \in Nat /\ good[m] >= from /\ good[m] < to
      BY <1>4, <1>5, <1>7, <1>13
    <3> QED
      BY <1>4, <1>8, <3>1, <3>3
  <2>6. ASSUME NEW n \in DOMAIN names, p.tags[names[n]].list = list
        PROVE  names[n] < to
    <3>1. CASE n \in DOMAIN browse.names /\ names[n] = browse.names[n]
      <4>1. names[n] < from
        BY <1>2, <2>6, <3>1
      <4>2. names[n] \in Nat
        BY <1>4, <1>9
      <4> QED
        BY <1>8, <2>5, <4>1, <4>2
    <3>2. CASE \E m \in DOMAIN good : n = Len(browse.names) + m /\ names[n] = good[m]
      BY <1>5, <1>13, <3>2
    <3> QED
      BY <1>9, <3>1, <3>2
  <2>7. \A i \in Before(G, to) : Holds(names, i)
    BY <1>2, <1>5, <1>11, <1>13 DEF Before
  <2>8. list = 2 => Complete(c, 1, s)
    BY <1>2, <1>11, <2>2 DEF Complete
  <2>9. Paging5F(c, s)
    BY <1>2, <1>12, <2>2, <2>3, <2>4, <2>6, <2>7, <2>8 DEF Paging5F
  <2> QED
    BY <1>1, <2>1, <2>2, <2>9 DEF Stage
<1>14. ASSUME good = <<>> \/ browse.page + 1 = MaxPages, ~s, served, PagesReach(p, Listed(p, list)),
              NEW i \in G
       PROVE  Holds(names, i)
  <2>1. CASE good = <<>>
    BY <1>2, <1>5, <1>11, <1>14, <2>1
  <2>2. CASE good # <<>>
    <3>1. browse.page + 1 = MaxPages
      BY <1>14, <2>2
    <3>2. Cardinality(Before(G, from)) \in Nat /\ Cardinality(Before(G, to)) \in Nat /\ G = Good(p, Listed(p, list))
      BY <1>1, ReadablesAre, SomeOf
    <3>3. MaxPages <= Cardinality(Before(G, to))
      BY <1>5, <1>8, <2>2, <3>1, <3>2
    <3>4. i < to
      BY <1>1, <1>4, <1>14, <3>2, <3>3, PagesEnough
    <3> QED
      BY <1>2, <1>5, <1>11, <2>2, <3>4
  <2> QED
    BY <2>1, <2>2
<1>15. CASE (good = <<>> \/ browse.page + 1 = MaxPages) /\ list = 1
  <2> DEFINE c == [browse EXCEPT !.names = names, !.list = 2, !.next = 1, !.page = 0]
  <2>1. After5F(answer) = c
    BY <1>6, <1>15
  <2>2. /\ DOMAIN c = BrowseFields /\ c.part = "list5F" /\ c.way = "list5F" /\ c.plc = p /\ c.tags = <<>>
        /\ c.next = 1 /\ c.page = 0 /\ c.list = 2 /\ c.names = names /\ c.types = <<>>
    BY <1>1, <1>2 DEF BrowseFields
  <2> HIDE DEF c
  <2>3. Named5F(c)
    BY <1>9, <1>10, <1>11, <2>2 DEF Named5F
  <2>4. Turning(c, NamesOf(p, 2))
    <3>1. Cardinality(Before(NamesOf(p, 2), 1)) \in Nat
      BY <1>1, ReadablesAre, SomeOf
    <3>2. MaxPages \in Nat \ {0}
      BY BrowseAssumption
    <3> QED
      BY <2>2, <3>1, <3>2 DEF Turning
  <2>5. \A n \in DOMAIN names : p.tags[names[n]].list <= 2 /\ p.tags[names[n]].list # 2
    <3>1. \A n \in DOMAIN names : p.tags[names[n]].list <= 1 /\ p.tags[names[n]].list \in {1, 2}
      BY <1>4, <1>9, <1>12, <1>15
    <3> QED
      BY <3>1
  <2>6. Before(NamesOf(p, 2), 1) = {}
    <3>1. \A i \in NamesOf(p, 2) : i \in Nat \ {0}
      BY <1>1, UserTags
    <3> QED
      BY <3>1 DEF Before
  <2>7. Complete(c, 1, s)
    BY <1>14, <1>15, <2>2 DEF Complete
  <2>8. Paging5F(c, s)
    BY <2>2, <2>3, <2>4, <2>5, <2>6, <2>7 DEF Paging5F
  <2> QED
    BY <1>1, <2>1, <2>2, <2>8 DEF Stage
<1>16. CASE (good = <<>> \/ browse.page + 1 = MaxPages) /\ list # 1
  <2>1. After5F(answer) = Named(names) /\ list = 2
    BY <1>2, <1>6, <1>16
  <2>2. ASSUME NEW l \in {1, 2}, ~s, served, PagesReach(p, Listed(p, l)), NEW i \in NamesOf(p, l)
        PROVE  Holds(names, i)
    <3>1. CASE l = 1
      <4>1. Complete(browse, 1, s)
        BY <1>2, <2>1
      <4> QED
        BY <1>11, <2>2, <3>1, <4>1 DEF Complete
    <3>2. CASE l = 2
      BY <1>14, <1>16, <2>1, <2>2, <3>2
    <3> QED
      BY <3>1, <3>2
  <2>3. \A l \in {1, 2} : ~s /\ served /\ PagesReach(p, Listed(p, l)) => \A i \in NamesOf(p, l) : Holds(names, i)
    BY <2>2
  <2>4. Stage(Named(names), s)
    BY <1>1, <1>2, <1>9, <1>10, <1>11, <2>3, NamedStage
  <2> QED
    BY <2>1, <2>4
<1> QED
  BY <1>13, <1>15, <1>16

-----------------------------------------------------------------------------
(* The types of names *)

\* The tags of names all of whose types were asked for.
TagsOf(names, types) == [i \in DOMAIN names |-> [id |-> names[i], type |-> types[i]]]

LEMMA TagsOfRight ==
  ASSUME NEW b, NEW s, b.plc \in Plcs, NEW names \in Seq(Users(b.plc)), Distinct(names),
         NEW types \in Seq(Nat), Len(types) = Len(names), b.tags = TagsOf(names, types),
         \A n \in DOMAIN types : /\ types[n] \in {0, names[n]}
                                 /\ types[n] = 0 => s \/ "named" \notin b.plc.services
  PROVE  /\ TagsRight(b, s)
         /\ \A i : Holds(names, i) => Has(b, i)
<1>1. DOMAIN names = 1..Len(names) /\ Len(names) \in Nat /\ DOMAIN types = DOMAIN names
  OBVIOUS
<1>2. \A i \in Users(b.plc) : i \in Readables(b.plc) /\ i \in Nat /\ ~System(b.plc, i)
  BY UserTags
<1>3. \A n \in DOMAIN names : names[n] \in Users(b.plc) /\ types[n] \in Nat
  BY <1>1
<1>4. /\ DOMAIN b.tags = DOMAIN names
      /\ \A n \in DOMAIN names : b.tags[n].id = names[n] /\ b.tags[n].type = types[n]
  BY DEF TagsOf
<1>5. \A n \in DOMAIN names : [id |-> names[n], type |-> types[n]] \in [id : Nat, type : Nat]
  BY <1>2, <1>3
<1>6. TagsOf(names, types) \in Seq([id : Nat, type : Nat])
  BY <1>1, <1>5 DEF TagsOf
<1>7. \A m, n \in DOMAIN b.tags : b.tags[m].id = b.tags[n].id => m = n
  BY <1>4 DEF Distinct
<1>8. TagsRight(b, s)
  BY <1>1, <1>2, <1>3, <1>4, <1>6, <1>7 DEF TagsRight
<1>9. \A i : Holds(names, i) => Has(b, i)
  BY <1>4 DEF Holds, Has
<1> QED
  BY <1>8, <1>9

\* Types that were asked for, of the names from the next one on.
NextTypes(b, s, types) ==
  /\ types \in Seq(Nat) /\ types # <<>> /\ b.next + Len(types) <= Len(b.names) + 1
  /\ \A n \in DOMAIN types : /\ types[n] \in {0, b.names[b.next - 1 + n]}
                             /\ types[n] = 0 => s \/ "named" \notin b.plc.services

LEMMA TypedStage ==
  ASSUME NEW s \in BOOLEAN, Stage(browse, s), browse.part \in {"multi", "one"},
         NEW part \in {"multi", "one"}, NEW types, NextTypes(browse, s, types),
         part = "one" => browse.page \in (browse.next + Len(types))..Len(browse.names)
  PROVE  Stage(Typed(types, part), s)
<1> DEFINE p == browse.plc
           names == browse.names
           all == browse.types \o types
           b == [browse EXCEPT !.types = all, !.next = browse.next + Len(types), !.part = part]
           c == Over([b EXCEPT !.tags = TagsOf(names, all)])
<1>1. DOMAIN browse = BrowseFields /\ p \in Plcs /\ Typing(browse, s)
  BY DEF Stage
<1>2. /\ browse.way = "types" /\ names \in Seq(Users(p)) /\ Distinct(names)
      /\ ~s /\ PagesReach(p, Listed(p, 1)) /\ PagesReach(p, Listed(p, 2)) =>
           \A i \in Users(p) : Holds(names, i)
      /\ browse.next \in 1..Len(names) /\ browse.types \in Seq(Nat)
      /\ Len(browse.types) = browse.next - 1
      /\ \A n \in DOMAIN browse.types :
           /\ browse.types[n] \in {0, names[n]}
           /\ browse.types[n] = 0 => s \/ "named" \notin p.services
  BY <1>1 DEF Typing
<1>3. /\ types \in Seq(Nat) /\ types # <<>> /\ browse.next + Len(types) <= Len(names) + 1
      /\ \A n \in DOMAIN types : /\ types[n] \in {0, names[browse.next - 1 + n]}
                                 /\ types[n] = 0 => s \/ "named" \notin p.services
  BY DEF NextTypes
<1>4. Len(types) \in Nat \ {0} /\ Len(names) \in Nat /\ browse.next \in Nat \ {0}
  BY <1>2, <1>3
<1>5. /\ all \in Seq(Nat) /\ Len(all) = browse.next - 1 + Len(types)
      /\ \A n \in DOMAIN all :
           \/ n \in DOMAIN browse.types /\ all[n] = browse.types[n]
           \/ \E m \in DOMAIN types : n = Len(browse.types) + m /\ all[n] = types[m]
  <2> DEFINE old == browse.types
  <2>1. old \in Seq(Nat)
    BY <1>2
  <2> HIDE DEF old
  <2>2. /\ old \o types \in Seq(Nat) /\ Len(old \o types) = Len(old) + Len(types)
        /\ \A n \in DOMAIN (old \o types) :
             \/ n \in DOMAIN old /\ (old \o types)[n] = old[n]
             \/ \E m \in DOMAIN types : n = Len(old) + m /\ (old \o types)[n] = types[m]
    BY <1>3, <2>1, ConcatIs
  <2> QED
    BY <1>2, <2>2 DEF old
<1>6. \A n \in DOMAIN all : /\ all[n] \in {0, names[n]}
                            /\ all[n] = 0 => s \/ "named" \notin p.services
  <2> TAKE n \in DOMAIN all
  <2>1. CASE n \in DOMAIN browse.types /\ all[n] = browse.types[n]
    BY <1>2, <2>1
  <2>2. CASE \E m \in DOMAIN types : n = Len(browse.types) + m /\ all[n] = types[m]
    <3>1. PICK m \in DOMAIN types : n = browse.next - 1 + m /\ all[n] = types[m]
      BY <1>2, <2>2
    <3> QED
      BY <1>3, <3>1
  <2> QED
    BY <1>5, <2>1, <2>2
<1>7. Typed(types, part) = IF Len(all) < Len(names) THEN b ELSE c
  <2>1. b.names = names /\ b.types = all
    BY <1>1 DEF BrowseFields
  <2>2. [i \in DOMAIN b.names |-> [id |-> b.names[i], type |-> b.types[i]]] = TagsOf(names, all)
    <3> HIDE DEF b, all, names
    <3> QED
      BY <2>1 DEF TagsOf
  <2>3. Typed(types, part) =
          IF Len(b.types) < Len(b.names) THEN b
          ELSE Over([b EXCEPT !.tags = [i \in DOMAIN b.names |-> [id |-> b.names[i], type |-> b.types[i]]]])
    BY Zenon DEF Typed
  <2> HIDE DEF b, all, names
  <2> QED
    BY <2>1, <2>2, <2>3
<1> HIDE DEF all
<1>8. /\ DOMAIN b = BrowseFields /\ b.plc = p /\ b.way = "types" /\ b.part = part /\ b.names = names
      /\ b.types = all /\ b.next = browse.next + Len(types) /\ b.page = browse.page
  BY <1>1, <1>2 DEF BrowseFields
<1>9. /\ DOMAIN c = BrowseFields /\ c.plc = p /\ c.way = "types" /\ c.part = "over"
      /\ c.tags = TagsOf(names, all)
  BY <1>8 DEF BrowseFields, Over
<1> HIDE DEF b, c
<1>10. CASE Len(all) < Len(names)
  <2>1. b.next \in 1..Len(names) /\ Len(all) = b.next - 1
    BY <1>4, <1>5, <1>8, <1>10
  <2>2. Typing(b, s)
    BY <1>2, <1>5, <1>6, <1>8, <2>1 DEF Typing
  <2> QED
    BY <1>1, <1>7, <1>8, <1>10, <2>2 DEF Stage
<1>11. CASE ~(Len(all) < Len(names))
  <2>1. Len(all) = Len(names)
    BY <1>3, <1>4, <1>5, <1>11
  <2>2. /\ TagsRight(c, s)
        /\ \A i : Holds(names, i) => Has(c, i)
    <3>1. c.plc \in Plcs /\ names \in Seq(Users(c.plc)) /\ Distinct(names)
      BY <1>1, <1>2, <1>9
    <3>2. all \in Seq(Nat) /\ Len(all) = Len(names) /\ c.tags = TagsOf(names, all)
      BY <1>5, <1>9, <2>1
    <3>3. \A n \in DOMAIN all : /\ all[n] \in {0, names[n]}
                                /\ all[n] = 0 => s \/ "named" \notin c.plc.services
      BY <1>6, <1>9
    <3> HIDE DEF names
    <3> QED
      BY <3>1, <3>2, <3>3, TagsOfRight
  <2>3. Whole(c, s)
    BY <1>2, <1>9, <2>2 DEF Whole, Reached
  <2> QED
    BY <1>1, <1>7, <1>9, <1>11, <2>3 DEF Stage
<1> QED
  BY <1>10, <1>11

LEMMA BatchIs ==
  ASSUME NEW s, Stage(browse, s), browse.part \in {"multi", "one"}
  PROVE  /\ Len(Batch) \in Nat \ {0} /\ DOMAIN Batch = 1..Len(Batch) /\ Batch \in [DOMAIN Batch -> Nat]
         /\ browse.next \in Nat \ {0} /\ Len(browse.names) \in Nat
         /\ browse.next + Len(Batch) <= Len(browse.names) + 1
         /\ \A n \in DOMAIN Batch : Batch[n] = browse.names[browse.next - 1 + n] /\ Batch[n] \in Nat \ {0}
<1> DEFINE names == browse.names
           from == browse.next
           to == IF from + TypeBatch <= Len(names) THEN from + TypeBatch - 1 ELSE Len(names)
<1>1. names \in Seq(Users(browse.plc)) /\ from \in 1..Len(names) /\ browse.plc \in Plcs
  BY DEF Stage, Typing
<1>2. TypeBatch \in Nat \ {0}
  BY BrowseAssumption
<1>3. to \in from..Len(names) /\ from \in Nat \ {0} /\ Len(names) \in Nat
  BY <1>1, <1>2
<1>4. Batch = SubSeq(names, from, to)
  BY DEF Batch
<1>5. \A n \in DOMAIN names : names[n] \in Nat \ {0}
  <2>1. \A n \in DOMAIN names : names[n] \in Users(browse.plc)
    BY <1>1
  <2> QED
    BY <1>1, <2>1, UserTags
<1> HIDE DEF to, names, from
<1>6. /\ Len(Batch) = to - from + 1
      /\ \A n \in 1..(to - from + 1) : Batch[n] = names[from + n - 1]
      /\ DOMAIN Batch = 1..(to - from + 1) /\ Batch \in Seq(Users(browse.plc))
  BY <1>1, <1>3, <1>4
<1>7. ASSUME NEW n \in DOMAIN Batch
      PROVE  from - 1 + n \in DOMAIN names /\ from + n - 1 = from - 1 + n
  <2>1. DOMAIN names = 1..Len(names)
    BY <1>1
  <2>2. n \in 1..(to - from + 1)
    BY <1>6
  <2> QED
    BY <1>3, <2>1, <2>2
<1>8. \A n \in DOMAIN Batch : Batch[n] \in Nat
  BY <1>5, <1>6, <1>7
<1>9. Batch \in [DOMAIN Batch -> Nat]
  BY <1>6, <1>8
<1> QED
  BY <1>3, <1>5, <1>6, <1>7, <1>9 DEF from, names

\* A batch answers for each of its names, or is given up for its names one by one.
AfterTypes(answer) ==
  IF answer.kind = "data" THEN Typed(answer.data, "multi")
  ELSE [browse EXCEPT !.part = "one", !.page = browse.next + Len(Batch) - 1]

LEMMA AfterTypesStage ==
  ASSUME NEW s \in BOOLEAN, Stage(browse, s), browse.part = "multi", NEW answer,
         answer.kind = "data" =>
           /\ answer.data \in [DOMAIN Batch -> Nat]
           /\ \A n \in DOMAIN Batch : /\ answer.data[n] \in {0, Batch[n]}
                                      /\ answer.data[n] = 0 => s \/ "named" \notin browse.plc.services
  PROVE  Stage(AfterTypes(answer), s)
<1>1. /\ Len(Batch) \in Nat \ {0} /\ DOMAIN Batch = 1..Len(Batch)
      /\ browse.next \in Nat \ {0} /\ Len(browse.names) \in Nat
      /\ browse.next + Len(Batch) <= Len(browse.names) + 1
      /\ \A n \in DOMAIN Batch : Batch[n] = browse.names[browse.next - 1 + n] /\ Batch[n] \in Nat \ {0}
  BY BatchIs
<1>2. CASE answer.kind = "data"
  <2> DEFINE types == answer.data
  <2>1. types \in [1..Len(Batch) -> Nat]
    BY <1>1, <1>2
  <2>2. types \in Seq(Nat) /\ Len(types) = Len(Batch) /\ DOMAIN types = DOMAIN Batch /\ types # <<>>
    <3> HIDE DEF types
    <3> QED
      BY <1>1, <2>1
  <2>3. NextTypes(browse, s, types)
    BY <1>1, <1>2, <2>2 DEF NextTypes
  <2>4. Stage(Typed(types, "multi"), s)
    <3> HIDE DEF types
    <3> QED
      BY <2>3, TypedStage
  <2> QED
    BY <1>2, <2>4 DEF AfterTypes
<1>3. CASE answer.kind # "data"
  <2> DEFINE b == [browse EXCEPT !.part = "one", !.page = browse.next + Len(Batch) - 1]
  <2>1. DOMAIN browse = BrowseFields /\ browse.plc \in Plcs /\ Typing(browse, s)
    BY DEF Stage
  <2>2. /\ DOMAIN b = BrowseFields /\ b.plc = browse.plc /\ b.part = "one" /\ b.way = browse.way
        /\ b.page = browse.next + Len(Batch) - 1 /\ b.names = browse.names /\ b.types = browse.types
        /\ b.next = browse.next
    BY <2>1 DEF BrowseFields
  <2> HIDE DEF b
  <2>3. b.page \in b.next..Len(b.names)
    BY <1>1, <2>2
  <2>4. Typing(b, s)
    BY <2>1, <2>2, <2>3 DEF Typing
  <2>5. AfterTypes(answer) = b
    BY <1>3 DEF AfterTypes, b
  <2> QED
    BY <2>1, <2>2, <2>4, <2>5 DEF Stage
<1> QED
  BY <1>2, <1>3

AfterType1(answer) ==
  Typed(<<IF answer.kind = "data" THEN browse.names[browse.next] ELSE 0>>,
        IF browse.next = browse.page THEN "multi" ELSE "one")

LEMMA AfterType1Stage ==
  ASSUME NEW s \in BOOLEAN, Stage(browse, s), browse.part = "one", NEW answer,
         answer.kind # "data" => s \/ "named" \notin browse.plc.services
  PROVE  Stage(AfterType1(answer), s)
<1> DEFINE from == browse.next
           names == browse.names
           type == IF answer.kind = "data" THEN names[from] ELSE 0
           part == IF from = browse.page THEN "multi" ELSE "one"
           types == <<type>>
<1>1. /\ names \in Seq(Users(browse.plc)) /\ from \in 1..Len(names) /\ browse.plc \in Plcs
      /\ browse.page \in from..Len(names)
  BY DEF Stage, Typing
<1>2. from \in DOMAIN names /\ from \in Nat /\ Len(names) \in Nat /\ browse.page \in Nat
  BY <1>1
<1>3. names[from] \in Nat \ {0}
  <2>1. names[from] \in Users(browse.plc)
    BY <1>1, <1>2
  <2> QED
    BY <1>1, <2>1, UserTags
<1>4. type \in Nat /\ type \in {0, names[from]} /\ (type = 0 => s \/ "named" \notin browse.plc.services)
  BY <1>3
<1>5. AfterType1(answer) = Typed(types, part)
  BY DEF AfterType1
<1> HIDE DEF type
<1>6. types \in Seq(Nat) /\ types # <<>> /\ Len(types) = 1 /\ DOMAIN types = {1} /\ types[1] = type
  BY <1>4
<1> HIDE DEF types
<1>7. from - 1 + 1 = from /\ from + Len(types) <= Len(names) + 1
  BY <1>1, <1>2, <1>6
<1>8. NextTypes(browse, s, types)
  BY <1>4, <1>6, <1>7 DEF NextTypes
<1>9. part \in {"multi", "one"} /\ (part = "one" => browse.page \in (from + Len(types))..Len(names))
  BY <1>1, <1>2, <1>6
<1> HIDE DEF part
<1>10. Stage(Typed(types, part), s)
  BY <1>8, <1>9, TypedStage
<1> QED
  BY <1>5, <1>10

-----------------------------------------------------------------------------
(* Every instance in turn *)

\* Where the listing can reach every user tag, none lies behind a gap that ends it.
LEMMA GapEnds ==
  ASSUME NEW p \in Plcs, NEW limit, InstancesReach(p, limit), NEW k \in Nat \ {0}, NEW n \in Nat,
         Blank(p, k, k + n - 1),
         MaxErrors <= n \/ ("all" \notin p.services /\ MaxGasErrors <= n),
         NEW i \in Users(p)
  PROVE  i < k + n
<1> DEFINE gap == IF "all" \in p.services \/ MaxErrors < MaxGasErrors THEN MaxErrors ELSE MaxGasErrors
<1>1. MaxErrors \in Nat \ {0} /\ MaxGasErrors \in Nat \ {0}
  BY BrowseAssumption
<1>2. gap \in Nat \ {0} /\ gap <= n
  BY <1>1
<1>3. i \in DOMAIN p.tags /\ p.tags[i].kind = "user" /\ i \in Nat
  BY PlcTags DEF Users
<1>4. \A j \in 1..(i - gap) : \E l \in j..(j + gap - 1) : Readable(p, l)
  BY <1>3 DEF InstancesReach
<1> HIDE DEF gap
<1>5. ASSUME ~(i < k + n)
      PROVE  FALSE
  <2>1. k \in 1..(i - gap)
    BY <1>2, <1>3, <1>5
  <2>2. PICK l \in k..(k + gap - 1) : Readable(p, l)
    BY <1>4, <2>1
  <2>3. l \in k..(k + n - 1)
    BY <1>2
  <2> QED
    BY <2>2, <2>3 DEF Blank
<1> QED
  BY <1>5

\* Behind a trail that is long enough no user tag is to come.
LEMMA TrailEnds ==
  ASSUME NEW b, NEW n \in Nat \ {0}, b.plc \in Plcs, b.errors \in Nat, Trail(b, n),
         InstancesReach(b.plc, b.limit),
         MaxErrors <= b.errors \/ ("all" \notin b.plc.services /\ ~(b.gasErrors < MaxGasErrors)),
         NEW i \in Users(b.plc)
  PROVE  i < n
<1> DEFINE p == b.plc
<1>1. MaxErrors \in Nat \ {0} /\ MaxGasErrors \in Nat \ {0} /\ i \in Nat
  BY BrowseAssumption, UserTags
<1>2. CASE /\ "all" \in p.services \/ (b.gasErrors < MaxGasErrors /\ b.gasErrors = b.errors)
           /\ b.errors < n /\ Blank(p, n - b.errors, n - 1)
  <2>1. MaxErrors <= b.errors
    BY <1>2
  <2>2. n - b.errors \in Nat \ {0} /\ (n - b.errors) + b.errors - 1 = n - 1 /\ (n - b.errors) + b.errors = n
    BY <1>2
  <2> DEFINE k == n - b.errors
             e == b.errors
             lim == b.limit
  <2>3. k \in Nat \ {0} /\ e \in Nat /\ Blank(p, k, k + e - 1) /\ MaxErrors <= e /\ k + e = n
    BY <1>2, <2>1, <2>2
  <2>4. InstancesReach(p, lim) /\ p \in Plcs /\ i \in Users(p)
    OBVIOUS
  <2> HIDE DEF k, e, lim, p
  <2>5. i < k + e
    BY <2>3, <2>4, GapEnds
  <2> QED
    BY <2>3, <2>5
<1>3. CASE "all" \notin p.services /\ \E k \in 1..n : k + MaxGasErrors <= n /\ Blank(p, k, k + MaxGasErrors - 1)
  <2>1. PICK k \in 1..n : k + MaxGasErrors <= n /\ Blank(p, k, k + MaxGasErrors - 1)
    BY <1>3
  <2> DEFINE lim == b.limit
  <2>2. InstancesReach(p, lim) /\ p \in Plcs /\ i \in Users(p) /\ "all" \notin p.services /\ k \in Nat \ {0}
    BY <1>3
  <2> HIDE DEF lim, p
  <2>3. MaxGasErrors <= MaxGasErrors /\ MaxGasErrors \in Nat
    BY <1>1
  <2>4. i < k + MaxGasErrors
    BY <2>1, <2>2, <2>3, GapEnds
  <2> QED
    BY <1>1, <2>1, <2>4
<1> QED
  BY <1>2, <1>3 DEF Trail

\* An end of the listing, from which it begins again if it has found nothing the first time.
LEMMA EndedStage ==
  ASSUME NEW s \in BOOLEAN, DOMAIN browse = BrowseFields, browse.plc \in Plcs,
         NEW b, DOMAIN b = BrowseFields, b.plc = browse.plc, b.way \in {"instances", "legacy"},
         TagsRight(b, s),
         ~s /\ InstancesReach(b.plc, b.limit) => \A i \in Users(b.plc) : Has(b, i)
  PROVE  Stage(Ended(b), s)
<1>1. CASE b.way = "legacy" \/ b.tags # <<>>
  <2> DEFINE c == Over(b)
  <2>1. Ended(b) = c
    BY <1>1 DEF Ended
  <2>2. /\ DOMAIN c = BrowseFields /\ c.part = "over" /\ c.plc = b.plc /\ c.way = b.way /\ c.tags = b.tags
        /\ c.limit = b.limit
    BY DEF Over, BrowseFields
  <2> HIDE DEF c
  <2>3. TagsRight(c, s)
    BY <2>2 DEF TagsRight
  <2>4. Reached(c) => InstancesReach(b.plc, b.limit)
    BY <2>2 DEF Reached
  <2>5. Whole(c, s)
    BY <2>2, <2>3, <2>4 DEF Whole, Has
  <2> QED
    BY <2>1, <2>2, <2>5 DEF Stage
<1>2. CASE ~(b.way = "legacy" \/ b.tags # <<>>)
  <2>1. Ended(b) = Iterate("legacy", "all", LegacyLimit)
    BY <1>2 DEF Ended
  <2>2. LegacyLimit \in Nat \ {0}
    BY BrowseAssumption
  <2> QED
    BY <2>1, <2>2, IterateStage
<1> QED
  BY <1>1, <1>2

\* The instance has been tried, and counted.
Passed(b, s) ==
  /\ DOMAIN b = BrowseFields /\ b.plc \in Plcs /\ b.plc = browse.plc
  /\ b.way \in {"instances", "legacy"} /\ b.limit \in Nat \ {0} /\ b.next \in 1..b.limit
  /\ b.errors \in Nat /\ b.gasErrors \in Nat
  /\ TagsRight(b, s) /\ Tried(b, b.next + 1, s)
  /\ \A n \in DOMAIN b.tags : b.tags[n].id < b.next + 1
  /\ ~s /\ b.plc.services \cap {"all", "single"} # {} => Trail(b, b.next + 1)

LEMMA AdvanceStage ==
  ASSUME NEW s \in BOOLEAN, DOMAIN browse = BrowseFields, browse.plc \in Plcs, NEW b, Passed(b, s)
  PROVE  Stage(Advance(b), s)
<1>1. /\ DOMAIN b = BrowseFields /\ b.plc \in Plcs /\ b.plc = browse.plc
      /\ b.way \in {"instances", "legacy"} /\ b.limit \in Nat \ {0} /\ b.next \in 1..b.limit
      /\ b.errors \in Nat /\ b.gasErrors \in Nat
      /\ TagsRight(b, s) /\ Tried(b, b.next + 1, s)
      /\ \A n \in DOMAIN b.tags : b.tags[n].id < b.next + 1
      /\ ~s /\ b.plc.services \cap {"all", "single"} # {} => Trail(b, b.next + 1)
  BY DEF Passed
<1>2. CASE b.next = b.limit
  <2>1. ASSUME ~s, InstancesReach(b.plc, b.limit), NEW i \in Users(b.plc)
        PROVE  Has(b, i)
    <3>1. i <= b.limit /\ i \in Nat
      BY <1>1, <2>1, UserTags DEF InstancesReach, Users
    <3>2. i < b.next + 1
      BY <1>1, <1>2, <3>1
    <3> QED
      BY <1>1, <2>1, <3>2 DEF Tried
  <2>2. Stage(Ended(b), s)
    BY <1>1, <2>1, EndedStage
  <2> QED
    BY <1>2, <2>2 DEF Advance
<1>3. CASE b.next # b.limit
  <2> DEFINE c == [b EXCEPT !.next = b.next + 1, !.part = "all"]
  <2>1. Advance(b) = c
    BY <1>3 DEF Advance
  <2>2. /\ DOMAIN c = BrowseFields /\ c.plc = b.plc /\ c.way = b.way /\ c.limit = b.limit
        /\ c.next = b.next + 1 /\ c.errors = b.errors /\ c.gasErrors = b.gasErrors /\ c.tags = b.tags
        /\ c.part = "all"
    BY <1>1 DEF BrowseFields
  <2> HIDE DEF c
  <2>3. c.next \in 1..c.limit
    BY <1>1, <1>3, <2>2
  <2>4. TagsRight(c, s) /\ Tried(c, c.next, s)
    BY <1>1, <2>2 DEF TagsRight, Tried, Has
  <2>5. Trail(b, b.next + 1) => Trail(c, c.next)
    BY <2>2 DEF Trail
  <2>6. Trying(c, s)
    BY <1>1, <2>2, <2>3, <2>4, <2>5 DEF Trying
  <2> QED
    BY <1>1, <2>1, <2>2, <2>6 DEF Stage
<1> QED
  BY <1>2, <1>3

\* An instance that was read is a tag of the list, the first after those found.
LEMMA FoundStage ==
  ASSUME NEW s \in BOOLEAN, DOMAIN browse = BrowseFields, browse.plc \in Plcs,
         NEW b, DOMAIN b = BrowseFields, b.plc = browse.plc,
         b.way \in {"instances", "legacy"}, b.limit \in Nat \ {0}, b.next \in 1..b.limit,
         b.gasErrors \in Nat, TagsRight(b, s), Tried(b, b.next, s),
         \A n \in DOMAIN b.tags : b.tags[n].id < b.next,
         Readable(b.plc, b.next), "all" \in b.plc.services \/ b.gasErrors = 0,
         NEW type \in {0, b.next}, type = 0 => s \/ "named" \notin b.plc.services
  PROVE  Stage(Found(b, type), s)
<1> DEFINE p == b.plc
           i == b.next
           new == <<[id |-> i, type |-> type]>>
           tags == IF System(p, i) THEN b.tags ELSE Append(b.tags, [id |-> i, type |-> type])
           c == [b EXCEPT !.errors = 0, !.tags = tags]
<1>1. Found(b, type) = Advance(c)
  BY DEF Found
<1>2. i \in Nat \ {0} /\ i \in Readables(p) /\ MaxGasErrors \in Nat \ {0}
  BY PlcTags, BrowseAssumption DEF Readables, Readable
<1>3. /\ DOMAIN c = BrowseFields /\ c.plc = p /\ c.way = b.way /\ c.limit = b.limit
      /\ c.next = i /\ c.errors = 0 /\ c.gasErrors = b.gasErrors /\ c.tags = tags
  BY DEF BrowseFields
<1>4. Trail(c, i + 1)
  <2>1. \A k \in (i + 1 - 0)..(i + 1 - 1) : FALSE
    BY <1>2
  <2> HIDE DEF c
  <2> QED
    BY <1>2, <1>3, <2>1 DEF Trail, Blank
<1>5. b.tags \in Seq(Entry)
  BY DEF TagsRight, Entry
<1>6. \A n \in DOMAIN b.tags : b.tags[n].id \in Nat
  <2>1. \A n \in DOMAIN b.tags : b.tags[n] \in Entry
    BY <1>5
  <2> QED
    BY <2>1 DEF Entry
<1> HIDE DEF c, tags
<1>7. CASE System(p, i)
  <2>1. c.tags = b.tags
    BY <1>3, <1>7 DEF tags
  <2>2. TagsRight(c, s)
    BY <1>3, <2>1 DEF TagsRight
  <2>3. ASSUME ~s, InstancesReach(p, b.limit), NEW j \in Users(p), j < i + 1
        PROVE  Has(c, j)
    <3>1. j \in Nat /\ j # i
      BY <1>7, UserTags
    <3>2. j < i
      BY <1>2, <2>3, <3>1
    <3> QED
      BY <2>1, <2>3, <3>2 DEF Tried, Has
  <2>4. Tried(c, c.next + 1, s)
    BY <1>3, <2>3 DEF Tried
  <2>5. \A n \in DOMAIN c.tags : c.tags[n].id < c.next + 1
    BY <1>2, <1>3, <1>6, <2>1
  <2>6. Passed(c, s)
    BY <1>2, <1>3, <1>4, <2>2, <2>4, <2>5 DEF Passed
  <2> QED
    BY <1>1, <2>6, AdvanceStage
<1>8. CASE ~System(p, i)
  <2> DEFINE old == b.tags
             tag == [id |-> i, type |-> type]
  <2>1. tag \in Entry /\ tag.id = i /\ tag.type = type
    BY <1>2 DEF Entry
  <2>2. tags = Append(old, tag)
    BY <1>8 DEF tags
  <2> HIDE DEF old, tag
  <2>3. old \in Seq(Entry)
    BY <1>5 DEF old
  <2>4. /\ tags \in Seq(Entry) /\ DOMAIN tags = 1..(Len(old) + 1) /\ Len(old) \in Nat
        /\ DOMAIN old = 1..Len(old)
        /\ \A n \in 1..Len(old) : tags[n] = old[n]
        /\ tags[Len(old) + 1] = tag
    BY <2>1, <2>2, <2>3
  <2>5. /\ \A n \in DOMAIN tags : (n \in DOMAIN old /\ tags[n] = old[n]) \/ (n = Len(old) + 1 /\ tags[n] = tag)
        /\ \A n \in DOMAIN old : n \in DOMAIN tags /\ tags[n] = old[n]
        /\ Len(old) + 1 \in DOMAIN tags
    BY <2>4
  <2>6. /\ \A n \in DOMAIN old : old[n].id \in Nat /\ old[n].id < i
        /\ \A m, n \in DOMAIN old : old[m].id = old[n].id => m = n
        /\ \A n \in DOMAIN old :
             /\ old[n].id \in Readables(p) /\ old[n].type \in {0, old[n].id}
             /\ System(p, old[n].id) => b.way = "list55"
             /\ old[n].type = 0 => s \/ "named" \notin p.services
    BY <1>6 DEF old, TagsRight
  <2>7. \A m, n \in DOMAIN tags : tags[m].id = tags[n].id => m = n
    <3> TAKE m, n \in DOMAIN tags
    <3>1. \A k \in DOMAIN old : old[k].id # tag.id
      BY <1>2, <2>1, <2>6
    <3>2. CASE m \in DOMAIN old /\ tags[m] = old[m]
      BY <2>5, <2>6, <3>1, <3>2
    <3>3. CASE m = Len(old) + 1 /\ tags[m] = tag
      BY <2>5, <3>1, <3>3
    <3> QED
      BY <2>5, <3>2, <3>3
  <2>8. \A n \in DOMAIN tags :
          /\ tags[n].id \in Readables(p) /\ tags[n].type \in {0, tags[n].id}
          /\ System(p, tags[n].id) => b.way = "list55"
          /\ tags[n].type = 0 => s \/ "named" \notin p.services
    BY <1>2, <1>8, <2>1, <2>5, <2>6
  <2>9. TagsRight(c, s)
    BY <1>3, <2>4, <2>7, <2>8 DEF TagsRight, Entry
  <2>10. ASSUME ~s, InstancesReach(p, b.limit), NEW j \in Users(p), j < i + 1
         PROVE  Has(c, j)
    <3>1. j \in Nat /\ (j < i \/ j = i)
      BY <1>2, <2>10, UserTags
    <3>2. CASE j < i
      <4>1. Has(b, j)
        BY <2>10, <3>2 DEF Tried
      <4> QED
        BY <1>3, <2>5, <4>1 DEF Has, old
    <3>3. CASE j = i
      BY <1>3, <2>1, <2>4, <2>5, <3>3 DEF Has
    <3> QED
      BY <3>1, <3>2, <3>3
  <2>11. Tried(c, c.next + 1, s)
    BY <1>3, <2>10 DEF Tried
  <2>12. \A n \in DOMAIN c.tags : c.tags[n].id < c.next + 1
    BY <1>2, <1>3, <2>1, <2>5, <2>6
  <2>13. Passed(c, s)
    BY <1>2, <1>3, <1>4, <2>9, <2>11, <2>12 DEF Passed
  <2> QED
    BY <1>1, <2>13, AdvanceStage
<1> QED
  BY <1>7, <1>8

\* An instance that was not read, counted as an error.
LEMMA MissedStage ==
  ASSUME NEW s \in BOOLEAN, DOMAIN browse = BrowseFields, browse.plc \in Plcs,
         NEW b, DOMAIN b = BrowseFields, b.errors \in Nat,
         Passed([b EXCEPT !.errors = b.errors + 1], s),
         NEW down \in BOOLEAN, down => s
  PROVE  Stage(Missed(b, down), s)
<1> DEFINE c == [b EXCEPT !.errors = b.errors + 1]
<1>1. Missed(b, down) = IF down \/ c.errors >= MaxErrors THEN Ended(b) ELSE Advance(c)
  BY DEF Missed, BrowseFields
<1>2. /\ c.plc = b.plc /\ c.way = b.way /\ c.tags = b.tags /\ c.limit = b.limit /\ c.next = b.next
      /\ c.gasErrors = b.gasErrors /\ c.errors = b.errors + 1
  BY DEF BrowseFields
<1>3. Passed(c, s)
  OBVIOUS
<1> HIDE DEF c
<1>4. /\ c.plc \in Plcs /\ c.plc = browse.plc /\ c.way \in {"instances", "legacy"} /\ c.next \in Nat \ {0}
      /\ TagsRight(c, s) /\ Tried(c, c.next + 1, s)
      /\ ~s /\ c.plc.services \cap {"all", "single"} # {} => Trail(c, c.next + 1)
  BY <1>3 DEF Passed
<1>5. CASE down \/ c.errors >= MaxErrors
  <2>1. ASSUME ~s, InstancesReach(b.plc, b.limit), NEW i \in Users(b.plc)
        PROVE  Has(b, i)
    <3>1. c.plc.services \cap {"all", "single"} # {}
      BY <1>2, <2>1 DEF InstancesReach
    <3>2. Trail(c, c.next + 1) /\ InstancesReach(c.plc, c.limit) /\ i \in Users(c.plc)
      BY <1>2, <1>4, <2>1, <3>1
    <3>3. MaxErrors <= c.errors /\ c.errors \in Nat /\ c.next + 1 \in Nat \ {0}
      <4>1. MaxErrors \in Nat
        BY BrowseAssumption
      <4> QED
        BY <1>2, <1>4, <1>5, <2>1, <4>1
    <3> DEFINE n == c.next + 1
    <3> HIDE DEF n
    <3>4. i < n
      BY <1>4, <3>2, <3>3, TrailEnds DEF n
    <3> QED
      BY <1>2, <1>4, <2>1, <3>4 DEF Tried, Has, n
  <2>2. TagsRight(b, s)
    BY <1>2, <1>4 DEF TagsRight
  <2>3. Stage(Ended(b), s)
    BY <1>2, <1>4, <2>1, <2>2, EndedStage
  <2> QED
    BY <1>1, <1>5, <2>3
<1>6. CASE ~(down \/ c.errors >= MaxErrors)
  BY <1>1, <1>3, <1>6, AdvanceStage
<1> QED
  BY <1>5, <1>6

\* What is counted of an instance that was not read keeps the trail: it has no readable tag, or GAS
\* has failed too often before.
LEMMA MissedPassed ==
  ASSUME NEW s \in BOOLEAN, Stage(browse, s), browse.part \in {"all", "name", "type"}, NEW c,
         DOMAIN c = BrowseFields, c.plc = browse.plc, c.way = browse.way, c.limit = browse.limit,
         c.next = browse.next, c.tags = browse.tags, c.errors = browse.errors + 1, c.gasErrors \in Nat,
         ~s /\ browse.plc.services \cap {"all", "single"} # {} =>
           \/ /\ ~Readable(browse.plc, browse.next)
              /\ \/ "all" \in browse.plc.services
                 \/ browse.gasErrors < MaxGasErrors /\ c.gasErrors = browse.gasErrors + 1
           \/ "all" \notin browse.plc.services /\ ~(browse.gasErrors < MaxGasErrors)
  PROVE  Passed(c, s)
<1> DEFINE p == browse.plc
           i == browse.next
           e == browse.errors
           served == p.services \cap {"all", "single"} # {}
           all == "all" \in p.services
           counted == all \/ (browse.gasErrors < MaxGasErrors /\ c.gasErrors = browse.gasErrors + 1)
<1>1. /\ p \in Plcs /\ browse.way \in {"instances", "legacy"} /\ browse.limit \in Nat \ {0}
      /\ i \in 1..browse.limit /\ e \in Nat /\ browse.gasErrors \in Nat
      /\ TagsRight(browse, s) /\ Tried(browse, i, s)
      /\ \A n \in DOMAIN browse.tags : browse.tags[n].id < i
      /\ ~s /\ served => Trail(browse, i)
  BY DEF Stage, Trying
<1>2. i \in Nat \ {0} /\ MaxGasErrors \in Nat \ {0}
  BY <1>1, BrowseAssumption
<1>3. \A n \in DOMAIN browse.tags : browse.tags[n].id \in Nat
  <2>1. browse.tags \in Seq(Entry)
    BY <1>1 DEF TagsRight, Entry
  <2>2. \A n \in DOMAIN browse.tags : browse.tags[n] \in Entry
    BY <2>1
  <2> QED
    BY <2>2 DEF Entry
<1>4. TagsRight(c, s)
  BY <1>1 DEF TagsRight
<1>5. \A n \in DOMAIN c.tags : c.tags[n].id < c.next + 1
  BY <1>1, <1>2, <1>3
<1>6. ASSUME ~s, served
      PROVE  Trail(c, c.next + 1)
  <2>1. CASE all /\ e < i /\ Blank(p, i - e, i - 1) /\ ~Readable(p, i)
    <3>1. c.errors < c.next + 1 /\ c.next + 1 - c.errors = i - e /\ c.next + 1 - 1 = i
      BY <1>1, <1>2, <2>1
    <3>2. \A k \in (i - e)..i : k \in (i - e)..(i - 1) \/ k = i
      BY <1>1, <1>2
    <3>3. Blank(p, i - e, i)
      BY <2>1, <3>2 DEF Blank
    <3> DEFINE n == c.next + 1
    <3>4. n - c.errors = i - e /\ n - 1 = i /\ c.errors < n
      BY <1>1, <1>2, <3>1
    <3> HIDE DEF n
    <3>5. Blank(c.plc, n - c.errors, n - 1)
      BY <3>3, <3>4
    <3>6. Trail(c, n)
      BY <2>1, <3>4, <3>5 DEF Trail
    <3> QED
      BY <3>6 DEF n
  <2>2. CASE /\ ~all /\ browse.gasErrors < MaxGasErrors /\ c.gasErrors = browse.gasErrors + 1
             /\ browse.gasErrors = e /\ e < i /\ Blank(p, i - e, i - 1) /\ ~Readable(p, i)
    <3>1. c.errors < c.next + 1 /\ c.next + 1 - c.errors = i - e /\ c.next + 1 - 1 = i /\ c.gasErrors = c.errors
      BY <1>1, <1>2, <2>2
    <3>2. \A k \in (i - e)..i : k \in (i - e)..(i - 1) \/ k = i
      BY <1>1, <1>2
    <3>3. Blank(p, i - e, i)
      BY <2>2, <3>2 DEF Blank
    <3>4. CASE c.gasErrors < MaxGasErrors
      <4> DEFINE n == c.next + 1
      <4>1. n - c.errors = i - e /\ n - 1 = i /\ c.errors < n
        BY <1>1, <1>2, <3>1
      <4> HIDE DEF n
      <4>2. Blank(c.plc, n - c.errors, n - 1)
        BY <3>3, <4>1
      <4>3. Trail(c, n)
        BY <3>1, <3>4, <4>1, <4>2 DEF Trail
      <4> QED
        BY <4>3 DEF n
    <3>5. CASE ~(c.gasErrors < MaxGasErrors)
      <4> DEFINE k == i - e
      <4>1. MaxGasErrors = e + 1
        BY <1>1, <1>2, <2>2, <3>5
      <4>2. k \in 1..(c.next + 1) /\ k + MaxGasErrors <= c.next + 1 /\ k + MaxGasErrors - 1 = i
        BY <1>1, <1>2, <2>2, <4>1
      <4>3. Blank(c.plc, k, k + MaxGasErrors - 1)
        BY <3>3, <4>2
      <4> HIDE DEF k
      <4> QED
        BY <2>2, <4>2, <4>3 DEF Trail
    <3> QED
      BY <3>4, <3>5
  <2>3. CASE ~all /\ \E k \in 1..i : k + MaxGasErrors <= i /\ Blank(p, k, k + MaxGasErrors - 1)
    <3>1. PICK k \in 1..i : k + MaxGasErrors <= i /\ Blank(p, k, k + MaxGasErrors - 1)
      BY <2>3
    <3>2. k \in 1..(c.next + 1) /\ k + MaxGasErrors <= c.next + 1
      BY <1>2, <3>1
    <3>3. Blank(c.plc, k, k + MaxGasErrors - 1)
      BY <3>1
    <3> QED
      BY <2>3, <3>2, <3>3 DEF Trail
  <2>4. Trail(browse, i)
    BY <1>1, <1>6
  <2> QED
    BY <1>6, <2>1, <2>2, <2>3, <2>4 DEF Trail
<1>7. ASSUME ~s, InstancesReach(p, browse.limit), NEW j \in Users(p), j < i + 1
      PROVE  Has(c, j)
  <2>1. j \in Nat /\ Readable(p, j)
    BY <1>1, UserTags
  <2>2. served
    BY <1>7 DEF InstancesReach
  <2>3. j # i
    <3>1. CASE ~Readable(p, i)
      BY <2>1, <3>1
    <3>2. CASE ~all /\ ~(browse.gasErrors < MaxGasErrors)
      <4>1. Trail(browse, i)
        BY <1>1, <1>7, <2>2
      <4>2. InstancesReach(browse.plc, browse.limit) /\ j \in Users(browse.plc)
        BY <1>7
      <4> HIDE DEF i, p
      <4>3. j < i
        BY <1>1, <1>2, <3>2, <4>1, <4>2, TrailEnds DEF p
      <4> QED
        BY <1>2, <2>1, <4>3
    <3> QED
      BY <1>7, <2>2, <3>1, <3>2
  <2>4. j < i
    BY <1>2, <1>7, <2>1, <2>3
  <2> QED
    BY <1>1, <1>7, <2>4 DEF Tried, Has
<1>8. Tried(c, c.next + 1, s)
  BY <1>7 DEF Tried
<1> QED
  BY <1>1, <1>4, <1>5, <1>6, <1>8 DEF Passed

\* An answer to the request for an instance: data for a tag the PLC has, where it has the service,
\* and nothing else unless the exchange failed.
Read(answer) ==
  answer.kind = "data" /\ Readable(browse.plc, browse.next)

InstanceAnswer(answer, s) ==
  LET service == IF browse.part = "all" THEN "all" ELSE "single"
  IN  /\ answer.kind = "data" => service \in browse.plc.services
      /\ ~s /\ service \in browse.plc.services /\ browse.next \in DOMAIN browse.plc.tags =>
           answer.kind = "data"
      /\ answer.kind = "down" => s

LEMMA AfterInstanceStage ==
  ASSUME NEW s \in BOOLEAN, Stage(browse, s), browse.part \in {"all", "name", "type"},
         NEW answer, InstanceAnswer(answer, s)
  PROVE  Stage(AfterInstance(answer), s)
<1> DEFINE p == browse.plc
           i == browse.next
           read == Read(answer)
           type == IF answer.kind = "data" THEN browse.next ELSE 0
           all == "all" \in p.services
<1>1. /\ DOMAIN browse = BrowseFields /\ p \in Plcs
      /\ browse.way \in {"instances", "legacy"} /\ browse.limit \in Nat \ {0}
      /\ i \in 1..browse.limit /\ browse.errors \in Nat /\ browse.gasErrors \in Nat
      /\ TagsRight(browse, s) /\ Tried(browse, i, s)
      /\ \A n \in DOMAIN browse.tags : browse.tags[n].id < i
      /\ ~s /\ p.services \cap {"all", "single"} # {} => Trail(browse, i)
      /\ browse.part = "name" =>
           browse.gasErrors < MaxGasErrors /\ (~s /\ all => ~Readable(p, i))
      /\ browse.part = "type" => Readable(p, i) /\ "single" \in p.services
  BY DEF Stage, Trying
<1>2. Readable(p, i) => i \in DOMAIN p.tags
  BY DEF Readable
<1>3. MaxGasErrors \in Nat \ {0} /\ i \in Nat \ {0}
  BY <1>1, BrowseAssumption
<1>4. CASE browse.part = "all" /\ read
  <2>1. AfterInstance(answer) = Found(browse, i)
    BY <1>4 DEF AfterInstance, Read
  <2>2. all /\ Readable(p, i) /\ i # 0
    BY <1>3, <1>4 DEF Read, InstanceAnswer
  <2>3. Stage(Found(browse, i), s)
    BY <1>1, <2>2, FoundStage
  <2> QED
    BY <2>1, <2>3
<1>5. CASE browse.part = "all" /\ ~read /\ browse.gasErrors < MaxGasErrors
  <2> DEFINE b == [browse EXCEPT !.part = "name"]
  <2>1. AfterInstance(answer) = b
    <3>1. ~(browse.gasErrors >= MaxGasErrors)
      BY <1>1, <1>3, <1>5
    <3>2. browse.part # "name"
      BY <1>5
    <3> QED
      BY <1>5, <3>1, <3>2 DEF AfterInstance, Read
  <2>2. /\ DOMAIN b = BrowseFields /\ b.plc = p /\ b.way = browse.way /\ b.limit = browse.limit
        /\ b.next = i /\ b.errors = browse.errors /\ b.gasErrors = browse.gasErrors
        /\ b.tags = browse.tags /\ b.part = "name"
    BY <1>1 DEF BrowseFields
  <2>3. ~s /\ all => ~Readable(p, i)
    BY <1>2, <1>5 DEF Read, InstanceAnswer
  <2> HIDE DEF b
  <2>4. TagsRight(b, s) /\ Tried(b, b.next, s)
    BY <1>1, <2>2 DEF TagsRight, Tried, Has
  <2>5. Trail(browse, i) => Trail(b, b.next)
    BY <2>2 DEF Trail
  <2>6. Trying(b, s)
    BY <1>1, <1>5, <2>2, <2>3, <2>4, <2>5 DEF Trying
  <2> QED
    BY <1>1, <2>1, <2>2, <2>6 DEF Stage
<1>6. CASE browse.part = "all" /\ ~read /\ ~(browse.gasErrors < MaxGasErrors)
  <2> DEFINE c == [browse EXCEPT !.errors = browse.errors + 1]
  <2>1. browse.gasErrors >= MaxGasErrors
    BY <1>1, <1>3, <1>6
  <2>2. AfterInstance(answer) = Missed(browse, FALSE)
    BY <1>6, <2>1 DEF AfterInstance, Read
  <2>3. ~s /\ all => ~Readable(p, i)
    BY <1>2, <1>6 DEF Read, InstanceAnswer
  <2>4. /\ DOMAIN c = BrowseFields /\ c.plc = p /\ c.way = browse.way /\ c.limit = browse.limit
        /\ c.next = i /\ c.tags = browse.tags /\ c.errors = browse.errors + 1
        /\ c.gasErrors = browse.gasErrors
    BY <1>1 DEF BrowseFields
  <2> HIDE DEF c
  <2>5. Passed(c, s)
    BY <1>1, <1>6, <2>3, <2>4, MissedPassed
  <2>6. Stage(Missed(browse, FALSE), s)
    BY <1>1, <2>5, MissedStage DEF c
  <2> QED
    BY <2>2, <2>6
<1>7. CASE browse.part = "name" /\ read
  <2> DEFINE b == [browse EXCEPT !.part = "type"]
  <2>1. AfterInstance(answer) = b
    BY <1>7 DEF AfterInstance, Read
  <2>2. /\ DOMAIN b = BrowseFields /\ b.plc = p /\ b.way = browse.way /\ b.limit = browse.limit
        /\ b.next = i /\ b.errors = browse.errors /\ b.gasErrors = browse.gasErrors
        /\ b.tags = browse.tags /\ b.part = "type"
    BY <1>1 DEF BrowseFields
  <2>3. Readable(p, i) /\ "single" \in p.services
    BY <1>7 DEF Read, InstanceAnswer
  <2> HIDE DEF b
  <2>4. TagsRight(b, s) /\ Tried(b, b.next, s)
    BY <1>1, <2>2 DEF TagsRight, Tried, Has
  <2>5. Trail(browse, i) => Trail(b, b.next)
    BY <2>2 DEF Trail
  <2>6. Trying(b, s)
    BY <1>1, <2>2, <2>3, <2>4, <2>5 DEF Trying
  <2> QED
    BY <1>1, <2>1, <2>2, <2>6 DEF Stage
<1>8. CASE browse.part = "name" /\ ~read
  <2> DEFINE b == [browse EXCEPT !.gasErrors = browse.gasErrors + 1]
             c == [b EXCEPT !.errors = b.errors + 1]
             down == answer.kind = "down"
  <2>1. AfterInstance(answer) = Missed(b, down)
    BY <1>8 DEF AfterInstance, Read
  <2>2. DOMAIN b = BrowseFields /\ b.plc = p /\ b.errors = browse.errors
    BY <1>1 DEF BrowseFields
  <2>3. /\ DOMAIN c = BrowseFields /\ c.plc = p /\ c.way = browse.way /\ c.limit = browse.limit
        /\ c.next = i /\ c.tags = browse.tags /\ c.errors = browse.errors + 1
        /\ c.gasErrors = browse.gasErrors + 1
    BY <1>1 DEF BrowseFields
  <2>4. ~s /\ p.services \cap {"all", "single"} # {} => ~Readable(p, i)
    BY <1>1, <1>2, <1>8 DEF Read, InstanceAnswer
  <2> HIDE DEF c
  <2>5. Passed(c, s)
    BY <1>1, <1>8, <2>3, <2>4, MissedPassed
  <2>6. down \in BOOLEAN /\ (down => s)
    BY DEF InstanceAnswer
  <2> HIDE DEF b, down
  <2>7. Stage(Missed(b, down), s)
    BY <1>1, <2>2, <2>5, <2>6, MissedStage DEF c
  <2> QED
    BY <2>1, <2>7
<1>9. CASE browse.part = "type"
  <2> DEFINE b == [browse EXCEPT !.gasErrors = 0]
  <2>1. AfterInstance(answer) = Found(b, type)
    BY <1>9 DEF AfterInstance
  <2>2. /\ DOMAIN b = BrowseFields /\ b.plc = p /\ b.way = browse.way /\ b.limit = browse.limit
        /\ b.next = i /\ b.tags = browse.tags /\ b.gasErrors = 0
    BY <1>1 DEF BrowseFields
  <2>3. type \in {0, b.next} /\ (type = 0 => s \/ "named" \notin p.services)
    BY <1>1, <1>2, <1>3, <1>9, <2>2 DEF InstanceAnswer
  <2> HIDE DEF b, type
  <2>4. TagsRight(b, s) /\ Tried(b, b.next, s)
    BY <1>1, <2>2 DEF TagsRight, Tried, Has
  <2>5. Stage(Found(b, type), s)
    BY <1>1, <1>9, <2>2, <2>3, <2>4, FoundStage
  <2> QED
    BY <2>1, <2>5
<1> QED
  BY <1>4, <1>5, <1>6, <1>7, <1>8, <1>9

-----------------------------------------------------------------------------
(* The listing's steps, the invariant and the theorem *)

\* No other call is a listing, or changes one that runs.
LEMMA OtherCalls ==
  ASSUME FullInv, Next
  PROVE  op' = op \/ op'.kind # "browse"
<1>1. IInv /\ DOMAIN op = Fields /\ (op.at = "read" => op.kind \in ReadKinds)
      /\ (op.at \in {"type", "write"} => op.kind = "write")
  BY DEF FullInv, IInv, LinkInv, Shape, ReadInv, Placed, Writing
<1>2. CASE BeginRead
  BY <1>2, BeginReadCall
<1>3. CASE BeginStatus
  <2> DEFINE jobs == <<Job("status", <<>>)>>
             results == <<None>>
  <2>1. op' = [Idle EXCEPT !.at = "read", !.kind = "status", !.jobs = jobs, !.results = results]
    BY <1>3 DEF BeginStatus
  <2> HIDE DEF jobs, results
  <2> QED
    BY <2>1, IdleFields DEF Fields
<1>4. CASE ReadFins
  <2>1. op.at = "read" /\ op'.kind = op.kind
    BY <1>1, <1>4, ReadFinsCall DEF ReadFins, At
  <2> QED
    BY <1>1, <2>1 DEF ReadKinds
<1>5. CASE ReadTags
  <2>1. op.at = "read" /\ op'.kind = op.kind
    BY <1>1, <1>5, ReadTagsCall DEF ReadTags, At
  <2> QED
    BY <1>1, <2>1 DEF ReadKinds
<1>6. CASE EndRead
  <2>1. op.at = "read" /\ op' = [op EXCEPT !.at = "done",
                                   !.failed = @ \/ (op.kind # "status" /\ ~(up /\ flag[conn]))]
    BY <1>6 DEF EndRead, At
  <2>2. op'.kind = op.kind
    BY <1>1, <2>1 DEF Fields
  <2> QED
    BY <1>1, <2>1, <2>2 DEF ReadKinds
<1>7. CASE BeginWrite
  BY <1>7, BeginWriteCall
<1>8. CASE WriteFins
  <2>1. op.kind = "write" /\ \E failed, broke, cell, done : EndWrite(failed, broke, cell, done)
    BY <1>8 DEF WriteFins, FinsAsk
  <2> QED
    BY <1>1, <2>1, EndWriteFields
<1>9. CASE AskType
  <2>1. op.at = "type" /\ \/ op' = [op EXCEPT !.at = "write"]
                          \/ \E broke : op' = [op EXCEPT !.at = "done", !.failed = TRUE, !.broke = broke]
    BY <1>9 DEF AskType, EipAsk, At
  <2>2. op'.kind = op.kind
    BY <1>1, <2>1 DEF Fields
  <2> QED
    BY <1>1, <2>1, <2>2
<1>10. CASE WriteTag
  <2>1. op.at = "write" /\ \E failed, broke, cell, done : EndWrite(failed, broke, cell, done)
    BY <1>10 DEF WriteTag, EipAsk, At
  <2> QED
    BY <1>1, <2>1, EndWriteFields
<1>11. CASE Ping
  BY <1>11 DEF Ping, EipAsk
<1>12. CASE Return
  BY <1>12, IdleFields DEF Return
<1>13. CASE Close \/ SetDisconnected \/ Reconnect \/ ReconnectFails \/ Panic
  BY <1>13 DEF Close, SetDisconnected, Reconnect, ReconnectFails, Panic
<1>14. CASE \E k \in Links : Break(k)
  BY <1>14 DEF Break
<1> QED
  BY <1>2, <1>3, <1>4, <1>5, <1>6, <1>7, <1>8, <1>9, <1>10, <1>11, <1>12, <1>13, <1>14 DEF Next

LEMMA NextListed == FullInv /\ ListInv /\ Next /\ browse' = (IF op'.kind = "browse" THEN browse ELSE Nothing)
                      => ListInv'
<1> SUFFICES ASSUME FullInv, ListInv, Next, op'.kind = "browse", browse' = browse
             PROVE  ListInv'
  BY DEF ListInv
<1>1. op' = op
  BY OtherCalls
<1> QED
  BY <1>1 DEF ListInv, Stage, Paging55, Turning, Paging5F, Typing, Trying, Whole, TagsRight, Has, Reached,
      Complete, Named5F, Tried, Trail

\* A listing that begins has the first page before it.
LEMMA BeginBrowseListed == FullInv /\ BeginBrowse => ListInv'
<1> SUFFICES ASSUME FullInv, BeginBrowse
             PROVE  ListInv'
  OBVIOUS
<1>1. op'.at = "browse"
  <2>1. op' = [Idle EXCEPT !.at = "browse", !.kind = "browse"]
    BY DEF BeginBrowse
  <2> QED
    BY <2>1, IdleFields DEF Fields
<1>2. PICK p \in Plcs : browse' = [Nothing EXCEPT !.way = "list55", !.part = "list55", !.plc = p]
  BY DEF BeginBrowse
<1> DEFINE b == [Nothing EXCEPT !.way = "list55", !.part = "list55", !.plc = p]
<1>3. /\ DOMAIN b = BrowseFields /\ b.plc = p /\ b.way = "list55" /\ b.part = "list55" /\ b.list = 1
      /\ b.next = 0 /\ b.page = 0 /\ b.names = <<>> /\ b.types = <<>> /\ b.tags = <<>> /\ b.short = FALSE
  BY DEF Nothing, BrowseFields
<1> HIDE DEF b
<1>4. \A i \in Readables(p) : i \in Nat \ {0}
  BY UserTags
<1>5. Turning(b, Readables(p))
  <2>1. Cardinality(Before(Readables(p), 0)) \in Nat
    BY ReadablesAre, SomeOf
  <2>2. MaxPages \in Nat \ {0}
    BY BrowseAssumption
  <2> QED
    BY <1>3, <2>1, <2>2 DEF Turning
<1>6. TagsRight(b, FALSE)
  BY <1>3 DEF TagsRight
<1>7. Before(Readables(p), 0) = {}
  BY <1>4 DEF Before
<1>8. Paging55(b, FALSE)
  <2>1. Turning(b, Readables(b.plc)) /\ Before(Readables(b.plc), b.next) = {} /\ DOMAIN b.tags = {}
    BY <1>3, <1>5, <1>7
  <2> QED
    BY <1>3, <1>6, <2>1 DEF Paging55
<1>9. Stage(b, FALSE)
  BY <1>3, <1>8 DEF Stage
<1> QED
  BY <1>1, <1>2, <1>3, <1>9 DEF ListInv, b

\* What can answer a request, what a failed one costs, and where the listing goes from it.
Answers(truth, answers) == answers \cup {truth, Other("refused"), Other("down"), Other("odd")}

Costs(answer, truth) ==
  /\ browse.way # "list55" /\ browse.part # "count" /\ answer # truth
  /\ browse.part = "multi" => answer.kind = "data"

Goes(b, short) ==
  /\ browse' = [b EXCEPT !.short = short]
  /\ op' = IF b.part = "over" THEN [op EXCEPT !.at = "done"] ELSE op

LEMMA GoesListed ==
  ASSUME FullInv, op.at = "browse", NEW s \in BOOLEAN, NEW b, Stage(b, s), Goes(b, s)
  PROVE  ListInv'
<1> DEFINE c == [b EXCEPT !.short = s]
<1>1. DOMAIN op = Fields /\ op.kind = "browse"
  BY DEF FullInv, IInv, LinkInv, Shape, ReadInv, Placed
<1>2. Stage(c, s)
  BY StageNoted
<1>3. DOMAIN b = BrowseFields
  BY DEF Stage
<1>4. c.short = s /\ c.part = b.part
  BY <1>3 DEF BrowseFields
<1>5. browse' = c
  BY DEF Goes
<1> HIDE DEF c
<1>6. op'.at = IF b.part = "over" THEN "done" ELSE "browse"
  BY <1>1 DEF Goes, Fields
<1> QED
  BY <1>2, <1>4, <1>5, <1>6 DEF ListInv

LEMMA OtherKinds == /\ Other("refused").kind = "refused" /\ Other("down").kind = "down"
                    /\ Other("odd").kind = "odd" /\ \A data : Data(data).kind = "data" /\ Data(data).data = data
  BY DEF Other, Data

\* What holds of a listing before an answer holds with what the answer costs.
LEMMA Asked ==
  ASSUME ListInv, FullInv, op.at = "browse", NEW answer, NEW truth
  PROVE  LET s == browse.short \/ Costs(answer, truth)
         IN  s \in BOOLEAN /\ Stage(browse, s) /\ browse.plc \in Plcs
<1> DEFINE s == browse.short \/ Costs(answer, truth)
<1>1. op.kind = "browse"
  BY DEF FullInv, ReadInv, Placed
<1>2. browse.short \in BOOLEAN /\ Stage(browse, browse.short) /\ browse.plc \in Plcs
  BY <1>1 DEF ListInv, Stage
<1>3. s \in BOOLEAN /\ (browse.short => s)
  BY <1>2
<1> HIDE DEF s
<1>4. Stage(browse, s)
  BY <1>2, <1>3, StageWeakens
<1> QED
  BY <1>2, <1>3, <1>4 DEF s

LEMMA AskPage55Listed == FullInv /\ ListInv /\ AskPage55 => ListInv'
<1> SUFFICES ASSUME FullInv, ListInv, AskPage55
             PROVE  ListInv'
  OBVIOUS
<1> DEFINE p == browse.plc
           page == Page(p, DOMAIN p.tags, browse.next)
           truth == Offers(p, "list55", page)
           s(answer) == browse.short \/ Costs(answer, truth)
<1>1. op.at = "browse" /\ browse.part = "list55"
  BY DEF AskPage55, At
<1>2. PICK answer \in Answers(truth, {}) : Goes(After55(answer), s(answer))
  BY DEF AskPage55, Send, EipAsk, Answers, Costs, Goes
<1> DEFINE t == s(answer)
<1>3. t \in BOOLEAN /\ Stage(browse, t)
  BY <1>1, Asked
<1>4. answer.kind = "data" => answer = page
  BY <1>2, OtherKinds DEF Answers, Offers
<1> HIDE DEF page, s, t
<1>5. Stage(After55(answer), t)
  BY <1>1, <1>3, <1>4, After55Stage DEF page
<1> QED
  BY <1>1, <1>2, <1>3, <1>5, GoesListed DEF t

LEMMA AskPage5FListed == FullInv /\ ListInv /\ AskPage5F => ListInv'
<1> SUFFICES ASSUME FullInv, ListInv, AskPage5F
             PROVE  ListInv'
  OBVIOUS
<1> DEFINE p == browse.plc
           page == Page(p, Listed(p, browse.list), browse.next)
           truth == Offers(p, "list5F", page)
           s(answer) == browse.short \/ Costs(answer, truth)
<1>1. op.at = "browse" /\ browse.part = "list5F"
  BY DEF AskPage5F, At
<1>2. PICK answer \in Answers(truth, {}) : Goes(After5F(answer), s(answer))
  BY DEF AskPage5F, Send, EipAsk, Answers, Costs, Goes
<1> DEFINE t == s(answer)
<1>3. t \in BOOLEAN /\ Stage(browse, t)
  BY <1>1, Asked
<1>4. page.kind = "data"
  BY DEF Page
<1>5. browse.way = "list5F"
  BY <1>1, <1>3 DEF Stage, Paging5F
<1>6. \/ answer.kind = "data" /\ "list5F" \in p.services /\ answer = page
      \/ answer.kind # "data" /\ (t \/ "list5F" \notin p.services)
  <2> HIDE DEF page
  <2>1. CASE "list5F" \in p.services
    <3>1. truth = page
      BY <2>1 DEF Offers
    <3>2. answer # page => answer.kind # "data" /\ t
      BY <1>1, <1>2, <1>5, <3>1, OtherKinds DEF Answers, Costs
    <3> QED
      BY <1>4, <2>1, <3>2
  <2>2. CASE "list5F" \notin p.services
    <3>1. truth = Other("refused")
      BY <2>2 DEF Offers
    <3> QED
      BY <1>2, <2>2, <3>1, OtherKinds DEF Answers
  <2> QED
    BY <2>1, <2>2
<1> HIDE DEF page, s, t
<1>7. Stage(After5F(answer), t)
  BY <1>1, <1>3, <1>6, After5FStage DEF page
<1> QED
  BY <1>1, <1>2, <1>3, <1>7, GoesListed DEF t

LEMMA AskTypesListed == FullInv /\ ListInv /\ AskTypes => ListInv'
<1> SUFFICES ASSUME FullInv, ListInv, AskTypes
             PROVE  ListInv'
  OBVIOUS
<1> DEFINE p == browse.plc
           types == IF "named" \in p.services THEN Batch ELSE [i \in DOMAIN Batch |-> 0]
           truth == Offers(p, "multi", Data(types))
           others == IF "multi" \in p.services THEN {Data([types EXCEPT ![i] = 0]) : i \in DOMAIN types} ELSE {}
           s(answer) == browse.short \/ Costs(answer, truth)
<1>1. op.at = "browse" /\ browse.part = "multi"
  BY DEF AskTypes, At
<1>2. \E answer \in Answers(truth, others) : Goes(AfterTypes(answer), s(answer))
  BY DEF AskTypes, Send, EipAsk, Answers, Costs, Goes, AfterTypes
<1>3. PICK answer \in Answers(truth, others) : Goes(AfterTypes(answer), s(answer))
  BY <1>2
<1> DEFINE t == s(answer)
<1>4. t \in BOOLEAN /\ Stage(browse, t)
  BY <1>1, Asked
<1>5. browse.way = "types"
  BY <1>1, <1>4 DEF Stage, Typing
<1>6. Batch \in [DOMAIN Batch -> Nat] /\ \A n \in DOMAIN Batch : Batch[n] \in Nat \ {0}
  <2> HIDE DEF t
  <2> QED
    BY <1>1, <1>4, BatchIs
<1>7. /\ types \in [DOMAIN Batch -> Nat]
      /\ \A n \in DOMAIN Batch : /\ types[n] \in {0, Batch[n]}
                                 /\ types[n] = 0 => "named" \notin p.services
  BY <1>6
<1> HIDE DEF types
<1>8. ASSUME answer.kind = "data"
      PROVE  /\ answer.data \in [DOMAIN Batch -> Nat]
             /\ \A n \in DOMAIN Batch : /\ answer.data[n] \in {0, Batch[n]}
                                        /\ answer.data[n] = 0 => t \/ "named" \notin p.services
  <2>1. CASE answer = truth
    <3>1. answer = Data(types)
      BY <1>8, <2>1, OtherKinds DEF Offers
    <3>2. answer.data = types
      BY <3>1, OtherKinds
    <3> QED
      BY <1>7, <3>2
  <2>2. CASE answer # truth
    <3>1. t
      BY <1>1, <1>5, <1>8, <2>2 DEF Costs
    <3>2. PICK i \in DOMAIN types : answer = Data([types EXCEPT ![i] = 0])
      BY <1>3, <1>8, <2>2, OtherKinds DEF Answers
    <3>3. answer.data = [types EXCEPT ![i] = 0]
      BY <3>2, OtherKinds
    <3> QED
      BY <1>7, <3>1, <3>3
  <2> QED
    BY <2>1, <2>2
<1> HIDE DEF s, t, truth, others
<1>9. Stage(AfterTypes(answer), t)
  BY <1>1, <1>4, <1>8, AfterTypesStage
<1> QED
  BY <1>1, <1>3, <1>4, <1>9, GoesListed DEF t

LEMMA AskType1Listed == FullInv /\ ListInv /\ AskType1 => ListInv'
<1> SUFFICES ASSUME FullInv, ListInv, AskType1
             PROVE  ListInv'
  OBVIOUS
<1> DEFINE p == browse.plc
           truth == Offers(p, "named", Data(<<>>))
           s(answer) == browse.short \/ Costs(answer, truth)
<1>1. op.at = "browse" /\ browse.part = "one"
  BY DEF AskType1, At
<1>2. PICK answer \in Answers(truth, {}) : Goes(AfterType1(answer), s(answer))
  BY DEF AskType1, Send, EipAsk, Answers, Costs, Goes, AfterType1
<1> DEFINE t == s(answer)
<1>3. t \in BOOLEAN /\ Stage(browse, t)
  BY <1>1, Asked
<1>4. browse.way = "types"
  BY <1>1, <1>3 DEF Stage, Typing
<1>5. answer.kind # "data" => t \/ "named" \notin p.services
  BY <1>1, <1>4, OtherKinds DEF Offers, Costs
<1> HIDE DEF s, t
<1>6. Stage(AfterType1(answer), t)
  BY <1>1, <1>3, <1>5, AfterType1Stage
<1> QED
  BY <1>1, <1>2, <1>3, <1>6, GoesListed DEF t

LEMMA AskCountListed == FullInv /\ ListInv /\ AskCount => ListInv'
<1> SUFFICES ASSUME FullInv, ListInv, AskCount
             PROVE  ListInv'
  OBVIOUS
<1> DEFINE p == browse.plc
           count == [kind |-> "data", data |-> p.count]
           truth == Offers(p, "count", count)
           s(answer) == browse.short \/ Costs(answer, truth)
<1>1. op.at = "browse" /\ browse.part = "count"
  BY DEF AskCount, At
<1>2. PICK answer \in Answers(truth, {}) : Goes(AfterCount(answer), s(answer))
  BY DEF AskCount, Send, EipAsk, Answers, Costs, Goes
<1> DEFINE t == s(answer)
<1>3. t \in BOOLEAN /\ Stage(browse, t) /\ p \in Plcs
  BY <1>1, Asked
<1>4. answer.kind = "data" => answer.data \in Nat
  <2>1. p.count \in Nat
    BY <1>3, PlcTags
  <2>2. answer.kind = "data" => answer = count
    BY <1>2, OtherKinds DEF Answers, Offers
  <2> QED
    BY <2>1, <2>2
<1> HIDE DEF s, t
<1>5. Stage(AfterCount(answer), t)
  BY <1>3, <1>4, AfterCountStage
<1> QED
  BY <1>1, <1>2, <1>3, <1>5, GoesListed DEF t

LEMMA AskInstanceListed == FullInv /\ ListInv /\ AskInstance => ListInv'
<1> SUFFICES ASSUME FullInv, ListInv, AskInstance
             PROVE  ListInv'
  OBVIOUS
<1> DEFINE p == browse.plc
           service == IF browse.part = "all" THEN "all" ELSE "single"
           there == IF browse.next \in DOMAIN p.tags THEN Data(<<>>) ELSE Other("refused")
           truth == Offers(p, service, there)
           s(answer) == browse.short \/ Costs(answer, truth)
<1>1. op.at = "browse" /\ browse.part \in {"all", "name", "type"}
  BY DEF AskInstance, At
<1>2. PICK answer \in Answers(truth, {}) : Goes(AfterInstance(answer), s(answer))
  BY DEF AskInstance, Send, EipAsk, Answers, Costs, Goes
<1> DEFINE t == s(answer)
<1>3. t \in BOOLEAN /\ Stage(browse, t)
  BY <1>1, Asked
<1>4. browse.way # "list55" /\ browse.part # "count" /\ browse.part # "multi"
  BY <1>1, <1>3 DEF Stage, Trying
<1>5. answer # truth => t
  BY <1>4 DEF Costs
<1>6. truth = Data(<<>>) \/ truth = Other("refused")
  BY DEF Offers
<1>7. truth.kind = "data" <=> service \in p.services /\ browse.next \in DOMAIN p.tags
  BY OtherKinds DEF Offers
<1>8. answer.kind = "data" => answer = truth
  BY <1>2, OtherKinds DEF Answers
<1>9. truth.kind # "down"
  BY <1>6, OtherKinds
<1> HIDE DEF truth, there, s, t
<1>10. InstanceAnswer(answer, t)
  BY <1>5, <1>7, <1>8, <1>9 DEF InstanceAnswer
<1>11. Stage(AfterInstance(answer), t)
  BY <1>1, <1>3, <1>10, AfterInstanceStage
<1> QED
  BY <1>1, <1>2, <1>3, <1>11, GoesListed DEF t

\* What a listing has, at each stage of it, of the tags that it can reach.
THEOREM ListInvariant == BrowseSpec => [](FullInv /\ ListInv)
<1>1. BrowseInit => FullInv /\ ListInv
  <2> SUFFICES ASSUME BrowseInit
               PROVE  FullInv /\ op.kind # "browse"
    BY DEF ListInv
  <2>1. Init /\ op = Idle
    BY DEF BrowseInit, Init
  <2> QED
    BY <2>1, InitReads, IdleFields
<1>2. FullInv /\ ListInv /\ [BrowseNext]_<<vars, browse>> => FullInv' /\ ListInv'
  <2> SUFFICES ASSUME FullInv, ListInv, [BrowseNext]_<<vars, browse>>
               PROVE  FullInv' /\ ListInv'
    OBVIOUS
  <2>1. FullInv'
    BY NextInv, BeginBrowseKeepsInv, BrowseKeepsInv, UnchangedKeepsInv, NextReads, BeginBrowseKeepsReads,
       BrowseKeepsReads, UnchangedKeepsReads DEF BrowseNext, FullInv
  <2>2. CASE BrowseNext
    BY <2>1, <2>2, NextListed, BeginBrowseListed, AskPage55Listed, AskPage5FListed, AskTypesListed,
       AskType1Listed, AskCountListed, AskInstanceListed DEF BrowseNext
  <2>3. CASE UNCHANGED <<vars, browse>>
    <3>1. op' = op /\ browse' = browse
      BY <2>3 DEF vars
    <3> QED
      BY <2>1, <3>1 DEF ListInv
  <2> QED
    BY <2>1, <2>2, <2>3
<1> QED
  BY <1>1, <1>2, PTL DEF BrowseSpec

LEMMA TagsOfListing == ListInv => TagsFound
<1> SUFFICES ASSUME ListInv, op.at = "done", op.kind = "browse"
             PROVE  LET p == browse.plc
                        ids == [n \in DOMAIN browse.tags |-> browse.tags[n].id]
                    IN  /\ IsInjective(ids)
                        /\ \A n \in DOMAIN ids :
                             /\ Readable(p, ids[n])
                             /\ browse.tags[n].type \in {0, ids[n]}
                             /\ System(p, ids[n]) => browse.way = "list55"
                             /\ browse.tags[n].type = 0 => browse.short \/ "named" \notin p.services
                        /\ ~browse.short /\ Reached(browse) =>
                             \A i \in DOMAIN p.tags : p.tags[i].kind = "user" => i \in ToSet(ids)
  BY DEF TagsFound
<1> DEFINE p == browse.plc
           ids == [n \in DOMAIN browse.tags |-> browse.tags[n].id]
<1>1. Whole(browse, browse.short)
  BY DEF ListInv, Stage
<1>2. /\ \A m, n \in DOMAIN browse.tags : browse.tags[m].id = browse.tags[n].id => m = n
      /\ \A n \in DOMAIN browse.tags :
           LET tag == browse.tags[n]
           IN  /\ tag.id \in Readables(p) /\ tag.type \in {0, tag.id}
               /\ System(p, tag.id) => browse.way = "list55"
               /\ tag.type = 0 => browse.short \/ "named" \notin p.services
      /\ ~browse.short /\ Reached(browse) => \A i \in Users(p) : Has(browse, i)
  BY <1>1 DEF Whole, TagsRight
<1>3. DOMAIN ids = DOMAIN browse.tags /\ \A n \in DOMAIN browse.tags : ids[n] = browse.tags[n].id
  OBVIOUS
<1> HIDE DEF ids
<1>4. IsInjective(ids)
  BY <1>2, <1>3 DEF IsInjective
<1>5. \A i \in Users(p) : Has(browse, i) => i \in ToSet(ids)
  BY <1>3 DEF Has, ToSet
<1>6. \A n \in DOMAIN ids :
        /\ Readable(p, ids[n]) /\ browse.tags[n].type \in {0, ids[n]}
        /\ System(p, ids[n]) => browse.way = "list55"
        /\ browse.tags[n].type = 0 => browse.short \/ "named" \notin p.services
  BY <1>2, <1>3 DEF Readables
<1>7. ~browse.short /\ Reached(browse) =>
        \A i \in DOMAIN p.tags : p.tags[i].kind = "user" => i \in ToSet(ids)
  BY <1>2, <1>5 DEF Users
<1> QED
  BY <1>4, <1>6, <1>7 DEF ids

\* A listing, however it had to be made, has no tag twice and no tag or type that is not the PLC's;
\* and if no exchange failed after service 0x55 had been given up, it has every user tag that the
\* pages, or the table's gaps, let it reach (omron/discovery.go, AllTags).
THEOREM TagsStayFound == BrowseSpec => []TagsFound
  BY ListInvariant, TagsOfListing, PTL

=============================================================================
