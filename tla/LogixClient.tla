------------------------------ MODULE LogixClient ------------------------------
(***************************************************************************)
(* The Logix client (logix/client.go, plc.go, connected.go, tag.go,        *)
(* template.go) on the session of the EtherNet/IP client (eip/client.go):  *)
(* batched, chunked, fragmented and member-wise reads, writes that look a  *)
(* type up, the template caches, the paged listing of tags, and the CIP    *)
(* connection beside the TCP connection.                                   *)
(*                                                                         *)
(* Neither logix.Client nor the driver's adapter has a lock: one call at a *)
(* time is modelled, one exchange (under EipClient.mu) per step. The PLC   *)
(* is external; a byte it returns is known by the tag and the offset it    *)
(* was read from. It cuts a reply that does not fit at an element.         *)
(***************************************************************************)
EXTENDS Integers, Sequences, FiniteSets, SequencesExt

CONSTANTS
  Tags,        \* the tags of the controller: name -> type, array or not, number of elements
  Templates,   \* the structures: template -> size, members (name, type, offset, hidden)
  Symbols,     \* the symbol table: scope -> entries (instance, name, kind) by instance
  Reads,       \* the lists of names Read is called with
  Writes,      \* the arguments Write is called with
  TagInfos,    \* the lists SetTags is called with
  BatchLarge,  \* tags in a Multiple Service Packet while IsConnected, 50 in the code
  BatchSmall,  \* the same while it is not, 5 in the code
  MaxPages,    \* pages of a listing, 1000 in the code
  MaxDepth,    \* nesting that expandMemberPaths follows, 10 in the code
  MaxReplies,  \* a bound: replies put together for one tag, without limit in the code
  CallOn,      \* a bound: whether calls begin after something strayed; Close and Connect always do
  None

ASSUME BatchAssumption == {BatchLarge, BatchSmall, MaxPages, MaxDepth, MaxReplies} \subseteq Nat \ {0} /\ CallOn \in BOOLEAN

VARIABLES
  made,       \* a client exists
  micro800,   \* c.micro800
  conn,       \* the EIP client has a socket and a session
  cip,        \* p.cipConn: "none", or set and to the PLC "live" or "stale"
  connSize,   \* p.connSize
  wire,       \* what lies unread on the socket
  info,       \* c.tagInfo: name -> type, array or not, elements (0: no dimensions)
  sizes,      \* c.templateSizes
  templates,  \* c.templates: template -> how many of its members have a name
  failed,     \* c.failedTemplates
  op,         \* the call that runs
  strayed,    \* history: something arrived that no request waited for
  panicked    \* the process ended in a nil dereference

vars == <<made, micro800, conn, cip, connSize, wire, info, sizes, templates, failed, op, strayed,
          panicked>>

network == <<conn, wire, strayed>>
session == <<made, micro800, cip, connSize, panicked>>
caches == <<info, sizes, templates, failed>>

-----------------------------------------------------------------------------
(* Tags and the PLC's answers *)

TypeSize(t) ==
  CASE t \in {"BOOL", "SINT", "USINT", "BYTE"} -> 1
    [] t \in {"INT", "UINT", "WORD"} -> 2
    [] t \in {"DINT", "UDINT", "REAL", "DWORD"} -> 4
    [] t \in {"LINT", "ULINT", "LREAL", "LWORD"} -> 8
    [] OTHER -> 0

IsStructure(t) == t \in DOMAIN Templates
SizeOf(t) == IF IsStructure(t) THEN Templates[t].size ELSE IF t = "STRING" THEN 88 ELSE TypeSize(t)

\* A name as a request spells it: a tag, an element of it, and members.
Name(tag) == [tag |-> tag, elem |-> None, path |-> <<>>]
Element(name, i) == [name EXCEPT !.elem = i]
Dot(name, member) == [name EXCEPT !.path = Append(@, member)]

\* What a name stands for in the PLC: where it begins, its type, and how many elements follow.
Nothing == [ok |-> FALSE, type |-> None, off |-> 0, left |-> 0]
Place(name) ==
  LET t == Tags[name.tag]
      start == IF name.elem = None THEN [ok |-> TRUE, type |-> t.type, off |-> 0, left |-> t.count]
               ELSE IF ~t.array \/ name.elem >= t.count THEN Nothing
               ELSE [ok |-> TRUE, type |-> t.type, off |-> name.elem * SizeOf(t.type),
                     left |-> t.count - name.elem]
      Member(at, m) ==
        IF ~at.ok \/ ~IsStructure(at.type) THEN Nothing
        ELSE LET found == SelectSeq(Templates[at.type].members, LAMBDA e : e.name = m)
             IN  IF found = <<>> THEN Nothing
                 ELSE [ok |-> TRUE, type |-> found[1].type, off |-> at.off + found[1].off, left |-> 1]
  IN  IF name.tag \notin DOMAIN Tags THEN Nothing ELSE FoldLeft(Member, start, name.path)

Stretch(tag, off, len) == [tag |-> tag, off |-> off, len |-> len]
\* The two bytes ahead of the data of a structure.
Handle == Stretch("handle", 0, 2)
Bytes(data) == FoldLeft(LAMBDA sum, s : sum + s.len, 0, data)

\* A reply or the want of one: complete ("full"), cut short with status 6 ("partial"), refused at
\* any layer ("error"), with a foreign session handle ("header", its body unread behind it), or an
\* error of the transport.
Reply(service, status, data) == [service |-> service, status |-> status, data |-> data]
Refusal == Reply("none", "error", <<>>)
Lost(why) == Reply("none", why, <<>>)

\* The data a reply has room for.
Room == IF cip = "none" THEN 490 ELSE connSize - 14

\* Read Tag and Read Tag Fragmented: count elements, from a byte on.
ReadAnswer(service, name, count, from) ==
  LET p == Place(name)
      lead == IF IsStructure(p.type) THEN <<Handle>> ELSE <<>>
      size == SizeOf(p.type)
      rest == count * size - from
      fits == Room - Bytes(lead)
      unit == IF count > 1 /\ size <= fits THEN size ELSE 1
      n == IF rest <= fits THEN rest ELSE (fits \div unit) * unit
  IN  IF ~p.ok \/ count > p.left \/ rest <= 0 THEN Refusal
      ELSE Reply(service, IF n = rest THEN "full" ELSE "partial",
                 Append(lead, Stretch(name.tag, p.off + from, n)))

\* Beside the answer: a refusal, a reply with a foreign session handle, or the answer twice.
Arrivals(answer) ==
  {<<answer>>, <<Refusal>>}
    \cup (IF strayed THEN {} ELSE {<<Lost("header"), Lost("body")>>, <<answer, answer>>})

-----------------------------------------------------------------------------
(* Exchanges *)

\* transactEncap under EipClient.mu fails without a socket.
Unsent == ~conn /\ UNCHANGED network

\* recvEncap: the oldest unread frame is taken for the reply, whatever it answers; a header that
\* is refused leaves its body to be read as the next header.
Received(arrival) ==
  /\ conn
  /\ wire' = Tail(wire \o arrival)
  /\ strayed' = (strayed \/ Len(arrival) > 1)
  /\ UNCHANGED conn

\* A failing socket or a deadline closes the socket.
Dropped ==
  /\ conn
  /\ conn' = FALSE
  /\ wire' = <<>>
  /\ UNCHANGED strayed

\* A request and its reply. A CIP connection the PLC has dropped gets no answer but an error.
\* Got(reply, done): the PLC has seen the request.
Ask(answer, Got(_, _)) ==
  \/ Unsent /\ Got(Lost("down"), FALSE)
  \/ \E arrival \in Arrivals(IF cip = "stale" THEN Refusal ELSE answer) :
       Received(arrival) /\ Got(Head(wire \o arrival), cip # "stale" /\ arrival # <<Refusal>>)
  \/ \E why \in {"timeout", "eof"}, done \in BOOLEAN : Dropped /\ Got(Lost(why), done)

Good(reply, service) == reply.service = service /\ reply.status \in {"full", "partial"}

\* PLC.IsConnected: a CIP connection is enough, whatever has become of the socket.
IsConnected == cip # "none" \/ conn

-----------------------------------------------------------------------------
(* The call that runs *)

NoTag == [name |-> None, count |-> 0, struct |-> FALSE, expected |-> 0, data |-> <<>>,
          short |-> FALSE, elem |-> 0, got |-> 0, frag |-> None]
Idle == [at |-> "idle", kind |-> "none", ok |-> TRUE, jobs |-> <<>>, results |-> <<>>, tag |-> NoTag,
         todo |-> <<>>, paths |-> <<>>, put |-> None, list |-> None]

At(place) == op.at = place /\ ~panicked
Ready == At("idle") /\ made /\ (strayed => CallOn)
Call(kind) == [Idle EXCEPT !.kind = kind]
End(o, ok) == [o EXCEPT !.at = "return", !.ok = ok, !.tag = NoTag, !.todo = <<>>]

TagJob(name, count, struct) == [kind |-> "tag", name |-> name, count |-> count, struct |-> struct]
BatchJob(names, members) == [kind |-> "batch", names |-> names, members |-> members, size |-> 0]

\* Where a Read goes on: with its next job, or to its end.
Start(o) ==
  LET job == Head(o.jobs)
      size == IF info[job.name.tag].type \in DOMAIN sizes THEN sizes[info[job.name.tag].type] ELSE 0
      tag == [NoTag EXCEPT !.name = job.name, !.count = job.count, !.struct = job.struct,
                           !.expected = IF job.struct THEN size * job.count ELSE 0]
  IN  IF o.jobs = <<>> THEN End(o, TRUE)
      ELSE IF job.kind = "batch" THEN [o EXCEPT !.at = "batch"]
      ELSE [o EXCEPT !.tag = tag, !.at = IF job.struct /\ tag.expected = 0 THEN "size" ELSE "direct"]

Value(name, count, data, short) ==
  [name |-> name, ok |-> TRUE, count |-> count, data |-> data, short |-> short]
Failure(name) == [name |-> name, ok |-> FALSE, count |-> 0, data |-> <<>>, short |-> FALSE]

Finish(results) ==
  Start([op EXCEPT !.results = @ \o results, !.jobs = Tail(@), !.tag = NoTag, !.todo = <<>>, !.paths = <<>>])

\* getElementCount, isArrayTag and isStructTag, for names SetTags was given.
Known(name) == name.elem = None /\ name.path = <<>> /\ name.tag \in DOMAIN info
ElementCount(name) == IF Known(name) /\ info[name.tag].dims > 1 THEN info[name.tag].dims ELSE 1
IsStructTag(name) == Known(name) /\ IsStructure(info[name.tag].type)
Individual(name) == Known(name) /\ (info[name.tag].dims > 0 \/ IsStructTag(name))

\* Read: structures and arrays one by one, then the scalars in batches; readIndividual on a Micro800.
Jobs(names) ==
  LET alone == SelectSeq(names, Individual)
      scalars == SelectSeq(names, LAMBDA n : ~Individual(n))
  IN  IF micro800 THEN [i \in DOMAIN names |-> TagJob(names[i], ElementCount(names[i]), FALSE)]
      ELSE [i \in DOMAIN alone |-> TagJob(alone[i], ElementCount(alone[i]), IsStructTag(alone[i]))]
             \o (IF scalars = <<>> THEN <<>> ELSE <<BatchJob(scalars, FALSE)>>)

BeginRead ==
  /\ Ready
  /\ \E names \in Reads : op' = Start([Call("read") EXCEPT !.jobs = Jobs(names)])
  /\ UNCHANGED <<session, network, caches>>

\* ReadWithCount, which never falls back to fragments or members.
BeginReadWithCount ==
  /\ Ready
  /\ \E names \in Reads, count \in {1, 300} :
       op' = Start([Call("read") EXCEPT !.jobs = <<TagJob(names[1], count, FALSE)>>])
  /\ UNCHANGED <<session, network, caches>>

-----------------------------------------------------------------------------
(* Reading one tag *)

\* GetElementSize: the size of the structure, cached when the PLC gives it.
AskSize ==
  /\ At("size")
  /\ LET type == info[op.tag.name.tag].type
     IN  Ask(Reply("attributes", "full", <<>>),
             LAMBDA reply, done :
               IF Good(reply, "attributes")
               THEN /\ op' = [op EXCEPT !.at = "direct", !.tag.expected = SizeOf(type) * op.tag.count]
                    /\ sizes' = [t \in DOMAIN sizes \cup {type} |-> SizeOf(t)]
               ELSE op' = [op EXCEPT !.at = "direct"] /\ UNCHANGED sizes)
  /\ UNCHANGED <<session, info, templates, failed>>

Fragments(o, mode) == [o EXCEPT !.at = "fragment", !.tag.frag = [mode |-> mode, data |-> <<>>]]

\* Read has the bytes of a tag: less than a structure should have are read again in fragments.
Taken(o) ==
  LET t == o.tag
  IN  IF t.struct /\ Bytes(t.data) < t.expected THEN Fragments(o, "more")
      ELSE Finish(<<Value(t.name, t.count, t.data, t.short)>>)

\* The tag as it stands, after a request that failed.
Short(o) == Taken([o EXCEPT !.tag.short = TRUE])

\* The members of a structure, to a depth.
Unfold(name, type, depth) == <<[name |-> name, type |-> type, depth |-> depth]>>

\* The direct read failed: fragments when the size of the structure is known, or its members.
Untaken(o) ==
  LET t == o.tag
  IN  IF ~t.struct THEN Finish(<<Failure(t.name)>>)
      ELSE IF t.expected > 0 /\ t.frag = None THEN Fragments([o EXCEPT !.tag.short = TRUE], "instead")
      ELSE [o EXCEPT !.at = "expand", !.todo = Unfold(t.name, info[t.name.tag].type, MaxDepth)]

\* ReadTagCount: the whole tag in one reply, or its beginning.
ReadDirect ==
  /\ At("direct")
  /\ Ask(ReadAnswer("read", op.tag.name, op.tag.count, 0),
         LAMBDA reply, done :
           LET o == [op EXCEPT !.tag.data = reply.data]
           IN  op' = IF ~Good(reply, "read") THEN Untaken(op)
                     ELSE IF reply.status = "full" THEN Taken(o)
                     ELSE [o EXCEPT !.at = "single"])
  /\ UNCHANGED <<session, caches>>

\* What readTagChunked goes on with: the next chunk, or the tag as it stands.
Chunks(o) == IF o.tag.got < o.tag.count THEN [o EXCEPT !.at = "chunk"] ELSE Taken(o)

\* readTagChunked asks for one element, to learn its size.
ReadSingle ==
  /\ At("single")
  /\ Ask(ReadAnswer("read", Element(op.tag.name, 0), 1, 0),
         LAMBDA reply, done :
           LET elem == Bytes(reply.data)
           IN  op' = IF ~Good(reply, "read") \/ elem = 0 THEN Short(op)
                     ELSE Chunks([op EXCEPT !.tag.elem = elem, !.tag.got = Bytes(op.tag.data) \div elem]))
  /\ UNCHANGED <<session, caches>>

\* The elements of a chunk, by the size of the connection; never more than 100.
ChunkSize(elem, left) ==
  LET payload == IF connSize > 0 THEN connSize - 100 ELSE 480
      most == IF payload \div elem < 1 THEN 1 ELSE IF payload \div elem > 100 THEN 100 ELSE payload \div elem
  IN  IF most > left THEN left ELSE most

\* Seeded fault: the chunks follow one another as if each were complete.
ChunkStartByChunks(t) == (t.got \div 100) * 100

ChunkStart(t) == t.got

\* readTagChunked: the chunks are put end to end; after an error, or none of an element, the tag
\* is returned as it stands. Nothing ends it while complete replies bring less than an element.
ReadChunk ==
  /\ At("chunk") /\ Len(op.tag.data) < MaxReplies
  /\ LET t == op.tag
     IN  Ask(ReadAnswer("read", Element(t.name, ChunkStart(t)), ChunkSize(t.elem, t.count - t.got), 0),
             LAMBDA reply, done :
               LET elems == Bytes(reply.data) \div t.elem
                   o == [op EXCEPT !.tag.data = @ \o reply.data, !.tag.got = @ + elems]
               IN  op' = IF ~Good(reply, "read") THEN Short(op)
                         ELSE IF reply.status = "partial" /\ elems = 0 THEN Short(o)
                         ELSE Chunks(o))
  /\ UNCHANGED <<session, caches>>

\* ReadTagFragmented has ended, with data or with an error: Read takes the data in place of the
\* direct read that failed, or if there is more of it.
AfterFragments(o, ok) ==
  LET t == o.tag
      taken == [o EXCEPT !.tag.data = t.frag.data, !.tag.frag = None]
  IN  CASE t.frag.mode = "instead" -> IF ok THEN Taken(taken) ELSE Untaken(o)
        [] ok /\ Bytes(t.frag.data) > Bytes(t.data) ->
             Finish(<<Value(t.name, t.count, t.frag.data, t.short)>>)
        [] OTHER -> Finish(<<Value(t.name, t.count, t.data, t.short)>>)

\* ReadTagFragmented: one element of the tag from the offset of the bytes received so far.
ReadFragment ==
  /\ At("fragment")
  /\ LET f == op.tag.frag
     IN  Ask(ReadAnswer("fragment", op.tag.name, 1, Bytes(f.data)),
             LAMBDA reply, done :
               LET o == [op EXCEPT !.tag.frag.data = @ \o reply.data]
               IN  op' = IF ~Good(reply, "fragment")
                         THEN AfterFragments([op EXCEPT !.tag.short = TRUE], f.data # <<>>)
                         ELSE IF reply.status = "full" \/ Bytes(o.tag.frag.data) >= o.tag.expected
                         THEN AfterFragments(o, TRUE)
                         ELSE o)
  /\ UNCHANGED <<session, caches>>

-----------------------------------------------------------------------------
(* Batches *)

\* ReadMultiple: a reply for each name in its place; one of the tags may be refused.
BatchAnswers(names) ==
  LET whole == [i \in DOMAIN names |-> ReadAnswer("read", names[i], 1, 0)]
  IN  {Reply("batch", "full", whole), Reply("batch", "full", [whole EXCEPT ![1] = Refusal])}

\* Status 6 is taken like success.
BatchResults(names, replies) ==
  [i \in DOMAIN names |->
     IF replies[i].status = "error" THEN Failure(names[i])
     ELSE Value(names[i], 1, replies[i].data, replies[i].status = "partial")]

\* Read and readStructMembers settle the size of their batches once, ahead of the first of them.
BatchSize(job) ==
  IF job.size > 0 THEN job.size ELSE IF IsConnected THEN BatchLarge ELSE BatchSmall

\* One Multiple Service Packet with the next names of the job. When it fails all of them do;
\* members of a structure are then read one by one.
ReadBatch ==
  /\ At("batch")
  /\ LET job == Head(op.jobs)
         size == BatchSize(job)
         names == SubSeq(job.names, 1, IF Len(job.names) < size THEN Len(job.names) ELSE size)
         left == SubSeq(job.names, Len(names) + 1, Len(job.names))
         Next1(jobs, results) ==
           Start([op EXCEPT !.results = @ \o results,
                            !.jobs = jobs \o (IF left = <<>> THEN <<>> ELSE <<[job EXCEPT !.names = left, !.size = size]>>)
                                          \o Tail(@)])
     IN  \E answer \in BatchAnswers(names) :
           Ask(answer,
               LAMBDA reply, done :
                 op' = IF Good(reply, "batch") /\ Len(reply.data) = Len(names)
                       THEN Next1(<<>>, BatchResults(names, reply.data))
                       ELSE IF job.members
                       THEN Next1([i \in DOMAIN names |-> TagJob(names[i], 1, FALSE)], <<>>)
                       ELSE Next1(<<>>, [i \in DOMAIN names |-> Failure(names[i])]))
  /\ UNCHANGED <<session, caches>>

-----------------------------------------------------------------------------
(* Templates and members *)

\* The members a cached template shows: those with a name that are not hidden.
Visible(type) ==
  SelectSeq(SubSeq(Templates[type].members, 1, templates[type]), LAMBDA m : ~m.hidden)

\* The member types are known: read them in batches, or return the list of their names.
Expanded(o) ==
  LET jobs == (IF o.paths = <<>> THEN <<>> ELSE <<BatchJob(o.paths, TRUE)>>) \o Tail(o.jobs)
  IN  IF o.kind # "read" THEN End(o, TRUE)
      ELSE IF o.paths = <<>> THEN Finish(<<Failure(o.tag.name)>>)
      ELSE Start([o EXCEPT !.jobs = jobs, !.tag = NoTag, !.paths = <<>>])

Then(o, todo) == IF todo = <<>> THEN Expanded([o EXCEPT !.todo = todo])
                 ELSE [o EXCEPT !.at = "expand", !.todo = todo]

Inferred(value) ==
  CASE value.kind = "bool" -> "BOOL" [] value.kind = "int" -> "DINT"
    [] value.kind = "float" -> IF value.many THEN "REAL" ELSE "LREAL"
    [] value.kind = "string" -> "STRING" [] OTHER -> None

\* convertToType: numbers convert into one another, at whatever loss, but no fraction to a BOOL; an
\* integer becomes a STRING in digits. The type of a structure has no conversion.
Accepts(type, kind) ==
  CASE type = "BOOL" -> kind \in {"bool", "int"}
    [] type = "STRING" -> kind \in {"bool", "int", "string"}
    [] type = "SHORT_STRING" -> kind = "string"
    [] OTHER -> TypeSize(type) > 0 /\ kind \in {"bool", "int", "float"}

\* writeArrayTyped: a slice of bytes is an array that it does not take; of a slice of bool it takes
\* every element, whatever becomes of its conversion.
Converts(value, type, array) ==
  IF array \/ value.many
  THEN /\ value.many /\ value.n > 0 /\ value.kind # "bytes"
       /\ Accepts(type, value.kind) \/ value.kind = "bool"
  ELSE Accepts(type, value.kind)

\* The bytes an element becomes: the strings of an array fill their place, one alone ends where it
\* ends (value.len: the characters of a string, or of a number in digits; at most 82).
Width(value, type) ==
  CASE ~Accepts(type, value.kind) -> 0
    [] type = "STRING" -> IF value.many /\ value.kind = "string" THEN 88 ELSE 4 + value.len
    [] type = "SHORT_STRING" -> 1 + value.len
    [] OTHER -> TypeSize(type)

\* Write knows the type of the tag, or takes it from the value.
Put(o, type, array) ==
  LET v == o.put.value
      t == IF type = None THEN Inferred(v) ELSE type
  IN  IF Converts(v, t, array)
      THEN [o EXCEPT !.at = "write", !.todo = <<>>,
                     !.put.type = t, !.put.bytes = (IF v.many THEN v.n ELSE 1) * Width(v, t)]
      ELSE End(o, FALSE)

\* The template of the first structure to do cannot be had: a nested structure is left out, a tag
\* fails; a write goes by its value.
NoTemplate(o) ==
  CASE o.kind = "write" -> Put(o, None, FALSE)
    [] Head(o.todo).name.path # <<>> \/ o.kind = "fetch" -> Then(o, Tail(o.todo))
    [] o.kind = "members" -> End(o, FALSE)
    [] OTHER -> Finish(<<Failure(o.tag.name)>>)

\* expandMemberPaths: the visible members of a structure take its place, down to the depth.
Members(o) ==
  LET item == Head(o.todo)
      shown == IF item.depth = 0 THEN <<>> ELSE Visible(item.type)
  IN  Then(o, [i \in DOMAIN shown |-> [name |-> Dot(item.name, shown[i].name),
                                       type |-> shown[i].type, depth |-> item.depth - 1]] \o Tail(o.todo))

\* findMemberType: the member the name goes on with.
MemberType(o) ==
  LET item == Head(o.todo)
      name == o.put.name
      found == SelectSeq(Visible(item.type), LAMBDA m : m.name = name.path[Len(item.name.path) + 1])
      next == [name |-> Dot(item.name, found[1].name), type |-> found[1].type, depth |-> item.depth]
  IN  IF found = <<>> THEN Put(o, None, FALSE)
      ELSE IF next.name.path = name.path THEN Put(o, next.type, FALSE)
      ELSE IF IsStructure(next.type) THEN [o EXCEPT !.todo = <<next>>]
      ELSE Put(o, None, FALSE)

\* What can be said without asking the PLC: atomic members, and structures in one of the caches.
Expand ==
  /\ At("expand")
  /\ LET item == Head(op.todo)
     IN  \/ /\ ~IsStructure(item.type)
            /\ op' = Then([op EXCEPT !.paths = Append(@, item.name)], Tail(op.todo))
         \/ /\ item.type \in DOMAIN templates
            /\ op' = IF op.kind = "write" THEN MemberType(op) ELSE Members(op)
         \/ /\ item.type \in failed
            /\ op' = NoTemplate(op)
  /\ UNCHANGED <<session, network, caches>>

\* GetTemplate failed: a permanent failure unless its text names a transient one ("timeout" stands
\* for those; the end of the stream is none).
Remember(type, reply) ==
  failed' = IF reply.status = "timeout" THEN failed ELSE failed \cup {type}

\* GetTemplate asks for the attributes of a template in neither cache.
AskTemplate ==
  /\ At("expand")
  /\ LET type == Head(op.todo).type
     IN  /\ IsStructure(type) /\ type \notin DOMAIN templates \cup failed
         /\ Ask(Reply("attributes", "full", <<>>),
                LAMBDA reply, done :
                  IF Good(reply, "attributes") THEN op' = [op EXCEPT !.at = "definition"] /\ UNCHANGED failed
                  ELSE op' = NoTemplate(op) /\ Remember(type, reply))
  /\ UNCHANGED <<session, info, sizes, templates>>

Parsed(type, k) ==
  /\ templates' = [t \in DOMAIN templates \cup {type} |-> IF t = type THEN k ELSE templates[t]]
  /\ op' = [op EXCEPT !.at = "expand"]
  /\ UNCHANGED failed

\* readTemplateData and parseDefinition. An error after a first part ends the definition there:
\* the members whose names are missing are not shown, and the template is cached as it is. Less
\* than the entry of one member is a failure, and a permanent one whatever it was that ended it.
AskDefinition ==
  /\ op.at \in {"definition", "rest"} /\ ~panicked
  /\ LET type == Head(op.todo).type
         all == Len(Templates[type].members)
     IN  \E status \in {"full", "partial"} :
           Ask(Reply("read", status, <<>>),
               LAMBDA reply, done :
                 \/ /\ Good(reply, "read") /\ reply.status = "partial"
                    /\ op' = [op EXCEPT !.at = "rest"]
                    /\ UNCHANGED <<templates, failed>>
                 \/ /\ Good(reply, "read") /\ reply.status = "full"
                    /\ Parsed(type, all)
                 \/ /\ op.at = "rest" /\ reply.service = "none"
                    /\ \/ \E k \in 0..(all - 1) : Parsed(type, k)
                       \/ /\ op' = NoTemplate(op) /\ failed' = failed \cup {type}
                          /\ UNCHANGED templates
                 \/ /\ ~Good(reply, "read") /\ ~(op.at = "rest" /\ reply.service = "none")
                    /\ op' = NoTemplate(op)
                    /\ Remember(type, reply)
                    /\ UNCHANGED templates)
  /\ UNCHANGED <<session, info, sizes>>

\* GetAllStructMembers: the names of the atomic members of a structure.
BeginMembers ==
  /\ Ready
  /\ \E name \in DOMAIN info :
       /\ IsStructure(info[name].type)
       /\ op' = [Call("members") EXCEPT !.at = "expand", !.todo = Unfold(Name(name), info[name].type, MaxDepth)]
  /\ UNCHANGED <<session, network, caches>>

\* FetchTemplatesForTags: the templates of all structures among the tags, in no order.
BeginFetch ==
  /\ Ready
  /\ \E order \in SetToSeqs({name \in DOMAIN info : IsStructure(info[name].type)}) :
       op' = Then(Call("fetch"), FlattenSeq([i \in DOMAIN order |->
                                               Unfold(Name(order[i]), info[order[i]].type, 0)]))
  /\ UNCHANGED <<session, network, caches>>

ClearTemplateCache ==
  /\ Ready
  /\ sizes' = <<>> /\ templates' = <<>> /\ failed' = {}
  /\ UNCHANGED <<session, network, info, op>>

-----------------------------------------------------------------------------
(* Writes *)

\* Write: the type of a member from its template, that of a tag from SetTags, or the value's.
BeginWrite ==
  /\ Ready
  /\ \E w \in Writes :
       LET o == [Call("write") EXCEPT !.put = [name |-> w.name, value |-> w.value, type |-> None,
                                               bytes |-> 0, done |-> FALSE]]
           tag == w.name.tag
       IN  op' = IF w.name.path # <<>> /\ w.name.elem = None /\ IsStructTag(Name(tag))
                 THEN [o EXCEPT !.at = "expand", !.todo = Unfold(Name(tag), info[tag].type, MaxDepth)]
                 ELSE IF Known(w.name) THEN Put(o, info[tag].type, info[tag].array)
                 ELSE Put(o, None, FALSE)
  /\ UNCHANGED <<session, network, caches>>

\* The number of elements a write announces.
Announced(put) == IF put.value.many THEN put.value.n ELSE 1

\* The PLC writes elements of the tag's own type, as many bytes as they have.
WriteAnswer(put) ==
  LET p == Place(put.name)
  IN  IF p.ok /\ p.type = put.type /\ Announced(put) <= p.left
         /\ put.bytes = Announced(put) * SizeOf(p.type)
      THEN Reply("write", "full", <<>>) ELSE Refusal

\* WriteTagCount: parseWriteTagResponse.
Write ==
  /\ At("write")
  /\ LET answer == WriteAnswer(op.put)
     IN  Ask(answer, LAMBDA reply, done :
                       op' = End([op EXCEPT !.put.done = done /\ answer # Refusal],
                                 reply.service = "write" /\ reply.status = "full"))
  /\ UNCHANGED <<session, caches>>

-----------------------------------------------------------------------------
(* The listing of tags *)

\* listSymbols at the first page of a scope. "cut": it ended though the PLC had more.
Listing(o, scope, rest) ==
  [o EXCEPT !.at = "page", !.list.scope = scope, !.list.rest = rest,
            !.list.instance = 0, !.list.page = 0, !.list.found = <<>>, !.list.cut = FALSE]
NewList == [scope |-> None, rest |-> <<>>, instance |-> 0, page |-> 0, found |-> <<>>, cut |-> FALSE,
            all |-> <<>>, done |-> <<>>, sought |-> None]

Entry(scope, e) == [scope |-> scope, name |-> e.name, kind |-> e.kind]
Readable(entries) == SelectSeq(entries, LAMBDA e : e.kind = "tag")

\* AllTags; ControllerTags, ProgramTags and Programs, which list one scope; FindSymbolByName.
BeginList ==
  /\ Ready
  /\ \/ op' = Listing([Call("all") EXCEPT !.list = NewList], "controller", <<>>)
     \/ \E scope \in DOMAIN Symbols :
          op' = Listing([Call("scope") EXCEPT !.list = NewList], scope, <<>>)
     \/ \E scope \in DOMAIN Symbols :
          \E e \in {e \in ToSet(Symbols[scope]) : e.kind # "unnamed"} :
            op' = Listing([Call("find") EXCEPT !.list = [NewList EXCEPT !.sought = e.name]], scope, <<>>)
  /\ UNCHANGED <<session, network, caches>>

\* The scope is read to its end: ListAllTags goes on with the programs found in the controller's.
Listed(o) ==
  LET l == o.list
      more == IF o.kind = "all" /\ l.scope = "controller"
              THEN LET programs == SelectSeq(l.found, LAMBDA e : e.kind = "program")
                   IN  [i \in DOMAIN programs |-> programs[i].name]
              ELSE l.rest
      told == [o EXCEPT !.list.all = @ \o Readable(l.found),
                        !.list.done = Append(@, [scope |-> l.scope, cut |-> l.cut])]
  IN  IF more = <<>> THEN End(told, TRUE) ELSE Listing(told, Head(more), Tail(more))

\* The scope cannot be listed: a program is passed over.
Unlisted(o) ==
  IF o.list.scope = "controller" \/ o.kind # "all" THEN End(o, FALSE)
  ELSE IF o.list.rest = <<>> THEN End(o, TRUE)
  ELSE Listing(o, Head(o.list.rest), Tail(o.list.rest))

\* Get Instance Attribute List: the next entries of a scope, as many as the PLC likes; whether
\* more follow it need not know.
PageAnswers(scope, from) ==
  LET rest == SelectSeq(Symbols[scope], LAMBDA e : e.instance >= from)
  IN  {Reply("list", "partial", SubSeq(rest, 1, n)) : n \in {1, 2} \cap DOMAIN rest}
        \cup (IF Len(rest) < 3 THEN {Reply("list", "full", rest)} ELSE {})

MaxInstance == 65535

\* Seeded fault: the next page starts at the last entry of this one.
NextInstanceAgain(named) == named[Len(named)].instance

NextInstance(named) == named[Len(named)].instance + 1

\* buildSymbolPath: no path leads past the last instance of 16 bits.
NoPath ==
  /\ At("page") /\ op.list.instance > MaxInstance
  /\ op' = Unlisted(op)
  /\ UNCHANGED <<session, network, caches>>

\* listSymbolsPage: entries without a name are passed over; a page without any other, or the
\* last page allowed, ends the listing.
AskPage ==
  /\ At("page") /\ op.list.instance <= MaxInstance
  /\ LET l == op.list
     IN  \E answer \in PageAnswers(l.scope, l.instance) :
           Ask(answer,
               LAMBDA reply, done :
                 LET named == SelectSeq(reply.data, LAMBDA e : e.kind # "unnamed")
                     hits == SelectSeq(named, LAMBDA e : e.name = l.sought)
                     more == reply.status = "partial"
                     o == [op EXCEPT !.list.found = @ \o [i \in DOMAIN named |-> Entry(l.scope, named[i])],
                                     !.list.page = @ + 1]
                 IN  op' = IF ~Good(reply, "list") THEN Unlisted(op)
                           ELSE IF hits # <<>>
                           THEN End([op EXCEPT !.list.found = <<Entry(l.scope, hits[1])>>], TRUE)
                           ELSE IF ~more THEN Listed(o)
                           ELSE IF named = <<>> \/ o.list.page = MaxPages
                           THEN Listed([o EXCEPT !.list.cut = TRUE])
                           ELSE [o EXCEPT !.list.instance = NextInstance(named)])
  /\ UNCHANGED <<session, caches>>

\* SetTags forgets the tags of before; an array without dimensions is asked about.
BeginSetTags ==
  /\ Ready
  /\ \E tags \in TagInfos : op' = [Call("tags") EXCEPT !.at = "tags", !.todo = tags]
  /\ info' = <<>>
  /\ UNCHANGED <<session, network, sizes, templates, failed>>

Remembered(tag, dims) ==
  /\ info' = [n \in DOMAIN info \cup {tag.name} |->
                IF n = tag.name THEN [type |-> tag.type, array |-> tag.array, dims |-> dims] ELSE info[n]]
  /\ op' = IF Tail(op.todo) = <<>> THEN End(op, TRUE) ELSE [op EXCEPT !.at = "tags", !.todo = Tail(@)]

SetTag ==
  /\ At("tags")
  /\ LET tag == Head(op.todo)
     IN  IF tag.array /\ tag.dims = 0
         THEN op' = [op EXCEPT !.at = "bytes"] /\ UNCHANGED info
         ELSE Remembered(tag, tag.dims)
  /\ UNCHANGED <<session, network, sizes, templates, failed>>

\* What the reply is read as: no one looks at the service it answers.
Numbers(reply) == CASE reply.status # "full" -> {0}
                    [] reply.service = "attribute" -> {reply.data[1]}
                    [] OTHER -> {0, 2}

\* GetArrayDimensions: from the byte count when the size of the elements is known and it makes
\* more than one of them; otherwise the dimensions.
AskBytes ==
  /\ At("bytes")
  /\ LET tag == Head(op.todo)
         size == TypeSize(tag.type)
     IN  Ask(Reply("attribute", "full", <<Tags[tag.name].count * SizeOf(tag.type)>>),
             LAMBDA reply, done :
               \E n \in Numbers(reply) :
                 IF size > 0 /\ n \div size > 1 THEN Remembered(tag, n \div size)
                 ELSE op' = [op EXCEPT !.at = "dimensions"] /\ UNCHANGED info)
  /\ UNCHANGED <<session, sizes, templates, failed>>

AskDimensions ==
  /\ At("dimensions")
  /\ LET tag == Head(op.todo)
     IN  Ask(Reply("attribute", "full", <<Tags[tag.name].count>>),
             LAMBDA reply, done : \E n \in Numbers(reply) : Remembered(tag, n))
  /\ UNCHANGED <<session, sizes, templates, failed>>

-----------------------------------------------------------------------------
(* Sessions and connections *)

\* Connect: a new client with an empty memory, on a new socket with a session; the client of
\* before is left as it is. WithMicro800 and WithoutConnection skip the Forward Open.
Connect ==
  /\ At("idle")
  /\ \E m \in BOOLEAN, skip \in BOOLEAN :
       /\ m => skip
       /\ micro800' = m
       /\ op' = [Call("connect") EXCEPT !.at = IF skip THEN "return" ELSE "large"]
  /\ made' = TRUE /\ conn' = TRUE /\ wire' = <<>> /\ cip' = "none" /\ connSize' = 0
  /\ info' = <<>> /\ sizes' = <<>> /\ templates' = <<>> /\ failed' = {}
  /\ strayed' = FALSE
  /\ UNCHANGED panicked

\* PLC.Connect on a client that has one: the new socket takes the place of the old; a CIP
\* connection is kept, which the PLC has dropped with the old socket.
ConnectAgain ==
  /\ At("idle") /\ made
  /\ conn' = TRUE /\ wire' = <<>>
  /\ cip' = IF cip = "none" THEN "none" ELSE "stale"
  /\ op' = End(Call("again"), TRUE)
  /\ UNCHANGED <<made, micro800, connSize, panicked, strayed, caches>>

\* OpenConnection, on its own; Connect does without when it fails.
BeginOpen ==
  /\ Ready
  /\ op' = IF cip = "none" THEN [Call("open") EXCEPT !.at = "large"] ELSE End(Call("open"), FALSE)
  /\ UNCHANGED <<session, network, caches>>

\* Seeded fault: the negotiated size is not stored with the connection.
OpenedUnsized(size) == cip' = "live" /\ UNCHANGED connSize

Opened(size) == cip' = "live" /\ connSize' = size

\* tryForwardOpen: 4002 bytes, then 504.
ForwardOpen ==
  /\ op.at \in {"large", "small"} /\ ~panicked
  /\ Ask(Reply("open", "full", <<>>),
         LAMBDA reply, done :
           IF Good(reply, "open")
           THEN /\ Opened(IF op.at = "large" THEN 4002 ELSE 504)
                /\ op' = End(op, TRUE)
           ELSE /\ op' = IF op.at = "large" THEN [op EXCEPT !.at = "small"]
                         ELSE End(op, op.kind = "connect")
                /\ UNCHANGED <<cip, connSize>>)
  /\ UNCHANGED <<made, micro800, panicked, caches>>

\* Keepalive: a NOP on the CIP connection. What is looked at is not the status of the reply, so
\* that any reply will do.
BeginKeepalive ==
  /\ Ready
  /\ op' = IF cip = "none" THEN End(Call("keepalive"), TRUE) ELSE [Call("keepalive") EXCEPT !.at = "nop"]
  /\ UNCHANGED <<session, network, caches>>

Keepalive ==
  /\ At("nop")
  /\ Ask(Reply("nop", "full", <<>>),
         LAMBDA reply, done :
           \E ok \in IF reply = Refusal THEN BOOLEAN ELSE {reply.service # "none"} : op' = End(op, ok))
  /\ UNCHANGED <<session, caches>>

\* Close, and CloseConnection on its own.
BeginClose ==
  /\ At("idle") /\ made
  /\ \E kind \in {"close", "closeConnection"} :
       op' = [Call(kind) EXCEPT !.at = IF cip # "none" THEN "forwardClose"
                                       ELSE IF kind = "close" THEN "unregister" ELSE "return"]
  /\ UNCHANGED <<session, network, caches>>

\* Forward Close, whatever comes of it; the size of the connection is not forgotten.
ForwardClose ==
  /\ At("forwardClose")
  /\ Ask(Reply("close", "full", <<>>),
         LAMBDA reply, done :
           op' = IF op.kind = "close" THEN [op EXCEPT !.at = "unregister"] ELSE End(op, TRUE))
  /\ cip' = "none"
  /\ UNCHANGED <<made, micro800, connSize, panicked, caches>>

\* Disconnect: unRegisterSession sends and closes.
Disconnect ==
  /\ At("unregister")
  /\ conn' = FALSE /\ wire' = <<>>
  /\ op' = End(op, TRUE)
  /\ UNCHANGED <<session, strayed, caches>>

\* When the send fails sendEncap has dropped the socket that unRegisterSession then closes.
Panic ==
  /\ At("unregister") /\ conn
  /\ panicked' = TRUE /\ conn' = FALSE /\ wire' = <<>>
  /\ op' = Idle
  /\ UNCHANGED <<made, micro800, cip, connSize, strayed, caches>>

\* The PLC drops a CIP connection it has not heard from.
Expire ==
  /\ At("idle") /\ cip = "live"
  /\ cip' = "stale"
  /\ UNCHANGED <<made, micro800, connSize, panicked, op, network, caches>>

Return ==
  /\ At("return")
  /\ op' = Idle
  /\ UNCHANGED <<session, network, caches>>

Init ==
  /\ made = FALSE /\ micro800 = FALSE /\ conn = FALSE /\ cip = "none" /\ connSize = 0
  /\ wire = <<>> /\ info = <<>> /\ sizes = <<>> /\ templates = <<>> /\ failed = {}
  /\ op = Idle /\ strayed = FALSE /\ panicked = FALSE

Next ==
  \/ Connect \/ ConnectAgain \/ BeginOpen \/ ForwardOpen \/ BeginKeepalive \/ Keepalive
  \/ BeginClose \/ ForwardClose \/ Disconnect \/ Panic \/ Expire \/ Return
  \/ BeginRead \/ BeginReadWithCount \/ AskSize \/ ReadDirect \/ ReadSingle \/ ReadChunk \/ ReadFragment
  \/ ReadBatch \/ BeginMembers \/ BeginFetch \/ Expand \/ AskTemplate \/ AskDefinition
  \/ ClearTemplateCache \/ BeginWrite \/ Write
  \/ BeginList \/ NoPath \/ AskPage \/ BeginSetTags \/ SetTag \/ AskBytes \/ AskDimensions

Spec == Init /\ [][Next]_vars

-----------------------------------------------------------------------------
(* Properties *)

\* The client's own state agrees with itself: a CIP connection has one of the two sizes, a frame
\* lies unread only on an open socket after something strayed, no template is remembered both as
\* fetched and as failed (the caches of logix/client.go), and the sizes are those of the PLC.
TypeOK ==
  /\ {made, micro800, conn, strayed, panicked} \subseteq BOOLEAN
  /\ cip \in {"none", "live", "stale"} /\ connSize \in {0, 504, 4002}
  /\ cip # "none" => made /\ connSize # 0
  /\ wire # <<>> => conn /\ strayed
  /\ \A t \in DOMAIN templates : IsStructure(t) /\ templates[t] \in 0..Len(Templates[t].members)
  /\ failed \subseteq DOMAIN Templates \ DOMAIN templates
  /\ \A t \in DOMAIN sizes : IsStructure(t) /\ sizes[t] = SizeOf(t)
  /\ \A n \in DOMAIN info : info[n].type = Tags[n].type

\* The contents of a name, as one reply or several put end to end would give them; a structure
\* put together from several replies, with a handle before each part, is left out.
Handles(data) == Cardinality({i \in DOMAIN data : data[i] = Handle})
InOrder(data, tag, from) ==
  LET parts == SelectSeq(data, LAMBDA s : s # Handle)
  IN  \A i \in DOMAIN parts : parts[i].tag = tag /\ parts[i].off = from + Bytes(SubSeq(parts, 1, i - 1))
Whole(v) == Bytes(v.data) - Bytes(SelectSeq(v.data, LAMBDA s : s = Handle))
              = v.count * SizeOf(Place(v.name).type)

\* What Read reports (Read, readStructMembers, readTagChunked, ReadTagFragmented, ReadMultiple) is
\* the contents of the very tag or member named, from its first byte on, without a gap or a
\* repeated element between replies, and all of it unless a request for it was refused;
\* and a Write that reports success was carried out by the PLC. Holds until a reply has been taken
\* for another's.
CallsTruthful ==
  ~strayed =>
    /\ \A i \in DOMAIN op.results :
         LET v == op.results[i]
         IN  v.ok /\ Handles(v.data) < 2 =>
               /\ InOrder(v.data, v.name.tag, Place(v.name).off)
               /\ v.short \/ Whole(v)
    /\ op.kind = "write" /\ op.at = "return" /\ op.ok => op.put.done

\* AllTags and FindSymbolByName page through the symbol table: a listing names no tag twice, and
\* lists of each scope either every readable tag or, for a program that could not be browsed,
\* none; a name is reported absent only if it is. Left out is a listing that ended at a page
\* without names or at the last page allowed.
TagsListedOnce ==
  op.at = "return" /\ op.ok /\ ~strayed =>
    /\ op.kind = "all" =>
         /\ IsInjective(op.list.all)
         /\ \A scope \in DOMAIN Symbols :
              LET listed == {e \in ToSet(op.list.all) : e.scope = scope}
                  there == ToSet(Readable([i \in DOMAIN Symbols[scope] |-> Entry(scope, Symbols[scope][i])]))
                  state == {d \in ToSet(op.list.done) : d.scope = scope}
              IN  IF state = {} THEN listed = {} /\ scope # "controller"
                  ELSE listed = there \/ (listed \subseteq there /\ \E d \in state : d.cut)
    /\ op.kind = "find" =>
         op.list.cut \/ \E e \in ToSet(op.list.found) : e.name = op.list.sought
=============================================================================
