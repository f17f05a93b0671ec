------------------------- MODULE AdapterConnections -------------------------
(***************************************************************************)
(* The Class 1 connections of the EtherNet/IP adapter (package             *)
(* eipadapter): the Connection Manager's two indexes, the Connection       *)
(* structs, the goroutines that answer explicit messages (handleConn), the *)
(* producer goroutine of each connection and the one goroutine that reads  *)
(* cyclic I/O.                                                             *)
(*                                                                         *)
(* A step is a critical section of the code, or the code between two of    *)
(* them: m.mu guards byOT and byTO, c.mu guards the mutable fields of one  *)
(* Connection, and nothing is held from one step to the next.              *)
(***************************************************************************)
EXTENDS Integers, FiniteSets

CONSTANTS
  Sessions,      \* handleConn goroutines, one per TCP connection
  MaxConns,      \* bound: Connection structs ever allocated
  OTIds,         \* O->T connection IDs, chosen by the scanner
  TOIds,         \* T->O connection IDs, chosen by allocateConnID
  Triples,       \* (connection serial, vendor, originator serial)
  Shapes,        \* what a Forward_Open may ask for: subsets of {"produce", "consume"}
  OTDiscipline,  \* how scanners choose O->T IDs: "any" or "afterClose"
  None           \* no ID, no request

ASSUME MaxConnsAssumption == MaxConns \in Nat
ASSUME DisciplineAssumption == OTDiscipline \in {"any", "afterClose"}
ASSUME ShapesAssumption == Shapes \subseteq SUBSET {"produce", "consume"}
ASSUME NoneAssumption == None \notin OTIds \cup TOIds \cup Triples

Conns  == 1..MaxConns
NoConn == 0              \* the nil *Connection

VARIABLES
  byOT,      \* m.byOT: O->T ID -> Connection, or NoConn when the key is absent
  byTO,      \* m.byTO: T->O ID -> Connection, or NoConn
  opened,    \* number of Connection structs allocated so far
  conn,      \* the Connection structs
  prod,      \* program counter of each connection's runProducer
  sess,      \* the request each handleConn goroutine is working on
  io,        \* what the serveIOUDP goroutine is doing
  serving,   \* FALSE once Serve has run closeAll
  panicked,  \* a nil dereference ended the process
  staleSends,       \* history: packets sent for a connection after its close
  staleDeliveries   \* history: outputs delivered for a connection after its close

vars == <<byOT, byTO, opened, conn, prod, sess, io, serving, panicked,
          staleSends, staleDeliveries>>

-----------------------------------------------------------------------------
(* Types *)

\* Only what the handlers tell apart. "other" is any request to another object, or
\* one the Connection Manager answers without touching a connection.
Bodies ==
  [op : {"other"}]
    \cup [op : {"close"}, triple : Triples]
    \cup [op : {"open"}, triple : Triples, ot : OTIds, shape : Shapes]

Connection ==
  [ot : OTIds \cup {None}, to : TOIds \cup {None}, triple : Triples \cup {None},
   shape : SUBSET {"produce", "consume"}, closed : BOOLEAN,
   hasPeer : BOOLEAN, inbound : {"never", "fresh", "stale"}]

SessionPCs == {"idle", "dispatch", "insert", "start", "mark", "reply"}
ProducerPCs == {"none", "check", "send", "expire", "exited"}

Blank == [ot |-> None, to |-> None, triple |-> None, shape |-> {}, closed |-> FALSE,
          hasPeer |-> FALSE, inbound |-> "never"]

Other == [op |-> "other"]
\* addr: the connection a connected message came in on, None for an unconnected one.
Idle == [pc |-> "idle", addr |-> None, body |-> Other, to |-> None, conn |-> NoConn]
IOIdle == [pc |-> "idle", conn |-> NoConn]

SessionState ==
  [pc : SessionPCs, addr : {None} \cup OTIds, body : Bodies, to : {None} \cup TOIds,
   conn : Conns \cup {NoConn}]

IOState == [pc : {"idle", "peer", "mark", "deliver"}, conn : Conns \cup {NoConn}]

TypeOK ==
  /\ byOT \in [OTIds -> Conns \cup {NoConn}]
  /\ byTO \in [TOIds -> Conns \cup {NoConn}]
  /\ opened \in 0..MaxConns
  /\ conn \in [Conns -> Connection]
  /\ prod \in [Conns -> ProducerPCs]
  /\ sess \in [Sessions -> SessionState]
  /\ io \in IOState
  /\ serving \in BOOLEAN /\ panicked \in BOOLEAN
  /\ staleSends \in [Conns -> Nat] /\ staleDeliveries \in [Conns -> Nat]

Init ==
  /\ byOT = [k \in OTIds |-> NoConn] /\ byTO = [k \in TOIds |-> NoConn]
  /\ opened = 0 /\ conn = [c \in Conns |-> Blank]
  /\ prod = [c \in Conns |-> "none"]
  /\ sess = [s \in Sessions |-> Idle] /\ io = IOIdle
  /\ serving = TRUE /\ panicked = FALSE
  /\ staleSends = [c \in Conns |-> 0] /\ staleDeliveries = [c \in Conns |-> 0]

-----------------------------------------------------------------------------
(* Helpers *)

Allocated == 1..opened
Indexed(c) == (\E k \in OTIds : byOT[k] = c) \/ (\E k \in TOIds : byTO[k] = c)

\* Forward_Opens received and not yet given a Connection struct.
Opening == {s \in Sessions : sess[s].body.op = "open"
                               /\ sess[s].pc \in {"dispatch", "insert"}}

\* Environment: plcio's own scanner sends one constant O->T ID in every
\* Forward_Open ("any"); a careful one reuses an ID only once its previous
\* connection of that ID is closed ("afterClose").
MayUseOT(ot) ==
  OTDiscipline = "afterClose" =>
    /\ \A c \in Allocated : conn[c].ot = ot => conn[c].closed
    /\ \A s \in Opening : sess[s].body.ot # ot

\* Seeded faults: one of the two deletes is missing.
UnindexOTOnly(c) == byOT' = [byOT EXCEPT ![conn[c].ot] = NoConn] /\ byTO' = byTO
UnindexTOOnly(c) == byTO' = [byTO EXCEPT ![conn[c].to] = NoConn] /\ byOT' = byOT

\* delete(m.byOT, c.OTConnID); delete(m.byTO, c.TOConnID). Neither looks at what
\* the key maps to.
Unindex(c) ==
  /\ byOT' = [byOT EXCEPT ![conn[c].ot] = NoConn]
  /\ byTO' = [byTO EXCEPT ![conn[c].to] = NoConn]

\* The handler returns its response.
Respond(s) == sess' = [sess EXCEPT ![s] = [Idle EXCEPT !.pc = "reply", !.addr = sess[s].addr]]

-----------------------------------------------------------------------------
(* handleConn: one request after another on each TCP connection *)

\* The bound on Connection structs, and the scanner's choice of the O->T ID.
MayOpen(body) ==
  body.op = "open" => opened + Cardinality(Opening) < MaxConns /\ MayUseOT(body.ot)

Receive(s, addr, body) ==
  /\ MayOpen(body)
  /\ sess' = [sess EXCEPT ![s] = [Idle EXCEPT !.pc = "dispatch", !.addr = addr, !.body = body]]
  /\ UNCHANGED <<byOT, byTO, opened, conn, prod, io, serving, panicked,
                 staleSends, staleDeliveries>>

\* handleSendRRData: an unconnected message goes straight to dispatch. An
\* Unconnected_Send only wraps a second dispatch around the same handlers.
RecvRRData(s) ==
  /\ ~panicked /\ sess[s].pc = "idle"
  /\ \E body \in Bodies : Receive(s, None, body)

\* handleSendUnitData up to dispatch: a connected message on an unknown
\* connection is dropped without a reply.
RecvUnitData(s) ==
  /\ ~panicked /\ sess[s].pc = "idle"
  /\ \E k \in OTIds, body \in Bodies : byOT[k] # NoConn /\ Receive(s, k, body)

\* dispatch to anything but the Connection Manager, and a Forward_Close that does not
\* parse.
DispatchNoEffect(s) ==
  /\ ~panicked /\ sess[s].pc = "dispatch" /\ sess[s].body.op # "open"
  /\ Respond(s)
  /\ UNCHANGED <<byOT, byTO, opened, conn, prod, io, serving, panicked,
                 staleSends, staleDeliveries>>

\* A Forward_Open is refused before it leaves a trace: it does not parse, its path
\* names no assembly of ours, or the OnForwardOpen callback returns an error.
ForwardOpenRefuse(s) ==
  /\ ~panicked /\ sess[s].pc = "dispatch" /\ sess[s].body.op = "open"
  /\ Respond(s)
  /\ UNCHANGED <<byOT, byTO, opened, conn, prod, io, serving, panicked,
                 staleSends, staleDeliveries>>

\* allocateConnID: drawn at random among the IDs that are not keys of byTO now;
\* the lock is released before the ID is put to use.
AllocateConnID(s) ==
  /\ ~panicked /\ sess[s].pc = "dispatch" /\ sess[s].body.op = "open"
  /\ \E id \in TOIds :
       /\ byTO[id] = NoConn
       /\ sess' = [sess EXCEPT ![s].pc = "insert", ![s].to = id]
  /\ UNCHANGED <<byOT, byTO, opened, conn, prod, io, serving, panicked,
                 staleSends, staleDeliveries>>

\* Seeded fault: two identifiers swapped in the composite literal.
NewConnectionSwapped(s) ==
  [ot |-> sess[s].to, to |-> sess[s].body.ot, triple |-> sess[s].body.triple,
   shape |-> sess[s].body.shape, closed |-> FALSE, hasPeer |-> FALSE,
   inbound |-> "never"]

\* The new struct.
NewConnection(s) ==
  [ot |-> sess[s].body.ot, to |-> sess[s].to, triple |-> sess[s].body.triple,
   shape |-> sess[s].body.shape, closed |-> FALSE, hasPeer |-> FALSE,
   inbound |-> "never"]

\* Under both keys, whatever they mapped to before.
IndexNew(s, c) ==
  /\ byOT' = [byOT EXCEPT ![sess[s].body.ot] = c]
  /\ byTO' = [byTO EXCEPT ![sess[s].to] = c]

ForwardOpenInsert(s) ==
  /\ ~panicked /\ sess[s].pc = "insert" /\ opened < MaxConns
  /\ opened' = opened + 1
  /\ conn' = [conn EXCEPT ![opened + 1] = NewConnection(s)]
  /\ IndexNew(s, opened + 1)
  /\ sess' = [sess EXCEPT ![s].pc = "start", ![s].conn = opened + 1]
  /\ UNCHANGED <<prod, io, serving, panicked, staleSends, staleDeliveries>>

\* go runProducer(c), which returns at once for a connection without a produce
\* assembly.
ForwardOpenStart(s) ==
  /\ ~panicked /\ sess[s].pc = "start"
  /\ prod' = [prod EXCEPT ![sess[s].conn] =
                IF "produce" \in conn[sess[s].conn].shape THEN "check" ELSE "none"]
  /\ Respond(s)
  /\ UNCHANGED <<byOT, byTO, opened, conn, io, serving, panicked,
                 staleSends, staleDeliveries>>

\* The first half of handleForwardClose, under m.mu: a map iteration, so any
\* tracked connection of that triple. No match is answered with success too.
ForwardCloseRemove(s) ==
  /\ ~panicked /\ sess[s].pc = "dispatch" /\ sess[s].body.op = "close"
  /\ LET matches == {c \in Allocated : byOT[conn[c].ot] = c
                                        /\ conn[c].triple = sess[s].body.triple}
     IN  IF matches = {}
         THEN Respond(s) /\ UNCHANGED <<byOT, byTO>>
         ELSE \E c \in matches :
                /\ Unindex(c)
                /\ sess' = [sess EXCEPT ![s].pc = "mark", ![s].conn = c]
  /\ UNCHANGED <<opened, conn, prod, io, serving, panicked,
                 staleSends, staleDeliveries>>

\* The second half, under found.mu.
ForwardCloseMark(s) ==
  /\ ~panicked /\ sess[s].pc = "mark"
  /\ conn' = [conn EXCEPT ![sess[s].conn].closed = TRUE]
  /\ Respond(s)
  /\ UNCHANGED <<byOT, byTO, opened, prod, io, serving, panicked,
                 staleSends, staleDeliveries>>

\* The reply. handleSendUnitData looks the connection up again to learn its T->O
\* ID and dereferences the result.
Reply(s) ==
  /\ ~panicked /\ sess[s].pc = "reply"
  /\ panicked' = (sess[s].addr # None /\ byOT[sess[s].addr] = NoConn)
  /\ sess' = [sess EXCEPT ![s] = Idle]
  /\ UNCHANGED <<byOT, byTO, opened, conn, prod, io, serving,
                 staleSends, staleDeliveries>>

-----------------------------------------------------------------------------
(* runProducer *)

\* Seeded fault: the timeout is looked at only until a peer is known.
SilentWithoutPeer(c) == conn[c].inbound = "stale" /\ ~conn[c].hasPeer

\* !last.IsZero() && time.Since(last) > timeout: a connection that never heard from
\* its scanner is not silent.
Silent(c) == conn[c].inbound = "stale"

\* Seeded fault: the closed flag is not looked at.
ProducerCheckIgnoresClosed(c) ==
  /\ ~panicked /\ prod[c] = "check"
  /\ Silent(c) \/ conn[c].hasPeer
  /\ prod' = [prod EXCEPT ![c] = IF Silent(c) THEN "expire" ELSE "send"]
  /\ UNCHANGED <<byOT, byTO, opened, conn, sess, io, serving, panicked,
                 staleSends, staleDeliveries>>

\* One turn of the loop up to the packet, on one reading of the mutable fields.
\* With no peer address it waits for the next tick: the same state.
ProducerCheck(c) ==
  /\ ~panicked /\ prod[c] = "check"
  /\ conn[c].closed \/ Silent(c) \/ conn[c].hasPeer
  /\ prod' = [prod EXCEPT ![c] = IF conn[c].closed THEN "exited"
                                 ELSE IF Silent(c) THEN "expire" ELSE "send"]
  /\ UNCHANGED <<byOT, byTO, opened, conn, sess, io, serving, panicked,
                 staleSends, staleDeliveries>>

\* The packet, to the peer read in ProducerCheck (a peer address never changes).
ProducerSend(c) ==
  /\ ~panicked /\ prod[c] = "send"
  /\ prod' = [prod EXCEPT ![c] = "check"]
  /\ staleSends' = [staleSends EXCEPT ![c] = @ + (IF conn[c].closed THEN 1 ELSE 0)]
  /\ UNCHANGED <<byOT, byTO, opened, conn, sess, io, serving, panicked, staleDeliveries>>

\* Seeded fault: expire removes the connection without marking it closed.
ProducerExpireUnmarked(c) ==
  /\ ~panicked /\ prod[c] = "expire"
  /\ Unindex(c)
  /\ prod' = [prod EXCEPT ![c] = "exited"]
  /\ UNCHANGED <<opened, conn, sess, io, serving, panicked, staleSends, staleDeliveries>>

\* expire(c), under m.mu.
ProducerExpire(c) ==
  /\ ~panicked /\ prod[c] = "expire"
  /\ conn' = [conn EXCEPT ![c].closed = TRUE]
  /\ Unindex(c)
  /\ prod' = [prod EXCEPT ![c] = "exited"]
  /\ UNCHANGED <<opened, sess, io, serving, panicked, staleSends, staleDeliveries>>

-----------------------------------------------------------------------------
(* serveIOUDP and handleIOPacket *)

\* A datagram of some connection ID arrives while the socket is open.
IORecv ==
  /\ ~panicked /\ io.pc = "idle" /\ serving
  /\ \E k \in OTIds : byOT[k] # NoConn /\ io' = [pc |-> "peer", conn |-> byOT[k]]
  /\ UNCHANGED <<byOT, byTO, opened, conn, prod, sess, serving, panicked,
                 staleSends, staleDeliveries>>

\* The first datagram of a connection fixes its peer address.
IOPeer ==
  /\ ~panicked /\ io.pc = "peer"
  /\ conn' = [conn EXCEPT ![io.conn].hasPeer = TRUE]
  /\ io' = [io EXCEPT !.pc = "mark"]
  /\ UNCHANGED <<byOT, byTO, opened, prod, sess, serving, panicked,
                 staleSends, staleDeliveries>>

\* markInbound; a connection without a consume assembly is done here.
IOMark ==
  /\ ~panicked /\ io.pc = "mark"
  /\ conn' = [conn EXCEPT ![io.conn].inbound = "fresh"]
  /\ io' = IF "consume" \in conn[io.conn].shape THEN [io EXCEPT !.pc = "deliver"]
                                                 ELSE IOIdle
  /\ UNCHANGED <<byOT, byTO, opened, prod, sess, serving, panicked,
                 staleSends, staleDeliveries>>

\* Seeded fault: the I/O loop keeps the connection of the last datagram.
IODeliverKeepsConn ==
  /\ ~panicked /\ io.pc = "deliver"
  /\ staleDeliveries' = [staleDeliveries EXCEPT
                           ![io.conn] = @ + (IF conn[io.conn].closed THEN 1 ELSE 0)]
  /\ io' = [io EXCEPT !.pc = "peer"]
  /\ UNCHANGED <<byOT, byTO, opened, conn, prod, sess, serving, panicked, staleSends>>

\* receiveFromScanner: the outputs reach the assembly.
IODeliver ==
  /\ ~panicked /\ io.pc = "deliver"
  /\ staleDeliveries' = [staleDeliveries EXCEPT
                           ![io.conn] = @ + (IF conn[io.conn].closed THEN 1 ELSE 0)]
  /\ io' = IOIdle
  /\ UNCHANGED <<byOT, byTO, opened, conn, prod, sess, serving, panicked, staleSends>>

\* Environment: the connection timeout passes since the last inbound datagram. Of a
\* closed connection nothing reads the age any more.
FallSilent(c) ==
  /\ ~panicked /\ conn[c].inbound = "fresh" /\ ~conn[c].closed
  /\ conn' = [conn EXCEPT ![c].inbound = "stale"]
  /\ UNCHANGED <<byOT, byTO, opened, prod, sess, io, serving, panicked,
                 staleSends, staleDeliveries>>

-----------------------------------------------------------------------------
(* Serve: the sockets are closed, then closeAll under m.mu. The handleConn     *)
(* goroutines go on: nothing closes their TCP connections.                     *)

\* Seeded fault: the maps are emptied and no connection is marked closed.
CloseAllUnmarked ==
  /\ ~panicked /\ serving /\ serving' = FALSE
  /\ byOT' = [k \in OTIds |-> NoConn] /\ byTO' = [k \in TOIds |-> NoConn]
  /\ UNCHANGED <<opened, conn, prod, sess, io, panicked, staleSends, staleDeliveries>>

CloseAll ==
  /\ ~panicked /\ serving /\ serving' = FALSE
  /\ conn' = [c \in Conns |->
                IF \E k \in OTIds : byOT[k] = c THEN [conn[c] EXCEPT !.closed = TRUE]
                                                ELSE conn[c]]
  /\ byOT' = [k \in OTIds |-> NoConn]
  /\ byTO' = [k \in TOIds |-> NoConn]
  /\ UNCHANGED <<opened, prod, sess, io, panicked, staleSends, staleDeliveries>>

\* The process is gone.
Crashed == panicked /\ UNCHANGED vars

SessionStep(s) ==
  \/ DispatchNoEffect(s) \/ ForwardOpenRefuse(s) \/ AllocateConnID(s) \/ ForwardOpenInsert(s)
  \/ ForwardOpenStart(s) \/ ForwardCloseRemove(s) \/ ForwardCloseMark(s) \/ Reply(s)

ProducerStep(c) == ProducerCheck(c) \/ ProducerSend(c) \/ ProducerExpire(c)

IOStep == IOPeer \/ IOMark \/ IODeliver

Next ==
  \/ \E s \in Sessions : RecvRRData(s) \/ RecvUnitData(s) \/ SessionStep(s)
  \/ \E c \in Conns : ProducerStep(c) \/ FallSilent(c)
  \/ IORecv \/ IOStep \/ CloseAll \/ Crashed

Spec == Init /\ [][Next]_vars

\* The Go scheduler runs every runnable goroutine; no fairness for what scanners
\* send, for time running out or for Serve being stopped.
Fairness ==
  /\ \A s \in Sessions : WF_vars(SessionStep(s))
  /\ \A c \in Conns : WF_vars(ProducerStep(c))
  /\ WF_vars(IOStep)

FairSpec == Spec /\ Fairness

-----------------------------------------------------------------------------
(* Safety *)

\* Forward_Close, expire and closeAll leave no closed connection behind in either
\* index, in whatever order they overtake each other: no lookup made after a close
\* finds the connection (connmanager.go, producer.go expire).
ClosedNotIndexed ==
  \A c \in Allocated : conn[c].closed => ~Indexed(c)

\* byOT and byTO are written together: a connection scanners can reach by its O->T
\* ID keeps its T->O ID reserved, unless the race in allocateConnID gave the same
\* T->O ID to two connections.
IndexesAgree ==
  (\A c, d \in Allocated : conn[c].to = conn[d].to => c = d)
    => \A c \in Allocated : byOT[conn[c].ot] = c => byTO[conn[c].to] = c

ClosePending(c) == \E s \in Sessions : sess[s].pc = "mark" /\ sess[s].conn = c

\* The only ways an open connection drops out of byOT, where Forward_Close, closeAll
\* and cyclic I/O look for it: a later Forward_Open took over its O->T ID, or an
\* earlier connection of that ID was closed after it opened.
LostOnlyByOTReuse ==
  \A c \in Allocated :
    conn[c].closed \/ byOT[conn[c].ot] = c \/ ClosePending(c)
      \/ \E d \in Allocated \ {c} : conn[d].ot = conn[c].ot /\ (d > c \/ conn[d].closed)

\* What the comment on ConnectionManager promises, "tracking of all active Class 1
\* connections" (connmanager.go:76): while the adapter serves, an open connection is
\* in byOT.
ActiveConnectionsTracked ==
  serving => \A c \in Allocated :
    conn[c].closed \/ byOT[conn[c].ot] = c \/ ClosePending(c)

\* A producer stops only for a connection that is closed: no connection stays open
\* with its inputs frozen.
ExitedMeansClosed ==
  \A c \in Allocated : prod[c] = "exited" => conn[c].closed

\* A close is effective for the producer after at most the one packet it is building,
\* whichever of the three paths closed the connection.
AtMostOneStaleSend == \A c \in Conns : staleSends[c] <= 1

\* A close is effective for outputs after at most the one datagram in hand.
AtMostOneStaleDelivery == \A c \in Conns : staleDeliveries[c] <= 1

\* Serve "runs the adapter loops until ctx is cancelled or Close is called"
\* (adapter.go:169): no request ends the process in a nil dereference before that.
NoPanicWhileServing == serving => ~panicked

-----------------------------------------------------------------------------
(* Liveness *)

\* Every closed connection's producer goroutine ends.
ClosedProducersStop ==
  \A c \in Conns : conn[c].closed ~> (panicked \/ prod[c] \in {"none", "exited"})

\* A connection whose scanner has fallen silent is torn down, unless the scanner is
\* heard again: its producer ends and it leaves both indexes.
SilentConnectionsExpire ==
  \A c \in Conns :
    (prod[c] \in {"check", "send", "expire"} /\ conn[c].inbound = "stale")
      ~> (panicked \/ conn[c].inbound = "fresh" \/ (prod[c] = "exited" /\ ~Indexed(c)))

=============================================================================
