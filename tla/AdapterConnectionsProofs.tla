---------------------- MODULE AdapterConnectionsProofs ----------------------
(***************************************************************************)
(* Safety of AdapterConnections for any number of sessions, connections    *)
(* and identifiers, and for both disciplines of the scanners.              *)
(***************************************************************************)
EXTENDS AdapterConnections, TLAPS

\* A session that has created or found a connection holds one that exists.
SessionsOK ==
  \A s \in Sessions :
    /\ sess[s].pc = "insert" => sess[s].body.op = "open" /\ sess[s].to \in TOIds
    /\ sess[s].pc \in {"start", "mark"} => sess[s].conn \in 1..opened

IOOK == IF io.pc = "idle" THEN io.conn = NoConn ELSE io.conn \in 1..opened

\* A struct not allocated yet is as Init left it.
UnusedOK ==
  \A c \in Conns :
    c > opened => /\ prod[c] = "none" /\ ~conn[c].closed
                  /\ staleSends[c] = 0 /\ staleDeliveries[c] = 0

\* Every allocated connection has its identifiers, and an index maps a key to a
\* connection that has that key.
KeysMatch ==
  /\ \A c \in 1..opened : conn[c].ot \in OTIds /\ conn[c].to \in TOIds
  /\ \A k \in OTIds : byOT[k] # NoConn => byOT[k] \in 1..opened /\ conn[byOT[k]].ot = k
  /\ \A k \in TOIds : byTO[k] # NoConn => byTO[k] \in 1..opened /\ conn[byTO[k]].to = k

Shape == TypeOK /\ SessionsOK /\ IOOK /\ UnusedOK /\ KeysMatch

\* Unlike ClosedNotIndexed it also speaks of a connection between the two halves of
\* handleForwardClose.
GoneNotIndexed ==
  /\ \A c \in Conns : conn[c].closed => ~Indexed(c)
  /\ \A s \in Sessions : sess[s].pc = "mark" => ~Indexed(sess[s].conn)

SendsBounded ==
  \A c \in Conns :
    /\ staleSends[c] <= 1
    /\ ~conn[c].closed \/ prod[c] = "send" => staleSends[c] = 0

DeliveriesBounded ==
  \A c \in Conns :
    /\ staleDeliveries[c] <= 1
    /\ ~conn[c].closed \/ io.conn = c => staleDeliveries[c] = 0

ExitsOK == \A c \in Conns : prod[c] = "exited" => conn[c].closed

IInv == Shape /\ GoneNotIndexed /\ SendsBounded /\ DeliveriesBounded /\ ExitsOK

-----------------------------------------------------------------------------
(* Types *)

\* The connections are numbered: what the bound says of their numbers.
LEMMA ConnNumbers ==
  ASSUME opened \in 0..MaxConns
  PROVE  /\ 1..opened \subseteq Conns /\ NoConn \notin Conns /\ Conns \subseteq Nat
         /\ opened < MaxConns => opened + 1 \in Conns /\ opened + 1 \in 0..MaxConns
  BY MaxConnsAssumption DEF Conns, NoConn

LEMMA IdleType ==
  /\ Other \in Bodies
  /\ Idle \in SessionState
  /\ IOIdle \in IOState
  BY DEF SessionState, IOState, SessionPCs, Idle, Bodies, Other, IOIdle

\* The updates the steps make to a struct, a session and the I/O loop.
LEMMA ConnectionUpdates ==
  ASSUME NEW r \in Connection
  PROVE  /\ [r EXCEPT !.closed = TRUE] \in Connection
         /\ [r EXCEPT !.hasPeer = TRUE] \in Connection
         /\ [r EXCEPT !.inbound = "fresh"] \in Connection
         /\ [r EXCEPT !.inbound = "stale"] \in Connection
  BY DEF Connection

LEMMA SessionUpdates ==
  ASSUME NEW r \in SessionState
  PROVE  /\ \A k \in {None} \cup OTIds, body \in Bodies :
              [Idle EXCEPT !.pc = "dispatch", !.addr = k, !.body = body] \in SessionState
         /\ [Idle EXCEPT !.pc = "reply", !.addr = r.addr] \in SessionState
         /\ \A id \in TOIds : [r EXCEPT !.pc = "insert", !.to = id] \in SessionState
         /\ \A c \in Conns : /\ [r EXCEPT !.pc = "start", !.conn = c] \in SessionState
                             /\ [r EXCEPT !.pc = "mark", !.conn = c] \in SessionState
         /\ r.body \in Bodies /\ r.to \in {None} \cup TOIds /\ r.conn \in Conns \cup {NoConn}
  BY IdleType DEF SessionState, SessionPCs, Idle

LEMMA IOUpdates ==
  ASSUME NEW r \in IOState
  PROVE  /\ [r EXCEPT !.pc = "mark"] \in IOState /\ [r EXCEPT !.pc = "deliver"] \in IOState
         /\ \A c \in Conns \cup {NoConn} : [pc |-> "peer", conn |-> c] \in IOState
         /\ r.conn \in Conns \cup {NoConn}
  BY DEF IOState

LEMMA BlankType == Blank \in Connection
  BY DEF Blank, Connection

LEMMA InitType == Init => TypeOK
<1> SUFFICES ASSUME Init PROVE TypeOK
    OBVIOUS
<1>1. byOT \in [OTIds -> Conns \cup {NoConn}] /\ byTO \in [TOIds -> Conns \cup {NoConn}]
  BY DEF Init
<1>2. conn \in [Conns -> Connection] /\ prod \in [Conns -> ProducerPCs]
  BY BlankType DEF Init, ProducerPCs
<1>3. sess \in [Sessions -> SessionState] /\ io \in IOState
  BY IdleType DEF Init
<1>4. opened \in 0..MaxConns /\ staleSends \in [Conns -> Nat] /\ staleDeliveries \in [Conns -> Nat]
  BY MaxConnsAssumption DEF Init
<1>5. serving \in BOOLEAN /\ panicked \in BOOLEAN
  BY DEF Init
<1> QED
  BY <1>1, <1>2, <1>3, <1>4, <1>5 DEF TypeOK

LEMMA NewConnectionType ==
  ASSUME TypeOK, NEW s \in Sessions, sess[s].body.op = "open", sess[s].to \in TOIds
  PROVE  NewConnection(s) \in Connection /\ sess[s].body.ot \in OTIds
<1>1. sess[s].body \in Bodies
  BY SessionUpdates DEF TypeOK
<1>2. sess[s].body \in [op : {"open"}, triple : Triples, ot : OTIds, shape : Shapes]
  BY <1>1 DEF Bodies
<1> QED
  BY <1>2, ShapesAssumption DEF NewConnection, Connection

LEMMA RespondType ==
  ASSUME TypeOK, NEW s \in Sessions, Respond(s)
  PROVE  sess' \in [Sessions -> SessionState]
  BY SessionUpdates DEF TypeOK, Respond

LEMMA ReceiveType ==
  ASSUME TypeOK, NEW s \in Sessions, NEW k \in {None} \cup OTIds, NEW body \in Bodies,
         Receive(s, k, body)
  PROVE  TypeOK'
<1>1. sess[s] \in SessionState
  BY DEF TypeOK
<1>2. [Idle EXCEPT !.pc = "dispatch", !.addr = k, !.body = body] \in SessionState
  BY <1>1, SessionUpdates
<1>3. sess' \in [Sessions -> SessionState]
  BY <1>2 DEF Receive, TypeOK
<1>4. UNCHANGED <<byOT, byTO, opened, conn, prod, io, serving, panicked,
                  staleSends, staleDeliveries>>
  BY DEF Receive
<1> QED
  BY <1>3, <1>4 DEF TypeOK

LEMMA TypeStep == TypeOK /\ SessionsOK /\ IOOK /\ [Next]_vars => TypeOK'
<1> SUFFICES ASSUME TypeOK, SessionsOK, IOOK, [Next]_vars PROVE TypeOK'
    OBVIOUS
<1>0. opened \in 0..MaxConns
  BY DEF TypeOK
<1>1. ASSUME NEW s \in Sessions, RecvRRData(s) PROVE TypeOK'
  BY <1>1, ReceiveType DEF RecvRRData
<1>2. ASSUME NEW s \in Sessions, RecvUnitData(s) PROVE TypeOK'
  BY <1>2, ReceiveType DEF RecvUnitData
<1>3. ASSUME NEW s \in Sessions, DispatchNoEffect(s) \/ ForwardOpenRefuse(s) PROVE TypeOK'
  BY <1>3, RespondType DEF DispatchNoEffect, ForwardOpenRefuse, TypeOK
<1>4. ASSUME NEW s \in Sessions, AllocateConnID(s) PROVE TypeOK'
  <2>1. sess' \in [Sessions -> SessionState]
    <3>1. PICK id \in TOIds : sess' = [sess EXCEPT ![s].pc = "insert", ![s].to = id]
      BY <1>4 DEF AllocateConnID
    <3>2. [sess[s] EXCEPT !.pc = "insert", !.to = id] \in SessionState
      BY SessionUpdates DEF TypeOK
    <3> QED
      BY <3>1, <3>2 DEF TypeOK
  <2> QED
    BY <1>4, <2>1 DEF AllocateConnID, TypeOK
<1>5. ASSUME NEW s \in Sessions, ForwardOpenInsert(s) PROVE TypeOK'
  <2>1. sess[s].body.op = "open" /\ sess[s].to \in TOIds
    BY <1>5 DEF ForwardOpenInsert, SessionsOK
  <2>2. opened + 1 \in Conns /\ opened + 1 \in 0..MaxConns
    BY <1>0, <1>5, ConnNumbers DEF ForwardOpenInsert
  <2>3. NewConnection(s) \in Connection /\ sess[s].body.ot \in OTIds
    BY <2>1, NewConnectionType
  <2>4. sess' \in [Sessions -> SessionState]
    BY <1>5, <2>2, SessionUpdates DEF ForwardOpenInsert, TypeOK
  <2> QED
    BY <1>5, <2>1, <2>2, <2>3, <2>4 DEF ForwardOpenInsert, IndexNew, TypeOK
<1>6. ASSUME NEW s \in Sessions, ForwardOpenStart(s) PROVE TypeOK'
  <2>1. prod' \in [Conns -> ProducerPCs]
    BY <1>6 DEF ForwardOpenStart, TypeOK, ProducerPCs
  <2> QED
    BY <1>6, <2>1, RespondType DEF ForwardOpenStart, TypeOK
<1>7. ASSUME NEW s \in Sessions, ForwardCloseRemove(s) PROVE TypeOK'
  <2> DEFINE matches == {c \in Allocated : byOT[conn[c].ot] = c
                                            /\ conn[c].triple = sess[s].body.triple}
  <2>1. ASSUME Respond(s), UNCHANGED <<byOT, byTO>> PROVE TypeOK'
    BY <1>7, <2>1, RespondType DEF ForwardCloseRemove, TypeOK
  <2>2. ASSUME NEW c \in matches, Unindex(c),
               sess' = [sess EXCEPT ![s].pc = "mark", ![s].conn = c]
        PROVE  TypeOK'
    <3>1. c \in Conns
      BY <1>0, ConnNumbers DEF Allocated
    <3>2. sess' \in [Sessions -> SessionState]
      BY <2>2, <3>1, SessionUpdates DEF TypeOK
    <3> HIDE DEF matches
    <3> QED
      BY <1>7, <2>2, <3>2 DEF ForwardCloseRemove, Unindex, TypeOK
  <2> QED
    BY <1>7, <2>1, <2>2 DEF ForwardCloseRemove
<1>8. ASSUME NEW s \in Sessions, ForwardCloseMark(s) PROVE TypeOK'
  <2>1. sess[s].conn \in Conns
    BY <1>0, <1>8, ConnNumbers DEF ForwardCloseMark, SessionsOK
  <2>2. conn' \in [Conns -> Connection]
    BY <1>8, <2>1, ConnectionUpdates DEF ForwardCloseMark, TypeOK
  <2> QED
    BY <1>8, <2>2, RespondType DEF ForwardCloseMark, TypeOK
<1>9. ASSUME NEW s \in Sessions, Reply(s) PROVE TypeOK'
  <2>1. sess' \in [Sessions -> SessionState]
    BY <1>9, IdleType DEF Reply, TypeOK
  <2>2. panicked' \in BOOLEAN
    BY <1>9 DEF Reply
  <2> QED
    BY <1>9, <2>1, <2>2 DEF Reply, TypeOK
<1>10. ASSUME NEW c \in Conns, ProducerCheck(c) PROVE TypeOK'
  BY <1>10 DEF ProducerCheck, TypeOK, ProducerPCs
<1>11. ASSUME NEW c \in Conns, ProducerSend(c) PROVE TypeOK'
  BY <1>11 DEF ProducerSend, TypeOK, ProducerPCs
<1>12. ASSUME NEW c \in Conns, ProducerExpire(c) PROVE TypeOK'
  <2>1. conn' \in [Conns -> Connection]
    BY <1>12, ConnectionUpdates DEF ProducerExpire, TypeOK
  <2>2. prod' \in [Conns -> ProducerPCs]
    BY <1>12 DEF ProducerExpire, TypeOK, ProducerPCs
  <2> QED
    BY <1>12, <2>1, <2>2 DEF ProducerExpire, Unindex, TypeOK
<1>13. ASSUME NEW c \in Conns, FallSilent(c) PROVE TypeOK'
  BY <1>13, ConnectionUpdates DEF FallSilent, TypeOK
<1>14. CASE IORecv
  <2>1. io' \in IOState
    BY <1>14, IOUpdates DEF IORecv, TypeOK
  <2> QED
    BY <1>14, <2>1 DEF IORecv, TypeOK
<1>15. CASE IOPeer
  <2>1. conn' \in [Conns -> Connection] /\ io' \in IOState
    BY <1>15, ConnectionUpdates, IOUpdates DEF IOPeer, TypeOK
  <2> QED
    BY <1>15, <2>1 DEF IOPeer, TypeOK
<1>16. CASE IOMark
  <2>1. conn' \in [Conns -> Connection]
    BY <1>16, ConnectionUpdates DEF IOMark, TypeOK
  <2>2. io' \in IOState
    BY <1>16, IOUpdates, IdleType DEF IOMark, TypeOK
  <2> QED
    BY <1>16, <2>1, <2>2 DEF IOMark, TypeOK
<1>17. CASE IODeliver
  <2>1. io' \in IOState
    BY <1>17, IdleType DEF IODeliver
  <2>2. io.conn \in Conns
    BY <1>0, <1>17, ConnNumbers DEF IODeliver, IOOK
  <2>3. staleDeliveries' \in [Conns -> Nat]
    BY <1>17, <2>2 DEF IODeliver, TypeOK
  <2> QED
    BY <1>17, <2>1, <2>3 DEF IODeliver, TypeOK
<1>18. CASE CloseAll
  <2>1. conn' \in [Conns -> Connection]
    BY <1>18, ConnectionUpdates DEF CloseAll, TypeOK
  <2>2. /\ byOT' \in [OTIds -> Conns \cup {NoConn}] /\ byTO' \in [TOIds -> Conns \cup {NoConn}]
        /\ serving' \in BOOLEAN
    BY <1>18 DEF CloseAll
  <2>3. UNCHANGED <<opened, prod, sess, io, panicked, staleSends, staleDeliveries>>
    BY <1>18 DEF CloseAll
  <2> QED
    BY <2>1, <2>2, <2>3 DEF TypeOK
<1>19. CASE UNCHANGED vars
  BY <1>19 DEF vars, TypeOK
<1> QED
  BY <1>1, <1>2, <1>3, <1>4, <1>5, <1>6, <1>7, <1>8, <1>9, <1>10, <1>11, <1>12, <1>13,
     <1>14, <1>15, <1>16, <1>17, <1>18, <1>19
     DEF Next, SessionStep, ProducerStep, IOStep, Crashed

-----------------------------------------------------------------------------
(* Program counters *)

LEMMA PCStep == Shape /\ [Next]_vars => SessionsOK' /\ IOOK' /\ UnusedOK'
<1> SUFFICES ASSUME TypeOK, SessionsOK, IOOK, UnusedOK, KeysMatch, [Next]_vars
             PROVE  SessionsOK' /\ IOOK' /\ UnusedOK'
    BY DEF Shape
<1> DEFINE PCs == SessionsOK /\ IOOK /\ UnusedOK
<1> USE DEF SessionsOK, IOOK, UnusedOK
<1>0. opened \in 0..MaxConns /\ opened \in Nat
  BY MaxConnsAssumption DEF TypeOK
<1>1. ASSUME NEW s \in Sessions, RecvRRData(s) PROVE PCs'
  BY <1>1 DEF RecvRRData, Receive, TypeOK, Idle
<1>2. ASSUME NEW s \in Sessions, RecvUnitData(s) PROVE PCs'
  BY <1>2 DEF RecvUnitData, Receive, TypeOK, Idle
<1>3. ASSUME NEW s \in Sessions, DispatchNoEffect(s) \/ ForwardOpenRefuse(s) PROVE PCs'
  BY <1>3 DEF DispatchNoEffect, ForwardOpenRefuse, Respond, TypeOK, Idle
<1>4. ASSUME NEW s \in Sessions, AllocateConnID(s) PROVE PCs'
  BY <1>4 DEF AllocateConnID, TypeOK, SessionState
<1>5. ASSUME NEW s \in Sessions, ForwardOpenInsert(s) PROVE PCs'
  BY <1>0, <1>5, ConnNumbers DEF ForwardOpenInsert, IndexNew, TypeOK, SessionState
<1>6. ASSUME NEW s \in Sessions, ForwardOpenStart(s) PROVE PCs'
  BY <1>0, <1>6 DEF ForwardOpenStart, Respond, TypeOK, Idle
<1>7. ASSUME NEW s \in Sessions, ForwardCloseRemove(s) PROVE PCs'
  <2>1. ASSUME NEW c \in Allocated, sess' = [sess EXCEPT ![s].pc = "mark", ![s].conn = c]
        PROVE  PCs'
    <3>1. /\ sess'[s].pc = "mark" /\ sess'[s].conn = c
          /\ \A t \in Sessions \ {s} : sess'[t] = sess[t]
      BY <2>1 DEF TypeOK, SessionState
    <3>2. UNCHANGED <<opened, conn, prod, io, staleSends, staleDeliveries>>
      BY <1>7 DEF ForwardCloseRemove
    <3> QED
      BY <3>1, <3>2 DEF Allocated
  <2>2. ASSUME Respond(s) PROVE PCs'
    BY <1>7, <2>2 DEF ForwardCloseRemove, Respond, TypeOK, Idle
  <2> QED
    BY <1>7, <2>1, <2>2 DEF ForwardCloseRemove
<1>8. ASSUME NEW s \in Sessions, ForwardCloseMark(s) PROVE PCs'
  BY <1>0, <1>8 DEF ForwardCloseMark, Respond, TypeOK, Idle
<1>9. ASSUME NEW s \in Sessions, Reply(s) PROVE PCs'
  BY <1>9 DEF Reply, TypeOK, Idle
<1>10. ASSUME NEW c \in Conns, ProducerCheck(c) PROVE PCs'
  BY <1>10 DEF ProducerCheck, TypeOK
<1>11. ASSUME NEW c \in Conns, ProducerSend(c) PROVE PCs'
  BY <1>11 DEF ProducerSend, TypeOK
<1>12. ASSUME NEW c \in Conns, ProducerExpire(c) PROVE PCs'
  BY <1>12 DEF ProducerExpire, Unindex, TypeOK
<1>13. ASSUME NEW c \in Conns, FallSilent(c) PROVE PCs'
  BY <1>13 DEF FallSilent, TypeOK, Connection
<1>14. CASE IORecv
  BY <1>0, <1>14 DEF IORecv, TypeOK, KeysMatch, IOState
<1>15. CASE IOPeer
  BY <1>15 DEF IOPeer, TypeOK, Connection, IOState
<1>16. CASE IOMark
  BY <1>16 DEF IOMark, TypeOK, Connection, IOIdle, IOState
<1>17. CASE IODeliver
  BY <1>0, <1>17 DEF IODeliver, TypeOK, IOIdle
<1>18. CASE CloseAll
  <2>1. \A c \in Conns : c > opened => conn'[c] = conn[c]
    BY <1>0, <1>18, ConnNumbers DEF CloseAll, KeysMatch, TypeOK
  <2> QED
    BY <1>18, <2>1 DEF CloseAll
<1>19. CASE UNCHANGED vars
  BY <1>19 DEF vars
<1> QED
  BY <1>1, <1>2, <1>3, <1>4, <1>5, <1>6, <1>7, <1>8, <1>9, <1>10, <1>11, <1>12, <1>13,
     <1>14, <1>15, <1>16, <1>17, <1>18, <1>19
     DEF Next, SessionStep, ProducerStep, IOStep, Crashed

-----------------------------------------------------------------------------
(* The two indexes *)

\* How a step that only rewrites flags or drops index entries keeps the keys right.
LEMMA KeysKept ==
  ASSUME Shape, opened' = opened,
         \A c \in Conns : conn'[c].ot = conn[c].ot /\ conn'[c].to = conn[c].to,
         \A k \in OTIds : byOT'[k] \in {byOT[k], NoConn},
         \A k \in TOIds : byTO'[k] \in {byTO[k], NoConn}
  PROVE  KeysMatch'
<1>1. 1..opened \subseteq Conns
  BY ConnNumbers DEF Shape, TypeOK
<1> QED
  BY <1>1 DEF Shape, KeysMatch

LEMMA KeysStep == Shape /\ [Next]_vars => KeysMatch'
<1> SUFFICES ASSUME Shape, [Next]_vars PROVE KeysMatch'
    OBVIOUS
<1>0. TypeOK /\ SessionsOK /\ KeysMatch /\ opened \in 0..MaxConns
  BY DEF Shape, TypeOK
<1>1. ASSUME NEW s \in Sessions, ForwardOpenInsert(s) PROVE KeysMatch'
  <2>1. opened + 1 \in Conns /\ 1..opened \subseteq Conns
    BY <1>0, <1>1, ConnNumbers DEF ForwardOpenInsert
  <2>2. /\ sess[s].body.op = "open" /\ sess[s].to \in TOIds
        /\ sess[s].body.ot \in OTIds
    BY <1>0, <1>1, NewConnectionType DEF ForwardOpenInsert, SessionsOK
  <2>3. conn'[opened + 1].ot = sess[s].body.ot /\ conn'[opened + 1].to = sess[s].to
    BY <1>0, <1>1, <2>1 DEF ForwardOpenInsert, NewConnection, TypeOK
  <2>4. \A c \in 1..opened : conn'[c] = conn[c]
    BY <1>0, <1>1, <2>1, MaxConnsAssumption DEF ForwardOpenInsert, TypeOK
  <2>5. /\ opened' = opened + 1
        /\ 1..opened' = 1..opened \cup {opened + 1} /\ opened + 1 \notin 1..opened
    BY <1>0, <1>1, MaxConnsAssumption DEF ForwardOpenInsert
  <2>6. /\ \A k \in OTIds : byOT'[k] = IF k = sess[s].body.ot THEN opened + 1 ELSE byOT[k]
        /\ \A k \in TOIds : byTO'[k] = IF k = sess[s].to THEN opened + 1 ELSE byTO[k]
    BY <1>0, <1>1 DEF ForwardOpenInsert, IndexNew, TypeOK
  <2> QED
    BY <1>0, <2>2, <2>3, <2>4, <2>5, <2>6 DEF KeysMatch
<1>2. ASSUME NEW s \in Sessions, ForwardCloseRemove(s) PROVE KeysMatch'
  <2>1. /\ opened' = opened /\ conn' = conn
        /\ \/ UNCHANGED <<byOT, byTO>>
           \/ \E c \in Allocated : Unindex(c)
    BY <1>2 DEF ForwardCloseRemove
  <2> QED
    BY <1>0, <2>1, KeysKept DEF Unindex, TypeOK
<1>3. ASSUME NEW c \in Conns, ProducerExpire(c) PROVE KeysMatch'
  BY <1>0, <1>3, KeysKept DEF ProducerExpire, Unindex, TypeOK, Connection
<1>4. CASE CloseAll
  BY <1>0, <1>4, KeysKept DEF CloseAll, TypeOK, Connection
<1>5. CASE UNCHANGED <<byOT, byTO, opened>>
           /\ \A c \in Conns : conn'[c].ot = conn[c].ot /\ conn'[c].to = conn[c].to
  BY <1>5, KeysKept
<1>6. ASSUME NEW s \in Sessions, ForwardCloseMark(s) PROVE KeysMatch'
  BY <1>0, <1>5, <1>6 DEF ForwardCloseMark, TypeOK, Connection
<1>7. ASSUME NEW c \in Conns, FallSilent(c) PROVE KeysMatch'
  BY <1>0, <1>5, <1>7 DEF FallSilent, TypeOK, Connection
<1>8. CASE IOPeer
  BY <1>0, <1>5, <1>8 DEF IOPeer, TypeOK, Connection
<1>9. CASE IOMark
  BY <1>0, <1>5, <1>9 DEF IOMark, TypeOK, Connection
<1>10. ASSUME UNCHANGED <<byOT, byTO, opened, conn>> PROVE KeysMatch'
  BY <1>5, <1>10
<1> QED
  BY <1>1, <1>2, <1>3, <1>4, <1>6, <1>7, <1>8, <1>9, <1>10
     DEF Next, SessionStep, ProducerStep, IOStep, Crashed, vars, RecvRRData, RecvUnitData,
         Receive, DispatchNoEffect, ForwardOpenRefuse, AllocateConnID, ForwardOpenStart, Reply, ProducerCheck,
         ProducerSend, IORecv, IODeliver

\* Every variable keeps its type, and a connection that a session, the I/O loop or an index
\* names has been allocated: Shape always holds.
THEOREM ShapeInvariant == Spec => []Shape
<1>1. Init => Shape
  <2>1. Init => TypeOK
    BY InitType
  <2>2. Init => SessionsOK /\ IOOK /\ UnusedOK /\ KeysMatch
    BY DEF Init, SessionsOK, IOOK, UnusedOK, KeysMatch, Idle, IOIdle, Blank
  <2> QED
    BY <2>1, <2>2 DEF Shape
<1>2. Shape /\ [Next]_vars => Shape'
  BY TypeStep, PCStep, KeysStep DEF Shape
<1> QED
  BY <1>1, <1>2, PTL DEF Spec

\* Every variable keeps its type; in particular the identifiers and program counters
\* are only combined as the handlers combine them.
THEOREM TypeCorrect == Spec => []TypeOK
  BY ShapeInvariant, PTL DEF Shape

-----------------------------------------------------------------------------
(* A closed connection is gone from both indexes *)

\* Because keys match, the two deletes remove every entry of the connection.
LEMMA UnindexRemoves ==
  ASSUME Shape, NEW c \in Conns, Unindex(c)
  PROVE  /\ ~Indexed(c)'
         /\ \A d \in Conns : ~Indexed(d) => ~Indexed(d)'
<1>1. TypeOK /\ KeysMatch /\ NoConn \notin Conns
  BY ConnNumbers DEF Shape, TypeOK
<1>2. \A k \in OTIds : byOT'[k] = IF k = conn[c].ot THEN NoConn ELSE byOT[k]
  BY <1>1 DEF Unindex, TypeOK
<1>3. \A k \in TOIds : byTO'[k] = IF k = conn[c].to THEN NoConn ELSE byTO[k]
  BY <1>1 DEF Unindex, TypeOK
<1> QED
  BY <1>1, <1>2, <1>3 DEF Indexed, KeysMatch

\* A step that leaves the indexes alone and closes only unindexed connections.
LEMMA GoneKept ==
  ASSUME Shape, GoneNotIndexed, UNCHANGED <<byOT, byTO>>,
         \A c \in Conns : conn'[c].closed => conn[c].closed \/ ~Indexed(c),
         \A s \in Sessions : sess'[s].pc = "mark" => sess'[s] = sess[s]
  PROVE  GoneNotIndexed'
  BY DEF GoneNotIndexed, Indexed

LEMMA GoneStep == Shape /\ GoneNotIndexed /\ [Next]_vars => GoneNotIndexed'
<1> SUFFICES ASSUME Shape, GoneNotIndexed, [Next]_vars PROVE GoneNotIndexed'
    OBVIOUS
<1>0. /\ TypeOK /\ SessionsOK /\ UnusedOK /\ KeysMatch
      /\ opened \in 0..MaxConns /\ 1..opened \subseteq Conns /\ NoConn \notin Conns
      /\ \A s \in Sessions : sess[s].pc = "mark" => sess[s].conn \in Conns
  BY ConnNumbers DEF Shape, TypeOK, SessionsOK
<1>1. ASSUME NEW s \in Sessions, RecvRRData(s) \/ RecvUnitData(s) PROVE GoneNotIndexed'
  <2>1. PICK k \in {None} \cup OTIds, body \in Bodies : Receive(s, k, body)
    BY <1>1 DEF RecvRRData, RecvUnitData
  <2>2. \A t \in Sessions : sess'[t].pc = "mark" => sess'[t] = sess[t]
    BY <1>0, <2>1 DEF Receive, TypeOK, Idle
  <2> QED
    BY <2>1, <2>2, GoneKept DEF Receive
<1>2. ASSUME NEW s \in Sessions, DispatchNoEffect(s) \/ ForwardOpenRefuse(s) \/ Reply(s) PROVE GoneNotIndexed'
  <2>1. \A t \in Sessions : sess'[t].pc = "mark" => sess'[t] = sess[t]
    <3>1. CASE DispatchNoEffect(s) \/ ForwardOpenRefuse(s)
      <4>1. Respond(s)
        BY <3>1 DEF DispatchNoEffect, ForwardOpenRefuse
      <4>2. DOMAIN sess = Sessions /\ \A t \in Sessions \ {s} : sess'[t] = sess[t]
        BY <1>0, <4>1 DEF Respond, TypeOK
      <4>3. sess'[s].pc # "mark"
        BY <4>1, <4>2 DEF Respond, Idle
      <4> QED
        BY <4>2, <4>3
    <3>2. CASE Reply(s)
      BY <1>0, <3>2 DEF Reply, TypeOK, Idle
    <3> QED
      BY <1>2, <3>1, <3>2
  <2> QED
    BY <1>2, <2>1, GoneKept DEF DispatchNoEffect, ForwardOpenRefuse, Reply
<1>3. ASSUME NEW s \in Sessions, AllocateConnID(s) PROVE GoneNotIndexed'
  BY <1>0, <1>3, GoneKept DEF AllocateConnID, TypeOK, SessionState
<1>4. ASSUME NEW s \in Sessions, ForwardOpenInsert(s) PROVE GoneNotIndexed'
  <2>1. /\ opened + 1 \in Conns /\ opened + 1 \notin 1..opened
        /\ ~conn'[opened + 1].closed
        /\ \A c \in Conns \ {opened + 1} : conn'[c] = conn[c]
    BY <1>0, <1>4, ConnNumbers DEF ForwardOpenInsert, NewConnection, TypeOK
  <2>2. /\ \A k \in OTIds : byOT'[k] \in {byOT[k], opened + 1}
        /\ \A k \in TOIds : byTO'[k] \in {byTO[k], opened + 1}
    BY <1>0, <1>4 DEF ForwardOpenInsert, IndexNew, TypeOK
  <2>3. \A t \in Sessions : sess'[t].pc = "mark" => sess'[t] = sess[t] /\ sess[t].conn # opened + 1
    BY <1>0, <1>4, <2>1 DEF ForwardOpenInsert, TypeOK, SessionState, SessionsOK
  <2> QED
    BY <1>0, <2>1, <2>2, <2>3 DEF GoneNotIndexed, Indexed
<1>5. ASSUME NEW s \in Sessions, ForwardOpenStart(s) PROVE GoneNotIndexed'
  BY <1>0, <1>5, GoneKept DEF ForwardOpenStart, Respond, TypeOK, Idle
<1>6. ASSUME NEW s \in Sessions, ForwardCloseRemove(s) PROVE GoneNotIndexed'
  <2>1. ASSUME Respond(s), UNCHANGED <<byOT, byTO>> PROVE GoneNotIndexed'
    BY <1>0, <1>6, <2>1, GoneKept DEF ForwardCloseRemove, Respond, TypeOK, Idle
  <2>2. ASSUME NEW c \in Allocated, Unindex(c),
               sess' = [sess EXCEPT ![s].pc = "mark", ![s].conn = c]
        PROVE  GoneNotIndexed'
    <3>1. c \in Conns /\ conn' = conn
      BY <1>0, <1>6 DEF Allocated, ForwardCloseRemove
    <3>2. sess'[s].conn = c /\ \A t \in Sessions \ {s} : sess'[t] = sess[t]
      BY <1>0, <2>2 DEF TypeOK, SessionState
    <3> QED
      BY <1>0, <2>2, <3>1, <3>2, UnindexRemoves DEF GoneNotIndexed
  <2> QED
    BY <1>6, <2>1, <2>2 DEF ForwardCloseRemove
<1>7. ASSUME NEW s \in Sessions, ForwardCloseMark(s) PROVE GoneNotIndexed'
  <2>1. \A c \in Conns : conn'[c].closed => conn[c].closed \/ c = sess[s].conn
    BY <1>0, <1>7 DEF ForwardCloseMark, TypeOK, Connection
  <2>2. ~Indexed(sess[s].conn)
    BY <1>7 DEF ForwardCloseMark, GoneNotIndexed
  <2>3. \A t \in Sessions : sess'[t].pc = "mark" => sess'[t] = sess[t]
    BY <1>0, <1>7 DEF ForwardCloseMark, Respond, TypeOK, Idle
  <2> QED
    BY <1>7, <2>1, <2>2, <2>3, GoneKept DEF ForwardCloseMark
<1>8. ASSUME NEW c \in Conns, ProducerCheck(c) \/ ProducerSend(c) PROVE GoneNotIndexed'
  BY <1>8, GoneKept DEF ProducerCheck, ProducerSend
<1>9. ASSUME NEW c \in Conns, ProducerExpire(c) PROVE GoneNotIndexed'
  <2>1. Unindex(c) /\ sess' = sess
    BY <1>9 DEF ProducerExpire
  <2>2. \A d \in Conns : conn'[d].closed => conn[d].closed \/ d = c
    BY <1>0, <1>9 DEF ProducerExpire, TypeOK, Connection
  <2> QED
    BY <1>0, <2>1, <2>2, UnindexRemoves DEF GoneNotIndexed
<1>10. ASSUME NEW c \in Conns, FallSilent(c) PROVE GoneNotIndexed'
  BY <1>0, <1>10, GoneKept DEF FallSilent, TypeOK, Connection
<1>11. CASE IORecv \/ IODeliver
  BY <1>11, GoneKept DEF IORecv, IODeliver
<1>12. CASE IOPeer \/ IOMark
  <2>1. \A c \in Conns : conn'[c].closed = conn[c].closed
    <3>1. CASE IOPeer
      BY <1>0, <3>1 DEF IOPeer, TypeOK, Connection
    <3>2. CASE IOMark
      BY <1>0, <3>2 DEF IOMark, TypeOK, Connection
    <3> QED
      BY <1>12, <3>1, <3>2
  <2> QED
    BY <1>12, <2>1, GoneKept DEF IOPeer, IOMark
<1>13. CASE CloseAll
  <2>1. /\ \A k \in OTIds : byOT'[k] = NoConn
        /\ \A k \in TOIds : byTO'[k] = NoConn
        /\ sess' = sess
    BY <1>13 DEF CloseAll
  <2> QED
    BY <1>0, <2>1 DEF GoneNotIndexed, Indexed
<1>14. CASE UNCHANGED vars
  BY <1>14, GoneKept DEF vars
<1> QED
  BY <1>1, <1>2, <1>3, <1>4, <1>5, <1>6, <1>7, <1>8, <1>9, <1>10, <1>11, <1>12, <1>13, <1>14
     DEF Next, SessionStep, ProducerStep, IOStep, Crashed

-----------------------------------------------------------------------------
(* What any step does to a connection and to its producer *)

\* Identifiers never change once allocated, and a close is final.
LEMMA ConnectionStep ==
  ASSUME Shape, [Next]_vars
  PROVE  /\ opened' \in {opened, opened + 1}
         /\ \A c \in Conns : conn[c].closed => conn'[c].closed
         /\ \A c \in 1..opened : conn'[c].ot = conn[c].ot
<1> DEFINE Goal == /\ opened' \in {opened, opened + 1}
                   /\ \A c \in Conns : conn[c].closed => conn'[c].closed
                   /\ \A c \in 1..opened : conn'[c].ot = conn[c].ot
<1>0. /\ TypeOK /\ UnusedOK /\ opened \in 0..MaxConns
      /\ 1..opened \subseteq Conns
  BY ConnNumbers DEF Shape, TypeOK
<1>1. ASSUME NEW s \in Sessions, ForwardOpenInsert(s) PROVE Goal
  <2>1. /\ opened + 1 \in Conns /\ opened + 1 \notin 1..opened /\ opened + 1 > opened
        /\ \A c \in Conns \ {opened + 1} : conn'[c] = conn[c]
    BY <1>0, <1>1, ConnNumbers DEF ForwardOpenInsert, TypeOK
  <2> QED
    BY <1>0, <1>1, <2>1 DEF ForwardOpenInsert, UnusedOK
<1>2. ASSUME NEW s \in Sessions, ForwardCloseMark(s) PROVE Goal
  BY <1>0, <1>2 DEF ForwardCloseMark, TypeOK, Connection
<1>3. ASSUME NEW c \in Conns, ProducerExpire(c) PROVE Goal
  BY <1>0, <1>3 DEF ProducerExpire, TypeOK, Connection
<1>4. ASSUME NEW c \in Conns, FallSilent(c) PROVE Goal
  BY <1>0, <1>4 DEF FallSilent, TypeOK, Connection
<1>5. CASE IOPeer
  BY <1>0, <1>5 DEF IOPeer, TypeOK, Connection
<1>6. CASE IOMark
  BY <1>0, <1>6 DEF IOMark, TypeOK, Connection
<1>7. CASE CloseAll
  BY <1>0, <1>7 DEF CloseAll, TypeOK, Connection
<1>8. ASSUME UNCHANGED <<opened, conn>> PROVE Goal
  BY <1>8
<1> QED
  BY <1>1, <1>2, <1>3, <1>4, <1>5, <1>6, <1>7, <1>8
     DEF Next, SessionStep, ProducerStep, IOStep, Crashed, vars, RecvRRData, RecvUnitData,
         Receive, DispatchNoEffect, ForwardOpenRefuse, AllocateConnID, ForwardOpenStart, ForwardCloseRemove, Reply,
         ProducerCheck, ProducerSend, IORecv, IODeliver

\* The turns of the producer's loop that matter: it takes up a packet only for an
\* open connection, ends only for a closed one, and counts a packet as stale only
\* when it was taken up before the close.
SendTurn(c) ==
  \/ prod'[c] = prod[c] /\ staleSends'[c] = staleSends[c]
  \/ prod'[c] \in {"check", "none", "expire"} /\ staleSends'[c] = staleSends[c]
  \/ prod'[c] = "send" /\ ~conn[c].closed /\ staleSends'[c] = staleSends[c]
  \/ prod'[c] = "exited" /\ conn'[c].closed /\ staleSends'[c] = staleSends[c]
  \/ /\ prod[c] = "send" /\ prod'[c] = "check" /\ conn'[c] = conn[c]
     /\ staleSends'[c] = staleSends[c] + (IF conn[c].closed THEN 1 ELSE 0)

LEMMA ProducerTurns ==
  ASSUME Shape, [Next]_vars
  PROVE  \A c \in Conns : SendTurn(c)
<1>0. TypeOK
  BY DEF Shape
<1>1. ASSUME NEW s \in Sessions, ForwardOpenStart(s) PROVE \A c \in Conns : SendTurn(c)
  BY <1>0, <1>1 DEF ForwardOpenStart, SendTurn, TypeOK
<1>2. ASSUME NEW c \in Conns, ProducerCheck(c) PROVE \A d \in Conns : SendTurn(d)
  BY <1>0, <1>2 DEF ProducerCheck, SendTurn, TypeOK
<1>3. ASSUME NEW c \in Conns, ProducerSend(c) PROVE \A d \in Conns : SendTurn(d)
  BY <1>0, <1>3 DEF ProducerSend, SendTurn, TypeOK
<1>4. ASSUME NEW c \in Conns, ProducerExpire(c) PROVE \A d \in Conns : SendTurn(d)
  BY <1>0, <1>4 DEF ProducerExpire, SendTurn, TypeOK, Connection
<1>5. ASSUME UNCHANGED <<prod, staleSends>> PROVE \A c \in Conns : SendTurn(c)
  BY <1>5 DEF SendTurn
<1> QED
  BY <1>1, <1>2, <1>3, <1>4, <1>5
     DEF Next, SessionStep, ProducerStep, IOStep, Crashed, vars, RecvRRData, RecvUnitData,
         Receive, DispatchNoEffect, ForwardOpenRefuse, AllocateConnID, ForwardOpenInsert, ForwardCloseRemove,
         ForwardCloseMark, Reply, FallSilent, IORecv, IOPeer, IOMark, IODeliver, CloseAll

LEMMA SendsStep ==
  Shape /\ SendsBounded /\ ExitsOK /\ [Next]_vars => SendsBounded' /\ ExitsOK'
<1> SUFFICES ASSUME Shape, SendsBounded, ExitsOK, [Next]_vars, NEW c \in Conns
             PROVE  /\ staleSends'[c] <= 1
                    /\ ~conn'[c].closed \/ prod'[c] = "send" => staleSends'[c] = 0
                    /\ prod'[c] = "exited" => conn'[c].closed
    BY DEF SendsBounded, ExitsOK
<1>1. SendTurn(c)
  BY ProducerTurns
<1>2. conn[c].closed => conn'[c].closed
  BY ConnectionStep
<1>3. staleSends[c] \in Nat
  BY DEF Shape, TypeOK
<1> QED
  BY <1>1, <1>2, <1>3 DEF SendTurn, SendsBounded, ExitsOK

\* The I/O loop takes up only connections that are open, and counts an output as
\* stale only when the connection was closed after that.
LEMMA DeliveriesStep ==
  Shape /\ GoneNotIndexed /\ DeliveriesBounded /\ [Next]_vars => DeliveriesBounded'
<1> SUFFICES ASSUME Shape, GoneNotIndexed, DeliveriesBounded, [Next]_vars, NEW c \in Conns
             PROVE  /\ staleDeliveries'[c] <= 1
                    /\ ~conn'[c].closed \/ io'.conn = c => staleDeliveries'[c] = 0
    BY DEF DeliveriesBounded
<1>0. TypeOK /\ IOOK /\ NoConn \notin Conns /\ c # NoConn
  BY ConnNumbers DEF Shape, TypeOK
<1>1. conn[c].closed => conn'[c].closed
  BY ConnectionStep
<1>2. /\ staleDeliveries[c] \in Nat /\ staleDeliveries[c] <= 1
      /\ ~conn[c].closed \/ io.conn = c => staleDeliveries[c] = 0
  BY DEF Shape, TypeOK, DeliveriesBounded
<1>3. CASE IORecv
  <2>1. \E k \in OTIds : byOT[k] # NoConn /\ io'.conn = byOT[k]
    BY <1>3 DEF IORecv
  <2>2. io'.conn = c => ~conn[c].closed
    BY <2>1 DEF GoneNotIndexed, Indexed
  <2> QED
    BY <1>1, <1>2, <1>3, <2>2 DEF IORecv
<1>4. CASE IODeliver
  <2>1. io'.conn = NoConn /\ conn' = conn
    BY <1>4 DEF IODeliver, IOIdle
  <2>2. staleDeliveries'[c] = IF io.conn = c
                              THEN staleDeliveries[c] + (IF conn[c].closed THEN 1 ELSE 0)
                              ELSE staleDeliveries[c]
    BY <1>0, <1>4 DEF IODeliver, TypeOK
  <2> QED
    BY <1>0, <1>2, <2>1, <2>2
<1>5. CASE IOPeer
  BY <1>0, <1>1, <1>2, <1>5 DEF IOPeer, TypeOK, IOState
<1>6. CASE IOMark
  BY <1>0, <1>1, <1>2, <1>6 DEF IOMark, TypeOK, IOState, IOIdle
<1>7. ASSUME UNCHANGED <<io, staleDeliveries>>
      PROVE  /\ staleDeliveries'[c] <= 1
             /\ ~conn'[c].closed \/ io'.conn = c => staleDeliveries'[c] = 0
  BY <1>1, <1>2, <1>7
<1> QED
  BY <1>3, <1>4, <1>5, <1>6, <1>7
     DEF Next, SessionStep, ProducerStep, IOStep, Crashed, vars, RecvRRData, RecvUnitData,
         Receive, DispatchNoEffect, ForwardOpenRefuse, AllocateConnID, ForwardOpenInsert, ForwardOpenStart,
         ForwardCloseRemove, ForwardCloseMark, Reply, ProducerCheck, ProducerSend,
         ProducerExpire, FallSilent, CloseAll

-----------------------------------------------------------------------------
(* The theorems *)

\* What the indexes, the program counters and the closed flags say of each other (IInv), in
\* every reachable state: the strengthening the theorems below rest on.
THEOREM InductiveInvariant == Spec => []IInv
<1>1. Init => GoneNotIndexed /\ SendsBounded /\ DeliveriesBounded /\ ExitsOK
  BY DEF Init, GoneNotIndexed, SendsBounded, DeliveriesBounded, ExitsOK, Blank, Idle
<1>2. Shape /\ [Next]_vars /\ GoneNotIndexed /\ SendsBounded /\ DeliveriesBounded /\ ExitsOK
        => GoneNotIndexed' /\ SendsBounded' /\ DeliveriesBounded' /\ ExitsOK'
  BY GoneStep, SendsStep, DeliveriesStep
<1> QED
  BY <1>1, <1>2, ShapeInvariant, PTL DEF Spec, IInv

\* No lookup, by a session or by the I/O loop, ever finds a connection that
\* Forward_Close, a timeout or closeAll has closed.
THEOREM ClosedConnectionsGone == Spec => []ClosedNotIndexed
<1>1. IInv => ClosedNotIndexed
  BY ConnNumbers DEF IInv, Shape, TypeOK, GoneNotIndexed, ClosedNotIndexed, Allocated
<1> QED
  BY <1>1, InductiveInvariant, PTL

\* No connection stays open without its producer.
THEOREM ProducersOutliveConnections == Spec => []ExitedMeansClosed
<1>1. IInv => ExitedMeansClosed
  BY ConnNumbers DEF IInv, Shape, TypeOK, ExitsOK, ExitedMeansClosed, Allocated
<1> QED
  BY <1>1, InductiveInvariant, PTL

\* A close stops the inputs after at most one packet, however many sessions and
\* connections there are.
THEOREM StaleSendsBounded == Spec => []AtMostOneStaleSend
<1>1. IInv => AtMostOneStaleSend
  BY DEF IInv, SendsBounded, AtMostOneStaleSend
<1> QED
  BY <1>1, InductiveInvariant, PTL

\* A close stops the outputs after at most one datagram.
THEOREM StaleDeliveriesBounded == Spec => []AtMostOneStaleDelivery
<1>1. IInv => AtMostOneStaleDelivery
  BY DEF IInv, DeliveriesBounded, AtMostOneStaleDelivery
<1> QED
  BY <1>1, InductiveInvariant, PTL

-----------------------------------------------------------------------------
(* How a connection can be lost *)

\* One connection's part of LostOnlyByOTReuse.
Accounted(c) ==
  \/ conn[c].closed \/ byOT[conn[c].ot] = c \/ ClosePending(c)
  \/ \E d \in 1..opened : d # c /\ conn[d].ot = conn[c].ot /\ (d > c \/ conn[d].closed)

LEMMA AccountedKept ==
  ASSUME Shape, [Next]_vars, NEW c \in 1..opened, Accounted(c),
         byOT[conn[c].ot] = c => Accounted(c)', ClosePending(c) => Accounted(c)'
  PROVE  Accounted(c)'
<1>1. /\ 1..opened \subseteq Conns /\ 1..opened \subseteq 1..opened'
      /\ c \in Conns /\ conn'[c].ot = conn[c].ot /\ (conn[c].closed => conn'[c].closed)
  BY ConnNumbers, ConnectionStep DEF Shape, TypeOK
<1>2. ASSUME NEW d \in 1..opened, d # c, conn[d].ot = conn[c].ot, d > c \/ conn[d].closed
      PROVE  Accounted(c)'
  <2>1. conn'[d].ot = conn[d].ot /\ (conn[d].closed => conn'[d].closed)
    BY <1>1, ConnectionStep
  <2> QED
    BY <1>1, <1>2, <2>1 DEF Accounted
<1> QED
  BY <1>1, <1>2 DEF Accounted

LEMMA PendingKept ==
  ASSUME NEW c, ClosePending(c),
         \A s \in Sessions : sess[s].pc = "mark" => sess'[s] = sess[s]
  PROVE  ClosePending(c)'
  BY DEF ClosePending

LEMMA LostStep ==
  ASSUME Shape, [Next]_vars, \A c \in 1..opened : Accounted(c)
  PROVE  \A c \in 1..opened' : Accounted(c)'
<1>0. /\ TypeOK /\ SessionsOK /\ UnusedOK /\ KeysMatch /\ opened \in 0..MaxConns
      /\ 1..opened \subseteq Conns /\ NoConn \notin Conns /\ Conns \subseteq Nat
  BY ConnNumbers DEF Shape, TypeOK
<1>1. ASSUME NEW s \in Sessions, ForwardOpenInsert(s), NEW c \in 1..opened'
      PROVE  Accounted(c)'
  <2> DEFINE new == opened + 1
  <2>1. /\ new \in Conns /\ new \notin 1..opened /\ opened' = new /\ 1..opened' = 1..opened \cup {new}
        /\ sess[s].body.ot \in OTIds /\ sess[s].to \in TOIds
        /\ \A d \in Conns \ {new} : conn'[d] = conn[d]
        /\ conn'[new].ot = sess[s].body.ot
    <3>1. /\ new \in Conns /\ new \notin 1..opened /\ opened' = new
          /\ 1..opened' = 1..opened \cup {new}
      BY <1>0, <1>1, ConnNumbers, MaxConnsAssumption DEF ForwardOpenInsert
    <3>2. sess[s].body.ot \in OTIds /\ sess[s].to \in TOIds
      BY <1>0, <1>1, NewConnectionType DEF ForwardOpenInsert, SessionsOK
    <3>3. /\ \A d \in Conns \ {new} : conn'[d] = conn[d]
          /\ conn'[new].ot = sess[s].body.ot
      BY <1>0, <1>1, <3>1 DEF ForwardOpenInsert, NewConnection, TypeOK
    <3> QED
      BY <3>1, <3>2, <3>3
  <2>2. \A k \in OTIds : byOT'[k] = IF k = sess[s].body.ot THEN new ELSE byOT[k]
    BY <1>0, <1>1 DEF ForwardOpenInsert, IndexNew, TypeOK
  <2>3. CASE c = new
    BY <2>1, <2>2, <2>3 DEF Accounted
  <2>4. CASE c \in 1..opened
    <3>1. conn'[c] = conn[c] /\ new > c /\ new # c /\ new \in 1..opened'
      BY <1>0, <2>1, <2>4
    <3>2. ASSUME byOT[conn[c].ot] = c PROVE Accounted(c)'
      <4>1. CASE conn[c].ot = sess[s].body.ot
        BY <2>1, <3>1, <4>1 DEF Accounted
      <4>2. CASE conn[c].ot # sess[s].body.ot
        <5>1. byOT'[conn[c].ot] = byOT[conn[c].ot]
          BY <1>0, <1>1, <4>2 DEF ForwardOpenInsert, IndexNew, TypeOK
        <5> QED
          BY <3>1, <3>2, <5>1 DEF Accounted
      <4> QED
        BY <4>1, <4>2
    <3>3. \A t \in Sessions : sess[t].pc = "mark" => sess'[t] = sess[t]
      BY <1>0, <1>1 DEF ForwardOpenInsert, TypeOK
    <3> QED
      BY <2>4, <3>2, <3>3, AccountedKept, PendingKept DEF Accounted
  <2> QED
    BY <2>1, <2>3, <2>4
<1>2. ASSUME NEW s \in Sessions, ForwardCloseRemove(s), NEW c \in 1..opened'
      PROVE  Accounted(c)'
  <2>1. opened' = opened /\ conn' = conn /\ c \in 1..opened /\ c \in Conns
    BY <1>0, <1>2 DEF ForwardCloseRemove
  <2>2. \A t \in Sessions : sess[t].pc = "mark" => sess'[t] = sess[t]
    BY <1>0, <1>2 DEF ForwardCloseRemove, Respond, TypeOK
  <2>3. ASSUME byOT[conn[c].ot] = c PROVE Accounted(c)'
    <3>1. CASE UNCHANGED byOT
      BY <2>1, <2>3, <3>1 DEF Accounted
    <3>2. ASSUME NEW x \in Allocated, byOT[conn[x].ot] = x, Unindex(x),
                 sess' = [sess EXCEPT ![s].pc = "mark", ![s].conn = x]
          PROVE  Accounted(c)'
      <4>1. CASE x = c
        BY <1>0, <3>2, <4>1 DEF TypeOK, SessionState, Accounted, ClosePending
      <4>2. CASE x # c
        <5>1. byOT'[conn[c].ot] = c
          BY <1>0, <2>1, <2>3, <3>2, <4>2 DEF Unindex, TypeOK
        <5> QED
          BY <2>1, <5>1 DEF Accounted
      <4> QED
        BY <4>1, <4>2
    <3> QED
      BY <1>2, <3>1, <3>2 DEF ForwardCloseRemove
  <2> QED
    BY <2>1, <2>2, <2>3, AccountedKept, PendingKept DEF Accounted
<1>3. ASSUME NEW s \in Sessions, ForwardCloseMark(s), NEW c \in 1..opened'
      PROVE  Accounted(c)'
  <2>1. UNCHANGED <<opened, byOT>> /\ c \in 1..opened /\ c \in Conns /\ conn'[c].ot = conn[c].ot
    BY <1>0, <1>3, ConnectionStep DEF ForwardCloseMark
  <2>2. sess[s].conn = c => conn'[c].closed
    BY <1>0, <1>3, <2>1 DEF ForwardCloseMark, TypeOK, Connection
  <2>3. \A t \in Sessions \ {s} : sess'[t] = sess[t]
    BY <1>0, <1>3 DEF ForwardCloseMark, Respond, TypeOK
  <2>4. ClosePending(c) => conn'[c].closed \/ ClosePending(c)'
    BY <2>2, <2>3 DEF ClosePending
  <2> QED
    BY <2>1, <2>4, AccountedKept DEF Accounted
<1>4. ASSUME NEW x \in Conns, ProducerExpire(x), NEW c \in 1..opened'
      PROVE  Accounted(c)'
  <2>1. /\ opened' = opened /\ sess' = sess /\ c \in 1..opened /\ c \in Conns
        /\ conn'[c].ot = conn[c].ot /\ conn'[x].ot = conn[x].ot /\ conn'[x].closed
    BY <1>0, <1>4, ConnectionStep DEF ProducerExpire, TypeOK, Connection
  <2>2. x \in 1..opened
    BY <1>0, <1>4, MaxConnsAssumption DEF ProducerExpire, UnusedOK, Conns
  <2>3. ASSUME byOT[conn[c].ot] = c PROVE Accounted(c)'
    <3>1. CASE conn[x].ot = conn[c].ot
      BY <2>1, <2>2, <3>1 DEF Accounted
    <3>2. CASE conn[x].ot # conn[c].ot
      <4>1. byOT'[conn[c].ot] = byOT[conn[c].ot]
        BY <1>0, <1>4, <3>2 DEF ProducerExpire, Unindex, TypeOK
      <4> QED
        BY <2>1, <2>3, <4>1 DEF Accounted
    <3> QED
      BY <3>1, <3>2
  <2> QED
    BY <2>1, <2>3, AccountedKept, PendingKept DEF Accounted
<1>5. ASSUME CloseAll, NEW c \in 1..opened' PROVE Accounted(c)'
  <2>1. opened' = opened /\ sess' = sess /\ c \in 1..opened /\ c \in Conns
    BY <1>0, <1>5 DEF CloseAll
  <2>2. ASSUME byOT[conn[c].ot] = c PROVE conn'[c].closed
    <3>1. conn[c].ot \in OTIds
      BY <1>0, <2>1 DEF KeysMatch
    <3> QED
      BY <1>0, <1>5, <2>1, <2>2, <3>1 DEF CloseAll, TypeOK, Connection
  <2> QED
    BY <2>1, <2>2, AccountedKept, PendingKept DEF Accounted
<1>6. ASSUME UNCHANGED <<opened, byOT>>,
             \A s \in Sessions : sess[s].pc = "mark" => sess'[s] = sess[s],
             NEW c \in 1..opened'
      PROVE  Accounted(c)'
  <2>1. conn'[c].ot = conn[c].ot /\ c \in 1..opened
    BY <1>6, ConnectionStep
  <2> QED
    BY <1>6, <2>1, AccountedKept, PendingKept DEF Accounted
<1>7. ASSUME NEW s \in Sessions,
             \/ RecvRRData(s) \/ RecvUnitData(s) \/ DispatchNoEffect(s) \/ ForwardOpenRefuse(s)
             \/ AllocateConnID(s) \/ ForwardOpenStart(s) \/ Reply(s)
      PROVE  /\ UNCHANGED <<opened, byOT>> /\ sess[s].pc # "mark"
             /\ \A t \in Sessions \ {s} : sess'[t] = sess[t]
  <2>1. CASE RecvRRData(s) \/ RecvUnitData(s)
    <3>1. PICK k \in {None} \cup OTIds, body \in Bodies : Receive(s, k, body) /\ sess[s].pc = "idle"
      BY <2>1 DEF RecvRRData, RecvUnitData
    <3> QED
      BY <1>0, <3>1 DEF Receive, TypeOK
  <2>2. CASE DispatchNoEffect(s) \/ ForwardOpenRefuse(s)
    BY <1>0, <2>2 DEF DispatchNoEffect, ForwardOpenRefuse, Respond, TypeOK
  <2>3. CASE AllocateConnID(s)
    BY <1>0, <2>3 DEF AllocateConnID, TypeOK
  <2>4. CASE ForwardOpenStart(s)
    BY <1>0, <2>4 DEF ForwardOpenStart, Respond, TypeOK
  <2>5. CASE Reply(s)
    BY <1>0, <2>5 DEF Reply, TypeOK
  <2> QED
    BY <1>7, <2>1, <2>2, <2>3, <2>4, <2>5
<1>8. ASSUME NEW c \in Conns, ProducerCheck(c) \/ ProducerSend(c) \/ FallSilent(c)
      PROVE  UNCHANGED <<opened, byOT, sess>>
  BY <1>8 DEF ProducerCheck, ProducerSend, FallSilent
<1>9. ASSUME IORecv \/ IOStep \/ UNCHANGED vars
      PROVE  UNCHANGED <<opened, byOT, sess>>
  BY <1>9 DEF IORecv, IOStep, IOPeer, IOMark, IODeliver, vars
<1> QED
  BY <1>1, <1>2, <1>3, <1>4, <1>5, <1>6, <1>7, <1>8, <1>9
     DEF Next, SessionStep, ProducerStep, Crashed

\* An open connection drops out of byOT only when its O->T identifier is used again,
\* by a later Forward_Open or by an earlier connection that was closed late.
THEOREM ConnectionsLostOnlyByReuse == Spec => []LostOnlyByOTReuse
<1> DEFINE Lost == \A c \in 1..opened : Accounted(c)
<1>1. Init => Lost
  BY DEF Init
<1>2. Shape /\ Lost /\ [Next]_vars => Lost'
  BY LostStep
<1>3. Lost => LostOnlyByOTReuse
  BY DEF Accounted, LostOnlyByOTReuse, Allocated
<1> HIDE DEF Lost
<1> QED
  BY <1>1, <1>2, <1>3, ShapeInvariant, PTL DEF Spec


-----------------------------------------------------------------------------
(* The two indexes agree *)

\* The premise of IndexesAgree: no two connections drew the same T->O identifier.
DistinctTO == \A c, d \in 1..opened : conn[c].to = conn[d].to => c = d

\* Reachable by its O->T identifier, and then reserved under its T->O identifier.
Agree(c) == byOT[conn[c].ot] = c => byTO[conn[c].to] = c

\* A step that deletes no key, or both keys of one connection.
LEMMA AgreeKept ==
  ASSUME Shape, DistinctTO => \A c \in 1..opened : Agree(c), opened' = opened,
         \A c \in Conns : conn'[c].ot = conn[c].ot /\ conn'[c].to = conn[c].to,
         UNCHANGED <<byOT, byTO>> \/ \E x \in 1..opened : Unindex(x)
  PROVE  DistinctTO' => \A c \in 1..opened' : Agree(c)'
<1>0. /\ TypeOK /\ KeysMatch /\ 1..opened \subseteq Conns /\ NoConn \notin Conns
  BY ConnNumbers DEF Shape, TypeOK
<1> SUFFICES ASSUME DistinctTO', NEW c \in 1..opened' PROVE Agree(c)'
    OBVIOUS
<1>1. c \in 1..opened /\ c \in Conns /\ conn'[c].ot = conn[c].ot /\ conn'[c].to = conn[c].to
  BY <1>0
<1>2. DistinctTO
  BY <1>0 DEF DistinctTO
<1>3. Agree(c)
  BY <1>1, <1>2
<1>4. CASE UNCHANGED <<byOT, byTO>>
  BY <1>1, <1>3, <1>4 DEF Agree
<1>5. ASSUME NEW x \in 1..opened, Unindex(x) PROVE Agree(c)'
  <2>1. /\ conn[c].ot \in OTIds /\ conn[c].to \in TOIds
    BY <1>0, <1>1 DEF KeysMatch
  <2>2. CASE x = c
    BY <1>0, <1>1, <1>5, <2>1, <2>2 DEF Unindex, Agree, TypeOK
  <2>3. CASE x # c
    <3>1. conn[x].to # conn[c].to
      BY <1>1, <1>2, <2>3 DEF DistinctTO
    <3>2. byTO'[conn[c].to] = byTO[conn[c].to]
      BY <1>0, <1>5, <2>1, <3>1 DEF Unindex, TypeOK
    <3>3. byOT'[conn[c].ot] \in {byOT[conn[c].ot], NoConn}
      BY <1>0, <1>5, <2>1 DEF Unindex, TypeOK
    <3> QED
      BY <1>0, <1>1, <1>3, <3>2, <3>3 DEF Agree
  <2> QED
    BY <2>2, <2>3
<1> QED
  BY <1>4, <1>5

LEMMA AgreeStep ==
  ASSUME Shape, [Next]_vars, DistinctTO => \A c \in 1..opened : Agree(c)
  PROVE  DistinctTO' => \A c \in 1..opened' : Agree(c)'
<1> DEFINE Goal == DistinctTO' => \A c \in 1..opened' : Agree(c)'
<1> SUFFICES Goal
    OBVIOUS
<1>0. /\ TypeOK /\ SessionsOK /\ UnusedOK /\ KeysMatch /\ opened \in 0..MaxConns
      /\ 1..opened \subseteq Conns /\ NoConn \notin Conns
  BY ConnNumbers DEF Shape, TypeOK
<1>1. ASSUME NEW s \in Sessions, ForwardOpenInsert(s), DistinctTO', NEW c \in 1..opened'
      PROVE  Agree(c)'
  <2> DEFINE new == opened + 1
  <2>1. new \in Conns /\ new \notin 1..opened /\ 1..opened' = 1..opened \cup {new}
    BY <1>0, <1>1, ConnNumbers, MaxConnsAssumption DEF ForwardOpenInsert
  <2>2. sess[s].body.ot \in OTIds /\ sess[s].to \in TOIds
    BY <1>0, <1>1, NewConnectionType DEF ForwardOpenInsert, SessionsOK
  <2>3. /\ \A d \in 1..opened : conn'[d] = conn[d]
        /\ conn'[new].to = sess[s].to
    BY <1>0, <1>1, <2>1 DEF ForwardOpenInsert, NewConnection, TypeOK
  <2>4. /\ \A k \in OTIds : byOT'[k] \in {byOT[k], new}
        /\ \A k \in TOIds : byTO'[k] = IF k = sess[s].to THEN new ELSE byTO[k]
    BY <1>0, <1>1 DEF ForwardOpenInsert, IndexNew, TypeOK
  <2>5. CASE c = new
    BY <2>2, <2>3, <2>4, <2>5 DEF Agree
  <2>6. CASE c \in 1..opened
    <3>1. conn[c].ot \in OTIds /\ conn[c].to \in TOIds /\ conn'[c] = conn[c] /\ c # new
      BY <1>0, <2>1, <2>3, <2>6 DEF KeysMatch
    <3>2. conn[c].to # sess[s].to
      BY <1>1, <2>1, <2>3, <3>1 DEF DistinctTO
    <3>3. DistinctTO
      BY <1>1, <2>1, <2>3 DEF DistinctTO
    <3>4. Agree(c)
      BY <2>6, <3>3
    <3> QED
      BY <2>4, <3>1, <3>2, <3>4 DEF Agree
  <2> QED
    BY <2>1, <2>5, <2>6
<1>2. ASSUME NEW s \in Sessions, ForwardCloseRemove(s) PROVE Goal
  <2>1. /\ opened' = opened /\ conn' = conn
        /\ UNCHANGED <<byOT, byTO>> \/ \E c \in 1..opened : Unindex(c)
    BY <1>2 DEF ForwardCloseRemove, Allocated
  <2> QED
    BY <2>1, AgreeKept
<1>3. ASSUME NEW c \in Conns, ProducerExpire(c) PROVE Goal
  <2>1. c \in 1..opened
    BY <1>0, <1>3, MaxConnsAssumption DEF ProducerExpire, UnusedOK, Conns
  <2>2. \A d \in Conns : conn'[d].ot = conn[d].ot /\ conn'[d].to = conn[d].to
    BY <1>0, <1>3 DEF ProducerExpire, TypeOK, Connection
  <2> QED
    BY <1>3, <2>1, <2>2, AgreeKept DEF ProducerExpire
<1>4. CASE CloseAll
  <2>1. \A k \in OTIds : byOT'[k] = NoConn
    BY <1>4 DEF CloseAll
  <2>2. opened' = opened /\ \A c \in 1..opened : conn'[c].ot \in OTIds /\ c # NoConn
    BY <1>0, <1>4 DEF CloseAll, KeysMatch, TypeOK, Connection
  <2> QED
    BY <2>1, <2>2 DEF Agree
<1>5. CASE UNCHANGED <<byOT, byTO, opened>>
           /\ \A c \in Conns : conn'[c].ot = conn[c].ot /\ conn'[c].to = conn[c].to
  BY <1>5, AgreeKept
<1>6. ASSUME NEW s \in Sessions, ForwardCloseMark(s) PROVE Goal
  BY <1>0, <1>5, <1>6 DEF ForwardCloseMark, TypeOK, Connection
<1>7. ASSUME NEW c \in Conns, FallSilent(c) PROVE Goal
  BY <1>0, <1>5, <1>7 DEF FallSilent, TypeOK, Connection
<1>8. CASE IOPeer
  BY <1>0, <1>5, <1>8 DEF IOPeer, TypeOK, Connection
<1>9. CASE IOMark
  BY <1>0, <1>5, <1>9 DEF IOMark, TypeOK, Connection
<1>10. ASSUME UNCHANGED <<byOT, byTO, opened, conn>> PROVE Goal
  BY <1>5, <1>10
<1>11. ASSUME NEW s \in Sessions,
              RecvRRData(s) \/ RecvUnitData(s) \/ DispatchNoEffect(s) \/ ForwardOpenRefuse(s)
                \/ AllocateConnID(s) \/ ForwardOpenStart(s) \/ Reply(s)
       PROVE  Goal
  <2>1. UNCHANGED <<byOT, byTO, opened, conn>>
    BY <1>11 DEF RecvRRData, RecvUnitData, Receive, DispatchNoEffect, ForwardOpenRefuse,
                 AllocateConnID, ForwardOpenStart, Reply
  <2> QED
    BY <1>10, <2>1
<1>12. ASSUME NEW c \in Conns, ProducerCheck(c) \/ ProducerSend(c) PROVE Goal
  <2>1. UNCHANGED <<byOT, byTO, opened, conn>>
    BY <1>12 DEF ProducerCheck, ProducerSend
  <2> QED
    BY <1>10, <2>1
<1>13. CASE IORecv \/ IODeliver \/ UNCHANGED vars
  <2>1. UNCHANGED <<byOT, byTO, opened, conn>>
    BY <1>13 DEF IORecv, IODeliver, vars
  <2> QED
    BY <1>10, <2>1
<1>14. ASSUME NEW s \in Sessions, ForwardOpenInsert(s) PROVE Goal
  BY <1>1, <1>14
<1> HIDE DEF Goal
<1> QED
  BY <1>2, <1>3, <1>4, <1>6, <1>7, <1>8, <1>9, <1>11, <1>12, <1>13, <1>14
     DEF Next, SessionStep, ProducerStep, IOStep, Crashed

\* As long as no two connections drew the same T->O identifier, a connection that
\* scanners can reach by its O->T identifier keeps its T->O identifier reserved:
\* Forward_Open, Forward_Close, expire and closeAll write byOT and byTO together.
THEOREM IndexesStayTogether == Spec => []IndexesAgree
<1> DEFINE Together == DistinctTO => \A c \in 1..opened : Agree(c)
<1>1. Init => Together
  BY DEF Init
<1>2. Shape /\ Together /\ [Next]_vars => Together'
  BY AgreeStep
<1>3. Together => IndexesAgree
  BY DEF DistinctTO, Agree, IndexesAgree, Allocated
<1> HIDE DEF Together
<1> QED
  BY <1>1, <1>2, <1>3, ShapeInvariant, PTL DEF Spec

=============================================================================
