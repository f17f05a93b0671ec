-------------------------- MODULE AdapterServerProofs --------------------------
(***************************************************************************)
(* Safety of AdapterServer for any number of clients and session handles.  *)
(* The wait group is shown to count exactly the loops and the clients'      *)
(* goroutines, from which it follows that none of them runs when Serve has  *)
(* returned; and the entries of the session table are counted.              *)
(***************************************************************************)
EXTENDS AdapterServer, FiniteSetTheorems, TLAPS

\* The goroutines the wait group stands for.
LiveLoops == {l \in Loops : loop[l] \in {"top", "read", "spawn"}}
LiveClients == {c \in Clients : Running(c)}

Counted ==
  /\ IsFiniteSet(LiveClients)
  /\ wg = Cardinality(LiveLoops) + Cardinality(LiveClients)

Serving == serve \in {"select", "closeAll", "wait", "returned"}

\* What each phase of New and Serve says of goroutines and sockets.
Phases ==
  /\ ~Serving => /\ \A l \in Loops : loop[l] = "off"
                 /\ \A c \in Clients : handler[c].pc = "none"
  /\ Serving => \A l \in Loops : loop[l] # "off"
  /\ serve \in {"failed", "closeAll", "wait", "returned"} => socks = {}
  /\ serve = "returned" => wg = 0

\* A client between Accept and go is the only one, and belongs to serveTCP, still counted.
AcceptedHeld ==
  \A c \in Clients : handler[c].pc = "accepted" =>
    /\ loop["tcp"] = "spawn"
    /\ \A d \in Clients : handler[d].pc = "accepted" => d = c

IInv == TypeOK /\ Counted /\ Phases /\ AcceptedHeld

HandlerState == [pc : {"none", "accepted", "top", "read", "ended"}, local : Handles \cup {NoHandle}]

-----------------------------------------------------------------------------
(* The counts *)

LEMMA LoopsFinite ==
  /\ IsFiniteSet(Loops) /\ Cardinality(Loops) = 3
  /\ \A S \in SUBSET Loops : IsFiniteSet(S) /\ Cardinality(S) \in Nat
<1>1. IsFiniteSet({"tcp"}) /\ Cardinality({"tcp"}) = 1
  BY FS_Singleton
<1>2. IsFiniteSet({"tcp"} \cup {"udp"}) /\ Cardinality({"tcp"} \cup {"udp"}) = 2
  BY <1>1, FS_AddElement, "udp" \notin {"tcp"}
<1>3. Loops = ({"tcp"} \cup {"udp"}) \cup {"io"} /\ "io" \notin {"tcp"} \cup {"udp"}
  BY DEF Loops
<1>4. IsFiniteSet(Loops) /\ Cardinality(Loops) = 3
  BY <1>2, <1>3, FS_AddElement
<1> QED
  BY <1>4, FS_Subset, FS_CardinalityType

\* The wait group never goes below zero.
LEMMA CountIsNat ==
  ASSUME Counted PROVE wg \in Nat
<1>1. Cardinality(LiveLoops) \in Nat
  BY LoopsFinite DEF LiveLoops
<1>2. Cardinality(LiveClients) \in Nat
  BY FS_CardinalityType DEF Counted
<1> QED BY <1>1, <1>2 DEF Counted

\* A step that leaves the wait group alone and starts or ends no goroutine.
LEMMA CountKept ==
  ASSUME Counted, UNCHANGED wg, LiveLoops' = LiveLoops, LiveClients' = LiveClients
  PROVE  Counted'
BY DEF Counted

\* The exit of a socket's goroutine.
LEMMA CountLoopExit ==
  ASSUME TypeOK, Counted, NEW l \in Loops, l \in LiveLoops, LoopExit(l)
  PROVE  Counted'
<1>1. LiveLoops' = LiveLoops \ {l}
  BY DEF LiveLoops, LoopExit, TypeOK
<1>2. LiveClients' = LiveClients
  BY DEF LiveClients, Running, LoopExit
<1>3. IsFiniteSet(LiveLoops) /\ Cardinality(LiveLoops) \in Nat
  BY LoopsFinite DEF LiveLoops
<1>4. Cardinality(LiveLoops') = Cardinality(LiveLoops) - 1
  BY <1>1, <1>3, FS_RemoveElement
<1>5. Cardinality(LiveClients) \in Nat
  BY FS_CardinalityType DEF Counted
<1>6. wg' = wg - 1
  BY DEF LoopExit
<1> QED BY <1>2, <1>3, <1>4, <1>5, <1>6 DEF Counted

\* The end of a client's goroutine.
LEMMA CountHandlerEnd ==
  ASSUME TypeOK, Counted, NEW c \in Clients, NEW remove \in BOOLEAN,
         c \in LiveClients, HandlerEnd(c, remove)
  PROVE  Counted'
<1>1. LiveLoops' = LiveLoops
  BY DEF LiveLoops, HandlerEnd
<1>2. LiveClients' = LiveClients \ {c}
  BY DEF LiveClients, Running, HandlerEnd, TypeOK
<1>3. IsFiniteSet(LiveClients) /\ Cardinality(LiveClients) \in Nat
  BY FS_CardinalityType DEF Counted
<1>4. IsFiniteSet(LiveClients') /\ Cardinality(LiveClients') = Cardinality(LiveClients) - 1
  BY <1>2, <1>3, FS_RemoveElement
<1>5. Cardinality(LiveLoops) \in Nat
  BY LoopsFinite DEF LiveLoops
<1>6. wg' = wg - 1
  BY DEF HandlerEnd
<1> QED BY <1>1, <1>3, <1>4, <1>5, <1>6 DEF Counted

\* The start of a client's goroutine.
LEMMA CountSpawn ==
  ASSUME TypeOK, Counted, Spawn
  PROVE  Counted'
<1>1. PICK c \in Clients : handler[c].pc = "accepted" /\ handler' = [handler EXCEPT ![c].pc = "top"]
  BY DEF Spawn
<1>2. LiveLoops' = LiveLoops
  BY DEF LiveLoops, Spawn, TypeOK
<1>3. LiveClients' = LiveClients \cup {c} /\ c \notin LiveClients
  BY <1>1 DEF LiveClients, Running, TypeOK
<1>4. IsFiniteSet(LiveClients) /\ Cardinality(LiveClients) \in Nat
  BY FS_CardinalityType DEF Counted
<1>5. IsFiniteSet(LiveClients') /\ Cardinality(LiveClients') = Cardinality(LiveClients) + 1
  BY <1>3, <1>4, FS_AddElement
<1>6. Cardinality(LiveLoops) \in Nat /\ wg' = wg + 1
  BY LoopsFinite DEF LiveLoops, Spawn
<1> QED BY <1>2, <1>4, <1>5, <1>6 DEF Counted

\* The start of Serve: three goroutines at once.
LEMMA CountServeStart ==
  ASSUME IInv, ServeStart
  PROVE  Counted'
<1>1. LiveLoops = {} /\ LiveLoops' = Loops
  BY DEF IInv, Phases, Serving, LiveLoops, ServeStart, TypeOK
<1>2. LiveClients' = LiveClients
  BY DEF LiveClients, Running, ServeStart
<1>3. Cardinality(LiveLoops) = 0 /\ Cardinality(Loops) = 3
  BY <1>1, LoopsFinite, FS_EmptySet
<1>4. Cardinality(LiveClients) \in Nat
  BY FS_CardinalityType DEF IInv, Counted
<1>5. wg' = wg + 3
  BY DEF ServeStart
<1> QED BY <1>1, <1>2, <1>3, <1>4, <1>5 DEF IInv, Counted

-----------------------------------------------------------------------------
(* The invariant *)

LEMMA InitIInv == Init => IInv
<1> SUFFICES ASSUME Init PROVE IInv
    OBVIOUS
<1>1. TypeOK
  BY DEF Init, TypeOK, ServePCs, Loops
<1>2. LiveLoops = {} /\ LiveClients = {}
  BY DEF Init, LiveLoops, LiveClients, Running
<1>3. Counted
  BY <1>2, FS_EmptySet DEF Counted, Init
<1>4. Phases /\ AcceptedHeld
  BY DEF Init, Phases, Serving, AcceptedHeld
<1> QED BY <1>1, <1>3, <1>4 DEF IInv

\* TypeOK apart from the wait group, whose type follows from the count.
Typed ==
  /\ serve \in ServePCs
  /\ socks \in SUBSET Loops
  /\ ctxDone \in BOOLEAN /\ stopped \in BOOLEAN
  /\ loop \in [Loops -> {"off", "top", "read", "spawn", "exited"}]
  /\ handler \in [Clients -> HandlerState]
  /\ bySess \in [Handles -> Clients \cup {NoClient}]
  /\ renewals \in [Clients -> Nat]

LEMMA TypedIsTypeOK ==
  /\ TypeOK => Typed
  /\ Typed /\ Counted => TypeOK
BY CountIsNat DEF Typed, TypeOK, HandlerState

LEMMA TypedIsTypeOKNext == Typed' /\ Counted' => TypeOK'
BY TypedIsTypeOK, PTL

\* A step that leaves the goroutines and the wait group alone.
LEMMA QuietStep ==
  ASSUME IInv, UNCHANGED <<wg, loop, handler>>
  PROVE  Counted' /\ AcceptedHeld'
BY DEF IInv, Counted, AcceptedHeld, LiveLoops, LiveClients, Running

LEMMA NewStep ==
  ASSUME IInv, New PROVE IInv'
<1>1. Counted' /\ AcceptedHeld'
  BY QuietStep DEF New, Bind, BindFails
<1>2. Typed'
  BY TypedIsTypeOK DEF IInv, Typed, New, Bind, BindFails, ServePCs, Loops
<1>3. Phases'
  BY DEF IInv, Phases, Serving, New, Bind, BindFails
<1> QED BY <1>1, <1>2, <1>3, TypedIsTypeOKNext DEF IInv

LEMMA ServeStartStep ==
  ASSUME IInv, ServeStart PROVE IInv'
<1>1. Counted'
  BY CountServeStart
<1>2. Typed'
  BY TypedIsTypeOK DEF IInv, Typed, ServeStart, ServePCs
<1>3. Phases' /\ AcceptedHeld'
  BY DEF IInv, Phases, Serving, AcceptedHeld, ServeStart
<1> QED BY <1>1, <1>2, <1>3, TypedIsTypeOKNext DEF IInv

\* Serve's own goroutine, the caller and Close.
LEMMA ServeSteps ==
  ASSUME IInv, ServeStep \/ Cancel \/ Close PROVE IInv'
<1>1. Counted' /\ AcceptedHeld'
  BY QuietStep DEF ServeStep, ServeStop, ServeCloseAll, ServeReturn, Cancel, Close
<1>2. Typed'
  BY TypedIsTypeOK
     DEF IInv, Typed, ServeStep, ServeStop, ServeCloseAll, ServeReturn, Cancel, Close, ServePCs
<1>3. Phases'
  BY DEF IInv, Phases, Serving, ServeStep, ServeStop, ServeCloseAll, ServeReturn, Cancel, Close
<1> QED BY <1>1, <1>2, <1>3, TypedIsTypeOKNext DEF IInv

\* Once Serve has returned nothing is counted, so no goroutine takes a step.
LEMMA ReturnedStill ==
  ASSUME IInv, serve = "returned"
  PROVE  LiveLoops = {} /\ LiveClients = {}
<1>1. wg = 0 /\ IsFiniteSet(LiveClients)
  BY DEF IInv, Phases, Counted
<1>2. IsFiniteSet(LiveLoops) /\ Cardinality(LiveLoops) \in Nat /\ Cardinality(LiveClients) \in Nat
  BY <1>1, LoopsFinite, FS_CardinalityType DEF LiveLoops
<1>3. Cardinality(LiveLoops) = 0 /\ Cardinality(LiveClients) = 0
  BY <1>1, <1>2 DEF IInv, Counted
<1> QED BY <1>1, <1>2, <1>3, FS_EmptySet

\* A goroutine runs only while Serve does, and not after it has returned.
LEMMA RunningIsServing ==
  ASSUME IInv
  PROVE  /\ \A l \in LiveLoops : Serving /\ serve # "returned"
         /\ \A c \in LiveClients : Serving /\ serve # "returned"
<1>1. \A l \in LiveLoops : Serving
  BY DEF IInv, Phases, LiveLoops
<1>2. \A c \in LiveClients : Serving
  BY DEF IInv, Phases, LiveClients, Running
<1> QED BY <1>1, <1>2, ReturnedStill

LEMMA LoopSteps ==
  ASSUME IInv, NEW l \in Loops, LoopStep(l) PROVE IInv'
<1>1. "tcp" \in Loops
  BY DEF Loops
<1>2. l \in LiveLoops
  BY <1>1 DEF LoopStep, LoopTop, LoopRead, LoopDatagram, Accept, Spawn, LiveLoops
<1>3. Serving /\ serve # "returned"
  BY <1>2, RunningIsServing
<1>4. CASE LoopExit(l) /\ loop[l] # "spawn"
  <2>1. Counted'
    BY <1>2, <1>4, CountLoopExit DEF IInv
  <2>2. Typed'
    BY <1>4, TypedIsTypeOK DEF IInv, Typed, LoopExit
  <2>3. Phases' /\ AcceptedHeld'
    BY <1>3, <1>4 DEF IInv, Phases, Serving, AcceptedHeld, LoopExit, TypeOK
  <2> QED BY <2>1, <2>2, <2>3, TypedIsTypeOKNext DEF IInv
<1>5. CASE /\ loop[l] \in {"top", "read"}
           /\ \E pc \in {"top", "read"} : loop' = [loop EXCEPT ![l] = pc]
           /\ UNCHANGED <<serve, socks, ctxDone, stopped, wg, handler, bySess, renewals>>
  <2>1. LiveLoops' = LiveLoops /\ LiveClients' = LiveClients
    BY <1>5 DEF IInv, LiveLoops, LiveClients, Running, TypeOK
  <2>2. Counted'
    BY <1>5, <2>1, CountKept DEF IInv
  <2>3. Typed'
    BY <1>5, TypedIsTypeOK DEF IInv, Typed
  <2>4. Phases' /\ AcceptedHeld'
    BY <1>3, <1>5 DEF IInv, Phases, Serving, AcceptedHeld, TypeOK
  <2> QED BY <2>2, <2>3, <2>4, TypedIsTypeOKNext DEF IInv
<1>6. CASE l = "tcp" /\ Accept
  <2>1. PICK c \in Clients : /\ handler[c].pc = "none"
                             /\ handler' = [handler EXCEPT ![c].pc = "accepted"]
    BY <1>6 DEF Accept
  <2>2. LiveLoops' = LiveLoops
    BY <1>6 DEF IInv, LiveLoops, TypeOK, Accept
  <2>3. LiveClients' = LiveClients
    BY <2>1 DEF IInv, LiveClients, Running, TypeOK
  <2>4. Counted'
    BY <1>6, <2>2, <2>3, CountKept DEF IInv, Accept
  <2>5. Typed'
    BY <1>6, <2>1, TypedIsTypeOK DEF IInv, Typed, Accept, HandlerState
  <2>6. Phases' /\ AcceptedHeld'
    BY <1>1, <1>3, <1>6 DEF IInv, Phases, Serving, AcceptedHeld, TypeOK, Accept
  <2> QED BY <2>4, <2>5, <2>6, TypedIsTypeOKNext DEF IInv
<1>7. CASE l = "tcp" /\ Spawn
  <2>1. PICK c \in Clients : /\ handler[c].pc = "accepted"
                             /\ handler' = [handler EXCEPT ![c].pc = "top"]
    BY <1>7 DEF Spawn
  <2>2. Counted'
    BY <1>7, CountSpawn DEF IInv
  <2>3. Typed'
    BY <1>7, <2>1, TypedIsTypeOK DEF IInv, Typed, Spawn, HandlerState
  <2>4. Phases'
    BY <1>1, <1>3, <1>7 DEF IInv, Phases, Serving, TypeOK, Spawn
  <2>5. AcceptedHeld'
    BY <1>7, <2>1 DEF IInv, AcceptedHeld, TypeOK, Spawn
  <2> QED BY <2>2, <2>3, <2>4, <2>5, TypedIsTypeOKNext DEF IInv
<1> QED
  BY <1>4, <1>5, <1>6, <1>7 DEF LoopStep, LoopTop, LoopRead, LoopDatagram

\* A step of a client's goroutine that starts or ends none.
LEMMA HandlerGoesOn ==
  ASSUME IInv, NEW c \in Clients, c \in LiveClients, Typed',
         UNCHANGED <<serve, socks, wg, loop>>,
         NEW r \in HandlerState, r.pc \in {"top", "read"}, handler' = [handler EXCEPT ![c] = r]
  PROVE  IInv'
<1>1. LiveLoops' = LiveLoops
  BY DEF LiveLoops
<1>2. LiveClients' = LiveClients
  BY DEF IInv, TypeOK, LiveClients, Running
<1>3. Counted'
  BY <1>1, <1>2, CountKept DEF IInv
<1>4. Phases'
  BY RunningIsServing DEF IInv, Phases, Serving
<1>5. AcceptedHeld'
  BY DEF IInv, AcceptedHeld, TypeOK
<1> QED BY <1>3, <1>4, <1>5, TypedIsTypeOKNext DEF IInv

LEMMA HandlerEnds ==
  ASSUME IInv, NEW c \in Clients, c \in LiveClients, NEW remove \in BOOLEAN, HandlerEnd(c, remove)
  PROVE  IInv'
<1>1. Counted'
  BY CountHandlerEnd DEF IInv
<1>2. handler[c] \in HandlerState /\ handler[c].local \in Handles \cup {NoHandle}
  BY DEF IInv, TypeOK, HandlerState
<1>3. Typed'
  BY <1>2, TypedIsTypeOK DEF IInv, Typed, HandlerEnd, HandlerState
<1>4. Phases'
  BY RunningIsServing DEF IInv, Phases, Serving, HandlerEnd
<1>5. AcceptedHeld'
  BY DEF IInv, AcceptedHeld, TypeOK, HandlerEnd
<1> QED BY <1>1, <1>3, <1>4, <1>5, TypedIsTypeOKNext DEF IInv

LEMMA RenewalsTyped ==
  ASSUME renewals \in [Clients -> Nat], NEW c \in Clients, Renews(c)
  PROVE  renewals' \in [Clients -> Nat]
BY DEF Renews

LEMMA HandlerSteps ==
  ASSUME IInv, NEW c \in Clients, HandlerTop(c) \/ HandlerRead(c) PROVE IInv'
<1>1. c \in LiveClients
  BY DEF HandlerTop, HandlerRead, ReadFails, ServeFrame, RegisterSession, RegisterSessionBad,
         UnRegisterSession, LiveClients, Running
<1>2. handler[c] \in HandlerState /\ handler[c].local \in Handles \cup {NoHandle}
  BY DEF IInv, TypeOK, HandlerState
<1>3. CASE \E remove \in BOOLEAN : HandlerEnd(c, remove)
  BY <1>1, <1>3, HandlerEnds
<1>4. CASE /\ \E pc \in {"top", "read"} : handler' = [handler EXCEPT ![c].pc = pc]
           /\ UNCHANGED <<serve, socks, ctxDone, stopped, wg, loop, bySess, renewals>>
  <2>1. PICK pc \in {"top", "read"} : handler' = [handler EXCEPT ![c].pc = pc]
    BY <1>4
  <2> DEFINE r == [handler[c] EXCEPT !.pc = pc]
  <2>2. r \in HandlerState /\ r.pc \in {"top", "read"} /\ handler' = [handler EXCEPT ![c] = r]
    BY <1>2, <2>1 DEF HandlerState
  <2>3. Typed'
    BY <1>4, <2>2, TypedIsTypeOK DEF IInv, Typed
  <2> HIDE DEF r
  <2> QED BY <1>1, <1>4, <2>2, <2>3, HandlerGoesOn
<1>5. CASE RegisterSession(c)
  <2>1. PICK k \in FreeHandles(c) : /\ bySess' = [bySess EXCEPT ![k] = c]
                                    /\ handler' = [handler EXCEPT ![c] = [pc |-> "top", local |-> k]]
    BY <1>5 DEF RegisterSession
  <2> DEFINE r == [pc |-> "top", local |-> k]
  <2>2. r \in HandlerState /\ r.pc = "top"
    BY DEF HandlerState, FreeHandles
  <2>3. Typed'
    <3>1. renewals' \in [Clients -> Nat]
      BY <1>5, RenewalsTyped DEF IInv, TypeOK, RegisterSession
    <3> QED BY <1>5, <2>1, <2>2, <3>1, TypedIsTypeOK DEF IInv, Typed, RegisterSession, FreeHandles
  <2> HIDE DEF r
  <2> QED BY <1>1, <1>5, <2>1, <2>2, <2>3, HandlerGoesOn DEF RegisterSession, r
<1>6. CASE RegisterSessionBad(c)
  <2> DEFINE r == [pc |-> "top", local |-> NoHandle]
  <2>1. r \in HandlerState /\ r.pc = "top"
    BY DEF HandlerState
  <2>2. Typed'
    <3>1. renewals' \in [Clients -> Nat]
      BY <1>6, RenewalsTyped DEF IInv, TypeOK, RegisterSessionBad
    <3> QED BY <1>6, <2>1, <3>1, TypedIsTypeOK DEF IInv, Typed, RegisterSessionBad
  <2> HIDE DEF r
  <2> QED BY <1>1, <1>6, <2>1, <2>2, HandlerGoesOn DEF RegisterSessionBad, r
<1> QED
  BY <1>3, <1>4, <1>5, <1>6 DEF HandlerTop, HandlerRead, ReadFails, ServeFrame, UnRegisterSession

LEMMA NextIInv == IInv /\ [Next]_vars => IInv'
<1> SUFFICES ASSUME IInv, [Next]_vars PROVE IInv'
    OBVIOUS
<1>1. CASE New
  BY <1>1, NewStep
<1>2. CASE ServeStart
  BY <1>2, ServeStartStep
<1>3. CASE ServeStep \/ Cancel \/ Close
  BY <1>3, ServeSteps
<1>4. CASE \E l \in Loops : LoopStep(l)
  BY <1>4, LoopSteps
<1>5. CASE \E c \in Clients : HandlerTop(c) \/ HandlerRead(c)
  BY <1>5, HandlerSteps
<1>6. CASE UNCHANGED vars
  BY <1>6 DEF vars, IInv, TypeOK, Counted, Phases, Serving, AcceptedHeld, LiveLoops, LiveClients,
              Running
<1> QED BY <1>1, <1>2, <1>3, <1>4, <1>5, <1>6 DEF Next, Done

\* The wait group counts exactly the loops and the clients' goroutines that run, in every phase.
THEOREM Invariant == Spec => []IInv
BY InitIInv, NextIInv, PTL DEF Spec

\* Every variable keeps its type, for any clients, handles and addresses.
THEOREM TypeCorrect == Spec => []TypeOK
BY Invariant, PTL DEF IInv

\* When Serve has returned its three loops and the goroutine of every client accepted have ended,
\* although the wait group is raised while Serve may already be waiting on it, and its sockets are
\* closed; a failed New holds no socket. Of the producers, which Serve does not wait for, it says
\* nothing.
THEOREM ReturnedWaited == Spec => []ReturnedMeansWaited
<1>1. IInv => ReturnedMeansWaited
  <2> SUFFICES ASSUME IInv, serve = "returned"
               PROVE  /\ \A l \in Loops : loop[l] = "exited"
                      /\ \A c \in Clients : ~Running(c) /\ handler[c].pc # "accepted"
    BY DEF IInv, Phases, ReturnedMeansWaited
  <2>1. LiveLoops = {} /\ LiveClients = {} /\ "tcp" \in Loops
    BY ReturnedStill DEF Loops
  <2>2. \A l \in Loops : loop[l] = "exited"
    BY <2>1 DEF IInv, Phases, Serving, LiveLoops, TypeOK
  <2>3. \A c \in Clients : ~Running(c)
    BY <2>1 DEF LiveClients
  <2>4. \A c \in Clients : handler[c].pc # "accepted"
    BY <2>1, <2>2 DEF IInv, AcceptedHeld
  <2> QED BY <2>2, <2>3, <2>4
<1> QED BY <1>1, Invariant, PTL

-----------------------------------------------------------------------------
(* The session table *)

\* The context ended the client's goroutine, or may have.
Cut(c) == IF ctxDone /\ handler[c].pc = "ended" THEN 1 ELSE 0

BoundedLeft(c) ==
  /\ IsFiniteSet(LeftBehind(c))
  /\ Cardinality(LeftBehind(c)) <= renewals[c] + Cut(c)

SInv == TypeOK /\ HandlesOwned /\ \A c \in Clients : BoundedLeft(c)

LEMMA BoundedIsStale ==
  SInv => StaleEntriesBounded
BY DEF SInv, BoundedLeft, Cut, StaleEntriesBounded

\* Entries left behind at most as before, and no cause fewer.
LEMMA LeftKept ==
  ASSUME SInv, TypeOK', NEW c \in Clients, LeftBehind(c)' \subseteq LeftBehind(c),
         renewals'[c] >= renewals[c], Cut(c)' >= Cut(c)
  PROVE  BoundedLeft(c)'
<1>1. IsFiniteSet(LeftBehind(c)) /\ Cardinality(LeftBehind(c)) <= renewals[c] + Cut(c)
  BY DEF SInv, BoundedLeft
<1>2. /\ IsFiniteSet(LeftBehind(c)') /\ Cardinality(LeftBehind(c)') \in Nat
      /\ Cardinality(LeftBehind(c)) \in Nat
      /\ Cardinality(LeftBehind(c)') <= Cardinality(LeftBehind(c))
  BY <1>1, FS_Subset, FS_CardinalityType
<1>3. /\ renewals[c] \in Nat /\ renewals'[c] \in Nat
      /\ Cut(c) \in Nat /\ Cut(c)' \in Nat
  BY DEF SInv, TypeOK, Cut
<1>4. Cardinality(LeftBehind(c)') <= renewals'[c] + Cut(c)'
  BY <1>1, <1>2, <1>3
<1> QED BY <1>2, <1>4 DEF BoundedLeft

\* One entry more is left behind, for one cause more.
LEMMA LeftOneMore ==
  ASSUME SInv, TypeOK', NEW c \in Clients, NEW k,
         LeftBehind(c)' \subseteq LeftBehind(c) \cup {k},
         renewals'[c] + Cut(c)' = renewals[c] + Cut(c) + 1
  PROVE  BoundedLeft(c)'
<1> DEFINE more == LeftBehind(c) \cup {k}
<1>1. IsFiniteSet(LeftBehind(c)) /\ Cardinality(LeftBehind(c)) <= renewals[c] + Cut(c)
  BY DEF SInv, BoundedLeft
<1>2. Cardinality(LeftBehind(c)) \in Nat
  BY <1>1, FS_CardinalityType
<1>3. IsFiniteSet(more) /\ Cardinality(more) \in {Cardinality(LeftBehind(c)), Cardinality(LeftBehind(c)) + 1}
  BY <1>1, FS_AddElement
<1>4. /\ IsFiniteSet(LeftBehind(c)') /\ Cardinality(LeftBehind(c)') \in Nat
      /\ Cardinality(LeftBehind(c)') <= Cardinality(more)
  BY <1>3, FS_Subset, FS_CardinalityType
<1>5. renewals[c] \in Nat /\ Cut(c) \in Nat
  BY DEF SInv, TypeOK, Cut
<1>6. Cardinality(LeftBehind(c)') <= renewals'[c] + Cut(c)'
  BY <1>1, <1>2, <1>3, <1>4, <1>5
<1> QED BY <1>4, <1>6 DEF BoundedLeft

\* The actions that leave the handlers' handles and the table alone, and the context cancelled.
LEMMA TableKept ==
  ASSUME SInv, TypeOK', UNCHANGED <<bySess, renewals>>, ctxDone => ctxDone',
         \A c \in Clients : /\ handler'[c].local = handler[c].local
                            /\ handler[c].pc = "ended" => handler'[c].pc = "ended"
  PROVE  SInv'
<1>1. HandlesOwned'
  BY DEF SInv, HandlesOwned
<1>2. ASSUME NEW c \in Clients PROVE BoundedLeft(c)'
  <2>1. LeftBehind(c)' \subseteq LeftBehind(c)
    BY DEF LeftBehind
  <2>2. renewals'[c] >= renewals[c] /\ Cut(c)' >= Cut(c)
    BY DEF SInv, TypeOK, Cut
  <2> QED BY <2>1, <2>2, LeftKept
<1> QED BY <1>1, <1>2 DEF SInv

\* The other clients, when one client's handler and its own entries change.
LEMMA OthersKept ==
  ASSUME SInv, TypeOK', NEW c \in Clients, NEW d \in Clients, d # c, UNCHANGED ctxDone,
         handler'[d] = handler[d], renewals'[d] = renewals[d],
         \A k \in Handles : bySess'[k] = d => bySess[k] = d
  PROVE  BoundedLeft(d)'
<1>1. LeftBehind(d)' \subseteq LeftBehind(d)
  BY DEF LeftBehind
<1>2. renewals'[d] >= renewals[d] /\ Cut(d)' >= Cut(d)
  BY DEF SInv, TypeOK, Cut
<1> QED BY <1>1, <1>2, LeftKept

\* The end of a goroutine: with removal, or for the context.
LEMMA EndSessions ==
  ASSUME SInv, TypeOK', NEW c \in Clients, handler[c].pc \in {"top", "read"},
         NEW remove \in BOOLEAN, remove \/ ctxDone, HandlerEnd(c, remove)
  PROVE  SInv'
<1> DEFINE h == handler[c].local
<1>1. /\ h \in Handles \cup {NoHandle} /\ NoClient \notin Clients /\ NoHandle \notin Handles
      /\ h # NoHandle => bySess[h] = c
  BY NoClientAssumption, HandlesAssumption DEF SInv, TypeOK, HandlesOwned
<1>2. /\ handler' = [handler EXCEPT ![c] = [pc |-> "ended", local |-> NoHandle]]
      /\ bySess' = IF remove /\ h # NoHandle THEN [bySess EXCEPT ![h] = NoClient] ELSE bySess
      /\ UNCHANGED <<ctxDone, renewals>>
  BY DEF HandlerEnd
<1>3. /\ bySess \in [Handles -> Clients \cup {NoClient}] /\ handler \in [Clients -> HandlerState]
      /\ renewals \in [Clients -> Nat]
  BY DEF SInv, TypeOK, HandlerState
<1>4. handler'[c] = [pc |-> "ended", local |-> NoHandle]
      /\ \A d \in Clients : d # c => handler'[d] = handler[d]
  BY <1>2, <1>3
<1>5. HandlesOwned'
  BY <1>1, <1>2, <1>3, <1>4 DEF SInv, HandlesOwned
<1>6. ASSUME NEW d \in Clients, d # c PROVE BoundedLeft(d)'
  <2>1. \A k \in Handles : bySess'[k] = d => bySess[k] = d
    BY <1>1, <1>2, <1>3
  <2> QED BY <1>2, <1>4, <1>6, <2>1, OthersKept
<1>7. Cut(c) = 0
  BY DEF Cut
<1>8. CASE remove \/ h = NoHandle
  <2>1. LeftBehind(c)' \subseteq LeftBehind(c)
    BY <1>1, <1>2, <1>3, <1>4, <1>8 DEF LeftBehind
  <2>2. renewals'[c] >= renewals[c] /\ Cut(c)' >= Cut(c)
    BY <1>2, <1>3, <1>7 DEF Cut
  <2>3. BoundedLeft(c)'
    BY <2>1, <2>2, LeftKept
  <2> QED BY <1>5, <1>6, <2>3 DEF SInv
<1>9. CASE ~remove /\ h # NoHandle
  <2>1. LeftBehind(c)' \subseteq LeftBehind(c) \cup {h}
    BY <1>2, <1>9 DEF LeftBehind
  <2>2. Cut(c)' = 1
    BY <1>2, <1>4, <1>9 DEF Cut
  <2>3. renewals'[c] + Cut(c)' = renewals[c] + Cut(c) + 1
    BY <1>2, <1>3, <1>7, <2>2
  <2>4. BoundedLeft(c)'
    BY <2>1, <2>3, LeftOneMore
  <2> QED BY <1>5, <1>6, <2>4 DEF SInv
<1> QED BY <1>8, <1>9

\* A RegisterSession within a session drops one handle, and counts once.
LEMMA RegisterSessions ==
  ASSUME SInv, TypeOK', NEW c \in Clients, RegisterSession(c) \/ RegisterSessionBad(c)
  PROVE  SInv'
<1> DEFINE h == handler[c].local
<1>1. /\ h \in Handles \cup {NoHandle} /\ NoClient \notin Clients /\ NoHandle \notin Handles
      /\ h # NoHandle => bySess[h] = c
  BY NoClientAssumption, HandlesAssumption DEF SInv, TypeOK, HandlesOwned
<1>2. PICK k \in Handles \cup {NoHandle} :
        /\ handler' = [handler EXCEPT ![c] = [pc |-> "top", local |-> k]]
        /\ IF k = NoHandle THEN bySess' = bySess
           ELSE bySess[k] = NoClient /\ bySess' = [bySess EXCEPT ![k] = c]
  <2>1. CASE RegisterSession(c)
    BY <1>1, <2>1 DEF RegisterSession, FreeHandles
  <2>2. CASE RegisterSessionBad(c)
    BY <2>2 DEF RegisterSessionBad
  <2> QED BY <2>1, <2>2
<1>3. /\ bySess \in [Handles -> Clients \cup {NoClient}] /\ handler \in [Clients -> HandlerState]
      /\ renewals \in [Clients -> Nat]
  BY DEF SInv, TypeOK, HandlerState
<1>4. UNCHANGED ctxDone /\ Renews(c) /\ handler[c].pc = "read"
  BY DEF RegisterSession, RegisterSessionBad
<1>5. handler'[c] = [pc |-> "top", local |-> k]
      /\ \A d \in Clients : d # c => handler'[d] = handler[d] /\ renewals'[d] = renewals[d]
  BY <1>2, <1>3, <1>4 DEF Renews
<1>6. HandlesOwned'
  <2> SUFFICES ASSUME NEW d \in Clients, handler'[d].local # NoHandle
               PROVE  bySess'[handler'[d].local] = d
    BY DEF HandlesOwned
  <2>1. CASE d = c
    BY <1>2, <1>3, <1>5, <2>1
  <2>2. CASE d # c
    <3>1. handler'[d] = handler[d] /\ handler[d].local \in Handles /\ bySess[handler[d].local] = d
      BY <1>3, <1>5, <2>2 DEF SInv, HandlesOwned, HandlerState
    <3>2. bySess[handler[d].local] # NoClient
      BY <1>1, <3>1
    <3> QED BY <1>2, <1>3, <3>1, <3>2
  <2> QED BY <2>1, <2>2
<1>7. ASSUME NEW d \in Clients, d # c PROVE BoundedLeft(d)'
  <2>1. \A n \in Handles : bySess'[n] = d => bySess[n] = d
    BY <1>1, <1>2, <1>3, <1>7
  <2> QED BY <1>4, <1>5, <1>7, <2>1, OthersKept
<1>8. Cut(c) = 0 /\ Cut(c)' = 0
  BY <1>4, <1>5 DEF Cut
<1>9. CASE h = NoHandle
  <2>1. LeftBehind(c)' \subseteq LeftBehind(c)
    BY <1>1, <1>2, <1>3, <1>5, <1>9 DEF LeftBehind
  <2>2. renewals'[c] >= renewals[c] /\ Cut(c)' >= Cut(c)
    BY <1>3, <1>4, <1>8, <1>9 DEF Renews
  <2>3. BoundedLeft(c)'
    BY <2>1, <2>2, LeftKept
  <2> QED BY <1>6, <1>7, <2>3 DEF SInv
<1>10. CASE h # NoHandle
  <2>1. LeftBehind(c)' \subseteq LeftBehind(c) \cup {h}
    BY <1>1, <1>2, <1>3, <1>5 DEF LeftBehind
  <2>2. renewals'[c] = renewals[c] + 1
    BY <1>3, <1>4, <1>10 DEF Renews
  <2>3. renewals'[c] + Cut(c)' = renewals[c] + Cut(c) + 1
    BY <1>3, <1>8, <2>2
  <2>4. BoundedLeft(c)'
    BY <2>1, <2>3, LeftOneMore
  <2> QED BY <1>6, <1>7, <2>4 DEF SInv
<1> QED BY <1>9, <1>10

LEMMA NextSessions == SInv /\ TypeOK' /\ [Next]_vars => SInv'
<1> SUFFICES ASSUME SInv, TypeOK', [Next]_vars PROVE SInv'
    OBVIOUS
<1>1. CASE New \/ ServeStart \/ ServeStep \/ Cancel \/ Close
  BY <1>1, TableKept DEF New, Bind, BindFails, ServeStart, ServeStep, ServeStop, ServeCloseAll,
                         ServeReturn, Cancel, Close
<1>2. ASSUME NEW l \in Loops, LoopStep(l) PROVE SInv'
  <2>1. UNCHANGED <<bySess, renewals, ctxDone>>
    BY <1>2 DEF LoopStep, LoopTop, LoopRead, LoopDatagram, LoopExit, Accept, Spawn
  <2>2. \A c \in Clients : /\ handler'[c].local = handler[c].local
                           /\ handler[c].pc = "ended" => handler'[c].pc = "ended"
    BY <1>2 DEF SInv, TypeOK, LoopStep, LoopTop, LoopRead, LoopDatagram, LoopExit, Accept, Spawn
  <2> QED BY <2>1, <2>2, TableKept
<1>3. ASSUME NEW c \in Clients, HandlerTop(c) \/ HandlerRead(c) PROVE SInv'
  <2>0. handler[c].pc \in {"top", "read"}
    BY <1>3 DEF HandlerTop, HandlerRead, ReadFails, ServeFrame, RegisterSession,
                RegisterSessionBad, UnRegisterSession
  <2>1. CASE \E remove \in BOOLEAN : (remove \/ ctxDone) /\ HandlerEnd(c, remove)
    BY <2>0, <2>1, EndSessions
  <2>2. CASE RegisterSession(c) \/ RegisterSessionBad(c)
    BY <2>2, RegisterSessions
  <2>3. CASE /\ \E pc \in {"top", "read"} : handler' = [handler EXCEPT ![c].pc = pc]
             /\ UNCHANGED <<bySess, renewals, ctxDone>>
    <3>1. \A d \in Clients : /\ handler'[d].local = handler[d].local
                             /\ handler[d].pc = "ended" => handler'[d].pc = "ended"
      BY <2>0, <2>3 DEF SInv, TypeOK
    <3> QED BY <2>3, <3>1, TableKept
  <2> QED
    BY <1>3, <2>1, <2>2, <2>3 DEF HandlerTop, HandlerRead, ReadFails, ServeFrame, UnRegisterSession
<1>4. CASE UNCHANGED vars
  BY <1>4, TableKept DEF vars
<1> QED BY <1>1, <1>2, <1>3, <1>4 DEF Next, Done

LEMMA InitSessions == Init /\ TypeOK => SInv
<1> SUFFICES ASSUME Init, TypeOK PROVE SInv
    OBVIOUS
<1>1. HandlesOwned
  BY DEF Init, HandlesOwned
<1>2. ASSUME NEW c \in Clients PROVE BoundedLeft(c)
  <2>1. LeftBehind(c) = {}
    BY NoClientAssumption DEF Init, LeftBehind
  <2>2. IsFiniteSet(LeftBehind(c)) /\ Cardinality(LeftBehind(c)) = 0
    BY <2>1, FS_EmptySet
  <2>3. renewals[c] = 0 /\ Cut(c) = 0
    BY DEF Init, Cut
  <2> QED BY <2>2, <2>3 DEF BoundedLeft
<1> QED BY <1>1, <1>2 DEF SInv

\* A handle in use is in the table under its client, and no client has left more entries behind
\* than it has given cause for: the two together are inductive.
THEOREM SessionsInvariant == Spec => []SInv
BY InitSessions, NextSessions, TypeCorrect, PTL DEF Spec

\* A session handle in use is in the table under the client that uses it: two clients never talk
\* under one handle, however often each registers.
THEOREM HandlesStayOwned == Spec => []HandlesOwned
BY SessionsInvariant, PTL DEF SInv

\* Whatever ends a client's goroutine, its session leaves the table with it, unless the context was
\* cancelled: what stays are the sessions it registered over, each RegisterSession at most one.
THEOREM StaleEntries == Spec => []StaleEntriesBounded
BY SessionsInvariant, BoundedIsStale, PTL

=============================================================================
