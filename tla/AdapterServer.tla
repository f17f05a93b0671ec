---------------------------- MODULE AdapterServer ----------------------------
(***************************************************************************)
(* The life of an EtherNet/IP adapter (package eipadapter): New binds three *)
(* sockets, Serve runs one goroutine per socket and one per TCP client     *)
(* until its context is cancelled or Close is called, then waits for those; *)
(* clients register encapsulation sessions in the session table. What a     *)
(* served request does to the Class 1 connections, and their producers,     *)
(* which Serve does not wait for, are the subject of AdapterConnections.    *)
(***************************************************************************)
EXTENDS Integers, FiniteSets

CONSTANTS
  Clients,     \* bound: TCP connections ever accepted
  Handles,     \* session handles register may draw
  NoClient

ASSUME NoClientAssumption == NoClient \notin Clients

NoHandle == 0    \* localSession before a session is registered
ASSUME HandlesAssumption == NoHandle \notin Handles

Loops == {"tcp", "udp", "io"}     \* serveTCP, serveDiscoverUDP, serveIOUDP

VARIABLES
  serve,     \* what New and then Serve are doing
  socks,     \* the sockets that are open
  ctxDone,   \* the context passed to Serve is cancelled
  stopped,   \* stopCh is closed
  wg,        \* a.wg
  loop,      \* program counter of each socket's goroutine
  handler,   \* each handleConn goroutine: program counter and localSession
  bySess,    \* the session table: handle -> client
  renewals   \* history: how often each client sent a RegisterSession within a session

vars == <<serve, socks, ctxDone, stopped, wg, loop, handler, bySess, renewals>>

-----------------------------------------------------------------------------

ServePCs == {"bindTCP", "bindUDP", "bindIO", "failed", "bound", "select", "closeAll",
             "wait", "returned"}

TypeOK ==
  /\ serve \in ServePCs
  /\ socks \in SUBSET Loops
  /\ ctxDone \in BOOLEAN /\ stopped \in BOOLEAN
  /\ wg \in Nat
  /\ loop \in [Loops -> {"off", "top", "read", "spawn", "exited"}]
  /\ handler \in [Clients -> [pc : {"none", "accepted", "top", "read", "ended"},
                              local : Handles \cup {NoHandle}]]
  /\ bySess \in [Handles -> Clients \cup {NoClient}]
  /\ renewals \in [Clients -> Nat]

Init ==
  /\ serve = "bindTCP" /\ socks = {} /\ ctxDone = FALSE /\ stopped = FALSE /\ wg = 0
  /\ loop = [l \in Loops |-> "off"]
  /\ handler = [c \in Clients |-> [pc |-> "none", local |-> NoHandle]]
  /\ bySess = [k \in Handles |-> NoClient] /\ renewals = [c \in Clients |-> 0]

-----------------------------------------------------------------------------
(* New: three binds in order; a failure closes what is already bound *)

BindFails(pc) ==
  /\ serve = pc /\ serve' = "failed" /\ socks' = {}
  /\ UNCHANGED <<ctxDone, stopped, wg, loop, handler, bySess, renewals>>

Bind(pc, sock, next) ==
  /\ serve = pc /\ serve' = next /\ socks' = socks \cup {sock}
  /\ UNCHANGED <<ctxDone, stopped, wg, loop, handler, bySess, renewals>>

New ==
  \/ Bind("bindTCP", "tcp", "bindUDP") \/ Bind("bindUDP", "udp", "bindIO")
  \/ Bind("bindIO", "io", "bound")
  \/ \E pc \in {"bindTCP", "bindUDP", "bindIO"} : BindFails(pc)

-----------------------------------------------------------------------------
(* Serve and Close *)

\* a.wg.Add(3) comes before the three go statements.
ServeStart ==
  /\ serve = "bound" /\ serve' = "select"
  /\ wg' = wg + 3 /\ loop' = [l \in Loops |-> "top"]
  /\ UNCHANGED <<socks, ctxDone, stopped, handler, bySess, renewals>>

\* select returns; the three sockets are closed. Closing the listener also resets a
\* client nobody has accepted.
ServeStop ==
  /\ serve = "select" /\ (ctxDone \/ stopped)
  /\ serve' = "closeAll" /\ socks' = {}
  /\ UNCHANGED <<ctxDone, stopped, wg, loop, handler, bySess, renewals>>

\* closeAll, modelled in AdapterConnections.
ServeCloseAll ==
  /\ serve = "closeAll" /\ serve' = "wait"
  /\ UNCHANGED <<socks, ctxDone, stopped, wg, loop, handler, bySess, renewals>>

\* a.wg.Wait().
ServeReturn ==
  /\ serve = "wait" /\ wg = 0 /\ serve' = "returned"
  /\ UNCHANGED <<socks, ctxDone, stopped, wg, loop, handler, bySess, renewals>>

\* Environment: the caller cancels the context of Serve.
Cancel ==
  /\ ~ctxDone /\ ctxDone' = TRUE
  /\ UNCHANGED <<serve, socks, stopped, wg, loop, handler, bySess, renewals>>

\* Close after New has succeeded; a second call finds stopCh closed and does nothing.
Close ==
  /\ serve \notin {"bindTCP", "bindUDP", "bindIO", "failed"}
  /\ ~stopped /\ stopped' = TRUE
  /\ UNCHANGED <<serve, socks, ctxDone, wg, loop, handler, bySess, renewals>>

-----------------------------------------------------------------------------
(* The socket goroutines: every read has a 500 ms deadline *)

LoopExit(l) ==
  /\ loop' = [loop EXCEPT ![l] = "exited"] /\ wg' = wg - 1
  /\ UNCHANGED <<serve, socks, ctxDone, stopped, handler, bySess, renewals>>

\* serveTCP has no check of the context at the top.
LoopTop(l) ==
  /\ loop[l] = "top"
  /\ IF l # "tcp" /\ ctxDone
     THEN LoopExit(l)
     ELSE /\ loop' = [loop EXCEPT ![l] = "read"]
          /\ UNCHANGED <<serve, socks, ctxDone, stopped, wg, handler, bySess, renewals>>

\* Seeded fault: only the context ends the goroutine.
LoopReadIgnoresClosed(l) ==
  /\ loop[l] = "read"
  /\ IF ctxDone
     THEN LoopExit(l)
     ELSE /\ loop' = [loop EXCEPT ![l] = "top"]
          /\ UNCHANGED <<serve, socks, ctxDone, stopped, wg, handler, bySess, renewals>>

\* The read or accept fails: the socket is closed, the deadline passes, or a datagram
\* has been handled. The goroutine ends on a closed socket or, after any error, when
\* the context is cancelled.
LoopRead(l) ==
  /\ loop[l] = "read"
  /\ IF l \notin socks \/ ctxDone
     THEN LoopExit(l)
     ELSE /\ loop' = [loop EXCEPT ![l] = "top"]
          /\ UNCHANGED <<serve, socks, ctxDone, stopped, wg, handler, bySess, renewals>>

\* A datagram arrived before the socket was closed.
LoopDatagram(l) ==
  /\ l # "tcp" /\ loop[l] = "read" /\ l \in socks
  /\ loop' = [loop EXCEPT ![l] = "top"]
  /\ UNCHANGED <<serve, socks, ctxDone, stopped, wg, handler, bySess, renewals>>

\* Accept returns a client.
Accept ==
  /\ loop["tcp"] = "read" /\ "tcp" \in socks
  /\ \E c \in Clients :
       /\ handler[c].pc = "none"
       /\ handler' = [handler EXCEPT ![c].pc = "accepted"]
  /\ loop' = [loop EXCEPT !["tcp"] = "spawn"]
  /\ UNCHANGED <<serve, socks, ctxDone, stopped, wg, bySess, renewals>>

\* Seeded fault: the goroutine would count itself, after it has started.
SpawnUncounted ==
  /\ loop["tcp"] = "spawn"
  /\ \E c \in Clients :
       /\ handler[c].pc = "accepted"
       /\ handler' = [handler EXCEPT ![c].pc = "top"]
  /\ loop' = [loop EXCEPT !["tcp"] = "top"]
  /\ UNCHANGED <<serve, socks, ctxDone, stopped, wg, bySess, renewals>>

\* a.wg.Add(1); go a.handleConn(ctx, conn): serveTCP is itself still counted.
Spawn ==
  /\ loop["tcp"] = "spawn"
  /\ \E c \in Clients :
       /\ handler[c].pc = "accepted"
       /\ handler' = [handler EXCEPT ![c].pc = "top"]
  /\ wg' = wg + 1 /\ loop' = [loop EXCEPT !["tcp"] = "top"]
  /\ UNCHANGED <<serve, socks, ctxDone, stopped, bySess, renewals>>

-----------------------------------------------------------------------------
(* handleConn: the context is looked at only between two requests *)

\* The goroutine ends, and its TCP connection with it. The entry of its session goes
\* only on the paths that call remove.
HandlerEnd(c, remove) ==
  /\ handler' = [handler EXCEPT ![c] = [pc |-> "ended", local |-> NoHandle]]
  /\ wg' = wg - 1
  /\ bySess' = IF remove /\ handler[c].local # NoHandle
                THEN [bySess EXCEPT ![handler[c].local] = NoClient] ELSE bySess
  /\ UNCHANGED <<serve, socks, ctxDone, stopped, loop, renewals>>

\* Seeded fault: the check of the context is missing.
HandlerTopUnchecked(c) ==
  /\ handler[c].pc = "top"
  /\ handler' = [handler EXCEPT ![c].pc = "read"]
  /\ UNCHANGED <<serve, socks, ctxDone, stopped, wg, loop, bySess, renewals>>

HandlerTop(c) ==
  /\ handler[c].pc = "top"
  /\ IF ctxDone
     THEN HandlerEnd(c, FALSE)
     ELSE /\ handler' = [handler EXCEPT ![c].pc = "read"]
          /\ UNCHANGED <<serve, socks, ctxDone, stopped, wg, loop, bySess, renewals>>

\* Seeded fault: the loop is left by return, past the removal.
ReadFailsReturns(c) == handler[c].pc = "read" /\ HandlerEnd(c, FALSE)

\* The peer hangs up, the frame is malformed, or 60 s pass without one.
ReadFails(c) == handler[c].pc = "read" /\ HandlerEnd(c, TRUE)

\* Any frame that leaves the session as it is: refused for want of a session or for
\* the wrong handle, NOP, a List command, or a request passed on to dispatch.
ServeFrame(c) ==
  /\ handler[c].pc = "read"
  /\ handler' = [handler EXCEPT ![c].pc = "top"]
  /\ UNCHANGED <<serve, socks, ctxDone, stopped, wg, loop, bySess, renewals>>

\* Seeded fault: a handle is drawn without looking it up in the table.
FreeHandlesUnchecked(c) == Handles

\* sessionTable.register draws until it finds a handle that is not in the table.
FreeHandles(c) == {k \in Handles : bySess[k] = NoClient}

\* A RegisterSession, good or bad, of a client that has a session.
Renews(c) == renewals' = IF handler[c].local = NoHandle THEN renewals
                         ELSE [renewals EXCEPT ![c] = @ + 1]

\* Nothing keeps a client from registering again: the goroutine forgets its first
\* handle, which stays in the table.
RegisterSession(c) ==
  /\ handler[c].pc = "read"
  /\ \E k \in FreeHandles(c) :
       /\ bySess' = [bySess EXCEPT ![k] = c]
       /\ handler' = [handler EXCEPT ![c] = [pc |-> "top", local |-> k]]
  /\ Renews(c)
  /\ UNCHANGED <<serve, socks, ctxDone, stopped, wg, loop>>

\* A RegisterSession of the wrong length or version is answered with an error and
\* resets localSession.
RegisterSessionBad(c) ==
  /\ handler[c].pc = "read"
  /\ handler' = [handler EXCEPT ![c] = [pc |-> "top", local |-> NoHandle]]
  /\ Renews(c)
  /\ UNCHANGED <<serve, socks, ctxDone, stopped, wg, loop, bySess>>

\* UnRegisterSession closes the connection; without a session it is refused.
UnRegisterSession(c) ==
  /\ handler[c].pc = "read" /\ handler[c].local # NoHandle
  /\ HandlerEnd(c, TRUE)

-----------------------------------------------------------------------------

LoopStep(l) == LoopTop(l) \/ LoopRead(l) \/ LoopDatagram(l) \/ (l = "tcp" /\ (Accept \/ Spawn))

\* One call of ReadFrame and what follows.
HandlerRead(c) ==
  ReadFails(c) \/ ServeFrame(c) \/ RegisterSession(c) \/ RegisterSessionBad(c)
    \/ UnRegisterSession(c)

ServeStep == ServeStop \/ ServeCloseAll \/ ServeReturn

\* Serve has returned, or New has failed, and every goroutine is done.
Done ==
  /\ serve \in {"failed", "returned"} /\ wg = 0
  /\ UNCHANGED vars

Next ==
  \/ New \/ ServeStart \/ ServeStep \/ Cancel \/ Close \/ Done
  \/ \E l \in Loops : LoopStep(l)
  \/ \E c \in Clients : HandlerTop(c) \/ HandlerRead(c)

Spec == Init /\ [][Next]_vars

\* Goroutines are scheduled, and no read waits for ever: a socket read ends after
\* 500 ms and a frame read after 60 s at the latest. No fairness for clients, for
\* Cancel or for Close.
Fairness ==
  /\ WF_vars(ServeStep)
  /\ \A l \in Loops : WF_vars(LoopStep(l))
  /\ \A c \in Clients : WF_vars(HandlerTop(c) \/ HandlerRead(c))

FairSpec == Spec /\ Fairness

-----------------------------------------------------------------------------
(* Safety *)

Running(c) == handler[c].pc \in {"top", "read"}

\* When Serve has returned the goroutines it waits for have ended, the three loops
\* and the handleConn of every client accepted, although the wait group is raised
\* while Serve can already be waiting on it; and its three sockets are closed. (The
\* producers of Class 1 connections are not in the wait group.) Nor does a New that
\* fails hold a socket, whichever bind failed.
ReturnedMeansWaited ==
  /\ serve \in {"returned", "failed"} => socks = {}
  /\ serve = "returned" =>
       /\ \A l \in Loops : loop[l] = "exited"
       /\ \A c \in Clients : ~Running(c) /\ handler[c].pc # "accepted"

\* A session handle in use is in the table under its client, so no two clients ever
\* talk under one handle.
HandlesOwned ==
  \A c \in Clients : handler[c].local # NoHandle => bySess[handler[c].local] = c

\* The entries of the session table that their client does not talk under.
LeftBehind(c) == {k \in Handles : bySess[k] = c /\ handler[c].local # k}

\* However a client goes - it hangs up, falls silent, sends a malformed frame or
\* unregisters - its session leaves the table: there is at most one entry too many for
\* each RegisterSession it sent within a session, well or badly formed, and one more
\* only if the context was cancelled before its goroutine ended.
StaleEntriesBounded ==
  \A c \in Clients :
    Cardinality(LeftBehind(c)) <=
      renewals[c] + (IF ctxDone /\ handler[c].pc = "ended" THEN 1 ELSE 0)

-----------------------------------------------------------------------------
(* Liveness *)

\* Cancelling the context ends Serve, whatever the clients keep sending.
CancelEndsServe == (ctxDone /\ serve = "select") ~> (serve = "returned")

\* After Close only a client that is still connected can hold Serve up: the sockets
\* and their goroutines are gone.
OnlyClientsOutliveClose ==
  (stopped /\ serve = "select") ~> (wg = Cardinality({c \in Clients : Running(c)}))

=============================================================================
