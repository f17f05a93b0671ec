--------------------------- MODULE AdsClientProofs ---------------------------
(* What holds of AdsClient for any number of goroutines, symbols, links and handles. *)
EXTENDS AdsClient, TLAPS

-----------------------------------------------------------------------------
(* The inductive invariant *)

ReconnectPlaces == {"dial", "install", "verify", "giveup"}

\* Calls keep their fields.
Shaped ==
  /\ op = [p \in Procs |-> op[p]]
  /\ flight = [p \in Procs |-> flight[p]]
  /\ \A p \in Procs : DOMAIN op[p] = DOMAIN Idle

\* A request in flight is the one its call stands at, and its sender holds c.mu; Close
\* holds c.mu throughout.
Locked ==
  \A p \in Procs :
    /\ flight[p] # None => mu = p /\ op[p].at = flight[p].req
    /\ op[p].at = "release" => mu = p

\* Until it has run beside another call, a Reconnect is alone, and the link it installed
\* is still there.
Alone ==
  /\ \A p \in Procs : op[p].at \in ReconnectPlaces => op[p].kind = "Reconnect"
  /\ ~overlap =>
       \A p \in Procs :
         /\ op[p].at \in ReconnectPlaces => \A q \in Procs \ {p} : op[q].at = "idle"
         /\ op[p].at = "install" => op[p].k # 0
         /\ op[p].at \in {"verify", "giveup"} => conn # 0

IInv == Shaped /\ Locked /\ Alone /\ NoPanicApart

-----------------------------------------------------------------------------
(* The records a call goes through *)

LEMMA NextNameRecord ==
  ASSUME NEW c, DOMAIN c = DOMAIN Idle
  PROVE  /\ DOMAIN NextName(c) = DOMAIN Idle
         /\ NextName(c).at \in {"report", "lookup"}
BY DEF NextName, Idle

LEMMA IndividuallyRecord ==
  ASSUME NEW c, DOMAIN c = DOMAIN Idle
  PROVE  /\ DOMAIN Individually(c) = DOMAIN Idle
         /\ Individually(c).at = "lookup"
BY DEF Individually, Idle

LEMMA AfterRecord ==
  ASSUME NEW c, NEW o, DOMAIN c = DOMAIN Idle
  PROVE  DOMAIN After(c, o) = DOMAIN Idle
BY DEF After, Idle

LEMMA FoundRecord ==
  ASSUME NEW c, NEW e, DOMAIN c = DOMAIN Idle
  PROVE  /\ DOMAIN Found(c, e) = DOMAIN Idle
         /\ Found(c, e).at \in {"handle", "batch", "lookup"}
BY DEF Found, Idle

LEMMA FailedRecord ==
  ASSUME NEW c, NEW o, DOMAIN c = DOMAIN Idle
  PROVE  /\ DOMAIN Failed(c, o) = DOMAIN Idle
         /\ Failed(c, o).at \in {"idle", "lookup", "markdown", "report"}
<1>1. CASE c.kind = "write"
  BY <1>1 DEF Failed, Idle
<1>2. CASE c.kind # "write" /\ c.batch
  BY <1>2, IndividuallyRecord DEF Failed
<1>3. CASE c.kind # "write" /\ ~c.batch /\ isConnectionError(o)
  BY <1>3 DEF Failed, Idle
<1>4. CASE c.kind # "write" /\ ~c.batch /\ ~isConnectionError(o)
  BY <1>4, NextNameRecord DEF Failed
<1> QED BY <1>1, <1>2, <1>3, <1>4

-----------------------------------------------------------------------------
(* Steps that only move one call on *)

\* The call of p becomes c; if p was waiting on a request, it is no more and c.mu is free.
Moves(p, c) ==
  /\ op' = [op EXCEPT ![p] = c]
  /\ flight' = [flight EXCEPT ![p] = None]
  /\ \/ flight[p] = None /\ mu' = mu
     \/ mu = p /\ mu' = None
  /\ overlap' = overlap

LEMMA MoveKeepsShape ==
  ASSUME Shaped, NEW p \in Procs, NEW c, DOMAIN c = DOMAIN Idle, Moves(p, c)
  PROVE  /\ Shaped'
         /\ op'[p] = c /\ flight'[p] = None
         /\ \A q \in Procs \ {p} : op'[q] = op[q] /\ flight'[q] = flight[q]
<1>1. op'[p] = c /\ \A q \in Procs \ {p} : op'[q] = op[q]
  BY DEF Shaped, Moves
<1>2. flight'[p] = None /\ \A q \in Procs \ {p} : flight'[q] = flight[q]
  BY DEF Shaped, Moves
<1>3. op' = [q \in Procs |-> op'[q]] /\ flight' = [q \in Procs |-> flight'[q]]
  BY DEF Shaped, Moves
<1>4. \A q \in Procs : DOMAIN op'[q] = DOMAIN Idle
  BY <1>1 DEF Shaped
<1> QED BY <1>1, <1>2, <1>3, <1>4 DEF Shaped, Idle, NoHandle

LEMMA MoveKeepsLocks ==
  ASSUME Shaped, Locked, NEW p \in Procs, NEW c, DOMAIN c = DOMAIN Idle, Moves(p, c),
         c.at # "release"
  PROVE  Locked'
<1>1. op'[p] = c /\ flight'[p] = None
      /\ \A q \in Procs \ {p} : op'[q] = op[q] /\ flight'[q] = flight[q]
  BY MoveKeepsShape
<1>2. SUFFICES ASSUME NEW q \in Procs \ {p}, mu = q
               PROVE  mu' = q
  BY <1>1 DEF Locked
<1>3. CASE flight[p] = None /\ mu' = mu
  BY <1>2, <1>3
<1>4. CASE mu = p /\ mu' = None
  BY <1>2, <1>4
<1> QED BY <1>3, <1>4 DEF Moves

LEMMA MoveKeepsAlone ==
  ASSUME IInv, NEW p \in Procs, NEW c, DOMAIN c = DOMAIN Idle, Moves(p, c),
         op[p].at # "idle",
         c.at \in ReconnectPlaces => op[p].at \in ReconnectPlaces /\ c.kind = op[p].kind,
         c.at = "install" => c.k # 0,
         ~overlap /\ c.at \in {"verify", "giveup"} => conn' # 0,
         conn' = conn \/ op[p].at \in ReconnectPlaces
  PROVE  Alone'
<1>1. op'[p] = c /\ \A q \in Procs \ {p} : op'[q] = op[q]
  BY MoveKeepsShape DEF IInv
<1>2. \A q \in Procs : op'[q].at \in ReconnectPlaces => op'[q].kind = "Reconnect"
  BY <1>1 DEF IInv, Alone
<1>3. ASSUME ~overlap, NEW q \in Procs, op'[q].at \in ReconnectPlaces
      PROVE  \A r \in Procs \ {q} : op'[r].at = "idle"
  <2>1. op[q].at \in ReconnectPlaces
    BY <1>1, <1>3
  <2>2. \A r \in Procs \ {q} : op[r].at = "idle"
    BY <2>1, <1>3 DEF IInv, Alone
  <2>3. q = p
    BY <2>2
  <2> QED BY <1>1, <2>2, <2>3
<1>4. ASSUME ~overlap, NEW q \in Procs
      PROVE  /\ op'[q].at = "install" => op'[q].k # 0
             /\ op'[q].at \in {"verify", "giveup"} => conn' # 0
  <2>1. CASE q = p
    BY <2>1, <1>1, <1>4
  <2>2. CASE q # p
    <3>1. op[q].at \notin ReconnectPlaces
      BY <2>2, <1>4 DEF IInv, Alone
    <3> QED BY <2>2, <3>1, <1>1 DEF ReconnectPlaces
  <2> QED BY <2>1, <2>2
<1>5. overlap' = overlap
  BY DEF Moves
<1> QED BY <1>2, <1>3, <1>4, <1>5 DEF Alone, ReconnectPlaces

LEMMA MoveKeepsInvariant ==
  ASSUME IInv, NEW p \in Procs, NEW c, DOMAIN c = DOMAIN Idle, Moves(p, c),
         op[p].at # "idle", c.at # "release",
         c.at \in ReconnectPlaces => op[p].at \in ReconnectPlaces /\ c.kind = op[p].kind,
         c.at = "install" => c.k # 0,
         ~overlap /\ c.at \in {"verify", "giveup"} => conn' # 0,
         conn' = conn \/ op[p].at \in ReconnectPlaces,
         panicked' => panicked \/ overlap
  PROVE  IInv'
<1>1. Shaped'
  BY MoveKeepsShape DEF IInv
<1>2. Locked'
  BY MoveKeepsLocks DEF IInv
<1>3. Alone'
  BY MoveKeepsAlone
<1>4. NoPanicApart'
  BY DEF IInv, NoPanicApart, Moves
<1> QED BY <1>1, <1>2, <1>3, <1>4 DEF IInv

-----------------------------------------------------------------------------
(* One lemma per group of actions *)

\* A step between exchanges leaves flight alone: a move with nothing to receive.
LEMMA QuietMove ==
  ASSUME IInv, NEW p \in Procs, NEW place, At(p, place), NEW c,
         op' = [op EXCEPT ![p] = c], UNCHANGED <<flight, mu, overlap>>
  PROVE  Moves(p, c)
BY DEF IInv, Shaped, At, Moves

\* The end of an exchange frees c.mu.
LEMMA ReceiveMove ==
  ASSUME IInv, NEW p \in Procs, NEW req, NEW o, Receive(p, req, o), NEW c,
         op' = [op EXCEPT ![p] = c], mu' = None, UNCHANGED overlap
  PROVE  /\ Moves(p, c)
         /\ op[p].at = req
BY DEF IInv, Locked, Receive, Moves

LEMMA CallShape ==
  ASSUME IInv, NEW p \in Procs
  PROVE  DOMAIN op[p] = DOMAIN Idle
BY DEF IInv, Shaped

LEMMA LookupMove ==
  ASSUME IInv, NEW p \in Procs, Lookup(p) \/ CacheEntry(p), NEW c,
         op' = [op EXCEPT ![p] = c], DOMAIN c = DOMAIN Idle,
         c.at \in {"info", "handle", "batch", "lookup"}
  PROVE  IInv'
<1>1. \E place \in {"lookup", "cache"} : At(p, place)
  BY DEF Lookup, CacheEntry
<1>2. UNCHANGED <<flight, mu, overlap, conn, panicked>>
  BY DEF Lookup, CacheEntry
<1>3. Moves(p, c) /\ op[p].at # "idle"
  BY <1>1, <1>2, QuietMove DEF At
<1> QED BY <1>2, <1>3, MoveKeepsInvariant DEF ReconnectPlaces

LEMMA LookupStep ==
  ASSUME IInv, NEW p \in Procs, Lookup(p) \/ CacheEntry(p)
  PROVE  IInv'
<1> DEFINE Fine(c) == /\ op' = [op EXCEPT ![p] = c]
                      /\ DOMAIN c = DOMAIN Idle
                      /\ c.at \in {"info", "handle", "batch", "lookup"}
<1>1. CASE \E e : op' = [op EXCEPT ![p] = Found(@, e)]
  <2>1. PICK e : op' = [op EXCEPT ![p] = Found(@, e)]
    BY <1>1
  <2>2. Fine(Found(op[p], e))
    BY <2>1, CallShape, FoundRecord DEF IInv, Shaped
  <2> QED BY <2>2, LookupMove
<1>2. CASE op' = [op EXCEPT ![p] = [@ EXCEPT !.at = "info"]]
  <2>1. Fine([op[p] EXCEPT !.at = "info"])
    BY <1>2, CallShape DEF IInv, Shaped, Idle
  <2> QED BY <2>1, LookupMove
<1> QED BY <1>1, <1>2 DEF Lookup, CacheEntry

\* The steps of Read and Write that neither send nor receive.
LEMMA ReadQuietStep ==
  ASSUME IInv, NEW p \in Procs,
         NeedHandle(p) \/ Store(p) \/ NotConnected(p) \/ MarkDown(p) \/ ReportIfDown(p)
           \/ UploadNotConnected(p) \/ DialFails(p) \/ WriteRefused(p)
  PROVE  IInv'
<1> DEFINE Fine(c) == /\ op' = [op EXCEPT ![p] = c]
                      /\ DOMAIN c = DOMAIN Idle
                      /\ c.at \notin ReconnectPlaces \cup {"release"}
<1>1. \E c : Fine(c)
  <2>1. CASE NeedHandle(p)
    <3> DEFINE c == [op[p] EXCEPT !.at = IF entry[op[p].e].n = None THEN "acquire" ELSE "value"]
    <3>1. op' = [op EXCEPT ![p] = c]
      BY <2>1 DEF NeedHandle, Goto, IInv, Shaped
    <3>2. DOMAIN c = DOMAIN Idle /\ c.at \in {"acquire", "value"}
      BY CallShape DEF Idle
    <3> QED BY <3>1, <3>2 DEF ReconnectPlaces
  <2>2. CASE Store(p)
    <3> DEFINE c == [op[p] EXCEPT !.h = NoHandle, !.at = "value"]
    <3>1. op' = [op EXCEPT ![p] = c]
      BY <2>2 DEF Store, IInv, Shaped
    <3>2. DOMAIN c = DOMAIN Idle /\ c.at = "value"
      BY CallShape DEF Idle
    <3> QED BY <3>1, <3>2 DEF ReconnectPlaces
  <2>3. CASE NotConnected(p)
    <3> DEFINE c == Failed(op[p], "not connected")
    <3>1. op' = [op EXCEPT ![p] = c]
      BY <2>3 DEF NotConnected, IInv, Shaped
    <3>2. DOMAIN c = DOMAIN Idle /\ c.at \in {"idle", "lookup", "markdown", "report"}
      BY CallShape, FailedRecord
    <3> QED BY <3>1, <3>2 DEF ReconnectPlaces
  <2>4. CASE MarkDown(p)
    <3> DEFINE c == NextName(op[p])
    <3>1. op' = [op EXCEPT ![p] = c]
      BY <2>4 DEF MarkDown, IInv, Shaped
    <3>2. DOMAIN c = DOMAIN Idle /\ c.at \in {"lookup", "report"}
      BY CallShape, NextNameRecord
    <3> QED BY <3>1, <3>2 DEF ReconnectPlaces
  <2>5. CASE ReportIfDown(p) \/ UploadNotConnected(p) \/ DialFails(p) \/ WriteRefused(p)
    <3>1. op' = [op EXCEPT ![p] = Idle]
      BY <2>5 DEF ReportIfDown, UploadNotConnected, DialFails, WriteRefused, Return
    <3>2. Idle.at = "idle"
      BY DEF Idle
    <3> QED BY <3>1, <3>2 DEF ReconnectPlaces
  <2> QED BY <2>1, <2>2, <2>3, <2>4, <2>5
<1>2. PICK c : Fine(c)
  BY <1>1
<1>3. \E place \in {"handle", "store", "info", "acquire", "value", "batch", "markdown",
                    "report", "upload", "dial"} : At(p, place)
  BY DEF NeedHandle, Store, NotConnected, MarkDown, ReportIfDown, UploadNotConnected, DialFails,
         WriteRefused
<1>4. UNCHANGED <<flight, mu, overlap, conn, panicked>>
  BY DEF NeedHandle, Store, NotConnected, MarkDown, ReportIfDown, UploadNotConnected, DialFails,
         WriteRefused
<1>5. Moves(p, c) /\ op[p].at # "idle"
  BY <1>2, <1>3, <1>4, QuietMove DEF At
<1> QED BY <1>2, <1>4, <1>5, MoveKeepsInvariant DEF ReconnectPlaces

\* The steps of Reconnect that neither send nor receive.
LEMMA ReconnectQuietStep ==
  ASSUME IInv, NEW p \in Procs,
         Dial(p) \/ Install(p) \/ VerifyNotConnected(p) \/ GiveUp(p)
  PROVE  IInv'
<1>1. op[p].at \in ReconnectPlaces /\ UNCHANGED <<flight, mu, overlap>>
  BY DEF Dial, Install, VerifyNotConnected, GiveUp, At, ReconnectPlaces
<1>2. CASE Dial(p)
  <2>1. PICK k \in Links : op' = [op EXCEPT ![p].at = "install", ![p].k = k]
    BY <1>2 DEF Dial
  <2> DEFINE c == [op[p] EXCEPT !.at = "install", !.k = k]
  <2>2. op' = [op EXCEPT ![p] = c]
    BY <2>1 DEF IInv, Shaped
  <2>3. DOMAIN c = DOMAIN Idle /\ c.at = "install" /\ c.k # 0 /\ c.kind = op[p].kind
    BY CallShape DEF Idle, Links
  <2>4. Moves(p, c) /\ op[p].at # "idle" /\ UNCHANGED <<conn, panicked>>
    BY <1>1, <1>2, <2>2, QuietMove DEF Dial, ReconnectPlaces
  <2> HIDE DEF c
  <2> QED BY <1>1, <2>3, <2>4, MoveKeepsInvariant
<1>3. CASE Install(p)
  <2> DEFINE c == [op[p] EXCEPT !.k = 0, !.at = "verify"]
  <2>1. op' = [op EXCEPT ![p] = c] /\ conn' = op[p].k
    BY <1>3 DEF Install, IInv, Shaped
  <2>2. DOMAIN c = DOMAIN Idle /\ c.at = "verify" /\ c.kind = op[p].kind
    BY CallShape DEF Idle
  <2>3. Moves(p, c) /\ op[p].at # "idle" /\ UNCHANGED panicked
    BY <1>1, <1>3, <2>1, QuietMove DEF Install, ReconnectPlaces
  <2>4. ~overlap => conn' # 0
    BY <1>3, <2>1 DEF Install, At, IInv, Alone
  <2> HIDE DEF c
  <2> QED BY <1>1, <2>2, <2>3, <2>4, MoveKeepsInvariant
<1>4. CASE VerifyNotConnected(p)
  <2> DEFINE c == [op[p] EXCEPT !.at = "giveup"]
  <2>1. op' = [op EXCEPT ![p] = c]
    BY <1>4 DEF VerifyNotConnected, Goto, IInv, Shaped
  <2>2. DOMAIN c = DOMAIN Idle /\ c.at = "giveup" /\ c.kind = op[p].kind
    BY CallShape DEF Idle
  <2>3. Moves(p, c) /\ op[p].at # "idle" /\ UNCHANGED <<conn, panicked>>
    BY <1>1, <1>4, <2>1, QuietMove DEF VerifyNotConnected, ReconnectPlaces
  <2>4. overlap
    BY <1>4 DEF VerifyNotConnected, At, IInv, Alone
  <2> HIDE DEF c
  <2> QED BY <1>1, <2>2, <2>3, <2>4, MoveKeepsInvariant
<1>5. CASE GiveUp(p)
  <2>1. op' = [op EXCEPT ![p] = Idle] /\ Idle.at = "idle"
    BY <1>5 DEF GiveUp, Return, Idle
  <2>2. Moves(p, Idle) /\ op[p].at # "idle"
    BY <1>1, <1>5, <2>1, QuietMove DEF GiveUp, ReconnectPlaces
  <2>3. panicked' => overlap
    BY <1>5 DEF GiveUp, At, IInv, Alone
  <2> QED BY <1>1, <2>1, <2>2, <2>3, MoveKeepsInvariant DEF ReconnectPlaces
<1> QED BY <1>2, <1>3, <1>4, <1>5

\* A request goes out: its sender takes the free c.mu.
LEMMA AskStep ==
  ASSUME IInv, NEW p \in Procs,
         AskInfo(p) \/ AskHandle(p) \/ AskValue(p) \/ AskBatch(p) \/ AskUpload(p)
           \/ AskVerify(p)
  PROVE  IInv'
<1>1. PICK req, sym, n : At(p, req) /\ Send(p, req, sym, n)
  BY DEF AskInfo, AskHandle, AskValue, AskBatch, AskUpload, AskVerify
<1>2. /\ mu = None /\ mu' = p
      /\ flight' = [flight EXCEPT ![p] = [link |-> conn, req |-> req, sym |-> sym, n |-> n]]
      /\ UNCHANGED <<op, conn, overlap, panicked>>
  BY <1>1 DEF Send
<1>3. Shaped'
  BY <1>2 DEF IInv, Shaped
<1>4. \A q \in Procs : flight[q] = None /\ op[q].at # "release"
  BY <1>2, NoneAssumption DEF IInv, Locked
<1>5. Locked'
  <2>1. flight'[p].req = req /\ op'[p].at = req
    BY <1>1, <1>2 DEF IInv, Shaped, At
  <2>2. \A q \in Procs \ {p} : flight'[q] = None
    BY <1>2, <1>4 DEF IInv, Shaped
  <2>3. \A q \in Procs : op'[q].at # "release"
    BY <1>2, <1>4
  <2> QED BY <1>2, <2>1, <2>2, <2>3 DEF Locked
<1>6. Alone' /\ NoPanicApart'
  BY <1>2 DEF IInv, Alone, NoPanicApart
<1> QED BY <1>3, <1>5, <1>6 DEF IInv

\* The replies of Read, Write and AllTags: wherever the call goes, it is not into a
\* Reconnect.
LEMMA ReplyStep ==
  ASSUME IInv, NEW p \in Procs,
         InfoReply(p) \/ AcquireReply(p) \/ ValueReply(p) \/ BatchReply(p) \/ UploadReply(p)
  PROVE  IInv'
<1> DEFINE Ended(req, o, c) == /\ Receive(p, req, o)
                               /\ req \in {"info", "acquire", "value", "batch", "upload"}
                               /\ op' = [op EXCEPT ![p] = c]
                               /\ DOMAIN c = DOMAIN Idle
                               /\ c.at \notin ReconnectPlaces \cup {"release"}
<1>1. \E req, o, c : Ended(req, o, c)
  <2>1. CASE InfoReply(p)
    <3>1. PICK o \in Results : Receive(p, "info", o)
                 /\ op' = [op EXCEPT ![p] = IF o = "ok" THEN [@ EXCEPT !.at = "cache"]
                                            ELSE Failed(After(@, o), o)]
      BY <2>1 DEF InfoReply
    <3> DEFINE c == IF o = "ok" THEN [op[p] EXCEPT !.at = "cache"]
                    ELSE Failed(After(op[p], o), o)
    <3>2. op' = [op EXCEPT ![p] = c]
      BY <3>1 DEF IInv, Shaped
    <3>3. DOMAIN [op[p] EXCEPT !.at = "cache"] = DOMAIN Idle
          /\ [op[p] EXCEPT !.at = "cache"].at = "cache"
      BY CallShape DEF Idle
    <3>4. DOMAIN Failed(After(op[p], o), o) = DOMAIN Idle
          /\ Failed(After(op[p], o), o).at \in {"idle", "lookup", "markdown", "report"}
      BY CallShape, AfterRecord, FailedRecord
    <3>5. DOMAIN c = DOMAIN Idle /\ c.at \in {"cache", "idle", "lookup", "markdown", "report"}
      BY <3>3, <3>4
    <3> HIDE DEF c
    <3>6. Ended("info", o, c)
      BY <3>1, <3>2, <3>5 DEF ReconnectPlaces
    <3> QED BY <3>6
  <2>2. CASE AcquireReply(p)
    <3>1. PICK o \in Results :
            /\ Receive(p, "acquire", o)
            /\ \/ \E h : op' = [op EXCEPT ![p].at = "store", ![p].h = h]
               \/ op' = [op EXCEPT ![p] = Failed(After(@, o), o)]
      BY <2>2 DEF AcquireReply
    <3>2. CASE \E h : op' = [op EXCEPT ![p].at = "store", ![p].h = h]
      <4>1. PICK h : op' = [op EXCEPT ![p].at = "store", ![p].h = h]
        BY <3>2
      <4> DEFINE c == [op[p] EXCEPT !.at = "store", !.h = h]
      <4>2. op' = [op EXCEPT ![p] = c]
        BY <4>1 DEF IInv, Shaped
      <4>3. DOMAIN c = DOMAIN Idle /\ c.at = "store"
        BY CallShape DEF Idle
      <4> HIDE DEF c
      <4>4. Ended("acquire", o, c)
        BY <3>1, <4>2, <4>3 DEF ReconnectPlaces
      <4> QED BY <4>4
    <3>3. CASE op' = [op EXCEPT ![p] = Failed(After(@, o), o)]
      <4> DEFINE c == Failed(After(op[p], o), o)
      <4>1. op' = [op EXCEPT ![p] = c]
        BY <3>3 DEF IInv, Shaped
      <4>2. DOMAIN c = DOMAIN Idle /\ c.at \in {"idle", "lookup", "markdown", "report"}
        BY CallShape, AfterRecord, FailedRecord
      <4> HIDE DEF c
      <4>3. Ended("acquire", o, c)
        BY <3>1, <4>1, <4>2 DEF ReconnectPlaces
      <4> QED BY <4>3
    <3> QED BY <3>1, <3>2, <3>3
  <2>3. CASE ValueReply(p)
    <3>1. PICK o \in Results : Receive(p, "value", o)
            /\ \/ op' = [op EXCEPT ![p] = Idle]
               \/ op' = [op EXCEPT ![p] = NextName(After(op[p], o))]
      BY <2>3 DEF ValueReply, IInv, Shaped
    <3>2. Idle.at = "idle"
      BY DEF Idle
    <3>3. DOMAIN NextName(After(op[p], o)) = DOMAIN Idle
          /\ NextName(After(op[p], o)).at \in {"report", "lookup"}
      BY CallShape, AfterRecord, NextNameRecord
    <3>4. Ended("value", o, Idle) \/ Ended("value", o, NextName(After(op[p], o)))
      BY <3>1, <3>2, <3>3 DEF ReconnectPlaces
    <3> QED BY <3>4
  <2>4. CASE BatchReply(p)
    <3>1. PICK o \in Results : Receive(p, "batch", o)
            /\ \/ op' = [op EXCEPT ![p] = [op[p] EXCEPT !.at = "report"]]
               \/ op' = [op EXCEPT ![p] = Individually(After(op[p], o))]
      BY <2>4 DEF BatchReply, IInv, Shaped
    <3>2. DOMAIN [op[p] EXCEPT !.at = "report"] = DOMAIN Idle
          /\ [op[p] EXCEPT !.at = "report"].at = "report"
      BY CallShape DEF Idle
    <3>3. DOMAIN Individually(After(op[p], o)) = DOMAIN Idle
          /\ Individually(After(op[p], o)).at = "lookup"
      BY CallShape, AfterRecord, IndividuallyRecord
    <3>4. Ended("batch", o, [op[p] EXCEPT !.at = "report"])
            \/ Ended("batch", o, Individually(After(op[p], o)))
      BY <3>1, <3>2, <3>3 DEF ReconnectPlaces
    <3> QED BY <3>4
  <2>5. CASE UploadReply(p)
    <3>1. PICK o \in Results : Receive(p, "upload", o) /\ op' = [op EXCEPT ![p] = Idle]
      BY <2>5 DEF UploadReply, Return
    <3>2. Ended("upload", o, Idle)
      BY <3>1 DEF Idle, ReconnectPlaces
    <3> QED BY <3>2
  <2> QED BY <2>1, <2>2, <2>3, <2>4, <2>5
<1>2. PICK req, o, c : Ended(req, o, c)
  BY <1>1
<1>3. mu' = None /\ UNCHANGED <<conn, overlap, panicked>>
  BY DEF InfoReply, AcquireReply, ValueReply, BatchReply, UploadReply
<1>4. Moves(p, c) /\ op[p].at = req
  BY <1>2, <1>3, ReceiveMove
<1> QED BY <1>2, <1>3, <1>4, MoveKeepsInvariant DEF ReconnectPlaces

\* The reply of readDeviceInfo in Reconnect.
LEMMA VerifyReplyStep ==
  ASSUME IInv, NEW p \in Procs, VerifyReply(p)
  PROVE  IInv'
<1>1. PICK o \in Results : Receive(p, "verify", o)
        /\ op' = [op EXCEPT ![p] = IF o = "ok" THEN Idle ELSE [@ EXCEPT !.at = "giveup"]]
  BY DEF VerifyReply
<1> DEFINE c == IF o = "ok" THEN Idle ELSE [op[p] EXCEPT !.at = "giveup"]
<1>2. op' = [op EXCEPT ![p] = c]
  BY <1>1 DEF IInv, Shaped
<1>3. /\ DOMAIN c = DOMAIN Idle
      /\ c.at \in {"idle", "giveup"}
      /\ c.at # "idle" => c.kind = op[p].kind
  BY CallShape DEF Idle
<1>4. mu' = None /\ UNCHANGED <<conn, overlap, panicked>>
  BY DEF VerifyReply
<1> HIDE DEF c
<1>5. Moves(p, c) /\ op[p].at = "verify"
  BY <1>1, <1>2, <1>4, ReceiveMove
<1>6. ~overlap => conn # 0
  BY <1>5 DEF IInv, Alone
<1> QED BY <1>3, <1>4, <1>5, <1>6, MoveKeepsInvariant DEF ReconnectPlaces

\* The steps of Close, which holds c.mu.
LEMMA CloseStep ==
  ASSUME IInv, NEW p \in Procs, AskRelease(p) \/ ReleaseReply(p) \/ CloseLink(p)
  PROVE  IInv'
<1>1. op[p].at = "release" /\ mu = p
  BY DEF AskRelease, ReleaseReply, CloseLink, Receive, At, IInv, Locked
<1>2. CASE AskRelease(p)
  <2>1. /\ \/ flight' = flight
           \/ \E k, s, n : flight' = [flight EXCEPT ![p] = [link |-> k, req |-> "release",
                                                            sym |-> s, n |-> n]]
        /\ UNCHANGED <<op, mu, conn, overlap, panicked>>
    BY <1>2 DEF AskRelease
  <2>2. Shaped'
    BY <2>1 DEF IInv, Shaped
  <2>3. \A q \in Procs \ {p} : flight'[q] = flight[q]
    BY <2>1 DEF IInv, Shaped
  <2>4. flight'[p] = flight[p] \/ flight'[p].req = "release"
    BY <2>1 DEF IInv, Shaped
  <2>5. Locked'
    BY <1>1, <2>1, <2>3, <2>4 DEF IInv, Locked
  <2> QED BY <2>1, <2>2, <2>5 DEF IInv, Alone, NoPanicApart
<1>3. CASE ReleaseReply(p)
  <2>1. /\ flight' = [flight EXCEPT ![p] = None]
        /\ UNCHANGED <<op, mu, conn, overlap, panicked>>
    BY <1>3 DEF ReleaseReply, Receive
  <2>2. Shaped'
    BY <2>1 DEF IInv, Shaped
  <2>3. Locked'
    BY <2>1 DEF IInv, Shaped, Locked
  <2> QED BY <2>1, <2>2, <2>3 DEF IInv, Alone, NoPanicApart
<1>4. CASE CloseLink(p)
  <2>1. /\ op' = [op EXCEPT ![p] = Idle] /\ mu' = None /\ flight[p] = None
        /\ UNCHANGED <<flight, overlap, panicked>>
    BY <1>4 DEF CloseLink, Return, At
  <2>2. Moves(p, Idle)
    BY <1>1, <2>1 DEF Moves, IInv, Shaped
  <2>3. Shaped' /\ Locked'
    BY <2>2, MoveKeepsShape, MoveKeepsLocks DEF IInv, Idle
  <2>4. op'[p] = Idle /\ \A q \in Procs \ {p} : op'[q] = op[q]
    BY <2>2, MoveKeepsShape DEF IInv
  <2>5. ~overlap => \A q \in Procs : op[q].at \notin ReconnectPlaces
    BY <1>1 DEF IInv, Alone, ReconnectPlaces
  <2>6. Idle.at = "idle"
    BY DEF Idle
  <2>7. Alone'
    BY <2>1, <2>4, <2>5, <2>6 DEF IInv, Alone, ReconnectPlaces
  <2> QED BY <2>1, <2>3, <2>7 DEF IInv, NoPanicApart
<1> QED BY <1>2, <1>3, <1>4

\* A call begins: it is alone with a Reconnect only if overlap says so.
LEMMA BeginStep ==
  ASSUME IInv, NEW p \in Procs, NEW call, Begin(p, call), DOMAIN call = DOMAIN Idle,
         call.at \notin ReconnectPlaces \ {"dial"},
         call.at = "dial" => call.kind = "Reconnect",
         call.at # "dial" => conn' = conn,
         IF call.at = "release" THEN mu = None /\ mu' = p ELSE mu' = mu,
         UNCHANGED <<flight, panicked>>
  PROVE  IInv'
<1>1. /\ op[p].at = "idle" /\ flight[p] = None /\ op' = [op EXCEPT ![p] = call]
      /\ overlap' = (overlap \/ \E q \in Procs \ {p} :
                       op[q].at # "idle" /\ "Reconnect" \in {call.kind, op[q].kind})
  BY DEF Begin, At
<1>2. op'[p] = call /\ \A q \in Procs \ {p} : op'[q] = op[q]
  BY <1>1 DEF IInv, Shaped
<1>3. Shaped'
  <2>1. op' = [q \in Procs |-> op'[q]]
    BY <1>1 DEF IInv, Shaped
  <2>2. \A q \in Procs : DOMAIN op'[q] = DOMAIN Idle
    BY <1>2 DEF IInv, Shaped
  <2> QED BY <2>1, <2>2 DEF IInv, Shaped, Idle, NoHandle
<1>4. Locked'
  <2>1. CASE call.at = "release"
    <3>1. \A q \in Procs : flight[q] = None /\ op[q].at # "release"
      BY <2>1, NoneAssumption DEF IInv, Locked
    <3> QED BY <2>1, <3>1, <1>2 DEF Locked
  <2>2. CASE call.at # "release"
    BY <2>2, <1>1, <1>2 DEF IInv, Locked
  <2> QED BY <2>1, <2>2
<1>5. \A q \in Procs : op'[q].at \in ReconnectPlaces => op'[q].kind = "Reconnect"
  BY <1>2 DEF IInv, Alone, ReconnectPlaces
<1>6. ASSUME ~overlap'
      PROVE  \A q \in Procs :
               /\ op'[q].at \in ReconnectPlaces => \A r \in Procs \ {q} : op'[r].at = "idle"
               /\ op'[q].at = "install" => op'[q].k # 0
               /\ op'[q].at \in {"verify", "giveup"} => conn' # 0
  <2>1. ~overlap /\ \A q \in Procs \ {p} :
                      op[q].at = "idle" \/ "Reconnect" \notin {call.kind, op[q].kind}
    BY <1>1, <1>6
  <2>2. \A q \in Procs \ {p} : op[q].at \notin ReconnectPlaces
    BY <2>1 DEF IInv, Alone, ReconnectPlaces
  <2>3. call.at = "dial" => \A q \in Procs \ {p} : op[q].at = "idle"
    BY <2>1
  <2> QED BY <1>2, <2>2, <2>3 DEF ReconnectPlaces
<1>7. Alone'
  BY <1>5, <1>6 DEF Alone
<1>8. NoPanicApart'
  BY <1>1 DEF IInv, NoPanicApart
<1> QED BY <1>3, <1>4, <1>7, <1>8 DEF IInv

LEMMA StartStep ==
  ASSUME IInv, NEW p \in Procs, Start(p)
  PROVE  IInv'
<1>1. CASE StartRead(p)
  <2>1. PICK names \in NameLists :
          Begin(p, [Idle EXCEPT !.at = "lookup", !.kind = "read", !.names = names,
                                !.rest = names, !.batch = Len(names) > 1])
    BY <1>1 DEF StartRead
  <2>2. UNCHANGED <<conn, mu, flight, panicked>>
    BY <1>1 DEF StartRead
  <2> QED BY <2>1, <2>2, BeginStep DEF Idle, ReconnectPlaces
<1>2. CASE StartWrite(p)
  <2>1. PICK s \in Symbols :
          Begin(p, [Idle EXCEPT !.at = "lookup", !.kind = "write", !.names = <<s>>,
                                !.rest = <<s>>])
    BY <1>2 DEF StartWrite
  <2>2. UNCHANGED <<conn, mu, flight, panicked>>
    BY <1>2 DEF StartWrite
  <2> QED BY <2>1, <2>2, BeginStep DEF Idle, ReconnectPlaces
<1>3. CASE StartAllTags(p)
  BY <1>3, BeginStep DEF StartAllTags, Idle, ReconnectPlaces
<1>4. CASE StartClose(p)
  BY <1>4, BeginStep DEF StartClose, Idle, ReconnectPlaces
<1>5. CASE SetDisconnected(p)
  BY <1>5 DEF SetDisconnected, IInv, Shaped, Locked, Alone, NoPanicApart
<1>6. CASE StartReconnect(p)
  BY <1>6, BeginStep DEF StartReconnect, Idle, ReconnectPlaces
<1> QED BY <1>1, <1>2, <1>3, <1>4, <1>5, <1>6 DEF Start

-----------------------------------------------------------------------------
(* The theorems *)

\* IInv is inductive.
LEMMA Initial == Init => IInv
BY DEF Init, IInv, Shaped, Locked, Alone, NoPanicApart, Idle, NoHandle, ReconnectPlaces

LEMMA Preserved == IInv /\ [Next]_vars => IInv'
<1> SUFFICES ASSUME IInv, [Next]_vars PROVE IInv'
  OBVIOUS
<1>1. ASSUME NEW p \in Procs, Start(p) PROVE IInv'
  BY <1>1, StartStep
<1>2. ASSUME NEW p \in Procs, ReadStep(p) PROVE IInv'
  BY <1>2, LookupStep, ReadQuietStep, AskStep, ReplyStep DEF ReadStep
<1>3. ASSUME NEW p \in Procs, OtherStep(p) PROVE IInv'
  BY <1>3, ReadQuietStep, ReconnectQuietStep, AskStep, ReplyStep, VerifyReplyStep, CloseStep
     DEF OtherStep
<1>4. ASSUME NEW k \in Links, LinkBreaks(k) PROVE IInv'
  BY <1>4 DEF LinkBreaks, IInv, Shaped, Locked, Alone, NoPanicApart
<1>5. CASE UNCHANGED vars
  BY <1>5 DEF vars, IInv, Shaped, Locked, Alone, NoPanicApart
<1> QED BY <1>1, <1>2, <1>3, <1>4, <1>5 DEF Next, Panicked

\* Who holds c.mu, where a Reconnect stands and what runs beside it: IInv always holds.
THEOREM CallsInvariant == Spec => []IInv
BY Initial, Preserved, PTL DEF Spec

\* However many goroutines share the client, no link ever carries two requests.
THEOREM RequestsSerial == Spec => []OneRequestPerLink
<1>1. IInv => OneRequestPerLink
  BY DEF IInv, Locked, OneRequestPerLink
<1> QED BY <1>1, CallsInvariant, PTL

\* Reconnect dereferences a nil connection only if a call ran beside it.
THEOREM PanicNeedsOverlap == Spec => []NoPanicApart
<1>1. IInv => NoPanicApart
  BY DEF IInv
<1> QED BY <1>1, CallsInvariant, PTL

-----------------------------------------------------------------------------
(* The handles, links and lost calls *)

\* Where a call has a name in hand, and where it has that name's entry as well.
Looping == {"lookup", "info", "cache", "handle", "acquire", "store", "value", "markdown"}
WithEntry == {"handle", "acquire", "store", "value"}

\* What the fields of a call hold at each place.
GoodCall(c) ==
  /\ c \in Calls
  /\ c.at \in Looping => c.rest # <<>>
  /\ c.at \in Looping \cup {"batch"} => c.names # <<>>
  /\ c.at \in Looping \cup {"batch", "report"} => c.kind \in {"read", "write"}
  /\ c.at = "batch" => c.batch
  /\ c.at \in WithEntry => c.e # 0
  /\ c.e # 0 => c.at \in Looping /\ ~c.batch
  /\ c.at = "store" => c.h.n # None
  /\ c.k # 0 <=> c.at = "install"

Calling == \A p \in Procs : GoodCall(op[p])

\* A request in flight is on the link in use, and about the name its call is at.
Sent ==
  \A p \in Procs :
    flight[p] # None =>
      /\ conn # 0 /\ flight[p].link = conn
      /\ flight[p].req \in {"info", "acquire", "value"} => flight[p].sym = Name(p)

\* Without a link the flag is clear, and Close has cleared it.
Flagged ==
  /\ conn = 0 => ~connected
  /\ \A p \in Procs : op[p].at = "release" => ~connected

\* The entry e is cached under s, or in the hands of a call that is at s.
Stands(e, s) ==
  \/ symbols[s] = e
  \/ \E p \in Procs : op[p].e = e /\ Name(p) = s

OneName ==
  \A e \in Entries : \A s, t \in Symbols : Stands(e, s) /\ Stands(e, t) => s = t

\* The PLC gave handle h for s on the link in use, or has forgotten it and will not give
\* the number again: the link is no longer open, or Close is about to close it.
Valid(h, s) ==
  /\ h.from \in Links
  /\ conn = 0 \/ h.from = conn
  /\ \/ given[h.from][h.n] = s
     \/ /\ given[h.from][h.n] = None
        /\ link[h.from] # "open"
             \/ (h.from = conn /\ \E q \in Procs : op[q].at = "release")

\* Until a Reconnect has run beside another call, the handles that can still be used are
\* valid...
Faithful ==
  ~overlap =>
    /\ \A e \in Entries : \A s \in Symbols :
         (Stands(e, s) /\ entry[e].n # None) => Valid(entry[e], s)
    /\ \A p \in Procs : op[p].at = "store" => Valid(op[p].h, Name(p))

\* ... and there are none while it dials.
Cleared ==
  ~overlap =>
    \A p \in Procs :
      op[p].at \in {"dial", "install"} =>
        /\ conn = 0
        /\ \A s \in Symbols : symbols[s] # 0 => entry[symbols[s]].n = None

\* A call that found the link broken has cleared the flag, or will find it broken again
\* before it ends.
Noted ==
  ~overlap =>
    \A p \in Procs :
      (op[p].at \in Looping \cup {"batch", "report"} /\ op[p].lost) =>
        \/ ~connected
        \/ conn # 0 /\ link[conn] \notin {"open", "gone"} /\ op[p].at # "report"

HInv ==
  /\ TypeOK /\ Calling /\ Sent /\ Flagged /\ OneName /\ Faithful /\ Cleared /\ Noted
  /\ NoLinkLeaks /\ AddressesItsSymbolApart

-----------------------------------------------------------------------------
(* The records a call goes through *)

LEMMA EntriesPositive == 0 \notin Entries
BY DEF Entries

LEMMA LinksPositive == 0 \notin Links
BY DEF Links

LEMMA IdleGood == GoodCall(Idle)
BY MaxLinksAssumption DEF GoodCall, Calls, Idle, Places, Looping, WithEntry, HandleValues, NoHandle

LEMMA NextNameGood ==
  ASSUME NEW c, GoodCall(c), c.at \in Looping
  PROVE  /\ GoodCall(NextName(c))
         /\ NextName(c).e = 0 /\ NextName(c).k = 0 /\ NextName(c).lost = c.lost
<1> DEFINE r == Tail(c.rest)
<1>1. r \in Seq(Symbols)
  BY DEF GoodCall, Calls
<1>2. NextName(c) = [c EXCEPT !.rest = r, !.e = 0,
                              !.at = IF r = <<>> THEN "report" ELSE "lookup"]
  BY DEF NextName
<1> HIDE DEF r
<1> QED BY <1>1, <1>2 DEF GoodCall, Calls, Places, Looping, WithEntry

LEMMA IndividuallyGood ==
  ASSUME NEW c, GoodCall(c), c.at \in Looping \cup {"batch"}, c.batch
  PROVE  /\ GoodCall(Individually(c))
         /\ Individually(c).e = 0 /\ Individually(c).k = 0 /\ Individually(c).lost = c.lost
BY DEF GoodCall, Calls, Individually, Places, Looping, WithEntry

LEMMA AfterGood ==
  ASSUME NEW c, NEW o, GoodCall(c)
  PROVE  /\ GoodCall(After(c, o))
         /\ After(c, o) = [c EXCEPT !.lost = c.lost \/ o = "lost"]
         /\ After(c, o).at = c.at /\ After(c, o).e = c.e /\ After(c, o).rest = c.rest
         /\ After(c, o).kind = c.kind /\ After(c, o).batch = c.batch
         /\ After(c, o).lost <=> c.lost \/ o = "lost"
BY DEF GoodCall, Calls, After, Places, Looping, WithEntry

LEMMA FoundGood ==
  ASSUME NEW c, NEW e \in Entries, GoodCall(c), c.at \in {"lookup", "cache"}
  PROVE  /\ GoodCall(Found(c, e))
         /\ \/ Found(c, e).e = 0
            \/ Found(c, e).e = e /\ Found(c, e).rest = c.rest
         /\ Found(c, e).k = 0 /\ Found(c, e).lost = c.lost
<1>1. CASE ~c.batch
  BY <1>1, EntriesPositive DEF GoodCall, Calls, Found, Places, Looping, WithEntry
<1>2. CASE c.batch /\ Tail(c.rest) = <<>>
  <2>1. Found(c, e) = [c EXCEPT !.rest = <<>>, !.at = "batch"]
    BY <1>2 DEF Found, GoodCall, Calls
  <2>2. <<>> \in Seq(Symbols) /\ c.e = 0 /\ c.k = 0
    BY <1>2 DEF GoodCall, Calls, Looping
  <2> QED BY <1>2, <2>1, <2>2 DEF GoodCall, Calls, Places, Looping, WithEntry
<1>3. CASE c.batch /\ Tail(c.rest) # <<>>
  <2>1. Found(c, e) = [c EXCEPT !.rest = Tail(c.rest), !.at = "lookup"]
    BY <1>3 DEF Found, GoodCall, Calls
  <2>2. Tail(c.rest) \in Seq(Symbols) /\ c.e = 0 /\ c.k = 0
    BY <1>3 DEF GoodCall, Calls, Looping
  <2> QED BY <1>3, <2>1, <2>2 DEF GoodCall, Calls, Places, Looping, WithEntry
<1> QED BY <1>1, <1>2, <1>3 DEF GoodCall, Calls

LEMMA FailedGood ==
  ASSUME NEW c, NEW o, GoodCall(c), c.at \in Looping \cup {"batch"}
  PROVE  /\ GoodCall(Failed(c, o))
         /\ \/ Failed(c, o).e = 0
            \/ Failed(c, o).e = c.e /\ Failed(c, o).rest = c.rest
         /\ Failed(c, o).k = 0 /\ Failed(c, o).at # "store"
         /\ Failed(c, o).at # "idle" => Failed(c, o).lost = c.lost
         /\ Failed(c, o).at = "report" => ~isConnectionError(o)
<1>1. CASE c.kind = "write"
  BY <1>1, IdleGood DEF Failed, Idle
<1>2. CASE c.kind # "write" /\ c.batch
  BY <1>2, IndividuallyGood, IndividuallyRecord DEF Failed, Individually, GoodCall, Calls
<1>3. CASE c.kind # "write" /\ ~c.batch
  <2>1. c.at \in Looping
    BY <1>3 DEF GoodCall
  <2>2. CASE isConnectionError(o)
    BY <1>3, <2>1, <2>2 DEF Failed, GoodCall, Calls, Places, Looping, WithEntry
  <2>3. CASE ~isConnectionError(o)
    BY <1>3, <2>1, <2>3, NextNameGood DEF Failed, NextName, GoodCall, Calls, Looping
  <2> QED BY <2>2, <2>3
<1> QED BY <1>1, <1>2, <1>3

-----------------------------------------------------------------------------
(* What a step that moves one call on keeps, one conjunct at a time *)

\* The links may be noticed to be dead, nothing else about them changes.
LinksFade ==
  /\ link' \in [Links -> {"unused", "open", "gone", "dead", "closed"}]
  /\ \A k \in Links : link'[k] = link[k] \/ (link[k] = "gone" /\ link'[k] = "dead")

\* The entry of the new call, if any, is one its name stands for already.
Follows(p, c) ==
  \/ c.e = 0
  \/ Head(c.rest) = Name(p) /\ c.e \in {op[p].e, symbols[Name(p)]}

LEMMA GoodShape ==
  ASSUME NEW c, GoodCall(c)
  PROVE  DOMAIN c = DOMAIN Idle
BY DEF GoodCall, Calls, Idle

\* The call of p becomes c and p waits on no request.
Proceeds(p, c) ==
  /\ op' = [op EXCEPT ![p] = c]
  /\ flight' = [flight EXCEPT ![p] = None]
  /\ mu' \in Procs \cup {None}
  /\ overlap' \in BOOLEAN /\ (overlap => overlap')

LEMMA MoveProceeds ==
  ASSUME HInv, NEW p \in Procs, NEW c, Moves(p, c)
  PROVE  Proceeds(p, c)
BY DEF HInv, TypeOK, Moves, Proceeds

LEMMA MoveTypes ==
  ASSUME IInv, HInv, NEW p \in Procs, NEW c, GoodCall(c), Proceeds(p, c)
  PROVE  /\ op'[p] = c /\ flight'[p] = None
         /\ \A q \in Procs \ {p} : op'[q] = op[q] /\ flight'[q] = flight[q]
         /\ Calling'
         /\ op' \in [Procs -> Calls]
         /\ flight' \in [Procs -> {None} \cup Requests]
         /\ mu' \in Procs \cup {None}
         /\ overlap' \in BOOLEAN
<1>1. /\ op'[p] = c /\ flight'[p] = None
      /\ \A q \in Procs \ {p} : op'[q] = op[q] /\ flight'[q] = flight[q]
  BY DEF HInv, TypeOK, Proceeds
<1>2. Calling'
  <2>1. \A q \in Procs : GoodCall(op'[q])
    BY <1>1 DEF HInv, Calling
  <2> QED BY <2>1 DEF Calling, GoodCall, Calls, Places, Looping, WithEntry, HandleValues, Links,
                      Entries
<1>3. c \in Calls
  BY DEF GoodCall
<1>4. op' \in [Procs -> Calls]
  BY <1>3 DEF HInv, TypeOK, Proceeds
<1>5. flight' \in [Procs -> {None} \cup Requests]
  BY DEF HInv, TypeOK, Proceeds
<1> QED BY <1>1, <1>2, <1>4, <1>5 DEF Proceeds

LEMMA MoveSent ==
  ASSUME IInv, HInv, NEW p \in Procs, NEW c, GoodCall(c), Proceeds(p, c),
         conn' = conn \/ mu \in {None, p}
  PROVE  Sent'
<1>1. /\ op'[p] = c /\ flight'[p] = None
      /\ \A q \in Procs \ {p} : op'[q] = op[q] /\ flight'[q] = flight[q]
  BY MoveTypes
<1>2. CASE conn' = conn
  BY <1>1, <1>2 DEF HInv, Sent, Name
<1>3. CASE mu \in {None, p}
  <2>1. \A q \in Procs \ {p} : flight[q] = None
    BY <1>3, NoneAssumption DEF IInv, Locked
  <2> QED BY <1>1, <2>1 DEF Sent
<1> QED BY <1>2, <1>3

LEMMA MoveFlagged ==
  ASSUME IInv, HInv, NEW p \in Procs, NEW c, GoodCall(c), Proceeds(p, c), c.at # "release",
         conn' = conn, connected' => connected
  PROVE  Flagged'
<1>1. op'[p] = c /\ \A q \in Procs \ {p} : op'[q] = op[q]
  BY MoveTypes
<1> QED BY <1>1 DEF HInv, Flagged

LEMMA MoveStands ==
  ASSUME IInv, HInv, NEW p \in Procs, NEW c, GoodCall(c), Proceeds(p, c), Follows(p, c),
         symbols' = symbols
  PROVE  /\ \A e \in Entries : \A s \in Symbols : Stands(e, s)' => Stands(e, s)
         /\ OneName'
<1>1. op'[p] = c /\ \A q \in Procs \ {p} : op'[q] = op[q]
  BY MoveTypes
<1>2. ASSUME NEW e \in Entries, NEW s \in Symbols, Stands(e, s)'
      PROVE  Stands(e, s)
  <2>1. CASE symbols'[s] = e
    BY <2>1 DEF Stands
  <2>2. CASE op'[p].e = e /\ Head(op'[p].rest) = s
    BY <2>2, <1>1, EntriesPositive DEF Follows, Stands
  <2>3. CASE \E q \in Procs \ {p} : op'[q].e = e /\ Head(op'[q].rest) = s
    BY <2>3, <1>1 DEF Stands, Name
  <2> QED BY <1>2, <2>1, <2>2, <2>3 DEF Stands, Name
<1>3. OneName'
  BY <1>2 DEF HInv, OneName, Entries
<1> QED BY <1>2, <1>3

LEMMA MoveFaithful ==
  ASSUME IInv, HInv, NEW p \in Procs, NEW c, GoodCall(c), Proceeds(p, c),
         \A e \in Entries : \A s \in Symbols :
           (Stands(e, s)' /\ entry'[e].n # None) => Stands(e, s) /\ entry'[e] = entry[e],
         LinksFade, UNCHANGED <<conn, given>>, c.at # "store", op[p].at # "release"
  PROVE  Faithful'
<1> SUFFICES ASSUME ~overlap' PROVE
      /\ \A e \in Entries : \A s \in Symbols :
           (Stands(e, s)' /\ entry'[e].n # None) => Valid(entry[e], s)'
      /\ \A q \in Procs : op'[q].at = "store" => Valid(op[q].h, Name(q))'
  BY DEF Faithful, Entries
<1>1. op'[p] = c /\ \A q \in Procs \ {p} : op'[q] = op[q]
  BY MoveTypes
<1>2. (\E q \in Procs : op[q].at = "release") => (\E q \in Procs : op'[q].at = "release")
  BY <1>1
<1>3. ~overlap
  BY DEF Proceeds
<1>4. ASSUME NEW e \in Entries, NEW s \in Symbols, Stands(e, s)', entry'[e].n # None
      PROVE  Valid(entry[e], s)'
  <2>1. Stands(e, s) /\ entry'[e] = entry[e]
    BY <1>4
  <2>2. Valid(entry[e], s)
    BY <1>3, <1>4, <2>1 DEF HInv, Faithful
  <2> QED BY <2>1, <2>2, <1>2 DEF Valid, LinksFade, Links
<1>5. ASSUME NEW q \in Procs, op'[q].at = "store"
      PROVE  Valid(op[q].h, Name(q))'
  <2>1. q # p
    BY <1>1, <1>5
  <2>2. op'[q] = op[q]
    BY <1>1, <2>1
  <2>3. Valid(op[q].h, Name(q))
    BY <2>2, <1>3, <1>5 DEF HInv, Faithful
  <2> QED BY <2>2, <2>3, <1>2 DEF Valid, Name, LinksFade, Links
<1> QED BY <1>4, <1>5

LEMMA MoveCleared ==
  ASSUME IInv, HInv, NEW p \in Procs, NEW c, GoodCall(c), Proceeds(p, c),
         op[p].at # "idle", c.at \notin {"dial", "install"}
  PROVE  Cleared'
<1> SUFFICES ASSUME ~overlap, NEW q \in Procs, op'[q].at \in {"dial", "install"}
             PROVE  FALSE
  BY DEF Cleared, Proceeds
<1>1. q # p /\ op[q].at \in {"dial", "install"}
  BY MoveTypes
<1>2. op[p].at = "idle"
  BY <1>1 DEF IInv, Alone, ReconnectPlaces
<1> QED BY <1>2

\* What the new call must answer for if it has met a broken link.
Answers(c) ==
  (~overlap /\ c.at \in Looping \cup {"batch", "report"} /\ c.lost) =>
    \/ ~connected'
    \/ conn # 0 /\ link'[conn] \notin {"open", "gone"} /\ c.at # "report"

LEMMA MoveNoted ==
  ASSUME IInv, HInv, NEW p \in Procs, NEW c, GoodCall(c), Proceeds(p, c), LinksFade, Answers(c),
         conn' = conn, connected' => connected
  PROVE  Noted'
<1> SUFFICES ASSUME ~overlap, NEW q \in Procs, op'[q].lost,
                    op'[q].at \in Looping \cup {"batch", "report"}
             PROVE  \/ ~connected'
                    \/ conn' # 0 /\ link'[conn'] \notin {"open", "gone"}
                         /\ op'[q].at # "report"
  BY DEF Noted, Proceeds, Looping
<1>1. op'[p] = c /\ \A r \in Procs \ {p} : op'[r] = op[r]
  BY MoveTypes
<1>2. CASE q = p
  BY <1>1, <1>2 DEF Answers
<1>3. CASE q # p
  <2>1. \/ ~connected
        \/ conn # 0 /\ link[conn] \notin {"open", "gone"} /\ op[q].at # "report"
    BY <1>1, <1>3 DEF HInv, Noted
  <2>2. conn # 0 => conn \in Links
    BY DEF HInv, TypeOK
  <2> QED BY <1>1, <1>3, <2>1, <2>2 DEF LinksFade
<1> QED BY <1>2, <1>3

LEMMA MoveLinks ==
  ASSUME IInv, HInv, NEW p \in Procs, NEW c, GoodCall(c), Proceeds(p, c), LinksFade,
         conn' = conn, op[p].k = 0
  PROVE  NoLinkLeaks'
<1>1. \A q \in Procs \ {p} : op'[q] = op[q]
  BY MoveTypes
<1> SUFFICES ASSUME ~overlap, NEW k \in Links, link'[k] \in {"open", "gone", "dead"}
             PROVE  k = conn' \/ \E q \in Procs : op'[q].k = k
  BY DEF NoLinkLeaks, Proceeds, Links
<1>2. link[k] \in {"open", "gone", "dead"}
  BY DEF LinksFade
<1>3. k = conn \/ \E q \in Procs : op[q].k = k
  BY <1>2 DEF HInv, NoLinkLeaks
<1>4. k # 0
  BY LinksPositive
<1> QED BY <1>1, <1>3, <1>4

LEMMA MoveAddresses ==
  ASSUME IInv, HInv, NEW p \in Procs, NEW c, GoodCall(c), Proceeds(p, c),
         mu \in {None, p} \/ given' = given
  PROVE  AddressesItsSymbolApart'
<1>1. flight'[p] = None /\ \A q \in Procs \ {p} : flight'[q] = flight[q]
  BY MoveTypes
<1>2. CASE given' = given
  BY <1>1, <1>2 DEF HInv, AddressesItsSymbolApart, AddressesItsSymbol, Proceeds
<1>3. CASE mu \in {None, p}
  <2>1. \A q \in Procs \ {p} : flight[q] = None
    BY <1>3, NoneAssumption DEF IInv, Locked
  <2> QED BY <1>1, <2>1 DEF AddressesItsSymbolApart, AddressesItsSymbol
<1> QED BY <1>2, <1>3

\* Put together: the call moves on, and the rest stays but for what is noticed.
LEMMA MoveKeeps ==
  ASSUME IInv, HInv, NEW p \in Procs, NEW c, GoodCall(c), Proceeds(p, c), Follows(p, c),
         Answers(c), LinksFade,
         UNCHANGED <<conn, symbolsMu, cache, given, panicked>>,
         connected' \in BOOLEAN, connected' => connected,
         op[p].at \notin {"idle", "install", "release"},
         c.at \notin {"dial", "install", "store", "release"}
  PROVE  HInv'
<1>1. UNCHANGED <<symbols, symbolsLoaded, entry>>
  BY DEF cache
<1>2. op[p].k = 0
  BY DEF HInv, Calling, GoodCall
<1>3. TypeOK'
  BY <1>1, MoveTypes DEF HInv, TypeOK, LinksFade, Links, Entries, HandleValues, Calls, Requests,
                         Places
<1>4. Calling' /\ Sent' /\ Flagged' /\ OneName'
  BY <1>1, MoveTypes, MoveSent, MoveFlagged, MoveStands
<1>5. Cleared' /\ Noted' /\ NoLinkLeaks' /\ AddressesItsSymbolApart'
  BY <1>1, <1>2, MoveCleared, MoveNoted, MoveLinks, MoveAddresses
<1>6. Faithful'
  <2>1. \A e \in Entries : \A s \in Symbols : Stands(e, s)' => Stands(e, s)
    BY <1>1, MoveStands
  <2> QED BY <1>1, <2>1, MoveFaithful
<1> QED BY <1>3, <1>4, <1>5, <1>6 DEF HInv

-----------------------------------------------------------------------------
(* The steps that only move a call on *)

LEMMA StillAnswers ==
  ASSUME HInv, NEW p \in Procs, NEW c, op[p].at \in Looping \cup {"batch"},
         c.lost => op[p].lost, LinksFade, connected' => connected,
         c.at = "report" => ~connected' \/ conn = 0 \/ link[conn] \in {"open", "gone"}
  PROVE  Answers(c)
<1> SUFFICES ASSUME ~overlap, c.lost, connected'
             PROVE  conn # 0 /\ link'[conn] \notin {"open", "gone"} /\ c.at # "report"
  BY DEF Answers
<1>1. conn # 0 /\ link[conn] \notin {"open", "gone"}
  BY DEF HInv, Noted
<1>2. conn \in Links
  BY <1>1 DEF HInv, TypeOK
<1> QED BY <1>1, <1>2 DEF LinksFade

LEMMA LinksStay ==
  ASSUME HInv, UNCHANGED link
  PROVE  LinksFade
BY DEF HInv, TypeOK, LinksFade

LEMMA LookupKeeps ==
  ASSUME IInv, HInv, NEW p \in Procs, Lookup(p)
  PROVE  HInv'
<1> DEFINE e == symbols[Name(p)]
           c == IF e = 0 THEN [op[p] EXCEPT !.at = "info"] ELSE Found(op[p], e)
<1>1. /\ At(p, "lookup") /\ op' = [op EXCEPT ![p] = c]
      /\ UNCHANGED <<conn, connected, mu, symbolsMu, cache, flight, plc, overlap, panicked>>
  BY DEF Lookup, IInv, Shaped
<1>2. GoodCall(op[p]) /\ op[p].at = "lookup" /\ op[p].k = 0
  BY <1>1 DEF At, HInv, Calling, GoodCall
<1>3. Name(p) \in Symbols
  BY <1>2 DEF Name, GoodCall, Calls, Looping
<1>4. /\ GoodCall(c) /\ Follows(p, c)
      /\ c.at \in {"info", "handle", "batch", "lookup"} /\ c.lost = op[p].lost
  <2>1. CASE e = 0
    BY <1>2, <2>1 DEF GoodCall, Calls, Places, Looping, WithEntry, Follows, Name
  <2>2. CASE e # 0
    <3>1. e \in Entries
      BY <1>3, <2>2 DEF HInv, TypeOK
    <3> QED BY <1>2, <2>2, <3>1, FoundGood, FoundRecord, GoodShape DEF Follows, Name
  <2> QED BY <2>1, <2>2
<1> HIDE DEF c
<1>5. Proceeds(p, c)
  BY <1>1, QuietMove, MoveProceeds
<1>6. LinksFade
  BY <1>1, LinksStay DEF plc
<1>7. Answers(c)
  BY <1>1, <1>2, <1>4, <1>6, StillAnswers DEF Looping
<1>8. connected' \in BOOLEAN
  BY <1>1 DEF HInv, TypeOK
<1> QED BY <1>1, <1>2, <1>4, <1>5, <1>6, <1>7, <1>8, MoveKeeps DEF plc

LEMMA NeedHandleKeeps ==
  ASSUME IInv, HInv, NEW p \in Procs, NeedHandle(p)
  PROVE  HInv'
<1> DEFINE place == IF entry[op[p].e].n = None THEN "acquire" ELSE "value"
           c == [op[p] EXCEPT !.at = place]
<1>1. /\ At(p, "handle") /\ op' = [op EXCEPT ![p] = c]
      /\ UNCHANGED <<conn, connected, mu, symbolsMu, cache, flight, plc, overlap, panicked>>
  BY DEF NeedHandle, Goto, IInv, Shaped
<1>2. GoodCall(op[p]) /\ op[p].at = "handle" /\ op[p].k = 0
  BY <1>1 DEF At, HInv, Calling, GoodCall
<1>3. place \in {"acquire", "value"}
  OBVIOUS
<1>4. /\ GoodCall(c) /\ Follows(p, c)
      /\ c.at \in {"acquire", "value"} /\ c.lost = op[p].lost
  <2> HIDE DEF place
  <2> QED BY <1>2, <1>3 DEF GoodCall, Calls, Places, Looping, WithEntry, Follows, Name
<1> HIDE DEF c
<1>5. Proceeds(p, c)
  BY <1>1, QuietMove, MoveProceeds
<1>6. LinksFade
  BY <1>1, LinksStay DEF plc
<1>7. Answers(c)
  BY <1>1, <1>2, <1>4, <1>6, StillAnswers DEF Looping
<1>8. connected' \in BOOLEAN
  BY <1>1 DEF HInv, TypeOK
<1> QED BY <1>1, <1>2, <1>4, <1>5, <1>6, <1>7, <1>8, MoveKeeps DEF plc

LEMMA NotConnectedKeeps ==
  ASSUME IInv, HInv, NEW p \in Procs, NotConnected(p)
  PROVE  HInv'
<1> DEFINE c == Failed(op[p], "not connected")
<1>1. /\ op' = [op EXCEPT ![p] = c] /\ conn = 0 /\ connected' \in BOOLEAN
      /\ UNCHANGED <<conn, mu, symbolsMu, cache, flight, plc, overlap, panicked>>
  BY DEF NotConnected, IInv, Shaped
<1>2. connected' => connected
  BY DEF NotConnected
<1>3. PICK place \in {"info", "acquire", "value", "batch"} : At(p, place)
  BY DEF NotConnected
<1>4. GoodCall(op[p]) /\ op[p].at = place /\ op[p].k = 0
  BY <1>3 DEF At, HInv, Calling, GoodCall
<1>5. /\ GoodCall(c) /\ Follows(p, c)
      /\ c.at \in {"idle", "lookup", "markdown", "report"}
      /\ c.at # "idle" => c.lost = op[p].lost
  BY <1>4, FailedGood, FailedRecord, GoodShape DEF Looping, Follows, Name
<1> HIDE DEF c
<1>6. Proceeds(p, c)
  BY <1>1, <1>3, QuietMove, MoveProceeds
<1>7. LinksFade
  BY <1>1, LinksStay DEF plc
<1>8. Answers(c)
  <2>1. CASE c.at = "idle"
    BY <2>1 DEF Answers, Looping
  <2>2. CASE c.at # "idle"
    BY <1>1, <1>2, <1>4, <1>5, <1>7, <2>2, StillAnswers DEF Looping
  <2> QED BY <2>1, <2>2
<1> QED BY <1>1, <1>2, <1>4, <1>5, <1>6, <1>7, <1>8, MoveKeeps DEF plc

LEMMA MarkDownKeeps ==
  ASSUME IInv, HInv, NEW p \in Procs, MarkDown(p)
  PROVE  HInv'
<1> DEFINE c == NextName(op[p])
<1>1. /\ At(p, "markdown") /\ op' = [op EXCEPT ![p] = c] /\ connected' = FALSE
      /\ UNCHANGED <<conn, mu, symbolsMu, cache, flight, plc, overlap, panicked>>
  BY DEF MarkDown, IInv, Shaped
<1>2. GoodCall(op[p]) /\ op[p].at = "markdown" /\ op[p].k = 0
  BY <1>1 DEF At, HInv, Calling, GoodCall
<1>3. GoodCall(c) /\ Follows(p, c) /\ c.at \in {"lookup", "report"}
  BY <1>2, NextNameGood, NextNameRecord, GoodShape DEF Looping, Follows
<1> HIDE DEF c
<1>4. Proceeds(p, c)
  BY <1>1, QuietMove, MoveProceeds
<1>5. LinksFade
  BY <1>1, LinksStay DEF plc
<1>6. Answers(c)
  BY <1>1 DEF Answers
<1> QED BY <1>1, <1>2, <1>3, <1>4, <1>5, <1>6, MoveKeeps DEF plc

\* A call returns, and nothing else changes.
LEMMA ReturnKeeps ==
  ASSUME IInv, HInv, NEW p \in Procs,
         ReportIfDown(p) \/ UploadNotConnected(p) \/ DialFails(p) \/ WriteRefused(p)
  PROVE  HInv'
<1>1. PICK place \in {"report", "upload", "dial", "handle"} : At(p, place)
  BY DEF ReportIfDown, UploadNotConnected, DialFails, WriteRefused
<1>2. /\ op' = [op EXCEPT ![p] = Idle]
      /\ UNCHANGED <<conn, connected, mu, symbolsMu, cache, flight, plc, overlap, panicked>>
  BY DEF ReportIfDown, UploadNotConnected, DialFails, WriteRefused, Return
<1>3. op[p].at = place
  BY <1>1 DEF At
<1>4. Follows(p, Idle) /\ Answers(Idle) /\ Idle.at = "idle"
  BY DEF Follows, Answers, Idle, Looping
<1>5. Proceeds(p, Idle) /\ LinksFade
  BY <1>1, <1>2, QuietMove, MoveProceeds, LinksStay DEF plc
<1>6. connected' \in BOOLEAN
  BY <1>2 DEF HInv, TypeOK
<1> QED BY <1>2, <1>3, <1>4, <1>5, <1>6, IdleGood, MoveKeeps DEF plc

LEMMA VerifyNotConnectedKeeps ==
  ASSUME IInv, HInv, NEW p \in Procs, VerifyNotConnected(p)
  PROVE  HInv'
<1> DEFINE c == [op[p] EXCEPT !.at = "giveup"]
<1>1. /\ At(p, "verify") /\ op' = [op EXCEPT ![p] = c]
      /\ UNCHANGED <<conn, connected, mu, symbolsMu, cache, flight, plc, overlap, panicked>>
  BY DEF VerifyNotConnected, Goto, IInv, Shaped
<1>2. GoodCall(op[p]) /\ op[p].at = "verify"
  BY <1>1 DEF At, HInv, Calling
<1>3. GoodCall(c) /\ Follows(p, c) /\ c.at = "giveup"
  BY <1>2 DEF GoodCall, Calls, Places, Looping, WithEntry, Follows
<1> HIDE DEF c
<1>4. Answers(c)
  BY <1>3 DEF Answers, Looping
<1>5. Proceeds(p, c) /\ LinksFade
  BY <1>1, QuietMove, MoveProceeds, LinksStay DEF plc
<1>6. connected' \in BOOLEAN
  BY <1>1 DEF HInv, TypeOK
<1> QED BY <1>1, <1>2, <1>3, <1>4, <1>5, <1>6, MoveKeeps DEF plc

-----------------------------------------------------------------------------
(* The replies *)

\* An exchange ends on the link in use, whose state tells how.
LEMMA ReceiveFacts ==
  ASSUME IInv, HInv, NEW p \in Procs, NEW req, NEW o, Receive(p, req, o)
  PROVE  /\ op[p].at = req /\ mu = p /\ GoodCall(op[p])
         /\ conn \in Links /\ flight[p] # None /\ flight[p].link = conn /\ flight[p].req = req
         /\ o \in {"ok", "refused", "timeout"} => link[conn] = "open"
         /\ o = "unreachable" => link[conn] = "gone"
         /\ o = "lost" => link[conn] \notin {"open", "gone"}
         /\ o \in Results
         /\ LinksFade
         /\ link' = [link EXCEPT ![conn] = IF @ = "gone" THEN "dead" ELSE @]
<1>1. op[p].at = req /\ mu = p /\ GoodCall(op[p])
  BY DEF Receive, IInv, Locked, HInv, Calling
<1>2. conn \in Links /\ flight[p].link = conn
  BY DEF Receive, HInv, Sent, TypeOK
<1>3. o \in Outcomes(conn)
  BY <1>2 DEF Receive
<1>4. /\ o \in {"ok", "refused", "timeout"} => link[conn] = "open"
      /\ o = "unreachable" => link[conn] = "gone"
      /\ o = "lost" => link[conn] \notin {"open", "gone"}
      /\ o \in Results
  <2>1. CASE link[conn] = "open"
    BY <1>3, <2>1 DEF Outcomes, Results
  <2>2. CASE link[conn] = "gone"
    BY <1>3, <2>2 DEF Outcomes, Results
  <2>3. CASE link[conn] \notin {"open", "gone"}
    <3>1. Outcomes(conn) = {"lost"}
      BY <2>3 DEF Outcomes
    <3> QED BY <1>3, <2>3, <3>1 DEF Results
  <2> QED BY <2>1, <2>2, <2>3
<1>5. link' = [link EXCEPT ![conn] = IF @ = "gone" THEN "dead" ELSE @]
  BY <1>2 DEF Receive
<1>6. LinksFade
  BY <1>2, <1>5 DEF LinksFade, HInv, TypeOK
<1> QED BY <1>1, <1>2, <1>4, <1>5, <1>6 DEF Receive

LEMMA ReplyAnswers ==
  ASSUME IInv, HInv, NEW p \in Procs, NEW req, NEW o, Receive(p, req, o), NEW c,
         req \in {"info", "acquire", "value", "batch"},
         c.lost => op[p].lost \/ o = "lost",
         connected' => connected,
         c.at = "report" => ~connected' \/ o # "lost"
  PROVE  Answers(c)
<1> SUFFICES ASSUME ~overlap, c.lost, connected'
             PROVE  conn # 0 /\ link'[conn] \notin {"open", "gone"} /\ c.at # "report"
  BY DEF Answers
<1>1. conn \in Links /\ op[p].at = req /\ LinksFade
  BY ReceiveFacts
<1>2. link[conn] \notin {"open", "gone"}
  <2>1. CASE o = "lost"
    BY <2>1, ReceiveFacts
  <2>2. CASE op[p].lost
    BY <2>2, <1>1 DEF HInv, Noted, Looping
  <2> QED BY <2>1, <2>2
<1>3. o = "lost"
  BY <1>2, ReceiveFacts DEF Results
<1>4. conn # 0
  BY <1>1, LinksPositive
<1> QED BY <1>1, <1>2, <1>3, <1>4 DEF LinksFade

LEMMA InfoReplyKeeps ==
  ASSUME IInv, HInv, NEW p \in Procs, InfoReply(p)
  PROVE  HInv'
<1>1. PICK o \in Results :
        /\ Receive(p, "info", o)
        /\ op' = [op EXCEPT ![p] = IF o = "ok" THEN [@ EXCEPT !.at = "cache"]
                                   ELSE Failed(After(@, o), o)]
  BY DEF InfoReply
<1>2. mu' = None /\ UNCHANGED <<conn, connected, symbolsMu, cache, given, overlap, panicked>>
  BY DEF InfoReply
<1> DEFINE c == IF o = "ok" THEN [op[p] EXCEPT !.at = "cache"]
                ELSE Failed(After(op[p], o), o)
<1>3. op' = [op EXCEPT ![p] = c]
  BY <1>1 DEF IInv, Shaped
<1>4. GoodCall(op[p]) /\ op[p].at = "info" /\ op[p].k = 0 /\ LinksFade
  BY <1>1, ReceiveFacts DEF GoodCall
<1>5. /\ GoodCall(c) /\ Follows(p, c)
      /\ c.at \in {"cache", "idle", "lookup", "markdown", "report"}
      /\ c.at # "idle" => (c.lost => op[p].lost \/ o = "lost")
      /\ c.at = "report" => o # "lost"
  <2>1. CASE o = "ok"
    BY <1>4, <2>1 DEF GoodCall, Calls, Places, Looping, WithEntry, Follows, Name
  <2>2. CASE o # "ok"
    <3> DEFINE d == After(op[p], o)
    <3>1. /\ GoodCall(d) /\ d.at = "info" /\ d.e = op[p].e /\ d.rest = op[p].rest
          /\ d.lost <=> op[p].lost \/ o = "lost"
      BY <1>4, AfterGood
    <3> HIDE DEF d
    <3>2. c = Failed(d, o)
      BY <2>2 DEF d
    <3> QED BY <3>1, <3>2, FailedGood, FailedRecord, GoodShape
            DEF Looping, Follows, Name, isConnectionError
  <2> QED BY <2>1, <2>2
<1> HIDE DEF c
<1>6. Proceeds(p, c)
  BY <1>1, <1>2, <1>3, ReceiveMove, MoveProceeds
<1>7. Answers(c)
  <2>1. CASE c.at = "idle"
    BY <2>1 DEF Answers, Looping
  <2>2. CASE c.at # "idle"
    BY <1>1, <1>2, <1>5, <2>2, ReplyAnswers
  <2> QED BY <2>1, <2>2
<1>8. connected' \in BOOLEAN
  BY <1>2 DEF HInv, TypeOK
<1> QED BY <1>2, <1>4, <1>5, <1>6, <1>7, <1>8, MoveKeeps

LEMMA AcquireRefusedKeeps ==
  ASSUME IInv, HInv, NEW p \in Procs, NEW o \in Results, Receive(p, "acquire", o), o # "ok",
         op' = [op EXCEPT ![p] = Failed(After(@, o), o)], mu' = None,
         UNCHANGED <<conn, connected, symbolsMu, cache, given, overlap, panicked>>
  PROVE  HInv'
<1> DEFINE d == After(op[p], o)
           c == Failed(d, o)
<1>1. op' = [op EXCEPT ![p] = c]
  BY DEF IInv, Shaped
<1>2. GoodCall(op[p]) /\ op[p].at = "acquire" /\ op[p].k = 0 /\ LinksFade
  BY ReceiveFacts DEF GoodCall
<1>3. /\ GoodCall(d) /\ d.at = "acquire" /\ d.e = op[p].e /\ d.rest = op[p].rest
      /\ d.lost <=> op[p].lost \/ o = "lost"
  BY <1>2, AfterGood
<1> HIDE DEF d
<1>4. /\ GoodCall(c) /\ Follows(p, c)
      /\ c.at \in {"idle", "lookup", "markdown", "report"}
      /\ c.at # "idle" => (c.lost => op[p].lost \/ o = "lost")
      /\ c.at = "report" => o # "lost"
  BY <1>3, FailedGood, FailedRecord, GoodShape DEF Looping, Follows, Name, isConnectionError
<1> HIDE DEF c
<1>5. Proceeds(p, c)
  BY <1>1, ReceiveMove, MoveProceeds
<1>6. Answers(c)
  <2>1. CASE c.at = "idle"
    BY <2>1 DEF Answers, Looping
  <2>2. CASE c.at # "idle"
    BY <1>4, <2>2, ReplyAnswers
  <2> QED BY <2>1, <2>2
<1>7. connected' \in BOOLEAN
  BY DEF HInv, TypeOK
<1> QED BY <1>2, <1>4, <1>5, <1>6, <1>7, MoveKeeps

LEMMA ValueReplyKeeps ==
  ASSUME IInv, HInv, NEW p \in Procs, ValueReply(p)
  PROVE  HInv'
<1>1. PICK o \in Results :
        /\ Receive(p, "value", o)
        /\ op' = [op EXCEPT ![p] = IF @.kind = "write" \/ (o = "ok" /\ Len(@.names) = 1)
                                   THEN Idle ELSE NextName(After(@, o))]
        /\ connected' = (connected /\ (op[p].kind = "read" => ~isConnectionError(o)))
  BY DEF ValueReply
<1>2. mu' = None /\ UNCHANGED <<conn, symbolsMu, cache, given, overlap, panicked>>
  BY DEF ValueReply
<1> DEFINE c == IF op[p].kind = "write" \/ (o = "ok" /\ Len(op[p].names) = 1) THEN Idle
                ELSE NextName(After(op[p], o))
<1>3. op' = [op EXCEPT ![p] = c]
  BY <1>1 DEF IInv, Shaped
<1>4. GoodCall(op[p]) /\ op[p].at = "value" /\ op[p].k = 0 /\ LinksFade
  BY <1>1, ReceiveFacts DEF GoodCall
<1>5. connected' => connected
  BY <1>1
<1>6. connected' \in BOOLEAN
  BY <1>1
<1>7. /\ GoodCall(c) /\ Follows(p, c)
      /\ c.at \in {"idle", "lookup", "report"}
      /\ c.at # "idle" => /\ c.lost => op[p].lost \/ o = "lost"
                          /\ ~connected' \/ o # "lost"
  <2>1. CASE c = Idle
    BY <2>1, IdleGood DEF Idle, Follows
  <2>2. CASE c # Idle
    <3> DEFINE d == After(op[p], o)
    <3>1. GoodCall(d) /\ d.at = "value" /\ (d.lost <=> op[p].lost \/ o = "lost")
      BY <1>4, AfterGood
    <3> HIDE DEF d
    <3>2. c = NextName(d) /\ op[p].kind # "write"
      BY <2>2 DEF d
    <3>3. op[p].kind = "read"
      BY <1>4, <3>2 DEF GoodCall, Looping
    <3>4. ~connected' \/ o # "lost"
      BY <1>1, <3>3 DEF isConnectionError
    <3> QED BY <3>1, <3>2, <3>4, NextNameGood, NextNameRecord, GoodShape DEF Looping, Follows
  <2> QED BY <2>1, <2>2
<1> HIDE DEF c
<1>8. Proceeds(p, c)
  BY <1>1, <1>2, <1>3, ReceiveMove, MoveProceeds
<1>9. Answers(c)
  <2>1. CASE c.at = "idle"
    BY <2>1 DEF Answers, Looping
  <2>2. CASE c.at # "idle"
    BY <1>1, <1>5, <1>7, <2>2, ReplyAnswers
  <2> QED BY <2>1, <2>2
<1> QED BY <1>2, <1>4, <1>5, <1>6, <1>7, <1>8, <1>9, MoveKeeps

LEMMA BatchReplyKeeps ==
  ASSUME IInv, HInv, NEW p \in Procs, BatchReply(p)
  PROVE  HInv'
<1>1. PICK o \in Results :
        /\ Receive(p, "batch", o)
        /\ op' = [op EXCEPT ![p] = IF o = "ok" THEN [@ EXCEPT !.at = "report"]
                                   ELSE Individually(After(@, o))]
        /\ connected' = (connected /\ ~isConnectionError(o))
  BY DEF BatchReply
<1>2. mu' = None /\ UNCHANGED <<conn, symbolsMu, cache, given, overlap, panicked>>
  BY DEF BatchReply
<1> DEFINE c == IF o = "ok" THEN [op[p] EXCEPT !.at = "report"]
                ELSE Individually(After(op[p], o))
<1>3. op' = [op EXCEPT ![p] = c]
  BY <1>1 DEF IInv, Shaped
<1>4. /\ GoodCall(op[p]) /\ op[p].at = "batch" /\ op[p].k = 0 /\ op[p].e = 0 /\ op[p].batch
      /\ LinksFade
  BY <1>1, ReceiveFacts DEF GoodCall, Looping
<1>5. connected' => connected
  BY <1>1
<1>6. connected' \in BOOLEAN
  BY <1>1
<1>7. /\ GoodCall(c) /\ Follows(p, c)
      /\ c.at \in {"lookup", "report"}
      /\ c.lost => op[p].lost \/ o = "lost"
      /\ c.at = "report" => o # "lost"
  <2>1. CASE o = "ok"
    BY <1>4, <2>1 DEF GoodCall, Calls, Places, Looping, WithEntry, Follows
  <2>2. CASE o # "ok"
    <3> DEFINE d == After(op[p], o)
    <3>1. GoodCall(d) /\ d.at = "batch" /\ d.batch /\ (d.lost <=> op[p].lost \/ o = "lost")
      BY <1>4, AfterGood
    <3> HIDE DEF d
    <3>2. c = Individually(d)
      BY <2>2 DEF d
    <3>3. GoodCall(c) /\ c.e = 0 /\ c.lost = d.lost /\ c.at = "lookup"
      BY <3>1, <3>2, IndividuallyGood, IndividuallyRecord, GoodShape
    <3> HIDE DEF c
    <3> QED BY <3>1, <3>3 DEF Follows
  <2> QED BY <2>1, <2>2
<1> HIDE DEF c
<1>8. Proceeds(p, c)
  BY <1>1, <1>2, <1>3, ReceiveMove, MoveProceeds
<1>9. Answers(c)
  BY <1>1, <1>5, <1>7, ReplyAnswers
<1> QED BY <1>2, <1>4, <1>5, <1>6, <1>7, <1>8, <1>9, MoveKeeps

LEMMA VerifyReplyKeeps ==
  ASSUME IInv, HInv, NEW p \in Procs, VerifyReply(p)
  PROVE  HInv'
<1>1. PICK o \in Results :
        /\ Receive(p, "verify", o)
        /\ op' = [op EXCEPT ![p] = IF o = "ok" THEN Idle ELSE [@ EXCEPT !.at = "giveup"]]
  BY DEF VerifyReply
<1>2. mu' = None /\ UNCHANGED <<conn, connected, symbolsMu, cache, given, overlap, panicked>>
  BY DEF VerifyReply
<1> DEFINE c == IF o = "ok" THEN Idle ELSE [op[p] EXCEPT !.at = "giveup"]
<1>3. op' = [op EXCEPT ![p] = c]
  BY <1>1 DEF IInv, Shaped
<1>4. GoodCall(op[p]) /\ op[p].at = "verify" /\ LinksFade
  BY <1>1, ReceiveFacts
<1>5. GoodCall(c) /\ Follows(p, c) /\ c.at \in {"idle", "giveup"}
  <2>1. CASE o = "ok"
    BY <2>1, IdleGood DEF Idle, Follows
  <2>2. CASE o # "ok"
    BY <1>4, <2>2 DEF GoodCall, Calls, Places, Looping, WithEntry, Follows
  <2> QED BY <2>1, <2>2
<1> HIDE DEF c
<1>6. Proceeds(p, c)
  BY <1>1, <1>2, <1>3, ReceiveMove, MoveProceeds
<1>7. Answers(c)
  BY <1>5 DEF Answers, Looping
<1>8. connected' \in BOOLEAN
  BY <1>2 DEF HInv, TypeOK
<1> QED BY <1>2, <1>4, <1>5, <1>6, <1>7, <1>8, MoveKeeps

-----------------------------------------------------------------------------
(* The steps that touch entries and handles *)

LEMMA CacheEntryKeeps ==
  ASSUME IInv, HInv, NEW p \in Procs, CacheEntry(p)
  PROVE  HInv'
<1>1. PICK e \in Unreferenced :
        /\ entry' = [entry EXCEPT ![e] = NoHandle]
        /\ symbols' = [symbols EXCEPT ![Name(p)] = e]
        /\ op' = [op EXCEPT ![p] = Found(@, e)]
  BY DEF CacheEntry
<1>2. /\ At(p, "cache")
      /\ UNCHANGED <<conn, connected, mu, symbolsMu, symbolsLoaded, flight, plc, overlap,
                     panicked>>
  BY DEF CacheEntry
<1>3. /\ e \in Entries
      /\ \A s \in Symbols : symbols[s] # e
      /\ \A q \in Procs : op[q].e # e
  BY <1>1 DEF Unreferenced
<1> DEFINE c == Found(op[p], e)
<1>4. op' = [op EXCEPT ![p] = c]
  BY <1>1 DEF IInv, Shaped
<1>5. GoodCall(op[p]) /\ op[p].at = "cache" /\ op[p].k = 0
  BY <1>2 DEF At, HInv, Calling, GoodCall
<1>6. Name(p) \in Symbols
  BY <1>5 DEF Name, GoodCall, Calls, Looping
<1>7. /\ GoodCall(c) /\ c.at \in {"handle", "batch", "lookup"} /\ c.lost = op[p].lost
      /\ c.e = 0 \/ (c.e = e /\ Head(c.rest) = Name(p))
  BY <1>3, <1>5, FoundGood, FoundRecord, GoodShape DEF Name
<1> HIDE DEF c
<1>8. Proceeds(p, c)
  BY <1>2, <1>4, QuietMove, MoveProceeds
<1>9. LinksFade
  BY <1>2, LinksStay DEF plc
<1>10. Answers(c)
  BY <1>2, <1>5, <1>7, <1>9, StillAnswers DEF Looping
<1>11. op'[p] = c /\ \A q \in Procs \ {p} : op'[q] = op[q]
  BY <1>7, <1>8, MoveTypes
<1>12. symbols'[Name(p)] = e /\ \A s \in Symbols \ {Name(p)} : symbols'[s] = symbols[s]
  BY <1>1, <1>6 DEF HInv, TypeOK
<1>13. ASSUME NEW x \in Entries, NEW s \in Symbols, Stands(x, s)'
       PROVE  IF x = e THEN s = Name(p) ELSE Stands(x, s)
  <2>1. CASE symbols'[s] = x
    BY <2>1, <1>3, <1>12 DEF Stands
  <2>2. CASE op'[p].e = x /\ Head(op'[p].rest) = s
    BY <2>2, <1>7, <1>11, EntriesPositive
  <2>3. CASE \E q \in Procs \ {p} : op'[q].e = x /\ Head(op'[q].rest) = s
    BY <2>3, <1>3, <1>11 DEF Stands, Name
  <2> QED BY <1>13, <2>1, <2>2, <2>3 DEF Stands, Name
<1>14. OneName'
  BY <1>13 DEF HInv, OneName, Entries
<1>15. Faithful'
  <2>1. entry'[e].n = None /\ \A x \in Entries \ {e} : entry'[x] = entry[x]
    BY <1>1, <1>3 DEF HInv, TypeOK, NoHandle
  <2> QED BY <1>2, <1>5, <1>7, <1>8, <1>9, <1>13, <2>1, MoveFaithful DEF plc
<1>16. TypeOK'
  <2>1. NoHandle \in HandleValues
    BY MaxLinksAssumption DEF NoHandle, HandleValues
  <2>2. /\ entry' \in [Entries -> HandleValues]
        /\ symbols' \in [Symbols -> {0} \cup Entries]
    BY <1>1, <1>3, <2>1 DEF HInv, TypeOK
  <2>3. /\ op' \in [Procs -> Calls] /\ flight' \in [Procs -> {None} \cup Requests]
        /\ mu' \in Procs \cup {None} /\ overlap' \in BOOLEAN
    BY <1>7, <1>8, MoveTypes
  <2>4. /\ conn' \in {0} \cup Links /\ connected' \in BOOLEAN /\ symbolsMu' \in Procs \cup {None}
        /\ symbolsLoaded' \in BOOLEAN
        /\ link' \in [Links -> {"unused", "open", "gone", "dead", "closed"}]
        /\ given' \in [Links -> [Handles -> Symbols \cup {None}]]
        /\ panicked' \in BOOLEAN
    BY <1>2 DEF HInv, TypeOK, plc
  <2> QED BY <2>2, <2>3, <2>4
          DEF TypeOK, Links, Entries, HandleValues, Calls, Requests, Places
<1>17. Calling' /\ Sent' /\ Flagged'
  BY <1>2, <1>7, <1>8, MoveTypes, MoveSent, MoveFlagged
<1>18. Cleared' /\ Noted' /\ NoLinkLeaks' /\ AddressesItsSymbolApart'
  BY <1>2, <1>5, <1>7, <1>8, <1>9, <1>10, MoveCleared, MoveNoted, MoveLinks, MoveAddresses DEF plc
<1> QED BY <1>14, <1>15, <1>16, <1>17, <1>18 DEF HInv

LEMMA AcquiredKeeps ==
  ASSUME IInv, HInv, NEW p \in Procs, Receive(p, "acquire", "ok"),
         NEW n \in Handles, given[conn][n] = None,
         given' = [given EXCEPT ![conn][n] = flight[p].sym],
         op' = [op EXCEPT ![p].at = "store", ![p].h = [n |-> n, from |-> conn]],
         mu' = None,
         UNCHANGED <<conn, connected, symbolsMu, cache, overlap, panicked>>
  PROVE  HInv'
<1> DEFINE h == [n |-> n, from |-> conn]
           c == [op[p] EXCEPT !.at = "store", !.h = h]
<1>1. op' = [op EXCEPT ![p] = c]
  BY DEF IInv, Shaped
<1>2. /\ GoodCall(op[p]) /\ op[p].at = "acquire" /\ op[p].k = 0 /\ mu = p
      /\ conn \in Links /\ link[conn] = "open" /\ LinksFade
  BY ReceiveFacts DEF GoodCall
<1>3. h \in HandleValues /\ h.n # None /\ h.n = n /\ h.from = conn
  BY <1>2, NoneAssumption DEF HandleValues, Links
<1>4. /\ GoodCall(c) /\ Follows(p, c) /\ c.at = "store" /\ c.lost = op[p].lost
      /\ c.h = h /\ c.rest = op[p].rest
  <2> HIDE DEF h
  <2> QED BY <1>2, <1>3 DEF GoodCall, Calls, Places, Looping, WithEntry, Follows, Name
<1> HIDE DEF h, c
<1>5. Proceeds(p, c)
  BY <1>1, ReceiveMove, MoveProceeds
<1>6. Answers(c)
  BY <1>4, ReplyAnswers
<1>7. op'[p] = c /\ \A q \in Procs \ {p} : op'[q] = op[q]
  BY <1>4, <1>5, MoveTypes
<1>8. flight[p].sym = Name(p) /\ Name(p) \in Symbols
  BY <1>2, ReceiveFacts DEF HInv, Sent, Name, GoodCall, Calls, Looping
<1>9. \A k \in Links : \A m \in Handles :
        given'[k][m] = IF k = conn /\ m = n THEN Name(p) ELSE given[k][m]
  BY <1>2, <1>8 DEF HInv, TypeOK
<1>10. \A q \in Procs : op[q].at # "release"
  BY <1>2 DEF IInv, Locked
<1>11. ASSUME NEW g \in HandleValues, g.n # None, NEW s \in Symbols, Valid(g, s)
       PROVE  /\ g.from \in Links /\ g.from = conn
              /\ given'[g.from][g.n] = s
  <2>1. g.n \in Handles /\ g.from \in Links /\ g.from = conn
    BY <1>2, <1>11, LinksPositive DEF Valid, HandleValues
  <2>2. given[g.from][g.n] = s
    BY <1>2, <1>10, <1>11, <2>1 DEF Valid
  <2>3. s # None
    BY NoneAssumption
  <2> QED BY <1>9, <2>1, <2>2, <2>3
<1>12. /\ \A e \in Entries : \A s \in Symbols : Stands(e, s)' => Stands(e, s)
       /\ OneName'
  BY <1>4, <1>5, MoveStands DEF cache
<1>13. Faithful'
  <2> SUFFICES ASSUME ~overlap' PROVE
        /\ \A e \in Entries : \A s \in Symbols :
             (Stands(e, s)' /\ entry'[e].n # None) => Valid(entry[e], s)'
        /\ \A q \in Procs : op'[q].at = "store" => Valid(op[q].h, Name(q))'
    BY DEF Faithful, Entries
  <2>1. ASSUME NEW e \in Entries, NEW s \in Symbols, Stands(e, s)', entry'[e].n # None
        PROVE  Valid(entry[e], s)'
    <3>1. Valid(entry[e], s) /\ entry'[e] = entry[e] /\ entry[e] \in HandleValues
      BY <1>12, <2>1 DEF HInv, Faithful, TypeOK, cache
    <3> QED BY <3>1, <2>1, <1>11 DEF Valid, Links
  <2>2. ASSUME NEW q \in Procs, op'[q].at = "store"
        PROVE  Valid(op[q].h, Name(q))'
    <3>1. CASE q = p
      BY <3>1, <1>2, <1>3, <1>4, <1>7, <1>9 DEF Valid, Name, Links
    <3>2. CASE q # p
      <4>1. op'[q] = op[q]
        BY <1>7, <3>2
      <4>2. Valid(op[q].h, Name(q))
        BY <4>1, <2>2 DEF HInv, Faithful
      <4>3. op[q].h \in HandleValues /\ op[q].h.n # None /\ Name(q) \in Symbols
        BY <4>1, <2>2 DEF HInv, Calling, GoodCall, Calls, Looping, Name
      <4>4. /\ op[q].h.from \in Links /\ op[q].h.from = conn
            /\ given'[op[q].h.from][op[q].h.n] = Name(q)
        BY <4>2, <4>3, <1>11
      <4> QED BY <4>1, <4>4 DEF Valid, Name, Links
    <3> QED BY <3>1, <3>2
  <2> QED BY <2>1, <2>2
<1>14. TypeOK'
  <2>1. given' \in [Links -> [Handles -> Symbols \cup {None}]]
    BY <1>8 DEF HInv, TypeOK
  <2> QED BY <1>2, <1>4, <1>5, <2>1, MoveTypes
          DEF HInv, TypeOK, LinksFade, Links, Entries, HandleValues, Calls, Requests, Places, cache
<1>15. Calling' /\ Sent' /\ Flagged'
  BY <1>4, <1>5, MoveTypes, MoveSent, MoveFlagged
<1>16. Cleared' /\ Noted' /\ NoLinkLeaks' /\ AddressesItsSymbolApart'
  BY <1>2, <1>4, <1>5, <1>6, MoveCleared, MoveNoted, MoveLinks, MoveAddresses
<1> QED BY <1>12, <1>13, <1>14, <1>15, <1>16 DEF HInv

LEMMA AcquireReplyKeeps ==
  ASSUME IInv, HInv, NEW p \in Procs, AcquireReply(p)
  PROVE  HInv'
<1>1. PICK o \in Results :
        /\ Receive(p, "acquire", o)
        /\ IF o = "ok"
           THEN \E n \in Handles :
                  /\ given[flight[p].link][n] = None
                  /\ given' = [given EXCEPT ![flight[p].link][n] = flight[p].sym]
                  /\ op' = [op EXCEPT ![p].at = "store",
                                      ![p].h = [n |-> n, from |-> flight[p].link]]
           ELSE /\ op' = [op EXCEPT ![p] = Failed(After(@, o), o)]
                /\ UNCHANGED given
  BY DEF AcquireReply
<1>2. mu' = None /\ UNCHANGED <<conn, connected, symbolsMu, cache, overlap, panicked>>
  BY DEF AcquireReply
<1>3. flight[p].link = conn
  BY <1>1, ReceiveFacts
<1>4. CASE o = "ok"
  BY <1>1, <1>2, <1>3, <1>4, AcquiredKeeps
<1>5. CASE o # "ok"
  BY <1>1, <1>2, <1>5, AcquireRefusedKeeps
<1> QED BY <1>4, <1>5

LEMMA StoreKeeps ==
  ASSUME IInv, HInv, NEW p \in Procs, Store(p)
  PROVE  HInv'
<1> DEFINE c == [op[p] EXCEPT !.h = NoHandle, !.at = "value"]
<1>1. /\ At(p, "store") /\ op' = [op EXCEPT ![p] = c]
      /\ entry' = [entry EXCEPT ![op[p].e] = op[p].h]
      /\ UNCHANGED <<conn, connected, mu, symbolsMu, symbols, symbolsLoaded, flight, plc,
                     overlap, panicked>>
  BY DEF Store, IInv, Shaped
<1>2. /\ GoodCall(op[p]) /\ op[p].at = "store" /\ op[p].k = 0
      /\ op[p].e \in Entries /\ op[p].h \in HandleValues
  BY <1>1 DEF At, HInv, Calling, GoodCall, Calls, WithEntry
<1>3. NoHandle \in HandleValues
  BY MaxLinksAssumption DEF NoHandle, HandleValues
<1>4. GoodCall(c) /\ Follows(p, c) /\ c.at = "value" /\ c.lost = op[p].lost
  BY <1>2, <1>3 DEF GoodCall, Calls, Places, Looping, WithEntry, Follows, Name
<1> HIDE DEF c
<1>5. Proceeds(p, c)
  BY <1>1, QuietMove, MoveProceeds
<1>6. LinksFade
  BY <1>1, LinksStay DEF plc
<1>7. Answers(c)
  BY <1>1, <1>2, <1>4, <1>6, StillAnswers DEF Looping
<1>8. op'[p] = c /\ \A q \in Procs \ {p} : op'[q] = op[q]
  BY <1>4, <1>5, MoveTypes
<1>9. /\ \A e \in Entries : \A s \in Symbols : Stands(e, s)' => Stands(e, s)
      /\ OneName'
  BY <1>1, <1>4, <1>5, MoveStands
<1>10. Name(p) \in Symbols /\ Stands(op[p].e, Name(p))
  BY <1>2 DEF Name, GoodCall, Calls, Looping, Stands
<1>11. Faithful'
  <2> SUFFICES ASSUME ~overlap' PROVE
        /\ \A e \in Entries : \A s \in Symbols :
             (Stands(e, s)' /\ entry'[e].n # None) => Valid(entry[e], s)'
        /\ \A q \in Procs : op'[q].at = "store" => Valid(op[q].h, Name(q))'
    BY DEF Faithful, Entries
  <2>1. (\E q \in Procs : op[q].at = "release") => (\E q \in Procs : op'[q].at = "release")
    BY <1>2, <1>8
  <2>2. ASSUME NEW e \in Entries, NEW s \in Symbols, Stands(e, s)', entry'[e].n # None
        PROVE  Valid(entry[e], s)'
    <3>1. Stands(e, s)
      BY <1>9, <2>2
    <3>2. CASE e = op[p].e
      <4>1. s = Name(p)
        BY <1>10, <3>1, <3>2 DEF HInv, OneName
      <4>2. Valid(op[p].h, s)
        BY <1>1, <1>2, <4>1 DEF HInv, Faithful
      <4>3. entry'[e] = op[p].h
        BY <1>1, <1>2, <3>2 DEF HInv, TypeOK
      <4> QED BY <1>1, <2>1, <4>2, <4>3 DEF Valid, Links, plc
    <3>3. CASE e # op[p].e
      <4>1. entry'[e] = entry[e]
        BY <1>1, <3>3 DEF HInv, TypeOK
      <4>2. Valid(entry[e], s)
        BY <1>1, <2>2, <3>1, <4>1 DEF HInv, Faithful
      <4> QED BY <1>1, <2>1, <4>1, <4>2 DEF Valid, Links, plc
    <3> QED BY <3>2, <3>3
  <2>3. ASSUME NEW q \in Procs, op'[q].at = "store"
        PROVE  Valid(op[q].h, Name(q))'
    <3>1. op'[q] = op[q]
      BY <1>4, <1>8, <2>3
    <3>2. Valid(op[q].h, Name(q))
      BY <1>1, <2>3, <3>1 DEF HInv, Faithful
    <3> QED BY <1>1, <2>1, <3>1, <3>2 DEF Valid, Name, Links, plc
  <2> QED BY <2>2, <2>3
<1>12. TypeOK'
  <2>1. entry' \in [Entries -> HandleValues]
    BY <1>1, <1>2 DEF HInv, TypeOK
  <2> QED BY <1>1, <1>4, <1>5, <2>1, MoveTypes
          DEF HInv, TypeOK, Links, Entries, HandleValues, Calls, Requests, Places, plc
<1>13. Calling' /\ Sent' /\ Flagged'
  BY <1>1, <1>4, <1>5, MoveTypes, MoveSent, MoveFlagged
<1>14. Cleared' /\ Noted' /\ NoLinkLeaks' /\ AddressesItsSymbolApart'
  BY <1>1, <1>2, <1>4, <1>5, <1>6, <1>7, MoveCleared, MoveNoted, MoveLinks, MoveAddresses DEF plc
<1> QED BY <1>9, <1>11, <1>12, <1>13, <1>14 DEF HInv

-----------------------------------------------------------------------------
(* Requests going out, and the upload *)

LEMMA AskKeeps ==
  ASSUME IInv, HInv, NEW p \in Procs,
         NEW req \in {"info", "acquire", "value", "batch", "upload", "verify"},
         NEW sym \in Symbols \cup {None}, NEW n \in Handles \cup {None},
         At(p, req), Send(p, req, sym, n),
         req \in {"info", "acquire", "value"} => sym = Name(p),
         req = "value" => n = entry[op[p].e].n
  PROVE  HInv'
<1>1. /\ mu = None /\ mu' = p /\ conn # 0
      /\ flight' = [flight EXCEPT ![p] = [link |-> conn, req |-> req, sym |-> sym, n |-> n]]
      /\ UNCHANGED <<conn, connected, symbolsMu, cache, op, plc, overlap, panicked>>
      /\ op[p].at = req
  BY DEF Send, At
<1>2. UNCHANGED <<symbols, symbolsLoaded, entry, link, given>>
  BY <1>1 DEF cache, plc
<1>3. \A q \in Procs : flight[q] = None
  BY <1>1, NoneAssumption DEF IInv, Locked
<1>4. /\ flight'[p] = [link |-> conn, req |-> req, sym |-> sym, n |-> n]
      /\ \A q \in Procs \ {p} : flight'[q] = None
  BY <1>1, <1>3 DEF HInv, TypeOK
<1>5. conn \in Links
  BY <1>1 DEF HInv, TypeOK
<1>6. TypeOK'
  <2>1. flight' \in [Procs -> {None} \cup Requests]
    BY <1>1, <1>5 DEF HInv, TypeOK, Requests
  <2> QED BY <1>1, <1>2, <2>1
          DEF HInv, TypeOK, Links, Entries, HandleValues, Calls, Requests, Places
<1>7. Sent'
  BY <1>1, <1>4 DEF Sent, Name
<1>8. Calling' /\ Flagged'
  BY <1>1 DEF HInv, Calling, Flagged, GoodCall, Calls, HandleValues, Links, Entries, Places,
              Looping, WithEntry
<1>9. OneName' /\ Faithful'
  BY <1>1, <1>2 DEF HInv, OneName, Faithful, Stands, Valid, Name, Entries, Links
<1>10. Cleared' /\ Noted' /\ NoLinkLeaks'
  BY <1>1, <1>2 DEF HInv, Cleared, Noted, NoLinkLeaks, Looping, Links
<1>11. AddressesItsSymbolApart'
  <2> SUFFICES ASSUME ~overlap, req = "value", n # None
               PROVE  given[conn][n] \in {sym, None}
    BY <1>1, <1>2, <1>4 DEF AddressesItsSymbolApart, AddressesItsSymbol
  <2>1. op[p].e \in Entries /\ Name(p) \in Symbols
    BY <1>1 DEF HInv, Calling, GoodCall, Calls, WithEntry, Looping, Name
  <2>2. Stands(op[p].e, Name(p))
    BY DEF Stands
  <2>3. Valid(entry[op[p].e], Name(p))
    BY <2>1, <2>2 DEF HInv, Faithful
  <2> QED BY <1>1, <2>3 DEF Valid
<1> QED BY <1>6, <1>7, <1>8, <1>9, <1>10, <1>11 DEF HInv

LEMMA AsksKeep ==
  ASSUME IInv, HInv, NEW p \in Procs,
         AskInfo(p) \/ AskHandle(p) \/ AskValue(p) \/ AskBatch(p) \/ AskUpload(p)
           \/ AskVerify(p)
  PROVE  HInv'
<1>1. op[p].at \in Looping => Name(p) \in Symbols
  BY DEF HInv, Calling, GoodCall, Calls, Name
<1>2. CASE AskInfo(p)
  BY <1>1, <1>2, AskKeeps DEF AskInfo, At, Looping
<1>3. CASE AskHandle(p)
  BY <1>1, <1>3, AskKeeps DEF AskHandle, At, Looping
<1>4. CASE AskValue(p)
  <2>1. op[p].e \in Entries
    BY <1>4 DEF AskValue, At, HInv, Calling, GoodCall, Calls, WithEntry
  <2>2. entry[op[p].e].n \in Handles \cup {None}
    BY <2>1 DEF HInv, TypeOK, HandleValues
  <2> QED BY <1>1, <1>4, <2>2, AskKeeps DEF AskValue, At, Looping
<1>5. CASE AskBatch(p)
  BY <1>5, AskKeeps DEF AskBatch
<1>6. CASE AskUpload(p)
  BY <1>6, AskKeeps DEF AskUpload
<1>7. CASE AskVerify(p)
  BY <1>7, AskKeeps DEF AskVerify
<1> QED BY <1>2, <1>3, <1>4, <1>5, <1>6, <1>7

LEMMA UploadReplyKeeps ==
  ASSUME IInv, HInv, NEW p \in Procs, UploadReply(p)
  PROVE  HInv'
<1>1. PICK o \in Results : Receive(p, "upload", o)
        /\ IF o = "ok"
           THEN \E uploaded \in SUBSET Symbols :
                  /\ \E f \in [uploaded -> Unreferenced] :
                       /\ \A s, t \in uploaded : s # t => f[s] # f[t]
                       /\ symbols' = [s \in Symbols |-> IF s \in uploaded THEN f[s]
                                                        ELSE symbols[s]]
                  /\ entry' = [e \in Entries |-> IF e \in Unreferenced THEN NoHandle
                                                 ELSE entry[e]]
                  /\ symbolsLoaded' \in {TRUE, uploaded # {}}
           ELSE UNCHANGED cache
  BY DEF UploadReply
<1>2. /\ op' = [op EXCEPT ![p] = Idle] /\ mu' = None
      /\ UNCHANGED <<conn, connected, symbolsMu, given, overlap, panicked>>
  BY DEF UploadReply, Return
<1>3. op[p].at = "upload" /\ op[p].k = 0 /\ LinksFade /\ mu = p
  BY <1>1, ReceiveFacts DEF GoodCall
<1>4. Proceeds(p, Idle)
  BY <1>1, <1>2, ReceiveMove, MoveProceeds
<1>5. Follows(p, Idle) /\ Answers(Idle) /\ Idle.at = "idle" /\ Idle.e = 0
  BY DEF Follows, Answers, Idle, Looping
<1>6. connected' \in BOOLEAN
  BY <1>2 DEF HInv, TypeOK
<1>7. CASE o # "ok"
  BY <1>1, <1>2, <1>3, <1>4, <1>5, <1>6, <1>7, IdleGood, MoveKeeps
<1>8. CASE o = "ok"
  <2>9. PICK uploaded \in SUBSET Symbols :
          /\ \E f \in [uploaded -> Unreferenced] :
               /\ \A s, t \in uploaded : s # t => f[s] # f[t]
               /\ symbols' = [s \in Symbols |-> IF s \in uploaded THEN f[s] ELSE symbols[s]]
          /\ entry' = [e \in Entries |-> IF e \in Unreferenced THEN NoHandle ELSE entry[e]]
          /\ symbolsLoaded' \in {TRUE, uploaded # {}}
    BY <1>1, <1>8
  <2>11. PICK f \in [uploaded -> Unreferenced] :
          /\ \A s, t \in uploaded : s # t => f[s] # f[t]
          /\ symbols' = [s \in Symbols |-> IF s \in uploaded THEN f[s] ELSE symbols[s]]
    BY <2>9
  <2>10. \A s \in Symbols : symbols[s] \notin Unreferenced
    BY DEF Unreferenced
  <2>1. /\ \A s \in Symbols : symbols'[s] \in Unreferenced \/ symbols'[s] = symbols[s]
        /\ \A s, t \in Symbols :
             (s # t /\ symbols'[s] \in Unreferenced) => symbols'[s] # symbols'[t]
        /\ entry' = [e \in Entries |-> IF e \in Unreferenced THEN NoHandle ELSE entry[e]]
        /\ symbolsLoaded' \in BOOLEAN
    BY <2>9, <2>10, <2>11
  <2>2. op'[p] = Idle /\ \A q \in Procs \ {p} : op'[q] = op[q]
    BY <1>4, IdleGood, MoveTypes
  <2>3. ASSUME NEW e \in Entries, NEW s \in Symbols, Stands(e, s)'
        PROVE  IF e \in Unreferenced THEN symbols'[s] = e ELSE Stands(e, s)
    <3>1. CASE symbols'[s] = e
      BY <2>1, <3>1 DEF Stands
    <3>2. CASE op'[p].e = e
      BY <1>5, <2>2, <3>2, EntriesPositive
    <3>3. CASE \E q \in Procs \ {p} : op'[q].e = e /\ Head(op'[q].rest) = s
      BY <2>2, <3>3 DEF Stands, Name, Unreferenced
    <3> QED BY <2>3, <3>1, <3>2, <3>3 DEF Stands, Name
  <2>4. OneName'
    BY <2>1, <2>3 DEF HInv, OneName, Entries
  <2>5. Faithful'
    <3>1. \A e \in Entries : entry'[e] = IF e \in Unreferenced THEN NoHandle ELSE entry[e]
      BY <2>1
    <3>2. NoHandle.n = None
      BY DEF NoHandle
    <3> QED BY <1>2, <1>3, <1>4, <1>5, <2>3, <3>1, <3>2, IdleGood, MoveFaithful
  <2>6. TypeOK'
    <3>1. NoHandle \in HandleValues
      BY MaxLinksAssumption DEF NoHandle, HandleValues
    <3>2. entry' \in [Entries -> HandleValues] /\ symbols' \in [Symbols -> {0} \cup Entries]
      BY <2>1, <2>11, <3>1 DEF HInv, TypeOK, Unreferenced
    <3> QED BY <1>2, <1>3, <1>4, <1>6, <2>1, <3>2, IdleGood, MoveTypes
            DEF HInv, TypeOK, LinksFade, Links, Entries, HandleValues, Calls, Requests, Places
  <2>7. Calling' /\ Sent' /\ Flagged'
    BY <1>2, <1>4, <1>5, IdleGood, MoveTypes, MoveSent, MoveFlagged
  <2>8. Cleared' /\ Noted' /\ NoLinkLeaks' /\ AddressesItsSymbolApart'
    BY <1>2, <1>3, <1>4, <1>5, IdleGood, MoveCleared, MoveNoted, MoveLinks, MoveAddresses
  <2> QED BY <2>4, <2>5, <2>6, <2>7, <2>8 DEF HInv
<1> QED BY <1>7, <1>8

-----------------------------------------------------------------------------
(* Links that go, and links that come *)

\* A link that ends takes its handles along.
LEMMA EndForgets ==
  ASSUME IInv, HInv, NEW k \in Links, NEW how \in {"gone", "dead", "closed"}, End(k, how),
         NEW g \in HandleValues, g.n # None, NEW s \in Symbols, Valid(g, s)
  PROVE  /\ g.from \in Links
         /\ \/ given'[g.from][g.n] = s
            \/ /\ given'[g.from][g.n] = None
               /\ link'[g.from] # "open"
                    \/ (g.from # k /\ g.from = conn /\ \E q \in Procs : op[q].at = "release")
<1>1. g.from \in Links /\ g.n \in Handles
  BY DEF Valid, HandleValues
<1>2. CASE g.from = k
  BY <1>1, <1>2 DEF End, HInv, TypeOK
<1>3. CASE g.from # k
  <2>1. given'[g.from] = given[g.from] /\ link'[g.from] = link[g.from]
    BY <1>1, <1>3 DEF End, HInv, TypeOK
  <2> QED BY <1>1, <1>3, <2>1 DEF Valid
<1> QED BY <1>2, <1>3

LEMMA EndTypes ==
  ASSUME HInv, NEW k \in Links, NEW how \in {"gone", "dead", "closed"}, End(k, how)
  PROVE  /\ link' \in [Links -> {"unused", "open", "gone", "dead", "closed"}]
         /\ given' \in [Links -> [Handles -> Symbols \cup {None}]]
         /\ link'[k] = how /\ \A j \in Links \ {k} : link'[j] = link[j]
         /\ \A j \in Links : \A n \in Handles : given'[j][n] \in {given[j][n], None}
<1>1. [n \in Handles |-> None] \in [Handles -> Symbols \cup {None}]
  OBVIOUS
<1> QED BY <1>1 DEF HInv, TypeOK, End

\* c.conn is closed and set to nil under c.mu, the flag clear.
LEMMA DropKeeps ==
  ASSUME IInv, HInv, NEW p \in Procs, NEW c, GoodCall(c), Proceeds(p, c), op[p].k = 0,
         mu \in {None, p}, IF conn = 0 THEN UNCHANGED plc ELSE Shut(conn),
         conn' = 0, ~connected'
  PROVE  /\ Sent' /\ Flagged' /\ Noted' /\ NoLinkLeaks' /\ AddressesItsSymbolApart'
         /\ link' \in [Links -> {"unused", "open", "gone", "dead", "closed"}]
         /\ given' \in [Links -> [Handles -> Symbols \cup {None}]]
<1>1. conn # 0 => conn \in Links /\ End(conn, "closed")
  BY DEF HInv, TypeOK, Shut
<1>2. conn = 0 => link' = link /\ given' = given
  BY DEF plc
<1>3. /\ link' \in [Links -> {"unused", "open", "gone", "dead", "closed"}]
      /\ given' \in [Links -> [Handles -> Symbols \cup {None}]]
  BY <1>1, <1>2, EndTypes DEF HInv, TypeOK
<1>4. Flagged' /\ Noted'
  BY DEF Flagged, Noted, Looping
<1>5. NoLinkLeaks'
  <2> SUFFICES ASSUME ~overlap, NEW k \in Links, link'[k] \in {"open", "gone", "dead"}
               PROVE  \E q \in Procs : op'[q].k = k
    BY DEF NoLinkLeaks, Proceeds, Links
  <2>1. k # conn /\ link'[k] = link[k]
    BY <1>1, <1>2, EndTypes, LinksPositive
  <2>2. PICK q \in Procs : op[q].k = k
    BY <2>1 DEF HInv, NoLinkLeaks
  <2>3. q # p
    BY <2>2, LinksPositive
  <2> QED BY <2>2, <2>3, MoveTypes
<1> QED BY <1>3, <1>4, <1>5, MoveSent, MoveAddresses

\* CloseLink of Close and GiveUp of Reconnect: the cache is left alone.
LEMMA DropAndReturn ==
  ASSUME IInv, HInv, NEW p \in Procs, Proceeds(p, Idle), op[p].at # "idle", op[p].k = 0,
         mu \in {None, p}, IF conn = 0 THEN UNCHANGED plc ELSE Shut(conn),
         conn' = 0, connected' = FALSE, symbolsMu' \in Procs \cup {None}, panicked' \in BOOLEAN,
         UNCHANGED cache
  PROVE  HInv'
<1>1. Idle.at = "idle" /\ Idle.e = 0
  BY DEF Idle
<1>2. op'[p] = Idle /\ \A q \in Procs \ {p} : op'[q] = op[q]
  BY IdleGood, MoveTypes
<1>3. /\ Sent' /\ Flagged' /\ Noted' /\ NoLinkLeaks' /\ AddressesItsSymbolApart'
      /\ link' \in [Links -> {"unused", "open", "gone", "dead", "closed"}]
      /\ given' \in [Links -> [Handles -> Symbols \cup {None}]]
  BY IdleGood, DropKeeps
<1>4. TypeOK' /\ Calling'
  BY <1>3, IdleGood, MoveTypes
     DEF HInv, TypeOK, Links, Entries, HandleValues, Calls, Requests, Places, cache
<1>5. Cleared'
  BY <1>1, IdleGood, MoveCleared
<1>6. /\ \A e \in Entries : \A s \in Symbols : Stands(e, s)' => Stands(e, s)
      /\ OneName'
  BY <1>1, IdleGood, MoveStands DEF Follows, cache
<1>7. ASSUME NEW g \in HandleValues, g.n # None, NEW s \in Symbols, Valid(g, s)
      PROVE  /\ g.from \in Links
             /\ \/ given'[g.from][g.n] = s
                \/ given'[g.from][g.n] = None /\ link'[g.from] # "open"
  <2>1. CASE conn = 0
    <3>1. link' = link /\ given' = given
      BY <2>1 DEF plc
    <3> QED BY <1>7, <2>1, <3>1, LinksPositive DEF Valid
  <2>2. CASE conn # 0
    <3>1. conn \in Links /\ End(conn, "closed") /\ g.from = conn
      BY <1>7, <2>2 DEF HInv, TypeOK, Shut, Valid
    <3> QED BY <1>7, <3>1, EndForgets
  <2> QED BY <2>1, <2>2
<1>8. Faithful'
  <2> SUFFICES ASSUME ~overlap' PROVE
        /\ \A e \in Entries : \A s \in Symbols :
             (Stands(e, s)' /\ entry'[e].n # None) => Valid(entry[e], s)'
        /\ \A q \in Procs : op'[q].at = "store" => Valid(op[q].h, Name(q))'
    BY DEF Faithful, Entries
  <2>1. ~overlap
    BY DEF Proceeds
  <2>2. ASSUME NEW e \in Entries, NEW s \in Symbols, Stands(e, s)', entry'[e].n # None
        PROVE  Valid(entry[e], s)'
    <3>1. entry'[e] = entry[e] /\ entry[e] \in HandleValues
      BY DEF HInv, TypeOK, cache
    <3>2. Valid(entry[e], s)
      BY <1>6, <2>1, <2>2, <3>1 DEF HInv, Faithful
    <3> QED BY <1>7, <2>2, <3>1, <3>2 DEF Valid, Links
  <2>3. ASSUME NEW q \in Procs, op'[q].at = "store"
        PROVE  Valid(op[q].h, Name(q))'
    <3>1. op'[q] = op[q]
      BY <1>1, <1>2, <2>3
    <3>2. Valid(op[q].h, Name(q))
      BY <2>1, <2>3, <3>1 DEF HInv, Faithful
    <3>3. op[q].h \in HandleValues /\ op[q].h.n # None /\ Name(q) \in Symbols
      BY <2>3, <3>1 DEF HInv, Calling, GoodCall, Calls, Looping, Name
    <3>4. /\ op[q].h.from \in Links
          /\ \/ given'[op[q].h.from][op[q].h.n] = Name(q)
             \/ given'[op[q].h.from][op[q].h.n] = None /\ link'[op[q].h.from] # "open"
      BY <1>7, <3>2, <3>3
    <3> QED BY <3>1, <3>4 DEF Valid, Name, Links
  <2> QED BY <2>2, <2>3
<1> QED BY <1>3, <1>4, <1>5, <1>6, <1>8 DEF HInv

LEMMA CloseLinkKeeps ==
  ASSUME IInv, HInv, NEW p \in Procs, CloseLink(p)
  PROVE  HInv'
<1>1. /\ op[p].at = "release" /\ flight[p] = None /\ op' = [op EXCEPT ![p] = Idle]
      /\ IF conn = 0 THEN UNCHANGED plc ELSE Shut(conn)
      /\ conn' = 0 /\ mu' = None /\ symbolsMu' = None
      /\ UNCHANGED <<connected, cache, flight, overlap, panicked>>
  BY DEF CloseLink, At, Return
<1>2. mu = p
  BY <1>1 DEF IInv, Locked
<1>3. Proceeds(p, Idle)
  BY <1>1 DEF Proceeds, HInv, TypeOK
<1>4. op[p].k = 0
  BY <1>1 DEF HInv, Calling, GoodCall
<1>5. connected = FALSE
  BY <1>1 DEF HInv, TypeOK, Flagged
<1>6. panicked' \in BOOLEAN
  BY <1>1 DEF HInv, TypeOK
<1> QED BY <1>1, <1>2, <1>3, <1>4, <1>5, <1>6, DropAndReturn

LEMMA GiveUpKeeps ==
  ASSUME IInv, HInv, NEW p \in Procs, GiveUp(p)
  PROVE  HInv'
<1>1. /\ op[p].at = "giveup" /\ flight[p] = None /\ op' = [op EXCEPT ![p] = Idle]
      /\ mu = None
      /\ IF conn = 0 THEN UNCHANGED plc ELSE Shut(conn)
      /\ conn' = 0 /\ connected' = FALSE /\ panicked' \in BOOLEAN
      /\ UNCHANGED <<mu, symbolsMu, cache, flight, overlap>>
  BY DEF GiveUp, At, Return
<1>2. Proceeds(p, Idle)
  BY <1>1 DEF Proceeds, HInv, TypeOK
<1>3. op[p].k = 0
  BY <1>1 DEF HInv, Calling, GoodCall
<1>4. symbolsMu' \in Procs \cup {None}
  BY <1>1 DEF HInv, TypeOK
<1> QED BY <1>1, <1>2, <1>3, <1>4, DropAndReturn

\* While a Reconnect dials alone, nothing holds a handle and no call is anywhere.
LEMMA DialsAlone ==
  ASSUME IInv, HInv, ~overlap, NEW p \in Procs, op[p].at \in {"dial", "install"}
  PROVE  /\ conn = 0
         /\ \A q \in Procs \ {p} : op[q].at = "idle"
         /\ \A e \in Entries : \A s \in Symbols : Stands(e, s) => entry[e].n = None
<1>1. /\ conn = 0
      /\ \A s \in Symbols : symbols[s] # 0 => entry[symbols[s]].n = None
  BY DEF HInv, Cleared
<1>2. \A q \in Procs \ {p} : op[q].at = "idle"
  BY DEF IInv, Alone, ReconnectPlaces
<1>3. \A q \in Procs : op[q].e = 0
  BY <1>2 DEF HInv, Calling, GoodCall, Looping
<1> QED BY <1>1, <1>2, <1>3, EntriesPositive DEF Stands

LEMMA DialKeeps ==
  ASSUME IInv, HInv, NEW p \in Procs, Dial(p)
  PROVE  HInv'
<1>1. PICK k \in Links :
        /\ link[k] = "unused"
        /\ link' = [link EXCEPT ![k] = "open"]
        /\ op' = [op EXCEPT ![p].at = "install", ![p].k = k]
  BY DEF Dial
<1>2. /\ At(p, "dial")
      /\ UNCHANGED <<conn, connected, mu, symbolsMu, cache, flight, given, overlap, panicked>>
  BY DEF Dial
<1> DEFINE c == [op[p] EXCEPT !.at = "install", !.k = k]
<1>3. op' = [op EXCEPT ![p] = c]
  BY <1>1 DEF IInv, Shaped
<1>4. GoodCall(op[p]) /\ op[p].at = "dial" /\ op[p].e = 0 /\ op[p].k = 0
  BY <1>2 DEF At, HInv, Calling, GoodCall, Looping
<1>5. GoodCall(c) /\ c.at = "install" /\ c.e = 0 /\ c.k = k
  BY <1>4, LinksPositive DEF GoodCall, Calls, Places, Looping, WithEntry
<1> HIDE DEF c
<1>6. Proceeds(p, c)
  BY <1>2, <1>3, QuietMove, MoveProceeds
<1>7. op'[p] = c /\ \A q \in Procs \ {p} : op'[q] = op[q]
  BY <1>5, <1>6, MoveTypes
<1>8. TypeOK'
  <2>1. link' \in [Links -> {"unused", "open", "gone", "dead", "closed"}]
    BY <1>1 DEF HInv, TypeOK
  <2> QED BY <1>2, <1>5, <1>6, <2>1, MoveTypes
          DEF HInv, TypeOK, Links, Entries, HandleValues, Calls, Requests, Places, cache
<1>9. Calling' /\ Sent' /\ Flagged' /\ AddressesItsSymbolApart'
  BY <1>2, <1>5, <1>6, MoveTypes, MoveSent, MoveFlagged, MoveAddresses
<1>10. /\ \A e \in Entries : \A s \in Symbols : Stands(e, s)' => Stands(e, s)
       /\ OneName'
  BY <1>2, <1>5, <1>6, MoveStands DEF Follows, cache
<1>11. ASSUME ~overlap
       PROVE  /\ conn = 0
              /\ \A q \in Procs \ {p} : op[q].at = "idle"
              /\ \A e \in Entries : \A s \in Symbols : Stands(e, s) => entry[e].n = None
  BY <1>4, <1>11, DialsAlone
<1>12. Faithful' /\ Cleared' /\ Noted'
  <2>1. UNCHANGED <<overlap, conn, symbols, entry>>
    BY <1>2 DEF cache
  <2>2. Faithful'
    BY <1>5, <1>7, <1>10, <1>11, <2>1 DEF Faithful, Entries
  <2>3. Cleared'
    BY <1>4, <2>1 DEF HInv, Cleared
  <2>4. Noted'
    BY <1>5, <1>7, <1>11, <2>1 DEF Noted, Looping
  <2> QED BY <2>2, <2>3, <2>4
<1>13. NoLinkLeaks'
  <2> SUFFICES ASSUME ~overlap, NEW j \in Links, link'[j] \in {"open", "gone", "dead"}
               PROVE  j = conn \/ \E q \in Procs : op'[q].k = j
    BY <1>2 DEF NoLinkLeaks, Links
  <2>1. CASE j = k
    BY <1>5, <1>7, <2>1
  <2>2. CASE j # k
    <3>1. link'[j] = link[j]
      BY <1>1, <2>2 DEF HInv, TypeOK
    <3>2. j = conn \/ \E q \in Procs : op[q].k = j
      BY <3>1 DEF HInv, NoLinkLeaks
    <3> QED BY <1>4, <1>7, <3>2, LinksPositive
  <2> QED BY <2>1, <2>2
<1> QED BY <1>8, <1>9, <1>10, <1>12, <1>13 DEF HInv

LEMMA InstallKeeps ==
  ASSUME IInv, HInv, NEW p \in Procs, Install(p)
  PROVE  HInv'
<1> DEFINE c == [op[p] EXCEPT !.k = 0, !.at = "verify"]
<1>1. /\ At(p, "install") /\ mu = None /\ conn' = op[p].k /\ connected' = TRUE
      /\ op' = [op EXCEPT ![p] = c]
      /\ UNCHANGED <<mu, symbolsMu, cache, flight, plc, overlap, panicked>>
  BY DEF Install, IInv, Shaped
<1>2. GoodCall(op[p]) /\ op[p].at = "install" /\ op[p].e = 0 /\ op[p].k \in Links
  BY <1>1 DEF At, HInv, Calling, GoodCall, Calls, Looping
<1>3. GoodCall(c) /\ c.at = "verify" /\ c.e = 0 /\ c.k = 0
  BY <1>2 DEF GoodCall, Calls, Places, Looping, WithEntry
<1> HIDE DEF c
<1>4. Proceeds(p, c)
  BY <1>1, QuietMove, MoveProceeds
<1>5. op'[p] = c /\ \A q \in Procs \ {p} : op'[q] = op[q]
  BY <1>3, <1>4, MoveTypes
<1>6. conn' \in Links /\ conn' # 0
  BY <1>1, <1>2, LinksPositive
<1>7. TypeOK'
  BY <1>1, <1>3, <1>4, <1>6, MoveTypes
     DEF HInv, TypeOK, Links, Entries, HandleValues, Calls, Requests, Places, cache, plc
<1>8. Calling' /\ Sent' /\ AddressesItsSymbolApart'
  BY <1>1, <1>3, <1>4, MoveTypes, MoveSent, MoveAddresses
<1>9. Flagged'
  <2>1. \A q \in Procs : op[q].at # "release"
    BY <1>1, NoneAssumption DEF IInv, Locked
  <2> QED BY <1>3, <1>5, <1>6, <2>1 DEF Flagged
<1>10. /\ \A e \in Entries : \A s \in Symbols : Stands(e, s)' => Stands(e, s)
       /\ OneName'
  BY <1>1, <1>3, <1>4, MoveStands DEF Follows, cache
<1>11. ASSUME ~overlap
       PROVE  /\ conn = 0
              /\ \A q \in Procs \ {p} : op[q].at = "idle"
              /\ \A e \in Entries : \A s \in Symbols : Stands(e, s) => entry[e].n = None
  BY <1>2, <1>11, DialsAlone
<1>12. Faithful' /\ Noted'
  BY <1>1, <1>3, <1>5, <1>10, <1>11 DEF Faithful, Noted, Entries, Looping, cache
<1>13. Cleared'
  BY <1>2, <1>3, <1>4, MoveCleared
<1>14. NoLinkLeaks'
  <2> SUFFICES ASSUME ~overlap, NEW j \in Links, link[j] \in {"open", "gone", "dead"}
               PROVE  j = op[p].k \/ \E q \in Procs : op'[q].k = j
    BY <1>1 DEF NoLinkLeaks, Links, plc
  <2>1. j = conn \/ \E q \in Procs : op[q].k = j
    BY DEF HInv, NoLinkLeaks
  <2> QED BY <1>5, <1>11, <2>1, LinksPositive
<1> QED BY <1>7, <1>8, <1>9, <1>10, <1>12, <1>13, <1>14 DEF HInv

LEMMA LinkBreaksKeeps ==
  ASSUME IInv, HInv, NEW k \in Links, LinkBreaks(k)
  PROVE  HInv'
<1>1. PICK how \in {"gone", "dead"} : End(k, how)
  BY DEF LinkBreaks
<1>2. /\ link[k] = "open"
      /\ UNCHANGED <<conn, connected, mu, symbolsMu, cache, op, flight, overlap, panicked>>
  BY DEF LinkBreaks
<1>3. UNCHANGED <<symbols, symbolsLoaded, entry>>
  BY <1>2 DEF cache
<1>4. /\ link' \in [Links -> {"unused", "open", "gone", "dead", "closed"}]
      /\ given' \in [Links -> [Handles -> Symbols \cup {None}]]
      /\ link'[k] = how /\ \A j \in Links \ {k} : link'[j] = link[j]
      /\ \A j \in Links : \A n \in Handles : given'[j][n] \in {given[j][n], None}
  BY <1>1, EndTypes
<1>5. TypeOK'
  BY <1>2, <1>3, <1>4 DEF HInv, TypeOK, Links, Entries, HandleValues, Calls, Requests, Places
<1>6. Calling' /\ Sent' /\ Flagged' /\ OneName' /\ Cleared'
  BY <1>2, <1>3 DEF HInv, Calling, GoodCall, Calls, HandleValues, Links, Entries, Places, Looping,
                    WithEntry, Sent, Flagged, OneName, Stands, Name, Cleared
<1>7. Noted' /\ NoLinkLeaks'
  <2>1. conn # 0 => conn \in Links
    BY DEF HInv, TypeOK
  <2> QED BY <1>2, <1>4, <2>1 DEF HInv, Noted, NoLinkLeaks, Looping, Links
<1>8. AddressesItsSymbolApart'
  <2> SUFFICES ASSUME ~overlap, NEW p \in Procs, flight[p] # None, flight[p].req = "value",
                      flight[p].n # None
               PROVE  given'[flight[p].link][flight[p].n] \in {flight[p].sym, None}
    BY <1>2 DEF AddressesItsSymbolApart, AddressesItsSymbol
  <2>1. flight[p].link \in Links /\ flight[p].n \in Handles
    BY DEF HInv, TypeOK, Requests
  <2>2. given[flight[p].link][flight[p].n] \in {flight[p].sym, None}
    BY DEF HInv, AddressesItsSymbolApart, AddressesItsSymbol
  <2> QED BY <1>4, <2>1, <2>2
<1>9. Faithful'
  <2> SUFFICES ASSUME ~overlap PROVE
        /\ \A e \in Entries : \A s \in Symbols :
             (Stands(e, s)' /\ entry'[e].n # None) => Valid(entry[e], s)'
        /\ \A q \in Procs : op'[q].at = "store" => Valid(op[q].h, Name(q))'
    BY <1>2 DEF Faithful, Entries
  <2>1. ASSUME NEW e \in Entries, NEW s \in Symbols, Stands(e, s)', entry'[e].n # None
        PROVE  Valid(entry[e], s)'
    <3>1. Stands(e, s) /\ entry'[e] = entry[e] /\ entry[e] \in HandleValues
      BY <1>2, <1>3, <2>1 DEF Stands, Name, HInv, TypeOK
    <3>2. Valid(entry[e], s)
      BY <2>1, <3>1 DEF HInv, Faithful
    <3>3. /\ entry[e].from \in Links
          /\ \/ given'[entry[e].from][entry[e].n] = s
             \/ /\ given'[entry[e].from][entry[e].n] = None
                /\ link'[entry[e].from] # "open"
                    \/ (entry[e].from # k /\ entry[e].from = conn
                          /\ \E q \in Procs : op[q].at = "release")
      BY <1>1, <2>1, <3>1, <3>2, EndForgets
    <3> QED BY <1>2, <3>1, <3>2, <3>3 DEF Valid, Links
  <2>2. ASSUME NEW q \in Procs, op'[q].at = "store"
        PROVE  Valid(op[q].h, Name(q))'
    <3>1. Valid(op[q].h, Name(q))
      BY <1>2, <2>2 DEF HInv, Faithful
    <3>2. op[q].h \in HandleValues /\ op[q].h.n # None /\ Name(q) \in Symbols
      BY <1>2, <2>2 DEF HInv, Calling, GoodCall, Calls, Looping, Name
    <3> DEFINE h == op[q].h
    <3>3. /\ h.from \in Links
          /\ \/ given'[h.from][h.n] = Name(q)
             \/ /\ given'[h.from][h.n] = None
                /\ link'[h.from] # "open"
                    \/ (h.from # k /\ h.from = conn /\ \E r \in Procs : op[r].at = "release")
      BY <1>1, <3>1, <3>2, EndForgets
    <3> QED BY <1>2, <3>1, <3>3 DEF Valid, Name, Links
  <2> QED BY <2>1, <2>2
<1> QED BY <1>5, <1>6, <1>7, <1>8, <1>9 DEF HInv

-----------------------------------------------------------------------------
(* Close releases the cached handles *)

\* Close holds c.mu: no other call waits on a request.
LEMMA ReleaseAlone ==
  ASSUME IInv, HInv, NEW p \in Procs, op[p].at = "release"
  PROVE  mu = p /\ \A q \in Procs \ {p} : flight[q] = None
BY DEF IInv, Locked

\* Entries lose their handles, the PLC forgets them, links are noticed to be dead.
LEMMA ReleaseFaithful ==
  ASSUME IInv, HInv, NEW p \in Procs, op[p].at = "release", LinksFade,
         UNCHANGED <<conn, op, symbols, overlap>>,
         \A e \in Entries : entry'[e] = entry[e] \/ entry'[e].n = None,
         \A k \in Links : \A n \in Handles :
           given'[k][n] = given[k][n] \/ (k = conn /\ given'[k][n] = None)
  PROVE  Faithful'
<1> SUFFICES ASSUME ~overlap PROVE
      /\ \A e \in Entries : \A s \in Symbols :
           (Stands(e, s)' /\ entry'[e].n # None) => Valid(entry[e], s)'
      /\ \A q \in Procs : op'[q].at = "store" => Valid(op[q].h, Name(q))'
  BY DEF Faithful, Entries
<1>1. ASSUME NEW g \in HandleValues, g.n # None, NEW s \in Symbols, Valid(g, s)
      PROVE  /\ g.from \in Links
             /\ conn = 0 \/ g.from = conn
             /\ \/ given'[g.from][g.n] = s
                \/ /\ given'[g.from][g.n] = None
                   /\ link'[g.from] # "open"
                        \/ (g.from = conn /\ \E q \in Procs : op[q].at = "release")
  <2>1. g.from \in Links /\ g.n \in Handles
    BY <1>1 DEF Valid, HandleValues
  <2>2. link[g.from] # "open" => link'[g.from] # "open"
    BY <2>1 DEF LinksFade
  <2> QED BY <1>1, <2>1, <2>2 DEF Valid
<1>2. ASSUME NEW e \in Entries, NEW s \in Symbols, Stands(e, s)', entry'[e].n # None
      PROVE  Valid(entry[e], s)'
  <2>1. Stands(e, s) /\ entry'[e] = entry[e] /\ entry[e] \in HandleValues
    BY <1>2 DEF Stands, Name, HInv, TypeOK
  <2>2. Valid(entry[e], s)
    BY <1>2, <2>1 DEF HInv, Faithful
  <2> QED BY <1>1, <1>2, <2>1, <2>2 DEF Valid, Links
<1>3. ASSUME NEW q \in Procs, op'[q].at = "store"
      PROVE  Valid(op[q].h, Name(q))'
  <2>1. Valid(op[q].h, Name(q))
    BY <1>3 DEF HInv, Faithful
  <2>2. op[q].h \in HandleValues /\ op[q].h.n # None /\ Name(q) \in Symbols
    BY <1>3 DEF HInv, Calling, GoodCall, Calls, Looping, Name
  <2> DEFINE h == op[q].h
  <2>3. /\ h.from \in Links
        /\ conn = 0 \/ h.from = conn
        /\ \/ given'[h.from][h.n] = Name(q)
           \/ /\ given'[h.from][h.n] = None
              /\ link'[h.from] # "open"
                   \/ (h.from = conn /\ \E r \in Procs : op[r].at = "release")
    BY <1>1, <2>1, <2>2
  <2> QED BY <2>1, <2>3 DEF Valid, Name, Links
<1> QED BY <1>2, <1>3

\* What both steps of the release keep.
LEMMA ReleaseKeeps ==
  ASSUME IInv, HInv, NEW p \in Procs, op[p].at = "release", LinksFade,
         UNCHANGED <<conn, connected, op, mu, symbolsMu, symbols, symbolsLoaded, overlap, panicked>>,
         entry' \in [Entries -> HandleValues],
         given' \in [Links -> [Handles -> Symbols \cup {None}]],
         \A e \in Entries : entry'[e] = entry[e] \/ entry'[e].n = None,
         \A k \in Links : \A n \in Handles :
           given'[k][n] = given[k][n] \/ (k = conn /\ given'[k][n] = None),
         flight' \in [Procs -> {None} \cup Requests],
         \A q \in Procs \ {p} : flight'[q] = flight[q],
         flight'[p] # None => flight'[p].req = "release" /\ flight'[p].link = conn /\ conn # 0
  PROVE  HInv'
<1>1. TypeOK'
  BY DEF HInv, TypeOK, LinksFade, Links, Entries, HandleValues, Calls, Requests, Places
<1>2. Calling' /\ Flagged' /\ OneName'
  <2>1. Calling'
    BY DEF HInv, Calling, GoodCall, Calls, HandleValues, Links, Entries, Places, Looping, WithEntry
  <2>2. Flagged' /\ OneName'
    BY DEF HInv, Flagged, OneName, Stands, Name, Entries
  <2> QED BY <2>1, <2>2
<1>3. Sent' /\ AddressesItsSymbolApart'
  BY ReleaseAlone DEF Sent, AddressesItsSymbolApart, AddressesItsSymbol
<1>4. Cleared'
  <2>1. \A s \in Symbols : symbols[s] # 0 => symbols[s] \in Entries
    BY DEF HInv, TypeOK
  <2> QED BY <2>1 DEF HInv, Cleared
<1>5. Noted' /\ NoLinkLeaks'
  <2>1. conn # 0 => conn \in Links
    BY DEF HInv, TypeOK
  <2> QED BY <2>1 DEF HInv, Noted, NoLinkLeaks, LinksFade, Looping, Links
<1>6. Faithful'
  BY ReleaseFaithful
<1> QED BY <1>1, <1>2, <1>3, <1>4, <1>5, <1>6 DEF HInv

LEMMA AskReleaseKeeps ==
  ASSUME IInv, HInv, NEW p \in Procs, AskRelease(p)
  PROVE  HInv'
<1>1. PICK s \in Held :
        IF conn = 0
        THEN /\ entry' = [entry EXCEPT ![symbols[s]] = NoHandle]
             /\ UNCHANGED flight
        ELSE /\ flight' = [flight EXCEPT ![p] = [link |-> conn, req |-> "release", sym |-> s,
                                                 n |-> entry[symbols[s]].n]]
             /\ UNCHANGED entry
  BY DEF AskRelease
<1>2. /\ op[p].at = "release" /\ flight[p] = None
      /\ UNCHANGED <<conn, connected, mu, symbolsMu, symbols, symbolsLoaded, op, plc, overlap,
                     panicked>>
  BY DEF AskRelease, At
<1>3. s \in Symbols /\ symbols[s] \in Entries /\ entry[symbols[s]].n \in Handles
  BY DEF Held, HInv, TypeOK, HandleValues
<1>4. NoHandle \in HandleValues /\ NoHandle.n = None
  BY MaxLinksAssumption DEF NoHandle, HandleValues
<1>5. LinksFade /\ given' = given
  BY <1>2, LinksStay DEF plc
<1>6. CASE conn = 0
  <2>1. /\ entry' \in [Entries -> HandleValues]
        /\ \A e \in Entries : entry'[e] = entry[e] \/ entry'[e].n = None
        /\ flight' = flight
    BY <1>1, <1>3, <1>4, <1>6 DEF HInv, TypeOK
  <2>2. flight' \in [Procs -> {None} \cup Requests]
        /\ given' \in [Links -> [Handles -> Symbols \cup {None}]]
    BY <1>5, <2>1 DEF HInv, TypeOK
  <2> QED BY <1>2, <1>5, <2>1, <2>2, ReleaseKeeps
<1>7. CASE conn # 0
  <2>1. conn \in Links
    BY <1>7 DEF HInv, TypeOK
  <2> DEFINE m == [link |-> conn, req |-> "release", sym |-> s, n |-> entry[symbols[s]].n]
  <2>2. m \in Requests /\ m.req = "release" /\ m.link = conn
    BY <1>3, <2>1 DEF Requests
  <2>3. flight' = [flight EXCEPT ![p] = m] /\ entry' = entry
    BY <1>1, <1>7
  <2> HIDE DEF m
  <2>4. /\ flight' \in [Procs -> {None} \cup Requests]
        /\ flight'[p] = m
        /\ \A q \in Procs \ {p} : flight'[q] = flight[q]
    BY <2>2, <2>3 DEF HInv, TypeOK
  <2>5. entry' \in [Entries -> HandleValues]
        /\ given' \in [Links -> [Handles -> Symbols \cup {None}]]
    BY <1>5, <2>3 DEF HInv, TypeOK
  <2> QED BY <1>2, <1>5, <1>7, <2>2, <2>3, <2>4, <2>5, ReleaseKeeps
<1> QED BY <1>6, <1>7

LEMMA ReleaseReplyKeeps ==
  ASSUME IInv, HInv, NEW p \in Procs, ReleaseReply(p)
  PROVE  HInv'
<1>1. PICK o \in Results :
        /\ Receive(p, "release", o)
        /\ given' = IF o # "ok" THEN given
                    ELSE [given EXCEPT ![flight[p].link][flight[p].n] = None]
  BY DEF ReleaseReply
<1>2. /\ entry' = [entry EXCEPT ![symbols[flight[p].sym]] = NoHandle]
      /\ UNCHANGED <<conn, connected, mu, symbolsMu, symbols, symbolsLoaded, op, overlap,
                     panicked>>
  BY DEF ReleaseReply
<1>3. op[p].at = "release" /\ LinksFade /\ conn \in Links /\ flight[p].link = conn
  BY <1>1, ReceiveFacts
<1>4. NoHandle \in HandleValues /\ NoHandle.n = None
  BY MaxLinksAssumption DEF NoHandle, HandleValues
<1>5. /\ entry' \in [Entries -> HandleValues]
      /\ \A e \in Entries : entry'[e] = entry[e] \/ entry'[e].n = None
  BY <1>2, <1>4 DEF HInv, TypeOK
<1>6. /\ given' \in [Links -> [Handles -> Symbols \cup {None}]]
      /\ \A k \in Links : \A n \in Handles :
           given'[k][n] = given[k][n] \/ (k = conn /\ given'[k][n] = None)
  BY <1>1, <1>3 DEF HInv, TypeOK
<1>7. /\ flight' \in [Procs -> {None} \cup Requests]
      /\ flight'[p] = None
      /\ \A q \in Procs \ {p} : flight'[q] = flight[q]
  BY <1>1 DEF Receive, HInv, TypeOK
<1> QED BY <1>2, <1>3, <1>5, <1>6, <1>7, ReleaseKeeps

-----------------------------------------------------------------------------
(* Calls begin *)

LEMMA BeginKeeps ==
  ASSUME IInv, HInv, NEW p \in Procs, NEW call, Begin(p, call), GoodCall(call),
         call.e = 0, call.k = 0, ~call.lost, call.at \notin {"dial", "install", "store"},
         mu' \in Procs \cup {None}, symbolsMu' \in Procs \cup {None},
         connected' \in BOOLEAN, connected' => connected,
         call.at = "release" => ~connected',
         UNCHANGED <<conn, cache, flight, plc, panicked>>
  PROVE  HInv'
<1>1. /\ op[p].at = "idle" /\ flight[p] = None /\ op' = [op EXCEPT ![p] = call]
      /\ overlap' = (overlap \/ \E q \in Procs \ {p} :
                       op[q].at # "idle" /\ "Reconnect" \in {call.kind, op[q].kind})
  BY DEF Begin, At
<1>2. overlap' \in BOOLEAN
  BY <1>1 DEF HInv, TypeOK
<1>3. Proceeds(p, call)
  <2>1. flight' = [flight EXCEPT ![p] = None]
    BY <1>1 DEF HInv, TypeOK
  <2>2. overlap => overlap'
    BY <1>1
  <2> QED BY <1>1, <1>2, <2>1, <2>2 DEF Proceeds
<1>4. op[p].k = 0 /\ LinksFade /\ Answers(call) /\ Follows(p, call) /\ UNCHANGED given
  BY <1>1, LinksStay DEF HInv, Calling, GoodCall, Answers, Follows, plc
<1>5. op'[p] = call /\ \A q \in Procs \ {p} : op'[q] = op[q]
  BY <1>3, MoveTypes
<1>6. UNCHANGED <<symbols, symbolsLoaded, entry>>
  BY DEF cache
<1>7. TypeOK' /\ Calling'
  BY <1>3, <1>4, <1>6, MoveTypes DEF HInv, TypeOK, LinksFade, Links, Entries, HandleValues, Calls,
                                Requests, Places
<1>8. Sent' /\ Noted' /\ NoLinkLeaks' /\ AddressesItsSymbolApart'
  BY <1>3, <1>4, MoveSent, MoveNoted, MoveLinks, MoveAddresses
<1>9. Flagged'
  BY <1>5 DEF HInv, Flagged
<1>10. OneName' /\ Faithful'
  <2>1. /\ \A e \in Entries : \A s \in Symbols : Stands(e, s)' => Stands(e, s)
        /\ OneName'
    BY <1>3, <1>4, <1>6, MoveStands
  <2> QED BY <1>1, <1>3, <1>4, <1>6, <2>1, MoveFaithful
<1>11. Cleared'
  <2> SUFFICES ASSUME ~overlap', NEW q \in Procs, op'[q].at \in {"dial", "install"}
               PROVE  FALSE
    BY DEF Cleared
  <2>1. q # p /\ op[q].at \in {"dial", "install"}
    BY <1>5
  <2>2. op[q].kind = "Reconnect"
    BY <2>1 DEF IInv, Alone, ReconnectPlaces
  <2> QED BY <1>1, <2>1, <2>2
<1> QED BY <1>7, <1>8, <1>9, <1>10, <1>11 DEF HInv

LEMMA StartReconnectKeeps ==
  ASSUME IInv, HInv, NEW p \in Procs, StartReconnect(p)
  PROVE  HInv'
<1> DEFINE call == [Idle EXCEPT !.at = "dial", !.kind = "Reconnect"]
<1>1. /\ mu = None /\ ~connected /\ Begin(p, call)
      /\ IF conn = 0 THEN UNCHANGED plc ELSE Shut(conn)
      /\ conn' = 0
      /\ entry' = [e \in Entries |-> IF \E s \in Symbols : symbols[s] = e THEN NoHandle
                                     ELSE entry[e]]
      /\ UNCHANGED <<connected, mu, symbolsMu, symbols, symbolsLoaded, flight, panicked>>
  BY DEF StartReconnect
<1>2. GoodCall(call) /\ call.e = 0 /\ call.k = 0 /\ call.at = "dial" /\ call.kind = "Reconnect"
  BY IdleGood DEF Idle, GoodCall, Calls, Places, Looping, WithEntry
<1> HIDE DEF call
<1>3. /\ op[p].at = "idle" /\ flight[p] = None /\ op' = [op EXCEPT ![p] = call]
      /\ overlap' = (overlap \/ \E q \in Procs \ {p} :
                       op[q].at # "idle" /\ "Reconnect" \in {call.kind, op[q].kind})
  BY <1>1 DEF Begin, At
<1>4. overlap' \in BOOLEAN
  BY <1>3 DEF HInv, TypeOK
<1>5. Proceeds(p, call)
  <2>1. flight' = [flight EXCEPT ![p] = None] /\ mu' \in Procs \cup {None}
    BY <1>1, <1>3 DEF HInv, TypeOK
  <2>2. overlap => overlap'
    BY <1>3
  <2> QED BY <1>3, <1>4, <2>1, <2>2 DEF Proceeds
<1>6. op'[p] = call /\ \A q \in Procs \ {p} : op'[q] = op[q]
  BY <1>2, <1>5, MoveTypes
<1>7. ~overlap' => \A q \in Procs \ {p} : op[q].at = "idle"
  BY <1>2, <1>3
<1>8. op[p].k = 0
  BY <1>3 DEF HInv, Calling, GoodCall
<1>9. /\ Sent' /\ Flagged' /\ Noted' /\ NoLinkLeaks' /\ AddressesItsSymbolApart'
      /\ link' \in [Links -> {"unused", "open", "gone", "dead", "closed"}]
      /\ given' \in [Links -> [Handles -> Symbols \cup {None}]]
  BY <1>1, <1>2, <1>5, <1>8, DropKeeps
<1>10. NoHandle \in HandleValues /\ NoHandle.n = None
  BY MaxLinksAssumption DEF NoHandle, HandleValues
<1>11. /\ entry' \in [Entries -> HandleValues]
       /\ \A e \in Entries : (\E s \in Symbols : symbols[s] = e) => entry'[e].n = None
  BY <1>1, <1>10 DEF HInv, TypeOK
<1>12. TypeOK' /\ Calling'
  BY <1>1, <1>2, <1>5, <1>9, <1>11, MoveTypes
     DEF HInv, TypeOK, Links, Entries, HandleValues, Calls, Requests, Places
<1>13. OneName'
  BY <1>1, <1>2, <1>5, MoveStands DEF Follows
<1>14. ASSUME ~overlap'
       PROVE  \A q \in Procs : op'[q].e = 0 /\ op'[q].at # "store"
  <2>1. \A q \in Procs \ {p} : op[q].e = 0
    BY <1>7, <1>14 DEF HInv, Calling, GoodCall, Looping
  <2> QED BY <1>2, <1>6, <1>7, <1>14, <2>1
<1>15. Faithful'
  BY <1>1, <1>11, <1>14, EntriesPositive DEF Faithful, Stands, Entries
<1>16. Cleared'
  <2>1. \A s \in Symbols : symbols[s] # 0 => symbols[s] \in Entries
    BY DEF HInv, TypeOK
  <2> QED BY <1>1, <1>11, <2>1 DEF Cleared
<1> QED BY <1>9, <1>12, <1>13, <1>15, <1>16 DEF HInv

LEMMA StartKeeps ==
  ASSUME IInv, HInv, NEW p \in Procs, Start(p)
  PROVE  HInv'
<1>1. mu \in Procs \cup {None} /\ symbolsMu \in Procs \cup {None} /\ connected \in BOOLEAN
  BY DEF HInv, TypeOK
<1>2. CASE StartRead(p)
  <2>1. PICK names \in NameLists :
          Begin(p, [Idle EXCEPT !.at = "lookup", !.kind = "read", !.names = names,
                                !.rest = names, !.batch = Len(names) > 1])
    BY <1>2 DEF StartRead
  <2> DEFINE call == [Idle EXCEPT !.at = "lookup", !.kind = "read", !.names = names,
                                  !.rest = names, !.batch = Len(names) > 1]
  <2>2. names \in Seq(Symbols) /\ names # <<>> /\ (Len(names) > 1) \in BOOLEAN
    <3>1. CASE \E s \in Symbols : names = <<s>>
      BY <3>1
    <3>2. CASE names \in Symbols \X Symbols
      <4>1. PICK a, b \in Symbols : names = <<a, b>>
        BY <3>2
      <4>2. <<a, b>> \in Seq(Symbols) /\ <<a, b>> # <<>>
        OBVIOUS
      <4>3. names \in Seq(Symbols) /\ names # <<>>
        BY <4>1, <4>2
      <4>4. (Len(names) > 1) \in BOOLEAN
        BY <4>3
      <4> QED BY <4>3, <4>4
    <3> QED BY <3>1, <3>2 DEF NameLists
  <2>3. /\ GoodCall(call) /\ call.e = 0 /\ call.k = 0 /\ ~call.lost /\ call.at = "lookup"
    BY <2>2, IdleGood DEF Idle, GoodCall, Calls, Places, Looping, WithEntry
  <2> HIDE DEF call
  <2>4. Begin(p, call)
    BY <2>1 DEF call
  <2>5. UNCHANGED <<conn, connected, mu, symbolsMu, cache, flight, plc, panicked>>
    BY <1>2 DEF StartRead
  <2> QED BY <1>1, <2>3, <2>4, <2>5, BeginKeeps
<1>3. CASE StartWrite(p)
  <2>1. PICK s \in Symbols :
          Begin(p, [Idle EXCEPT !.at = "lookup", !.kind = "write", !.names = <<s>>,
                                !.rest = <<s>>])
    BY <1>3 DEF StartWrite
  <2> DEFINE call == [Idle EXCEPT !.at = "lookup", !.kind = "write", !.names = <<s>>,
                                  !.rest = <<s>>]
  <2>2. /\ GoodCall(call) /\ call.e = 0 /\ call.k = 0 /\ ~call.lost /\ call.at = "lookup"
    <3> DEFINE names == <<s>>
    <3>1. names \in Seq(Symbols) /\ names # <<>>
      OBVIOUS
    <3> HIDE DEF names
    <3>2. call = [Idle EXCEPT !.at = "lookup", !.kind = "write", !.names = names, !.rest = names]
      BY DEF names
    <3> HIDE DEF call
    <3> QED BY <3>1, <3>2, IdleGood DEF Idle, GoodCall, Calls, Places, Looping, WithEntry
  <2> HIDE DEF call
  <2>3. Begin(p, call)
    BY <2>1 DEF call
  <2>4. UNCHANGED <<conn, connected, mu, symbolsMu, cache, flight, plc, panicked>>
    BY <1>3 DEF StartWrite
  <2> QED BY <1>1, <2>2, <2>3, <2>4, BeginKeeps
<1>4. CASE StartAllTags(p)
  <2> DEFINE call == [Idle EXCEPT !.at = "upload", !.kind = "AllTags"]
  <2>1. /\ GoodCall(call) /\ call.e = 0 /\ call.k = 0 /\ ~call.lost /\ call.at = "upload"
    BY IdleGood DEF Idle, GoodCall, Calls, Places, Looping, WithEntry
  <2>2. Begin(p, call)
        /\ UNCHANGED <<conn, connected, mu, symbolsMu, cache, flight, plc, panicked>>
    BY <1>4 DEF StartAllTags
  <2> HIDE DEF call
  <2> QED BY <1>1, <2>1, <2>2, BeginKeeps
<1>5. CASE StartClose(p)
  <2> DEFINE call == [Idle EXCEPT !.at = "release", !.kind = "Close"]
  <2>1. /\ GoodCall(call) /\ call.e = 0 /\ call.k = 0 /\ ~call.lost /\ call.at = "release"
    BY IdleGood DEF Idle, GoodCall, Calls, Places, Looping, WithEntry
  <2>2. /\ Begin(p, call) /\ mu' = p /\ symbolsMu' = p /\ connected' = FALSE
        /\ UNCHANGED <<conn, cache, flight, plc, panicked>>
    BY <1>5 DEF StartClose
  <2> HIDE DEF call
  <2> QED BY <1>1, <2>1, <2>2, BeginKeeps
<1>6. CASE SetDisconnected(p)
  <2>1. /\ connected' = FALSE
        /\ UNCHANGED <<conn, mu, symbolsMu, symbols, symbolsLoaded, entry, op, flight, link,
                       given, overlap, panicked>>
    BY <1>6 DEF SetDisconnected, cache, plc
  <2>2. TypeOK' /\ Calling'
    BY <2>1 DEF HInv, TypeOK, Calling, GoodCall, Links, Entries, HandleValues, Calls, Requests,
                Places, Looping, WithEntry
  <2>3. Sent' /\ Flagged' /\ OneName' /\ Cleared' /\ Noted'
    BY <2>1 DEF HInv, Sent, Flagged, OneName, Stands, Name, Cleared, Noted, Looping, Entries
  <2>4. Faithful' /\ NoLinkLeaks' /\ AddressesItsSymbolApart'
    BY <2>1 DEF HInv, Faithful, Stands, Valid, Name, NoLinkLeaks, AddressesItsSymbolApart,
                AddressesItsSymbol, Entries, Links
  <2> QED BY <2>2, <2>3, <2>4 DEF HInv
<1>7. CASE StartReconnect(p)
  BY <1>7, StartReconnectKeeps
<1> QED BY <1>2, <1>3, <1>4, <1>5, <1>6, <1>7 DEF Start

-----------------------------------------------------------------------------
(* The theorems *)

LEMMA HandlesInitial == Init => HInv
<1> SUFFICES ASSUME Init PROVE HInv
  OBVIOUS
<1>1. NoHandle \in HandleValues /\ NoHandle.n = None
  BY MaxLinksAssumption DEF NoHandle, HandleValues
<1>2. Idle.at = "idle" /\ Idle.e = 0 /\ Idle.k = 0
  BY DEF Idle
<1>3. 1 \in Links
  BY MaxLinksAssumption DEF Links
<1>4. \A p \in Procs : op[p] = Idle /\ flight[p] = None
  BY DEF Init
<1>5. Idle \in Calls
  BY IdleGood DEF GoodCall
<1>6. TypeOK
  <2>1. /\ conn \in {0} \cup Links /\ connected \in BOOLEAN
        /\ mu \in Procs \cup {None} /\ symbolsMu \in Procs \cup {None}
        /\ symbolsLoaded \in BOOLEAN /\ overlap \in BOOLEAN /\ panicked \in BOOLEAN
    BY <1>3 DEF Init
  <2>2. /\ symbols \in [Symbols -> {0} \cup Entries]
        /\ entry \in [Entries -> HandleValues]
        /\ op \in [Procs -> Calls]
        /\ flight \in [Procs -> {None} \cup Requests]
    BY <1>1, <1>5 DEF Init
  <2>3. /\ link \in [Links -> {"unused", "open", "gone", "dead", "closed"}]
        /\ given \in [Links -> [Handles -> Symbols \cup {None}]]
    BY DEF Init
  <2> QED BY <2>1, <2>2, <2>3 DEF TypeOK
<1>7. Calling
  BY <1>4, IdleGood DEF Calling
<1>8. Sent /\ Flagged
  BY <1>2, <1>4 DEF Init, Sent, Flagged
<1>9. OneName
  BY <1>2, <1>4, EntriesPositive DEF Init, OneName, Stands
<1>10. Faithful /\ Cleared /\ Noted
  BY <1>1, <1>2, <1>4 DEF Init, Faithful, Cleared, Noted, Looping
<1>11. NoLinkLeaks
  BY DEF Init, NoLinkLeaks
<1>12. AddressesItsSymbolApart
  BY <1>4 DEF AddressesItsSymbolApart, AddressesItsSymbol
<1> QED BY <1>6, <1>7, <1>8, <1>9, <1>10, <1>11, <1>12 DEF HInv

LEMMA HandlesPreserved == IInv /\ HInv /\ [Next]_vars => HInv'
<1> SUFFICES ASSUME IInv, HInv, [Next]_vars PROVE HInv'
  OBVIOUS
<1>1. ASSUME NEW p \in Procs, Start(p) PROVE HInv'
  BY <1>1, StartKeeps
<1>2. ASSUME NEW p \in Procs, ReadStep(p) PROVE HInv'
  BY <1>2, LookupKeeps, AsksKeep, InfoReplyKeeps, CacheEntryKeeps, NeedHandleKeeps,
     AcquireReplyKeeps, StoreKeeps, ValueReplyKeeps, BatchReplyKeeps, NotConnectedKeeps,
     MarkDownKeeps, ReturnKeeps DEF ReadStep
<1>3. ASSUME NEW p \in Procs, OtherStep(p) PROVE HInv'
  BY <1>3, AsksKeep, UploadReplyKeeps, ReturnKeeps, AskReleaseKeeps, ReleaseReplyKeeps,
     CloseLinkKeeps, DialKeeps, InstallKeeps, VerifyReplyKeeps, VerifyNotConnectedKeeps,
     GiveUpKeeps DEF OtherStep
<1>4. ASSUME NEW k \in Links, LinkBreaks(k) PROVE HInv'
  BY <1>4, LinkBreaksKeeps
<1>5. CASE UNCHANGED vars
  <2>1. UNCHANGED <<conn, connected, mu, symbolsMu, symbols, symbolsLoaded, entry, op, flight,
                    link, given, overlap, panicked>>
    BY <1>5 DEF vars
  <2>2. TypeOK' /\ Calling'
    BY <2>1 DEF HInv, TypeOK, Calling, GoodCall, Links, Entries, HandleValues, Calls, Requests,
                Places, Looping, WithEntry
  <2>3. Sent' /\ Flagged' /\ OneName' /\ Cleared' /\ Noted'
    BY <2>1 DEF HInv, Sent, Flagged, OneName, Stands, Name, Cleared, Noted, Looping, Entries
  <2>4. Faithful' /\ NoLinkLeaks' /\ AddressesItsSymbolApart'
    BY <2>1 DEF HInv, Faithful, Stands, Valid, Name, NoLinkLeaks, AddressesItsSymbolApart,
                AddressesItsSymbol, Entries, Links
  <2> QED BY <2>2, <2>3, <2>4 DEF HInv
<1> QED BY <1>1, <1>2, <1>3, <1>4, <1>5 DEF Next, Panicked

\* Which handles are valid, which calls have met a broken link, which links are open:
\* HInv always holds.
THEOREM HandlesInvariant == Spec => []HInv
BY HandlesInitial, HandlesPreserved, CallsInvariant, PTL DEF Spec

\* Every variable keeps its type, for any constants.
THEOREM TypeCorrect == Spec => []TypeOK
<1>1. HInv => TypeOK
  BY DEF HInv
<1> QED BY <1>1, HandlesInvariant, PTL

\* A handle is used for the symbol it was acquired for, as long as no Reconnect has run
\* beside another call.
THEOREM HandlesAddressTheirSymbols == Spec => []AddressesItsSymbolApart
<1>1. HInv => AddressesItsSymbolApart
  BY DEF HInv
<1> QED BY <1>1, HandlesInvariant, PTL

\* The cache never holds a handle of an earlier link while there is a link.
THEOREM CacheStaysCurrent == Spec => []CachedHandlesCurrent
<1>1. HInv => CachedHandlesCurrent
  <2> SUFFICES ASSUME HInv, ~overlap, conn # 0, NEW s \in Held
               PROVE  entry[symbols[s]].from = conn
    BY DEF CachedHandlesCurrent
  <2>1. s \in Symbols /\ symbols[s] \in Entries /\ entry[symbols[s]].n # None
    BY DEF Held, HInv, TypeOK
  <2>2. Valid(entry[symbols[s]], s)
    BY <2>1 DEF HInv, Faithful, Stands
  <2> QED BY <2>2 DEF Valid
<1> QED BY <1>1, HandlesInvariant, PTL

\* A Read that met a broken link ends with the connected flag clear, and so reports it.
THEOREM LostReadsAreReported == Spec => []LostReadsReported
<1>1. HInv => LostReadsReported
  BY DEF HInv, Noted, LostReadsReported
<1> QED BY <1>1, HandlesInvariant, PTL

\* No sequence of calls, failures and reconnections leaves a socket open that the client
\* has lost sight of.
THEOREM LinksNeverLeak == Spec => []NoLinkLeaks
<1>1. HInv => NoLinkLeaks
  BY DEF HInv
<1> QED BY <1>1, HandlesInvariant, PTL

=============================================================================
