------------------------------ MODULE AdsClient ------------------------------
(***************************************************************************)
(* The Beckhoff ADS client (ads/client.go over ads/protocol.go), called    *)
(* from several goroutines: its TCP link, the connected flag, the cache of *)
(* symbol entries with the handles the PLC gave for them, and the two      *)
(* mutexes. c.mu is held for a whole exchange; nothing is held between the *)
(* exchanges of one call, nor while Reconnect dials.                       *)
(*                                                                         *)
(* The PLC's side of a link is external: which handle numbers it has given *)
(* out on it, and for which symbols. GetDeviceInfo, Programs and the flag  *)
(* readers change nothing and are left out; so are values and addressing.  *)
(***************************************************************************)
EXTENDS Naturals, Sequences, FiniteSets

CONSTANTS
  Procs,       \* goroutines that use the client
  Symbols,     \* symbol names
  MaxLinks,    \* bound on the TCP links ever dialled
  Handles,     \* the handle numbers the PLC gives out on each link; never 0
  None

ASSUME MaxLinksAssumption == MaxLinks \in Nat \ {0}
ASSUME NoneAssumption == None \notin Procs \cup Symbols \cup Handles

VARIABLES
  conn,           \* c.conn: the link in use, 0 for nil
  connected,      \* c.connected
  mu,             \* who holds c.mu, or None
  symbolsMu,      \* who holds c.symbolsMu from one step to the next, or None
  symbols,        \* c.symbols: the entry cached for each name, 0 if none
  symbolsLoaded,  \* c.symbolsLoaded
  entry,          \* the SymbolEntry objects: the Handle of each
  op,             \* the call each goroutine is in
  flight,         \* the request each goroutine waits on, or None
  link,           \* each TCP link: unused, open, gone, dead or closed
  given,          \* what each handle number stands for on each link
  overlap,        \* history: a Reconnect has run beside another call
  panicked        \* a nil dereference has ended the process

vars == <<conn, connected, mu, symbolsMu, symbols, symbolsLoaded, entry, op, flight,
          link, given, overlap, panicked>>

cache == <<symbols, symbolsLoaded, entry>>
plc == <<link, given>>

-----------------------------------------------------------------------------

Links == 1..MaxLinks

\* Enough objects for the cache, a whole upload and one entry per call in progress.
Entries == 1..(2 * Cardinality(Symbols) + Cardinality(Procs))

\* A handle is its number n, None for the 0 of "not acquired"; "from" remembers on which
\* link it was given, which the code does not record.
NoHandle == [n |-> None, from |-> 0]
HandleValues == [n : Handles \cup {None}, from : 0..MaxLinks]

\* The names one Read is given: one name is the simple path, more are batched.
NameLists == {<<s>> : s \in Symbols} \cup {q \in Symbols \X Symbols : q[1] # q[2]}

Places == {"idle", "lookup", "info", "cache", "handle", "acquire", "store", "value",
           "batch", "markdown", "report", "upload", "release", "dial", "install", "verify",
           "giveup"}

\* lost: an exchange of this call found the link broken (history).
Idle == [at |-> "idle", kind |-> "none", names |-> <<>>, rest |-> <<>>, batch |-> FALSE,
         e |-> 0, h |-> NoHandle, k |-> 0, lost |-> FALSE]

Calls ==
  [at : Places, kind : {"none", "read", "write", "AllTags", "Close", "Reconnect"},
   names : Seq(Symbols), rest : Seq(Symbols), batch : BOOLEAN,
   e : {0} \cup Entries, h : HandleValues, k : {0} \cup Links,
   lost : BOOLEAN]

Requests ==
  [link : Links, req : {"info", "acquire", "value", "batch", "upload", "release", "verify"},
   sym : Symbols \cup {None}, n : Handles \cup {None}]

TypeOK ==
  /\ conn \in {0} \cup Links
  /\ connected \in BOOLEAN
  /\ mu \in Procs \cup {None}
  /\ symbolsMu \in Procs \cup {None}
  /\ symbols \in [Symbols -> {0} \cup Entries]
  /\ symbolsLoaded \in BOOLEAN
  /\ entry \in [Entries -> HandleValues]
  /\ op \in [Procs -> Calls]
  /\ flight \in [Procs -> {None} \cup Requests]
  /\ link \in [Links -> {"unused", "open", "gone", "dead", "closed"}]
  /\ given \in [Links -> [Handles -> Symbols \cup {None}]]
  /\ overlap \in BOOLEAN
  /\ panicked \in BOOLEAN

\* What Connect returns: connected, device info read, nothing cached.
Init ==
  /\ conn = 1 /\ connected = TRUE
  /\ mu = None /\ symbolsMu = None
  /\ symbols = [s \in Symbols |-> 0]
  /\ symbolsLoaded = FALSE
  /\ entry = [e \in Entries |-> NoHandle]
  /\ op = [p \in Procs |-> Idle]
  /\ flight = [p \in Procs |-> None]
  /\ link = [k \in Links |-> IF k = 1 THEN "open" ELSE "unused"]
  /\ given = [k \in Links |-> [n \in Handles |-> None]]
  /\ overlap = FALSE
  /\ panicked = FALSE

-----------------------------------------------------------------------------
(* Calls, entries, exchanges *)

At(p, place) == ~panicked /\ op[p].at = place /\ flight[p] = None

Goto(p, place) == op' = [op EXCEPT ![p].at = place]

Return(p) == op' = [op EXCEPT ![p] = Idle]

\* A call begins. One that runs beside a Reconnect, whichever came first, is noted.
Begin(p, call) ==
  /\ At(p, "idle")
  /\ overlap' = (overlap \/ \E q \in Procs \ {p} :
                     op[q].at # "idle" /\ "Reconnect" \in {call.kind, op[q].kind})
  /\ op' = [op EXCEPT ![p] = call]

\* SymbolEntry objects nobody points to; a new one is taken from them, the least first.
Unreferenced == {e \in Entries : /\ \A s \in Symbols : symbols[s] # e
                                 /\ \A p \in Procs : op[p].e # e}

Name(p) == Head(op[p].rest)

\* readIndividual goes on with the next name, or has no more (the single-name path of
\* Read is the loop of length one).
NextName(c) ==
  LET rest == Tail(c.rest)
  IN  [c EXCEPT !.rest = rest, !.e = 0, !.at = IF rest = <<>> THEN "report" ELSE "lookup"]

\* Read gives up the batch and reads every name by itself.
Individually(c) == [c EXCEPT !.batch = FALSE, !.rest = c.names, !.at = "lookup"]

\* getSymbolEntry has the entry: a batch collects the next one (it reads by address and
\* needs no handle), anything else goes on to the handle.
Found(c, e) ==
  IF ~c.batch THEN [c EXCEPT !.e = e, !.at = "handle"]
  ELSE IF Tail(c.rest) = <<>> THEN [c EXCEPT !.rest = <<>>, !.at = "batch"]
  ELSE [c EXCEPT !.rest = Tail(@), !.at = "lookup"]

\* How an exchange on a link can end. An AMS or ADS error is "refused", unless its text
\* holds "timeout". A link that breaks shows an error isConnectionError knows (EOF,
\* reset, broken pipe...), or first one it does not ("no route to host").
Outcomes(k) ==
  CASE link[k] = "open" -> {"ok", "refused", "timeout"}
    [] link[k] = "gone" -> {"unreachable"}
    [] OTHER            -> {"lost"}

Results == {"ok", "refused", "timeout", "unreachable", "lost"}

isConnectionError(o) == o \in {"timeout", "lost"}

\* The call as it is once an exchange of it has ended with o.
After(c, o) == [c EXCEPT !.lost = @ \/ o = "lost"]

\* What a call does when it cannot get an entry or a handle. Write just fails.
Failed(c, o) ==
  IF c.kind = "write" THEN Idle
  ELSE IF c.batch THEN Individually(c)
  ELSE IF isConnectionError(o) THEN [c EXCEPT !.at = "markdown"]
  ELSE NextName(c)

\* sendRequest, under c.mu: a request goes out on c.conn.
Send(p, req, sym, n) ==
  /\ mu = None /\ conn # 0
  /\ mu' = p
  /\ flight' = [flight EXCEPT ![p] = [link |-> conn, req |-> req, sym |-> sym, n |-> n]]
  /\ UNCHANGED <<conn, connected, symbolsMu, cache, op, plc, overlap, panicked>>

\* The exchange of p ends with o.
Receive(p, req, o) ==
  /\ ~panicked
  /\ flight[p] # None /\ flight[p].req = req
  /\ o \in Outcomes(flight[p].link)
  /\ flight' = [flight EXCEPT ![p] = None]
  /\ link' = [link EXCEPT ![flight[p].link] = IF @ = "gone" THEN "dead" ELSE @]

\* A link comes to an end: the handles given on it stand for nothing any more.
End(k, how) ==
  /\ link' = [link EXCEPT ![k] = how]
  /\ given' = [given EXCEPT ![k] = [n \in Handles |-> None]]

\* close of an adsConnection.
Shut(k) == End(k, "closed")

-----------------------------------------------------------------------------
(* Read and Write *)

StartRead(p) ==
  /\ conn # 0
  /\ \E names \in NameLists :
       Begin(p, [Idle EXCEPT !.at = "lookup", !.kind = "read", !.names = names,
                             !.rest = names, !.batch = Len(names) > 1])
  /\ UNCHANGED <<conn, connected, mu, symbolsMu, cache, flight, plc, panicked>>

StartWrite(p) ==
  /\ conn # 0
  /\ \E s \in Symbols :
       Begin(p, [Idle EXCEPT !.at = "lookup", !.kind = "write", !.names = <<s>>,
                             !.rest = <<s>>])
  /\ UNCHANGED <<conn, connected, mu, symbolsMu, cache, flight, plc, panicked>>

\* getSymbolEntry looks in the cache.
Lookup(p) ==
  /\ At(p, "lookup") /\ symbolsMu = None
  /\ LET e == symbols[Name(p)]
     IN  op' = [op EXCEPT ![p] = IF e = 0 THEN [@ EXCEPT !.at = "info"] ELSE Found(@, e)]
  /\ UNCHANGED <<conn, connected, mu, symbolsMu, cache, flight, plc, overlap, panicked>>

AskInfo(p) == At(p, "info") /\ Send(p, "info", Name(p), None)

InfoReply(p) == \E o \in Results :
  /\ Receive(p, "info", o)
  /\ op' = [op EXCEPT ![p] = IF o = "ok" THEN [@ EXCEPT !.at = "cache"]
                             ELSE Failed(After(@, o), o)]
  /\ mu' = None
  /\ UNCHANGED <<conn, connected, symbolsMu, cache, given, overlap, panicked>>

\* getSymbolEntry caches a new entry, whatever has been cached under the name meanwhile.
CacheEntry(p) ==
  /\ At(p, "cache") /\ symbolsMu = None
  /\ \E e \in Unreferenced :
       /\ \A f \in Unreferenced : e <= f
       /\ entry' = [entry EXCEPT ![e] = NoHandle]
       /\ symbols' = [symbols EXCEPT ![Name(p)] = e]
       /\ op' = [op EXCEPT ![p] = Found(@, e)]
  /\ UNCHANGED <<conn, connected, mu, symbolsMu, symbolsLoaded, flight, plc, overlap,
                 panicked>>

\* entry.Handle = 0? Read without a lock.
NeedHandle(p) ==
  /\ At(p, "handle")
  /\ Goto(p, IF entry[op[p].e].n = None THEN "acquire" ELSE "value")
  /\ UNCHANGED <<conn, connected, mu, symbolsMu, cache, flight, plc, overlap, panicked>>

\* Write returns: the symbol is read-only, or the value cannot be encoded as its type.
WriteRefused(p) ==
  /\ At(p, "handle") /\ op[p].kind = "write"
  /\ Return(p)
  /\ UNCHANGED <<conn, connected, mu, symbolsMu, cache, flight, plc, overlap, panicked>>

\* Seeded fault: asks for the first name's handle whatever name the loop is at.
AskHandleOfFirst(p) == At(p, "acquire") /\ Send(p, "acquire", Head(op[p].names), None)

\* Seeded fault: sends without taking c.mu.
AskHandleUnlocked(p) ==
  /\ At(p, "acquire") /\ conn # 0
  /\ flight' = [flight EXCEPT ![p] = [link |-> conn, req |-> "acquire", sym |-> Name(p),
                                      n |-> None]]
  /\ UNCHANGED <<conn, connected, mu, symbolsMu, cache, op, plc, overlap, panicked>>

AskHandle(p) == At(p, "acquire") /\ Send(p, "acquire", Name(p), None)

\* Seeded fault: takes the handle out of a reply without looking at its result code.
AcquireReplyUnchecked(p) == \E o \in Results :
  /\ Receive(p, "acquire", o)
  /\ op' = [op EXCEPT ![p].at = "store", ![p].h = [n |-> 0, from |-> flight[p].link]]
  /\ mu' = None
  /\ UNCHANGED <<conn, connected, symbolsMu, cache, given, overlap, panicked>>

\* The PLC gives a number it has not given on this link.
AcquireReply(p) == \E o \in Results :
  /\ Receive(p, "acquire", o)
  /\ LET k == flight[p].link
     IN  IF o = "ok"
         THEN \E n \in Handles :
                /\ given[k][n] = None
                /\ given' = [given EXCEPT ![k][n] = flight[p].sym]
                /\ op' = [op EXCEPT ![p].at = "store", ![p].h = [n |-> n, from |-> k]]
         ELSE /\ op' = [op EXCEPT ![p] = Failed(After(@, o), o)]
              /\ UNCHANGED given
  /\ mu' = None
  /\ UNCHANGED <<conn, connected, symbolsMu, cache, overlap, panicked>>

\* entry.Handle = handle, under c.symbolsMu only.
Store(p) ==
  /\ At(p, "store") /\ symbolsMu = None
  /\ entry' = [entry EXCEPT ![op[p].e] = op[p].h]
  /\ op' = [op EXCEPT ![p].h = NoHandle, ![p].at = "value"]
  /\ UNCHANGED <<conn, connected, mu, symbolsMu, symbols, symbolsLoaded, flight, plc,
                 overlap, panicked>>

\* The entry's handle is read again, whatever it has become.
AskValue(p) == At(p, "value") /\ Send(p, "value", Name(p), entry[op[p].e].n)

\* Read clears the connected flag on a connection error, Write never does.
ValueReply(p) == \E o \in Results :
  /\ Receive(p, "value", o)
  /\ o = "ok" => flight[p].n # None /\ given[flight[p].link][flight[p].n] # None
  /\ op' = [op EXCEPT ![p] = IF @.kind = "write" \/ (o = "ok" /\ Len(@.names) = 1) THEN Idle
                             ELSE NextName(After(@, o))]
  /\ connected' = (connected /\ (op[p].kind = "read" => ~isConnectionError(o)))
  /\ mu' = None
  /\ UNCHANGED <<conn, symbolsMu, cache, given, overlap, panicked>>

AskBatch(p) == At(p, "batch") /\ Send(p, "batch", None, None)

BatchReply(p) == \E o \in Results :
  /\ Receive(p, "batch", o)
  /\ op' = [op EXCEPT ![p] = IF o = "ok" THEN [@ EXCEPT !.at = "report"]
                             ELSE Individually(After(@, o))]
  /\ connected' = (connected /\ ~isConnectionError(o))
  /\ mu' = None
  /\ UNCHANGED <<conn, symbolsMu, cache, given, overlap, panicked>>

\* c.conn = nil under c.mu, "not connected": not a connection error to readSymbol, but
\* the value and batch steps of Read clear the flag themselves.
NotConnected(p) ==
  /\ \E place \in {"info", "acquire", "value", "batch"} : At(p, place)
  /\ mu = None /\ conn = 0
  /\ op' = [op EXCEPT ![p] = Failed(@, "not connected")]
  /\ connected' = (connected /\ (op[p].at \in {"value", "batch"} => op[p].kind = "write"))
  /\ UNCHANGED <<conn, mu, symbolsMu, cache, flight, plc, overlap, panicked>>

\* Seeded fault: the error is returned and the flag left as it was.
MarkDownForgotten(p) ==
  /\ At(p, "markdown") /\ mu = None
  /\ op' = [op EXCEPT ![p] = NextName(@)]
  /\ UNCHANGED <<conn, connected, mu, symbolsMu, cache, flight, plc, overlap, panicked>>

\* readSymbol clears the flag after the exchange has released c.mu.
MarkDown(p) ==
  /\ At(p, "markdown") /\ mu = None
  /\ connected' = FALSE
  /\ op' = [op EXCEPT ![p] = NextName(@)]
  /\ UNCHANGED <<conn, mu, symbolsMu, cache, flight, plc, overlap, panicked>>

\* connErrorIfDown: Read returns ErrConnectionLost exactly when the flag is clear.
ReportIfDown(p) ==
  /\ At(p, "report") /\ mu = None
  /\ Return(p)
  /\ UNCHANGED <<conn, connected, mu, symbolsMu, cache, flight, plc, overlap, panicked>>

-----------------------------------------------------------------------------
(* AllTags, Close, SetDisconnected, Reconnect *)

\* AllTags, the symbols not loaded yet (else it only copies the cache).
StartAllTags(p) ==
  /\ conn # 0 /\ symbolsMu = None /\ ~symbolsLoaded
  /\ Begin(p, [Idle EXCEPT !.at = "upload", !.kind = "AllTags"])
  /\ UNCHANGED <<conn, connected, mu, symbolsMu, cache, flight, plc, panicked>>

\* The two requests of the upload are one exchange here: c.mu is held from the first to
\* the last.
AskUpload(p) == At(p, "upload") /\ Send(p, "upload", None, None)

\* Every primitive symbol of the upload, as far as the table can be read, gets a new entry,
\* cached under its name; a table said to have no symbols is not taken for loaded. No error
\* touches the connected flag.
UploadReply(p) == \E o \in Results :
  /\ Receive(p, "upload", o)
  /\ IF o = "ok"
     THEN \E uploaded \in SUBSET Symbols :
            /\ \E f \in [uploaded -> Unreferenced] :
                 /\ \A s, t \in uploaded : s # t => f[s] # f[t]
                 /\ symbols' = [s \in Symbols |-> IF s \in uploaded THEN f[s] ELSE symbols[s]]
            /\ entry' = [e \in Entries |-> IF e \in Unreferenced THEN NoHandle ELSE entry[e]]
            /\ symbolsLoaded' \in {TRUE, uploaded # {}}
     ELSE UNCHANGED cache
  /\ Return(p)
  /\ mu' = None
  /\ UNCHANGED <<conn, connected, symbolsMu, given, overlap, panicked>>

UploadNotConnected(p) ==
  /\ At(p, "upload") /\ mu = None /\ conn = 0
  /\ Return(p)
  /\ UNCHANGED <<conn, connected, mu, symbolsMu, cache, flight, plc, overlap, panicked>>

\* Close takes both locks and keeps them to its end.
StartClose(p) ==
  /\ mu = None /\ symbolsMu = None
  /\ Begin(p, [Idle EXCEPT !.at = "release", !.kind = "Close"])
  /\ mu' = p /\ symbolsMu' = p
  /\ connected' = FALSE
  /\ UNCHANGED <<conn, cache, flight, plc, panicked>>

\* The names whose cached entry has a handle.
Held == {s \in Symbols : symbols[s] # 0 /\ entry[symbols[s]].n # None}

\* releaseHandleUnsafe for the next of them; nothing is sent if c.conn is nil.
AskRelease(p) ==
  /\ At(p, "release")
  /\ \E s \in Held :
       IF conn = 0
       THEN /\ entry' = [entry EXCEPT ![symbols[s]] = NoHandle]
            /\ UNCHANGED flight
       ELSE /\ flight' = [flight EXCEPT ![p] = [link |-> conn, req |-> "release", sym |-> s,
                                                n |-> entry[symbols[s]].n]]
            /\ UNCHANGED entry
  /\ UNCHANGED <<conn, connected, mu, symbolsMu, symbols, symbolsLoaded, op, plc, overlap,
                 panicked>>

\* Close ignores how it ended.
ReleaseReply(p) == \E o \in Results :
  /\ Receive(p, "release", o)
  /\ entry' = [entry EXCEPT ![symbols[flight[p].sym]] = NoHandle]
  /\ given' = IF o # "ok" THEN given
              ELSE [given EXCEPT ![flight[p].link][flight[p].n] = None]
  /\ UNCHANGED <<conn, connected, mu, symbolsMu, symbols, symbolsLoaded, op, overlap,
                 panicked>>

CloseLink(p) ==
  /\ At(p, "release") /\ Held = {}
  /\ IF conn = 0 THEN UNCHANGED plc ELSE Shut(conn)
  /\ conn' = 0
  /\ mu' = None /\ symbolsMu' = None
  /\ Return(p)
  /\ UNCHANGED <<connected, cache, flight, overlap, panicked>>

SetDisconnected(p) ==
  /\ At(p, "idle") /\ mu = None
  /\ connected' = FALSE
  /\ UNCHANGED <<conn, mu, symbolsMu, cache, op, flight, plc, overlap, panicked>>

\* Seeded fault: the cached handles survive.
ReconnectKeepsHandles(p) ==
  /\ mu = None /\ ~connected
  /\ Begin(p, [Idle EXCEPT !.at = "dial", !.kind = "Reconnect"])
  /\ IF conn = 0 THEN UNCHANGED plc ELSE Shut(conn)
  /\ conn' = 0
  /\ UNCHANGED <<connected, mu, symbolsMu, cache, flight, panicked>>

\* Seeded fault: the old link is dropped without being closed.
ReconnectDropsLink(p) ==
  /\ mu = None /\ ~connected
  /\ Begin(p, [Idle EXCEPT !.at = "dial", !.kind = "Reconnect"])
  /\ conn' = 0
  /\ entry' = [e \in Entries |-> IF \E s \in Symbols : symbols[s] = e THEN NoHandle
                                 ELSE entry[e]]
  /\ UNCHANGED <<connected, mu, symbolsMu, symbols, symbolsLoaded, flight, plc, panicked>>

\* Reconnect, the flag clear (else it returns at once): the old link is closed, the
\* handles in the cache are cleared, and c.mu is released to dial.
StartReconnect(p) ==
  /\ mu = None /\ ~connected
  /\ Begin(p, [Idle EXCEPT !.at = "dial", !.kind = "Reconnect"])
  /\ IF conn = 0 THEN UNCHANGED plc ELSE Shut(conn)
  /\ conn' = 0
  /\ entry' = [e \in Entries |-> IF \E s \in Symbols : symbols[s] = e THEN NoHandle
                                 ELSE entry[e]]
  /\ UNCHANGED <<connected, mu, symbolsMu, symbols, symbolsLoaded, flight, panicked>>

Dial(p) ==
  /\ At(p, "dial")
  /\ \E k \in Links :
       /\ link[k] = "unused"
       /\ link' = [link EXCEPT ![k] = "open"]
       /\ op' = [op EXCEPT ![p].at = "install", ![p].k = k]
  /\ UNCHANGED <<conn, connected, mu, symbolsMu, cache, flight, given, overlap, panicked>>

DialFails(p) ==
  /\ At(p, "dial")
  /\ Return(p)
  /\ UNCHANGED <<conn, connected, mu, symbolsMu, cache, flight, plc, overlap, panicked>>

\* The new link replaces whatever c.conn has become.
Install(p) ==
  /\ At(p, "install") /\ mu = None
  /\ conn' = op[p].k
  /\ connected' = TRUE
  /\ op' = [op EXCEPT ![p].k = 0, ![p].at = "verify"]
  /\ UNCHANGED <<mu, symbolsMu, cache, flight, plc, overlap, panicked>>

\* readDeviceInfo on c.conn, whichever link that is by now.
AskVerify(p) == At(p, "verify") /\ Send(p, "verify", None, None)

\* Seeded fault: readDeviceInfo drops a link it could not read from, as Reconnect will too.
VerifyReplyDrops(p) == \E o \in Results :
  /\ Receive(p, "verify", o)
  /\ op' = [op EXCEPT ![p] = IF o = "ok" THEN Idle ELSE [@ EXCEPT !.at = "giveup"]]
  /\ conn' = IF o = "ok" THEN conn ELSE 0
  /\ mu' = None
  /\ UNCHANGED <<connected, symbolsMu, cache, given, overlap, panicked>>

VerifyReply(p) == \E o \in Results :
  /\ Receive(p, "verify", o)
  /\ op' = [op EXCEPT ![p] = IF o = "ok" THEN Idle ELSE [@ EXCEPT !.at = "giveup"]]
  /\ mu' = None
  /\ UNCHANGED <<conn, connected, symbolsMu, cache, given, overlap, panicked>>

VerifyNotConnected(p) ==
  /\ At(p, "verify") /\ mu = None /\ conn = 0
  /\ Goto(p, "giveup")
  /\ UNCHANGED <<conn, connected, mu, symbolsMu, cache, flight, plc, overlap, panicked>>

\* Verification failed: c.conn.close() dereferences c.conn unchecked.
GiveUp(p) ==
  /\ At(p, "giveup") /\ mu = None
  /\ connected' = FALSE
  /\ IF conn = 0 THEN UNCHANGED plc ELSE Shut(conn)
  /\ panicked' = (conn = 0)
  /\ conn' = 0
  /\ Return(p)
  /\ UNCHANGED <<mu, symbolsMu, cache, flight, overlap>>

\* Environment: the network or the PLC drops the link.
LinkBreaks(k) ==
  /\ ~panicked /\ link[k] = "open"
  /\ \E how \in {"gone", "dead"} : End(k, how)
  /\ UNCHANGED <<conn, connected, mu, symbolsMu, cache, op, flight, overlap, panicked>>

\* A panic ends the process.
Panicked == panicked /\ UNCHANGED vars

-----------------------------------------------------------------------------

ReadStep(p) ==
  \/ Lookup(p) \/ AskInfo(p) \/ InfoReply(p) \/ CacheEntry(p)
  \/ NeedHandle(p) \/ WriteRefused(p) \/ AskHandle(p) \/ AcquireReply(p) \/ Store(p)
  \/ AskValue(p) \/ ValueReply(p) \/ AskBatch(p) \/ BatchReply(p)
  \/ NotConnected(p) \/ MarkDown(p) \/ ReportIfDown(p)

OtherStep(p) ==
  \/ AskUpload(p) \/ UploadReply(p) \/ UploadNotConnected(p)
  \/ AskRelease(p) \/ ReleaseReply(p) \/ CloseLink(p)
  \/ Dial(p) \/ DialFails(p) \/ Install(p)
  \/ AskVerify(p) \/ VerifyReply(p) \/ VerifyNotConnected(p) \/ GiveUp(p)

Start(p) ==
  \/ StartRead(p) \/ StartWrite(p) \/ StartAllTags(p)
  \/ StartClose(p) \/ SetDisconnected(p) \/ StartReconnect(p)

Next ==
  \/ \E p \in Procs : Start(p) \/ ReadStep(p) \/ OtherStep(p)
  \/ \E k \in Links : LinkBreaks(k)
  \/ Panicked

Spec == Init /\ [][Next]_vars

-----------------------------------------------------------------------------
(* Properties *)

\* A request by handle reaches the symbol it was made for, or is refused: the handle it
\* carries was given for that symbol on the very link it travels on. "Clear symbol
\* handles (they're invalid after reconnection)" (client.go:280).
AddressesItsSymbol ==
  \A p \in Procs :
    (flight[p] # None /\ flight[p].req = "value" /\ flight[p].n # None)
      => given[flight[p].link][flight[p].n] \in {flight[p].sym, None}

\* So it is as long as no Reconnect has run beside another call, whatever Reads, Writes,
\* AllTags and Closes have run beside each other.
AddressesItsSymbolApart == ~overlap => AddressesItsSymbol

\* A handle in the cache was given on the link in use (a Close can leave one behind when
\* there is none; Reconnect clears it).
CachedHandlesCurrent ==
  (~overlap /\ conn # 0) => \A s \in Held : entry[symbols[s]].from = conn

\* Replies are matched to requests by being next on the link (an unexpected invoke ID is
\* an error that drops both): no link carries two requests at once.
OneRequestPerLink ==
  \A p, q \in Procs :
    (p # q /\ flight[p] # None /\ flight[q] # None) => flight[p].link # flight[q].link

\* "When the transport has dropped, Read surfaces this error at the top level"
\* (client.go:18): a Read that has met a connection error finds the flag clear when it
\* ends, unless a Reconnect has run beside another call.
LostReadsReported ==
  \A p \in Procs :
    (op[p].at = "report" /\ op[p].lost /\ ~overlap) => ~connected

\* Every socket the client has open is c.conn, or in the hands of a Reconnect that is
\* about to install it.
NoLinkLeaks ==
  ~overlap =>
    \A k \in Links : link[k] \in {"open", "gone", "dead"}
                       => k = conn \/ \E p \in Procs : op[p].k = k

\* The unchecked dereference at the end of Reconnect needs a call beside it.
NoPanicApart == panicked => overlap

=============================================================================
