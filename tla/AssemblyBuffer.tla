---------------------------- MODULE AssemblyBuffer ----------------------------
(***************************************************************************)
(* The Assembly of the EtherNet/IP adapter (assembly.go): a byte buffer    *)
(* under an RWMutex, written by the application and by the goroutines that *)
(* serve scanners, read by the producers, with a callback that runs after  *)
(* the lock is released. Bytes are copied one at a time, so that a copy    *)
(* outside the lock would show.                                            *)
(*                                                                         *)
(* A write refused for its offset, and GetByte, change nothing and are     *)
(* left out. Handle (GetAttributeSingle and SetAttributeSingle) is Bytes   *)
(* and receiveFromScanner.                                                 *)
(***************************************************************************)
EXTENDS Integers, Sequences

CONSTANTS Procs, Size, Bytes, Writes, MaxWrites, None

ASSUME SizeAssumption == Size \in Nat \ {0}
ASSUME MaxWritesAssumption == MaxWrites \in Nat
ASSUME BytesAssumption == 0 \in Bytes

\* SetBytes and SetByte return early unless the offset is in the assembly;
\* receiveFromScanner writes at 0; SetByte writes one byte.
ASSUME WritesAssumption ==
  \A w \in Writes :
    /\ w \in [op : {"SetBytes", "SetByte", "receive"}, off : 0..(Size - 1), data : Seq(Bytes)]
    /\ w.op = "SetByte" => Len(w.data) = 1
    /\ w.op = "receive" => w.off = 0

ASSUME NoneAssumption ==
  /\ None \notin Procs
  /\ None \notin [1..Size -> Bytes]
  /\ None \notin [count : Nat, out : [1..Size -> Bytes]]
  /\ None \notin [old : [1..Size -> Bytes], new : [1..Size -> Bytes], n : Nat]

VARIABLES
  bytes,        \* a.bytes
  writer,       \* who holds a.mu for writing, or None
  readers,      \* who holds it for reading
  hasCallback,  \* a.onChange # nil
  updates,      \* a.updates
  job,          \* what each goroutine is doing
  got,          \* the last snapshot each goroutine got from Bytes
  log,          \* history: the contents after 0, 1, 2... writes
  due,          \* history: the writes that owe a callback
  reports       \* history: the callbacks made

vars == <<bytes, writer, readers, hasCallback, updates, job, got, log, due, reports>>

-----------------------------------------------------------------------------

Contents == [1..Size -> Bytes]

\* How many bytes the built-in copy moves: clipped to what is left of the assembly.
Clipped(w) == IF Len(w.data) < Size - w.off THEN Len(w.data) ELSE Size - w.off

Report == [old : Contents, new : Contents, n : Nat]

\* Of a goroutine that is writing: the write, how far it is and the contents it found
\* (SetBytes and receiveFromScanner keep that snapshot, SetByte does not need it). Of
\* one that has counted its write: the callback it owes, or None. Of one that is
\* reading: the count it saw first, how far it is and its copy so far.
Jobs ==
  [pc : {"idle"}]
    \cup [pc : {"write"}, w : Writes, i : Nat, old : Contents]
    \cup [pc : {"unlock"}, report : Report \cup {None}]
    \cup [pc : {"callback"}, report : Report]
    \cup [pc : {"counted"}, count : Nat]
    \cup [pc : {"read"}, count : Nat, i : Nat, out : Contents]

Idle == [pc |-> "idle"]

TypeOK ==
  /\ bytes \in Contents
  /\ writer \in Procs \cup {None}
  /\ readers \in SUBSET Procs
  /\ hasCallback \in BOOLEAN
  /\ updates \in 0..MaxWrites
  /\ job \in [Procs -> Jobs]
  /\ got \in [Procs -> {None} \cup [count : Nat, out : Contents]]
  /\ log \in Seq(Contents) /\ Len(log) = updates + 1
  /\ due \in SUBSET (1..updates)
  /\ reports \in SUBSET Report

Zeroed == [k \in 1..Size |-> 0]

\* NewAssembly.
Init ==
  /\ bytes = Zeroed
  /\ writer = None /\ readers = {} /\ hasCallback = FALSE /\ updates = 0
  /\ job = [p \in Procs |-> Idle] /\ got = [p \in Procs |-> None]
  /\ log = <<bytes>> /\ due = {} /\ reports = {}

-----------------------------------------------------------------------------
(* The lock *)

CanLock  == writer = None /\ readers = {}
CanRLock == writer = None

-----------------------------------------------------------------------------
(* SetBytes, SetByte, receiveFromScanner *)

\* Seeded fault: a writer takes the read lock.
LockSharedOnly(p, w) ==
  /\ job[p].pc = "idle" /\ CanRLock /\ updates < MaxWrites
  /\ writer' = p
  /\ job' = [job EXCEPT ![p] = [pc |-> "write", w |-> w, i |-> 0, old |-> bytes]]
  /\ UNCHANGED <<bytes, readers, hasCallback, updates, got, log, due, reports>>

\* a.mu.Lock() and the snapshot of the old contents.
Lock(p, w) ==
  /\ job[p].pc = "idle" /\ CanLock /\ updates < MaxWrites
  /\ writer' = p
  /\ job' = [job EXCEPT ![p] = [pc |-> "write", w |-> w, i |-> 0, old |-> bytes]]
  /\ UNCHANGED <<bytes, readers, hasCallback, updates, got, log, due, reports>>

CopyByte(p) ==
  /\ job[p].pc = "write" /\ job[p].i < Clipped(job[p].w)
  /\ bytes' = [bytes EXCEPT ![job[p].w.off + job[p].i + 1] = job[p].w.data[job[p].i + 1]]
  /\ job' = [job EXCEPT ![p].i = @ + 1]
  /\ UNCHANGED <<writer, readers, hasCallback, updates, got, log, due, reports>>

\* cb != nil, in the two functions that look at it.
Owes(w) == hasCallback /\ w.op # "SetByte"

\* Seeded fault: a.updates.Add(1) is missing.
CountMissing(p) ==
  /\ job[p].pc = "write" /\ job[p].i = Clipped(job[p].w)
  /\ log' = Append(log, bytes)
  /\ job' = [job EXCEPT ![p] = [pc |-> "unlock", report |-> None]]
  /\ UNCHANGED <<bytes, writer, readers, hasCallback, updates, got, due, reports>>

\* The new snapshot and a.updates.Add(1), which Updates sees at once.
Count(p) ==
  /\ job[p].pc = "write" /\ job[p].i = Clipped(job[p].w)
  /\ updates' = updates + 1
  /\ log' = Append(log, bytes)
  /\ LET report == [old |-> job[p].old, new |-> bytes, n |-> updates + 1]
     IN  IF Owes(job[p].w)
         THEN /\ job' = [job EXCEPT ![p] = [pc |-> "unlock", report |-> report]]
              /\ due' = due \cup {updates + 1}
         ELSE /\ job' = [job EXCEPT ![p] = [pc |-> "unlock", report |-> None]]
              /\ UNCHANGED due
  /\ UNCHANGED <<bytes, writer, readers, hasCallback, got, reports>>

\* a.mu.Unlock().
Unlock(p) ==
  /\ job[p].pc = "unlock"
  /\ writer' = None
  /\ job' = [job EXCEPT ![p] = IF job[p].report = None THEN Idle
                               ELSE [pc |-> "callback", report |-> job[p].report]]
  /\ UNCHANGED <<bytes, readers, hasCallback, updates, got, log, due, reports>>

\* Seeded fault: the new contents are read for the callback after the unlock.
CallbackRereads(p) ==
  /\ job[p].pc = "callback"
  /\ reports' = reports \cup {[job[p].report EXCEPT !.new = bytes]}
  /\ job' = [job EXCEPT ![p] = Idle]
  /\ UNCHANGED <<bytes, writer, readers, hasCallback, updates, got, log, due>>

\* cb(old, new), with no lock held.
Callback(p) ==
  /\ job[p].pc = "callback"
  /\ reports' = reports \cup {job[p].report}
  /\ job' = [job EXCEPT ![p] = Idle]
  /\ UNCHANGED <<bytes, writer, readers, hasCallback, updates, got, log, due>>

\* OnChange: nil takes the callback away again.
OnChange(p) ==
  /\ job[p].pc = "idle" /\ CanLock
  /\ hasCallback' \in BOOLEAN
  /\ UNCHANGED <<bytes, writer, readers, updates, job, got, log, due, reports>>

-----------------------------------------------------------------------------
(* A reader that looks at Updates, which takes no lock, and then calls Bytes *)

Updates(p) ==
  /\ job[p].pc = "idle"
  /\ job' = [job EXCEPT ![p] = [pc |-> "counted", count |-> updates]]
  /\ UNCHANGED <<bytes, writer, readers, hasCallback, updates, got, log, due, reports>>

\* Seeded fault: the lock is not taken.
RLockSkipped(p) ==
  /\ job[p].pc = "counted"
  /\ job' = [job EXCEPT ![p] = [pc |-> "read", count |-> job[p].count, i |-> 0, out |-> Zeroed]]
  /\ UNCHANGED <<bytes, writer, readers, hasCallback, updates, got, log, due, reports>>

\* a.mu.RLock() and the fresh, zeroed buffer.
RLock(p) ==
  /\ job[p].pc = "counted" /\ CanRLock
  /\ readers' = readers \cup {p}
  /\ job' = [job EXCEPT ![p] = [pc |-> "read", count |-> job[p].count, i |-> 0, out |-> Zeroed]]
  /\ UNCHANGED <<bytes, writer, hasCallback, updates, got, log, due, reports>>

ReadByte(p) ==
  /\ job[p].pc = "read" /\ job[p].i < Size
  /\ job' = [job EXCEPT ![p] =
                [pc |-> "read", count |-> job[p].count, i |-> job[p].i + 1,
                 out |-> [job[p].out EXCEPT ![job[p].i + 1] = bytes[job[p].i + 1]]]]
  /\ UNCHANGED <<bytes, writer, readers, hasCallback, updates, got, log, due, reports>>

RUnlock(p) ==
  /\ job[p].pc = "read" /\ job[p].i = Size
  /\ readers' = readers \ {p}
  /\ got' = [got EXCEPT ![p] = [count |-> job[p].count, out |-> job[p].out]]
  /\ job' = [job EXCEPT ![p] = Idle]
  /\ UNCHANGED <<bytes, writer, hasCallback, updates, log, due, reports>>

-----------------------------------------------------------------------------

Next ==
  \E p \in Procs :
    \/ \E w \in Writes : Lock(p, w)
    \/ CopyByte(p) \/ Count(p) \/ Unlock(p) \/ Callback(p) \/ OnChange(p)
    \/ Updates(p) \/ RLock(p) \/ ReadByte(p) \/ RUnlock(p)

Spec == Init /\ [][Next]_vars

-----------------------------------------------------------------------------
(* Properties *)

\* A goroutine that has counted a write and not yet made the callback it owes.
InHand(p) == job[p].pc \in {"unlock", "callback"} /\ job[p].report # None

\* The contents, but for a copy under way.
Settled == IF writer # None /\ job[writer].pc = "write" THEN job[writer].old ELSE bytes

\* The atomic assembly this one implements: a write takes effect when it is counted, a
\* snapshot when the read lock is released.
Atomic == INSTANCE AtomicAssembly WITH
  contents <- Settled,
  version <- updates,
  owed <- [p \in Procs |-> IF InHand(p) THEN job[p].report ELSE None],
  got <- [p \in Procs |-> IF got[p] = None THEN None ELSE got[p].out]

\* Every write and every snapshot is atomic, and callbacks carry consistent pairs.
Implements == Atomic!ASpec

\* Staleness logic on Updates is sound ("Useful for heartbeat / staleness logic"): a
\* snapshot taken after reading a count is no older than that count, so a reader that
\* skips Bytes while the count stands still misses no write.
SnapshotsAsNewAsCount ==
  \A p \in Procs : got[p] # None =>
    \E n \in got[p].count..updates : got[p].out = log[n + 1]

\* Every write that owes a callback is reported once, by the goroutine that made it,
\* with the contents just before and just after that very write, however the
\* callbacks overtake each other.
ReportsAreWrites ==
  LET owing == {p \in Procs : InHand(p)}
      all   == reports \cup {job[p].report : p \in owing}
  IN  /\ \A r \in all : r.n \in due /\ r.old = log[r.n] /\ r.new = log[r.n + 1]
      /\ \A n \in due : \E r \in all : r.n = n
      /\ \A p, q \in owing : job[p].report.n = job[q].report.n => p = q
      /\ \A p \in owing, r \in reports : r.n # job[p].report.n

=============================================================================
