------------------------- MODULE AssemblyBufferProofs -------------------------
(***************************************************************************)
(* That the assembly under its RWMutex implements the atomic one, for any  *)
(* number of goroutines, any size and any writes. The inductive invariant  *)
(* says who holds the lock, and how much of the write or of the snapshot   *)
(* in hand has been copied.                                                *)
(***************************************************************************)
EXTENDS AssemblyBuffer, TLAPS

Basics ==
  /\ bytes \in Contents
  /\ writer \in Procs \cup {None}
  /\ readers \in SUBSET Procs
  /\ hasCallback \in BOOLEAN
  /\ updates \in Nat
  /\ job \in [Procs -> Jobs]
  /\ got \in [Procs -> {None} \cup [count : Nat, out : Contents]]

Locked ==
  /\ \A p \in Procs : (job[p].pc \in {"write", "unlock"}) <=> (writer = p)
  /\ \A p \in Procs : (job[p].pc = "read") <=> (p \in readers)
  /\ writer # None => readers = {}
  /\ \A p \in Procs : job[p].pc = "write" => updates < MaxWrites

\* A goroutine that holds the lock has copied a prefix and nobody has interfered.
Copied ==
  \A p \in Procs : job[p].pc = "write" =>
    /\ job[p].i <= Clipped(job[p].w)
    /\ bytes = Atomic!Overlay(job[p].old, job[p].w, job[p].i)

ReadSoFar ==
  \A p \in Procs : job[p].pc = "read" =>
    /\ job[p].i <= Size
    /\ \A k \in 1..job[p].i : job[p].out[k] = bytes[k]

IInv == Basics /\ Locked /\ Copied /\ ReadSoFar

USE DEF Contents

-----------------------------------------------------------------------------
(* Facts about the data *)

\* The bytes a write moves fit: copy never runs past the data or the assembly.
LEMMA ClippedFits ==
  ASSUME NEW w \in Writes
  PROVE  /\ w.off \in Nat /\ w.data \in Seq(Bytes)
         /\ Clipped(w) \in Nat
         /\ Clipped(w) <= Len(w.data) /\ w.off + Clipped(w) <= Size
         /\ Clipped(w) = Len(w.data) \/ w.off + Clipped(w) = Size
BY WritesAssumption, SizeAssumption DEF Clipped

\* Copying nothing changes nothing.
LEMMA OverlayNone ==
  ASSUME NEW w \in Writes, NEW bs \in Contents
  PROVE  Atomic!Overlay(bs, w, 0) = bs
BY ClippedFits, SizeAssumption DEF Atomic!Overlay

\* Copying one more byte.
LEMMA OverlayNext ==
  ASSUME NEW w \in Writes, NEW bs \in Contents, NEW i \in Nat, i < Clipped(w)
  PROVE  [Atomic!Overlay(bs, w, i) EXCEPT ![w.off + i + 1] = w.data[i + 1]]
           = Atomic!Overlay(bs, w, i + 1)
<1> DEFINE before == Atomic!Overlay(bs, w, i)
           after  == Atomic!Overlay(bs, w, i + 1)
           at     == w.off + i + 1
<1>1. w.off \in Nat /\ at \in 1..Size
  BY ClippedFits, SizeAssumption
<1>2. DOMAIN before = 1..Size /\ after = [k \in 1..Size |-> after[k]]
  BY DEF Atomic!Overlay
<1>3. after[at] = w.data[i + 1]
  <2>1. at \in (w.off + 1)..(w.off + (i + 1)) /\ at - w.off = i + 1
    BY <1>1
  <2> QED
    BY <1>1, <2>1 DEF Atomic!Overlay
<1>4. ASSUME NEW k \in 1..Size, k # at PROVE after[k] = before[k]
  <2>1. k \in (w.off + 1)..(w.off + (i + 1)) <=> k \in (w.off + 1)..(w.off + i)
    BY <1>1, <1>4
  <2> QED
    BY <2>1 DEF Atomic!Overlay
<1>5. [before EXCEPT ![at] = w.data[i + 1]]
        = [k \in 1..Size |-> IF k = at THEN w.data[i + 1] ELSE before[k]]
  BY <1>2
<1> HIDE DEF before, after, at
<1>6. [before EXCEPT ![at] = w.data[i + 1]] = after
  BY <1>1, <1>2, <1>3, <1>4, <1>5
<1> QED
  BY <1>6 DEF before, after, at

\* A copy that has moved all it can is the copy of the whole data.
LEMMA OverlayAll ==
  ASSUME NEW w \in Writes, NEW bs \in Contents
  PROVE  Atomic!Overlay(bs, w, Clipped(w)) = Atomic!Overlay(bs, w, Len(w.data))
BY ClippedFits, SizeAssumption DEF Atomic!Overlay

LEMMA OverlayType ==
  ASSUME NEW w \in Writes, NEW bs \in Contents, NEW i \in Nat, i <= Clipped(w)
  PROVE  Atomic!Overlay(bs, w, i) \in Contents
BY ClippedFits, SizeAssumption DEF Atomic!Overlay

\* A snapshot that agrees byte for byte is the contents.
LEMMA SameContents ==
  ASSUME NEW f \in Contents, NEW g \in Contents, \A k \in 1..Size : f[k] = g[k]
  PROVE  f = g
<1>1. f = [k \in 1..Size |-> f[k]] /\ g = [k \in 1..Size |-> g[k]]
  OBVIOUS
<1> QED
  BY <1>1

\* What a goroutine's program counter says of its record.
LEMMA JobKinds ==
  ASSUME NEW j \in Jobs
  PROVE  /\ j.pc = "write" => j \in [pc : {"write"}, w : Writes, i : Nat, old : Contents]
         /\ j.pc = "unlock" => j \in [pc : {"unlock"}, report : Report \cup {None}]
         /\ j.pc = "callback" => j \in [pc : {"callback"}, report : Report]
         /\ j.pc = "counted" => j \in [pc : {"counted"}, count : Nat]
         /\ j.pc = "read" => j \in [pc : {"read"}, count : Nat, i : Nat, out : Contents]
         /\ j.pc = "idle" => j = Idle
BY DEF Jobs, Idle

-----------------------------------------------------------------------------
(* The inductive invariant *)

LEMMA InitInvariant == Init => IInv
<1> SUFFICES ASSUME Init PROVE IInv
  OBVIOUS
<1>1. Idle \in Jobs /\ Idle.pc = "idle"
  BY DEF Idle, Jobs
<1>2. \A p \in Procs : job[p] = Idle
  BY DEF Init
<1>3. Basics
  BY <1>1, SizeAssumption, BytesAssumption DEF Init, Basics, Zeroed
<1>4. Locked
  BY <1>1, <1>2, NoneAssumption DEF Init, Locked
<1> QED
  BY <1>1, <1>2, <1>3, <1>4 DEF IInv, Copied, ReadSoFar

\* What the steps of one goroutine have in common: the other goroutines' records and
\* their claims on the lock stay as they are.
LEMMA NextInvariant == IInv /\ [Next]_vars => IInv'
<1> SUFFICES ASSUME IInv, [Next]_vars PROVE IInv'
  OBVIOUS
<1> USE DEF IInv
<1>1. ASSUME NEW p \in Procs, NEW w \in Writes, Lock(p, w) PROVE IInv'
  <2> DEFINE j == [pc |-> "write", w |-> w, i |-> 0, old |-> bytes]
  <2>1. j \in Jobs
    BY <1>1 DEF Basics, Jobs
  <2>2. job' = [job EXCEPT ![p] = j] /\ job[p].pc = "idle"
    BY <1>1 DEF Lock
  <2>3. Basics'
    BY <1>1, <2>1, <2>2 DEF Lock, Basics
  <2>4. Locked'
    BY <1>1, <2>2, NoneAssumption DEF Lock, CanLock, Basics, Locked
  <2>5. Copied'
    <3>1. bytes = Atomic!Overlay(bytes, w, 0) /\ 0 <= Clipped(w)
      BY OverlayNone, ClippedFits DEF Basics
    <3> QED
      BY <1>1, <2>2, <3>1, NoneAssumption DEF Lock, CanLock, Copied, Locked, Basics
  <2>6. ReadSoFar'
    BY <1>1, <2>2 DEF Lock, ReadSoFar, Basics
  <2> QED
    BY <2>3, <2>4, <2>5, <2>6
<1>2. ASSUME NEW p \in Procs, CopyByte(p) PROVE IInv'
  <2> DEFINE w == job[p].w
             i == job[p].i
             old == job[p].old
  <2>1. job[p] \in [pc : {"write"}, w : Writes, i : Nat, old : Contents]
    BY <1>2, JobKinds DEF CopyByte, Basics
  <2>2. w \in Writes /\ i \in Nat /\ old \in Contents /\ i < Clipped(w) /\ Clipped(w) \in Nat
    BY <1>2, <2>1, ClippedFits DEF CopyByte
  <2>3. bytes = Atomic!Overlay(old, w, i)
    BY <1>2 DEF CopyByte, Copied
  <2>4. bytes' = Atomic!Overlay(old, w, i + 1)
    <3>1. bytes' = [bytes EXCEPT ![w.off + i + 1] = w.data[i + 1]]
      BY <1>2 DEF CopyByte
    <3> HIDE DEF w, i, old
    <3>2. [Atomic!Overlay(old, w, i) EXCEPT ![w.off + i + 1] = w.data[i + 1]]
            = Atomic!Overlay(old, w, i + 1)
      BY <2>2, OverlayNext
    <3> QED
      BY <2>3, <3>1, <3>2
  <2>5. job' = [job EXCEPT ![p] = [pc |-> "write", w |-> w, i |-> i + 1, old |-> old]]
    <3>1. job' = [job EXCEPT ![p] = [job[p] EXCEPT !.i = i + 1]]
      BY <1>2 DEF CopyByte
    <3>2. ASSUME NEW r \in [pc : {"write"}, w : Writes, i : Nat, old : Contents]
          PROVE  [r EXCEPT !.i = r.i + 1]
                   = [pc |-> "write", w |-> r.w, i |-> r.i + 1, old |-> r.old]
      OBVIOUS
    <3> QED
      BY <2>1, <3>1, <3>2
  <2>6. bytes' \in Contents
    BY <2>2, <2>4, OverlayType
  <2>7. [pc |-> "write", w |-> w, i |-> i + 1, old |-> old] \in Jobs
    BY <2>2 DEF Jobs
  <2>8. writer = p /\ readers = {}
    BY <1>2, NoneAssumption DEF CopyByte, Locked
  <2> HIDE DEF w, i, old
  <2>9. Basics'
    BY <1>2, <2>5, <2>6, <2>7 DEF CopyByte, Basics
  <2>10. Locked'
    BY <1>2, <2>5 DEF CopyByte, Locked, Basics
  <2>11. Copied'
    <3> SUFFICES ASSUME NEW q \in Procs, job'[q].pc = "write"
                 PROVE  /\ job'[q].i <= Clipped(job'[q].w)
                        /\ bytes' = Atomic!Overlay(job'[q].old, job'[q].w, job'[q].i)
      BY DEF Copied
    <3>1. q = p
      BY <2>5, <2>8 DEF Locked, Basics
    <3> QED
      BY <2>2, <2>4, <2>5, <3>1 DEF Basics
  <2>12. ReadSoFar'
    BY <2>5, <2>8 DEF ReadSoFar, Basics, Locked
  <2> QED
    BY <2>9, <2>10, <2>11, <2>12
<1>3. ASSUME NEW p \in Procs, Count(p) PROVE IInv'
  <2>1. job[p] \in [pc : {"write"}, w : Writes, i : Nat, old : Contents]
    BY <1>3, JobKinds DEF Count, Basics
  <2>2. PICK j \in Jobs : job' = [job EXCEPT ![p] = j] /\ j.pc = "unlock"
    <3>1. [pc |-> "unlock", report |-> None] \in Jobs
      BY DEF Jobs
    <3>2. [pc |-> "unlock",
           report |-> [old |-> job[p].old, new |-> bytes, n |-> updates + 1]] \in Jobs
      BY <2>1 DEF Jobs, Report, Basics
    <3> QED
      BY <1>3, <3>1, <3>2 DEF Count
  <2>3. /\ writer = p /\ readers = {} /\ updates' = updates + 1
        /\ UNCHANGED <<bytes, writer, readers, hasCallback, got>>
    BY <1>3, NoneAssumption DEF Count, Locked
  <2>4. Basics'
    BY <2>2, <2>3 DEF Basics
  <2>5. Locked'
    BY <2>2, <2>3, NoneAssumption DEF Locked, Basics
  <2>6. Copied' /\ ReadSoFar'
    BY <2>2, <2>3 DEF Copied, ReadSoFar, Locked, Basics
  <2> QED
    BY <2>4, <2>5, <2>6
<1>11. ASSUME NEW p \in Procs, Unlock(p) PROVE IInv'
  <2>1. job[p] \in [pc : {"unlock"}, report : Report \cup {None}]
    BY <1>11, JobKinds DEF Unlock, Basics
  <2>2. PICK j \in Jobs : job' = [job EXCEPT ![p] = j] /\ j.pc \in {"idle", "callback"}
    <3>1. Idle \in Jobs /\ Idle.pc = "idle"
      BY DEF Jobs, Idle
    <3>2. job[p].report # None => [pc |-> "callback", report |-> job[p].report] \in Jobs
      BY <2>1 DEF Jobs
    <3> QED
      BY <1>11, <3>1, <3>2 DEF Unlock
  <2>3. /\ writer = p /\ readers = {} /\ writer' = None
        /\ UNCHANGED <<bytes, readers, hasCallback, updates, got>>
    BY <1>11, NoneAssumption DEF Unlock, Locked
  <2>4. Basics'
    BY <1>11, <2>2, <2>3 DEF Basics
  <2>5. Locked'
    BY <2>2, <2>3, NoneAssumption DEF Locked, Basics
  <2>6. Copied' /\ ReadSoFar'
    BY <2>2, <2>3 DEF Copied, ReadSoFar, Locked, Basics
  <2> QED
    BY <2>4, <2>5, <2>6
<1>4. ASSUME NEW p \in Procs, Callback(p) PROVE IInv'
  <2>1. job' = [job EXCEPT ![p] = Idle] /\ Idle \in Jobs /\ Idle.pc = "idle"
    BY <1>4 DEF Callback, Idle, Jobs
  <2>2. UNCHANGED <<bytes, writer, readers, hasCallback, updates, got>> /\ job[p].pc = "callback"
    BY <1>4 DEF Callback
  <2> QED
    BY <2>1, <2>2 DEF Basics, Locked, Copied, ReadSoFar
<1>5. ASSUME NEW p \in Procs, OnChange(p) PROVE IInv'
  BY <1>5 DEF OnChange, Basics, Locked, Copied, ReadSoFar
<1>6. ASSUME NEW p \in Procs, Updates(p) PROVE IInv'
  <2>1. [pc |-> "counted", count |-> updates] \in Jobs
    BY DEF Jobs, Basics
  <2> QED
    BY <1>6, <2>1 DEF Updates, Basics, Locked, Copied, ReadSoFar
<1>7. ASSUME NEW p \in Procs, RLock(p) PROVE IInv'
  <2> DEFINE j == [pc |-> "read", count |-> job[p].count, i |-> 0, out |-> Zeroed]
  <2>1. j \in Jobs
    BY <1>7, JobKinds, BytesAssumption DEF RLock, Basics, Jobs, Zeroed
  <2>2. job' = [job EXCEPT ![p] = j] /\ job[p].pc = "counted" /\ writer = None
    BY <1>7 DEF RLock, CanRLock
  <2>3. Basics'
    BY <1>7, <2>1, <2>2 DEF RLock, Basics
  <2>4. Locked'
    BY <1>7, <2>2, NoneAssumption DEF RLock, Locked, Basics
  <2>5. Copied' /\ ReadSoFar'
    BY <1>7, <2>2, SizeAssumption DEF RLock, Copied, ReadSoFar, Basics
  <2> QED
    BY <2>3, <2>4, <2>5
<1>8. ASSUME NEW p \in Procs, ReadByte(p) PROVE IInv'
  <2> DEFINE i == job[p].i
             o == [job[p].out EXCEPT ![i + 1] = bytes[i + 1]]
             j == [pc |-> "read", count |-> job[p].count, i |-> i + 1, out |-> o]
  <2>1. job[p] \in [pc : {"read"}, count : Nat, i : Nat, out : Contents] /\ i < Size
    BY <1>8, JobKinds DEF ReadByte, Basics
  <2>2. o \in Contents
    BY <2>1, SizeAssumption DEF Basics
  <2>3. j \in Jobs
    BY <2>1, <2>2 DEF Jobs
  <2>4. job' = [job EXCEPT ![p] = j]
    BY <1>8 DEF ReadByte
  <2>5. UNCHANGED <<bytes, writer, readers, hasCallback, updates, got>> /\ job[p].pc = "read"
    BY <1>8 DEF ReadByte
  <2>6. \A k \in 1..(i + 1) : o[k] = bytes[k]
    <3>1. DOMAIN job[p].out = 1..Size /\ i + 1 \in 1..Size
      BY <2>1, SizeAssumption
    <3>2. \A k \in 1..i : k # i + 1 /\ job[p].out[k] = bytes[k]
      BY <2>1, <2>5 DEF ReadSoFar
    <3>3. \A k \in 1..(i + 1) : k \in 1..i \/ k = i + 1
      BY <2>1
    <3>4. o[i + 1] = bytes[i + 1] /\ \A k \in 1..Size : k # i + 1 => o[k] = job[p].out[k]
      BY <3>1
    <3>5. \A k \in 1..i : k \in 1..Size
      BY <2>1, SizeAssumption
    <3> HIDE DEF o, i
    <3> QED
      BY <3>2, <3>3, <3>4, <3>5
  <2> HIDE DEF o
  <2>7. Basics' /\ Locked' /\ Copied'
    BY <2>3, <2>4, <2>5 DEF Basics, Locked, Copied
  <2>8. ReadSoFar'
    BY <2>1, <2>4, <2>5, <2>6, SizeAssumption DEF Basics, ReadSoFar
  <2> QED
    BY <2>7, <2>8
<1>9. ASSUME NEW p \in Procs, RUnlock(p) PROVE IInv'
  <2>1. job[p] \in [pc : {"read"}, count : Nat, i : Nat, out : Contents]
    BY <1>9, JobKinds DEF RUnlock, Basics
  <2>2. job' = [job EXCEPT ![p] = Idle] /\ Idle \in Jobs /\ Idle.pc = "idle"
    BY <1>9 DEF RUnlock, Idle, Jobs
  <2>3. Basics'
    BY <1>9, <2>1, <2>2 DEF RUnlock, Basics
  <2>4. Locked' /\ Copied' /\ ReadSoFar'
    BY <1>9, <2>2 DEF RUnlock, Basics, Locked, Copied, ReadSoFar
  <2> QED
    BY <2>3, <2>4
<1>10. CASE UNCHANGED vars
  BY <1>10 DEF vars, Basics, Locked, Copied, ReadSoFar
<1> QED
  BY <1>1, <1>2, <1>3, <1>4, <1>5, <1>6, <1>7, <1>8, <1>9, <1>10, <1>11 DEF Next

\* Who holds the lock and how far its copy is, in every reachable state.
THEOREM LockInvariant == Spec => []IInv
BY InitInvariant, NextInvariant, PTL DEF Spec

-----------------------------------------------------------------------------
(* Refinement *)

\* The mapped variables, by these names.
AtomicOwed == [p \in Procs |-> IF InHand(p) THEN job[p].report ELSE None]
AtomicGot == [p \in Procs |-> IF got[p] = None THEN None ELSE got[p].out]

LEMMA MappedInit == Init => Atomic!AInit
<1> SUFFICES ASSUME Init PROVE Atomic!AInit
  OBVIOUS
<1>1. \A p \in Procs : job[p].pc = "idle" /\ got[p] = None
  BY DEF Init, Idle
<1> QED
  BY <1>1 DEF Init, Atomic!AInit, Zeroed, InHand, Settled

\* Until it is counted nothing of a write shows, and nothing of a snapshot before the
\* read lock is released; every other step is one step of the atomic assembly.
LEMMA MappedStep == IInv /\ IInv' /\ [Next]_vars => [Atomic!ANext]_(Atomic!avars)
<1> SUFFICES ASSUME IInv, IInv', [Next]_vars
             PROVE  Atomic!ANext \/ UNCHANGED Atomic!avars
  OBVIOUS
<1> USE DEF IInv
<1>1. ASSUME NEW p \in Procs, NEW w \in Writes, Lock(p, w) PROVE UNCHANGED Atomic!avars
  <2> DEFINE j == [pc |-> "write", w |-> w, i |-> 0, old |-> bytes]
  <2>1. writer = None /\ writer' = p /\ p # None
    BY <1>1, NoneAssumption DEF Lock, CanLock
  <2>2. job' = [job EXCEPT ![p] = j] /\ job[p].pc = "idle" /\ j.pc = "write" /\ j.old = bytes
    BY <1>1 DEF Lock
  <2> HIDE DEF j
  <2>4. AtomicOwed' = AtomicOwed
    BY <2>2 DEF AtomicOwed, InHand, Basics
  <2>5. UNCHANGED <<bytes, updates, hasCallback, got>>
    BY <1>1 DEF Lock
  <2>6. Settled' = Settled
    BY <2>1, <2>2, <2>5 DEF Settled, Basics
  <2> QED
    BY <2>4, <2>5, <2>6 DEF Atomic!avars, AtomicOwed
<1>2. ASSUME NEW p \in Procs, CopyByte(p) PROVE UNCHANGED Atomic!avars
  <2>1. job[p] \in [pc : {"write"}, w : Writes, i : Nat, old : Contents]
    BY <1>2, JobKinds DEF CopyByte, Basics
  <2>2. job' = [job EXCEPT ![p] = [job[p] EXCEPT !.i = job[p].i + 1]]
    BY <1>2 DEF CopyByte
  <2>3. ASSUME NEW r \in [pc : {"write"}, w : Writes, i : Nat, old : Contents]
        PROVE  [r EXCEPT !.i = r.i + 1].old = r.old /\ [r EXCEPT !.i = r.i + 1].pc = r.pc
    OBVIOUS
  <2>4. PICK j : job' = [job EXCEPT ![p] = j] /\ j.old = job[p].old /\ j.pc = "write"
    BY <2>1, <2>2, <2>3
  <2>5. writer = p /\ writer' = p /\ p # None /\ job[p].pc = "write"
    BY <1>2, NoneAssumption DEF CopyByte, Locked
  <2>6. Settled' = Settled
    BY <2>4, <2>5 DEF Settled, Basics
  <2>7. AtomicOwed' = AtomicOwed
    BY <2>4, <2>5 DEF AtomicOwed, InHand, Basics
  <2>8. UNCHANGED <<updates, hasCallback, got>>
    BY <1>2 DEF CopyByte
  <2> QED
    BY <2>6, <2>7, <2>8 DEF Atomic!avars, AtomicOwed
<1>3. ASSUME NEW p \in Procs, Count(p) PROVE Atomic!ANext
  <2> DEFINE w == job[p].w
             new == [old |-> job[p].old, new |-> bytes, n |-> updates + 1]
             r == IF Owes(w) THEN new ELSE None
             j == [pc |-> "unlock", report |-> r]
  <2>1. job[p] \in [pc : {"write"}, w : Writes, i : Nat, old : Contents] /\ job[p].pc = "write"
    BY <1>3, JobKinds DEF Count, Basics
  <2>2. writer = p /\ writer' = p /\ p # None /\ updates < MaxWrites
    BY <1>3, <2>1, NoneAssumption DEF Count, Locked
  <2>3. bytes = Atomic!Overlay(job[p].old, w, Len(w.data))
    BY <1>3, <2>1, OverlayAll DEF Count, Copied
  <2>4. updates' = updates + 1 /\ UNCHANGED <<bytes, hasCallback, got>>
    BY <1>3 DEF Count
  <2>5. job' = [job EXCEPT ![p] = j]
    BY <1>3 DEF Count
  <2>6. job'[p].pc = "unlock" /\ job'[p].report = r
    BY <2>5 DEF Basics
  <2>7. Settled = job[p].old /\ Settled' = bytes
    BY <2>1, <2>2, <2>4, <2>6 DEF Settled
  <2>8. AtomicOwed[p] = None /\ AtomicOwed' = [AtomicOwed EXCEPT ![p] = r]
    <3>1. \A q \in Procs \ {p} : job'[q] = job[q]
      BY <2>5 DEF Basics
    <3> HIDE DEF r, j
    <3> QED
      BY <2>1, <2>6, <3>1 DEF AtomicOwed, InHand
  <2>9. PICK v \in Writes : v = w
    BY <2>1
  <2>10. Atomic!AWrite(p, v)
    BY <2>2, <2>3, <2>4, <2>7, <2>8, <2>9 DEF Atomic!AWrite, AtomicOwed, Owes
  <2> QED
    BY <2>10 DEF Atomic!ANext
<1>9. ASSUME NEW p \in Procs, Unlock(p) PROVE UNCHANGED Atomic!avars
  <2> DEFINE j == IF job[p].report = None THEN Idle
                  ELSE [pc |-> "callback", report |-> job[p].report]
  <2>1. job' = [job EXCEPT ![p] = j] /\ job[p].pc = "unlock"
    BY <1>9 DEF Unlock
  <2>2. writer = p /\ writer' = None
    BY <1>9, <2>1 DEF Unlock, Locked
  <2>3. UNCHANGED <<bytes, hasCallback, updates, got>>
    BY <1>9 DEF Unlock
  <2>4. Settled' = Settled
    BY <2>1, <2>2, <2>3 DEF Settled
  <2>5. /\ job[p].report = None => j.pc = "idle"
        /\ job[p].report # None => j.pc = "callback" /\ j.report = job[p].report
    BY DEF Idle
  <2> HIDE DEF j
  <2>6. job'[p] = j /\ \A q \in Procs \ {p} : job'[q] = job[q]
    BY <2>1 DEF Basics
  <2>7. AtomicOwed' = AtomicOwed
    BY <2>1, <2>5, <2>6 DEF AtomicOwed, InHand
  <2> QED
    BY <2>3, <2>4, <2>7 DEF Atomic!avars, AtomicOwed
<1>4. ASSUME NEW p \in Procs, Callback(p) PROVE Atomic!ANext
  <2>1. job[p] \in [pc : {"callback"}, report : Report] /\ job[p].pc = "callback"
    BY <1>4, JobKinds DEF Callback, Basics
  <2>2. job[p].report # None
    BY <2>1, NoneAssumption DEF Report
  <2>3. job' = [job EXCEPT ![p] = Idle] /\ Idle.pc = "idle"
    BY <1>4 DEF Callback, Idle
  <2>4. UNCHANGED <<bytes, writer, hasCallback, updates, got>>
    BY <1>4 DEF Callback
  <2>5. writer # None => writer # p /\ writer \in Procs
    BY <2>1 DEF Locked, Basics
  <2>6. Settled' = Settled
    BY <2>3, <2>4, <2>5 DEF Settled, Basics
  <2>7. AtomicOwed[p] # None /\ AtomicOwed' = [AtomicOwed EXCEPT ![p] = None]
    BY <2>1, <2>2, <2>3 DEF AtomicOwed, InHand, Basics
  <2>8. Atomic!AReport(p)
    BY <2>4, <2>6, <2>7 DEF Atomic!AReport, AtomicOwed, Settled
  <2> QED
    BY <2>8 DEF Atomic!ANext
<1>5. ASSUME NEW p \in Procs, OnChange(p) PROVE Atomic!ANext
  <2>1. hasCallback' \in BOOLEAN /\ UNCHANGED <<bytes, writer, updates, job, got>>
    BY <1>5 DEF OnChange
  <2>2. UNCHANGED <<Settled, AtomicOwed, AtomicGot>>
    BY <2>1 DEF Settled, AtomicOwed, AtomicGot, InHand
  <2>3. Atomic!ARegister
    BY <2>1, <2>2 DEF Atomic!ARegister, AtomicOwed, AtomicGot
  <2> QED
    BY <2>3 DEF Atomic!ANext
<1>6. ASSUME NEW p \in Procs, Updates(p) \/ RLock(p) \/ ReadByte(p) PROVE UNCHANGED Atomic!avars
  <2>1. PICK j : /\ job' = [job EXCEPT ![p] = j] /\ j.pc \in {"counted", "read"}
                 /\ job[p].pc \in {"idle", "counted", "read"}
    BY <1>6 DEF Updates, RLock, ReadByte
  <2>2. UNCHANGED <<bytes, writer, hasCallback, updates, got>>
    BY <1>6 DEF Updates, RLock, ReadByte
  <2>3. writer # None => writer # p /\ writer \in Procs
    BY <2>1 DEF Locked, Basics
  <2>4. Settled' = Settled
    BY <2>1, <2>2, <2>3 DEF Settled, Basics
  <2>5. AtomicOwed' = AtomicOwed
    BY <2>1 DEF AtomicOwed, InHand, Basics
  <2> QED
    BY <2>2, <2>4, <2>5 DEF Atomic!avars, AtomicOwed, Settled
<1>7. ASSUME NEW p \in Procs, RUnlock(p) PROVE Atomic!ANext
  <2>1. job[p] \in [pc : {"read"}, count : Nat, i : Nat, out : Contents] /\ job[p].pc = "read"
    BY <1>7, JobKinds DEF RUnlock, Basics
  <2>2. job[p].i = Size /\ writer = None
    BY <1>7, <2>1 DEF RUnlock, Locked
  <2>3. job[p].out = bytes
    <3>1. \A k \in 1..Size : job[p].out[k] = bytes[k]
      BY <2>1, <2>2 DEF ReadSoFar
    <3> QED
      BY <2>1, <3>1, SameContents DEF Basics
  <2>4. job' = [job EXCEPT ![p] = Idle] /\ Idle.pc = "idle"
    BY <1>7 DEF RUnlock, Idle
  <2>5. got' = [got EXCEPT ![p] = [count |-> job[p].count, out |-> bytes]]
    BY <1>7, <2>3 DEF RUnlock
  <2>6. [count |-> job[p].count, out |-> bytes] # None
    BY <2>1, NoneAssumption DEF Basics
  <2>7. AtomicGot' = [AtomicGot EXCEPT ![p] = bytes]
    BY <2>5, <2>6 DEF AtomicGot, Basics
  <2>8. AtomicOwed' = AtomicOwed
    BY <2>1, <2>4 DEF AtomicOwed, InHand, Basics
  <2>9. UNCHANGED <<bytes, writer, hasCallback, updates>>
    BY <1>7 DEF RUnlock
  <2>10. Settled = bytes /\ Settled' = bytes
    BY <2>2, <2>9 DEF Settled
  <2>11. Atomic!ARead(p)
    BY <2>7, <2>8, <2>9, <2>10 DEF Atomic!ARead, AtomicOwed, AtomicGot
  <2> QED
    BY <2>11 DEF Atomic!ANext
<1>8. CASE UNCHANGED vars
  BY <1>8 DEF vars, Atomic!avars, Settled, InHand
<1> QED
  BY <1>1, <1>2, <1>3, <1>4, <1>5, <1>6, <1>7, <1>8, <1>9 DEF Next

\* Writes and snapshots are atomic and callbacks carry consistent pairs, for every
\* number of goroutines and every size: the assembly implements AtomicAssembly.
THEOREM ImplementsAtomic == Spec => Implements
<1>1. Spec => []IInv
  BY LockInvariant
<1> QED
  BY <1>1, MappedInit, MappedStep, PTL DEF Spec, Implements, Atomic!ASpec

-----------------------------------------------------------------------------
(* Staleness *)

\* The log ends in the contents of the atomic assembly, and a count read is a count
\* that was reached.
LogInv ==
  /\ log \in Seq(Contents) /\ Len(log) = updates + 1
  /\ log[updates + 1] = Settled
  /\ \A p \in Procs : job[p].pc \in {"counted", "read"} => job[p].count <= updates
  /\ SnapshotsAsNewAsCount

LEMMA InitLog == Init => LogInv
<1> SUFFICES ASSUME Init PROVE LogInv
  OBVIOUS
<1>1. Zeroed \in Contents
  BY BytesAssumption DEF Zeroed
<1>2. log = <<Zeroed>> /\ updates = 0 /\ Settled = Zeroed
  BY DEF Init, Settled
<1>3. \A p \in Procs : job[p].pc = "idle" /\ got[p] = None
  BY DEF Init, Idle
<1> QED
  BY <1>1, <1>2, <1>3 DEF LogInv, SnapshotsAsNewAsCount

LEMMA NextLog == IInv /\ IInv' /\ LogInv /\ [Next]_vars => LogInv'
<1> SUFFICES ASSUME IInv, IInv', LogInv, [Next]_vars PROVE LogInv'
  OBVIOUS
<1> USE DEF IInv
<1>1. ASSUME UNCHANGED <<updates, log, got>>, Settled' = Settled,
             NEW p \in Procs, NEW j, job' = [job EXCEPT ![p] = j],
             j.pc \in {"counted", "read"} => j.count <= updates
      PROVE  LogInv'
  BY <1>1 DEF LogInv, SnapshotsAsNewAsCount, Basics
<1>2. ASSUME NEW p \in Procs, NEW w \in Writes, Lock(p, w) PROVE LogInv'
  <2> DEFINE j == [pc |-> "write", w |-> w, i |-> 0, old |-> bytes]
  <2>1. writer = None /\ writer' = p /\ p # None /\ UNCHANGED <<updates, log, got>>
    BY <1>2, NoneAssumption DEF Lock, CanLock
  <2>2. job' = [job EXCEPT ![p] = j] /\ j.pc = "write" /\ j.old = bytes
    BY <1>2 DEF Lock
  <2> HIDE DEF j
  <2>3. Settled' = Settled
    BY <2>1, <2>2 DEF Settled, Basics
  <2> QED
    BY <1>1, <2>1, <2>2, <2>3
<1>3. ASSUME NEW p \in Procs, CopyByte(p) PROVE LogInv'
  <2>1. job[p] \in [pc : {"write"}, w : Writes, i : Nat, old : Contents]
    BY <1>3, JobKinds DEF CopyByte, Basics
  <2>2. job' = [job EXCEPT ![p] = [job[p] EXCEPT !.i = job[p].i + 1]]
    BY <1>3 DEF CopyByte
  <2>3. ASSUME NEW r \in [pc : {"write"}, w : Writes, i : Nat, old : Contents]
        PROVE  [r EXCEPT !.i = r.i + 1].old = r.old /\ [r EXCEPT !.i = r.i + 1].pc = r.pc
    OBVIOUS
  <2>4. PICK j : job' = [job EXCEPT ![p] = j] /\ j.old = job[p].old /\ j.pc = "write"
    BY <2>1, <2>2, <2>3
  <2>5. /\ writer = p /\ writer' = p /\ p # None /\ job[p].pc = "write"
        /\ UNCHANGED <<updates, log, got>>
    BY <1>3, NoneAssumption DEF CopyByte, Locked
  <2>6. Settled' = Settled
    BY <2>4, <2>5 DEF Settled, Basics
  <2> QED
    BY <1>1, <2>4, <2>5, <2>6
<1>4. ASSUME NEW p \in Procs, Count(p) PROVE LogInv'
  <2>1. updates' = updates + 1 /\ log' = Append(log, bytes) /\ writer' = writer
          /\ UNCHANGED <<bytes, got>>
    BY <1>4 DEF Count
  <2>2. PICK j : job' = [job EXCEPT ![p] = j] /\ j.pc = "unlock"
    <3> DEFINE c(report) == [pc |-> "unlock", report |-> report]
    <3>1. \A report : c(report).pc = "unlock"
      OBVIOUS
    <3>2. \E report : job' = [job EXCEPT ![p] = c(report)]
      BY <1>4 DEF Count
    <3> QED
      BY <3>1, <3>2
  <2>3. bytes \in Contents /\ updates \in Nat /\ Len(log) = updates + 1
    BY DEF Basics, LogInv
  <2>4. log' \in Seq(Contents) /\ Len(log') = updates' + 1 /\ log'[updates' + 1] = bytes
    BY <2>1, <2>3 DEF LogInv
  <2>5. \A n \in 0..updates : log'[n + 1] = log[n + 1]
    BY <2>1, <2>3 DEF LogInv
  <2>6. Settled' = bytes
    <3>1. writer = p
      BY <1>4 DEF Count, Locked
    <3> QED
      BY <2>1, <2>2, <3>1 DEF Settled, Basics
  <2>7. \A q \in Procs : job'[q].pc \in {"counted", "read"} => job'[q].count <= updates'
    <3> SUFFICES ASSUME NEW q \in Procs, job'[q].pc \in {"counted", "read"}
                 PROVE  job'[q].count <= updates'
      OBVIOUS
    <3>1. q # p /\ job'[q] = job[q]
      BY <2>2 DEF Basics
    <3>2. job[q].count \in Nat /\ job[q].count <= updates
      BY <3>1, JobKinds DEF LogInv, Basics
    <3> QED
      BY <2>1, <2>3, <3>1, <3>2
  <2>8. SnapshotsAsNewAsCount'
    <3> SUFFICES ASSUME NEW q \in Procs, got[q] # None
                 PROVE  \E n \in got[q].count..updates' : got[q].out = log'[n + 1]
      BY <2>1 DEF SnapshotsAsNewAsCount
    <3>1. got[q].count \in Nat
      BY DEF Basics
    <3>2. PICK n \in got[q].count..updates : got[q].out = log[n + 1]
      BY DEF LogInv, SnapshotsAsNewAsCount
    <3>3. n \in 0..updates /\ n \in got[q].count..updates'
      BY <2>1, <2>3, <3>1
    <3> QED
      BY <2>5, <3>2, <3>3
  <2> QED
    BY <2>4, <2>6, <2>7, <2>8 DEF LogInv
<1>10. ASSUME NEW p \in Procs, Unlock(p) PROVE LogInv'
  <2>1. UNCHANGED <<bytes, updates, log, got>> /\ writer' = None /\ writer = p
    BY <1>10 DEF Unlock, Locked
  <2>2. PICK j : job' = [job EXCEPT ![p] = j] /\ j.pc \in {"idle", "callback"}
    <3> DEFINE c == [pc |-> "callback", report |-> job[p].report]
    <3>1. Idle.pc = "idle" /\ c.pc = "callback"
      BY DEF Idle
    <3>2. job' = [job EXCEPT ![p] = Idle] \/ job' = [job EXCEPT ![p] = c]
      BY <1>10 DEF Unlock
    <3> QED
      BY <3>1, <3>2
  <2>3. Settled' = Settled
    BY <1>10, <2>1 DEF Settled, Unlock
  <2> QED
    BY <1>1, <2>1, <2>2, <2>3
<1>5. ASSUME NEW p \in Procs, Callback(p) \/ Updates(p) \/ RLock(p) PROVE LogInv'
  <2>1. /\ UNCHANGED <<bytes, writer, updates, log, got>>
        /\ job[p].pc \in {"idle", "callback", "counted"}
    BY <1>5 DEF Callback, Updates, RLock
  <2>2. writer # None => writer # p /\ writer \in Procs
    BY <2>1 DEF Locked, Basics
  <2>3. PICK j : job' = [job EXCEPT ![p] = j] /\ (j.pc \in {"counted", "read"} => j.count <= updates)
    <3>1. CASE Callback(p)
      <4>1. job' = [job EXCEPT ![p] = Idle] /\ Idle.pc = "idle"
        BY <3>1 DEF Callback, Idle
      <4> QED
        BY <4>1
    <3>2. CASE Updates(p)
      <4> DEFINE c == [pc |-> "counted", count |-> updates]
      <4>1. job' = [job EXCEPT ![p] = c] /\ c.count <= updates
        BY <3>2 DEF Updates, Basics
      <4> QED
        BY <4>1
    <3>3. CASE RLock(p)
      <4> DEFINE c == [pc |-> "read", count |-> job[p].count, i |-> 0, out |-> Zeroed]
      <4>1. job' = [job EXCEPT ![p] = c] /\ c.count <= updates
        BY <3>3 DEF RLock, LogInv
      <4> QED
        BY <4>1
    <3> QED
      BY <1>5, <3>1, <3>2, <3>3
  <2>4. Settled' = Settled
    BY <2>1, <2>2, <2>3 DEF Settled, Basics
  <2> QED
    BY <1>1, <2>1, <2>3, <2>4
<1>6. ASSUME NEW p \in Procs, OnChange(p) PROVE LogInv'
  BY <1>6 DEF OnChange, LogInv, SnapshotsAsNewAsCount, Settled
<1>7. ASSUME NEW p \in Procs, ReadByte(p) PROVE LogInv'
  <2>1. UNCHANGED <<bytes, writer, updates, log, got>> /\ job[p].pc = "read"
    BY <1>7 DEF ReadByte
  <2>2. writer # None => writer # p /\ writer \in Procs
    BY <2>1 DEF Locked, Basics
  <2> DEFINE j == [pc |-> "read", count |-> job[p].count, i |-> job[p].i + 1,
                   out |-> [job[p].out EXCEPT ![job[p].i + 1] = bytes[job[p].i + 1]]]
  <2>3. job' = [job EXCEPT ![p] = j] /\ j.count = job[p].count /\ j.pc = "read"
    BY <1>7 DEF ReadByte
  <2> HIDE DEF j
  <2>4. Settled' = Settled
    BY <2>1, <2>2, <2>3 DEF Settled, Basics
  <2>5. job[p].count <= updates
    BY <2>1 DEF LogInv
  <2> QED
    BY <1>1, <2>1, <2>3, <2>4, <2>5
<1>8. ASSUME NEW p \in Procs, RUnlock(p) PROVE LogInv'
  <2>1. job[p] \in [pc : {"read"}, count : Nat, i : Nat, out : Contents] /\ job[p].pc = "read"
    BY <1>8, JobKinds DEF RUnlock, Basics
  <2>2. job[p].i = Size /\ writer = None /\ job[p].count <= updates
    BY <1>8, <2>1 DEF RUnlock, Locked, LogInv
  <2>3. job[p].out = bytes
    <3>1. \A k \in 1..Size : job[p].out[k] = bytes[k]
      BY <2>1, <2>2 DEF ReadSoFar
    <3> QED
      BY <2>1, <3>1, SameContents DEF Basics
  <2>4. job' = [job EXCEPT ![p] = Idle] /\ Idle.pc = "idle"
    BY <1>8 DEF RUnlock, Idle
  <2>5. UNCHANGED <<bytes, writer, updates, log>>
    BY <1>8 DEF RUnlock
  <2>6. got' = [got EXCEPT ![p] = [count |-> job[p].count, out |-> bytes]]
    BY <1>8, <2>3 DEF RUnlock
  <2>7. log[updates + 1] = bytes /\ updates \in job[p].count..updates
    BY <2>1, <2>2 DEF LogInv, Settled, Basics
  <2>8. SnapshotsAsNewAsCount'
    <3> SUFFICES ASSUME NEW q \in Procs, got'[q] # None
                 PROVE  \E n \in got'[q].count..updates : got'[q].out = log[n + 1]
      BY <2>5 DEF SnapshotsAsNewAsCount
    <3>1. CASE q = p
      BY <2>6, <2>7, <3>1 DEF Basics
    <3>2. CASE q # p
      BY <2>6, <3>2 DEF Basics, LogInv, SnapshotsAsNewAsCount
    <3> QED
      BY <3>1, <3>2
  <2>9. Settled' = Settled
    BY <2>2, <2>5 DEF Settled
  <2> QED
    BY <2>4, <2>5, <2>8, <2>9 DEF LogInv, Basics
<1>9. CASE UNCHANGED vars
  BY <1>9 DEF vars, LogInv, SnapshotsAsNewAsCount, Settled
<1> QED
  BY <1>2, <1>3, <1>4, <1>5, <1>6, <1>7, <1>8, <1>9, <1>10 DEF Next

\* A reader that skips Bytes while Updates stands still misses no write.
THEOREM StalenessLogicSound == Spec => []SnapshotsAsNewAsCount
<1>1. Spec => []IInv
  BY LockInvariant
<1>2. Spec => []LogInv
  BY <1>1, InitLog, NextLog, PTL DEF Spec
<1>3. LogInv => SnapshotsAsNewAsCount
  BY DEF LogInv
<1> QED
  BY <1>2, <1>3, PTL

-----------------------------------------------------------------------------
(* Callbacks *)

\* The report of a write: its number, and the contents just before and just after it.
OfWrite(r) == r.n \in due /\ r.old = log[r.n] /\ r.new = log[r.n + 1]

\* A write that owes a callback has one report, still in hand or made.
CallbackInv ==
  /\ updates <= MaxWrites
  /\ due \in SUBSET (1..updates)
  /\ reports \in SUBSET Report
  /\ \A r \in reports : OfWrite(r)
  /\ \A p \in Procs : InHand(p) => OfWrite(job[p].report)
  /\ \A n \in due : \/ \E r \in reports : r.n = n
                    \/ \E p \in Procs : InHand(p) /\ job[p].report.n = n
  /\ \A p, q \in Procs :
       (InHand(p) /\ InHand(q) /\ job[p].report.n = job[q].report.n)
         => p = q
  /\ \A p \in Procs, r \in reports : InHand(p) => r.n # job[p].report.n

LEMMA InitCallbacks == Init => CallbackInv
<1> SUFFICES ASSUME Init PROVE CallbackInv
  OBVIOUS
<1>1. \A p \in Procs : ~InHand(p)
  BY DEF Init, Idle, InHand
<1> QED
  BY <1>1, MaxWritesAssumption DEF Init, CallbackInv

\* A step that leaves the log, the reports and what is in hand alone.
LEMMA SameHands ==
  ASSUME CallbackInv, UNCHANGED <<updates, log, due, reports>>,
         \A q \in Procs : InHand(q)' <=> InHand(q),
         \A q \in Procs : InHand(q) => job'[q].report = job[q].report
  PROVE  CallbackInv'
<1>1. \A q \in Procs : InHand(q)' => OfWrite(job[q].report)'
  BY DEF CallbackInv, OfWrite
<1>2. \A n \in due : \/ \E r \in reports : r.n = n
                     \/ \E q \in Procs : InHand(q)' /\ job'[q].report.n = n
  BY DEF CallbackInv
<1>3. \A q, t \in Procs :
        (InHand(q)' /\ InHand(t)' /\ job'[q].report.n = job'[t].report.n) => q = t
  BY DEF CallbackInv
<1>4. \A q \in Procs, r \in reports : InHand(q)' => r.n # job'[q].report.n
  BY DEF CallbackInv
<1> QED
  BY <1>1, <1>2, <1>3, <1>4 DEF CallbackInv, OfWrite, Report

\* A step of p that leaves the log and the reports alone, with nothing in hand before and after.
LEMMA CallbacksStay ==
  ASSUME IInv, CallbackInv, UNCHANGED <<updates, log, due, reports>>, NEW p \in Procs, NEW j,
         job' = [job EXCEPT ![p] = j],
         job[p].pc \notin {"unlock", "callback"}, j.pc \notin {"unlock", "callback"}
  PROVE  CallbackInv'
<1>1. job'[p] = j /\ \A q \in Procs \ {p} : job'[q] = job[q]
  BY DEF IInv, Basics
<1>2. \A q \in Procs : (InHand(q)' <=> InHand(q)) /\ (InHand(q) => job'[q].report = job[q].report)
  BY <1>1 DEF InHand
<1> QED
  BY <1>2, SameHands

\* Counting a write puts its report in hand, if it owes one.
LEMMA CountCallbacks ==
  ASSUME IInv, LogInv, CallbackInv, NEW p \in Procs, Count(p)
  PROVE  CallbackInv'
<1> USE DEF IInv
<1>1. /\ job[p] \in [pc : {"write"}, w : Writes, i : Nat, old : Contents]
      /\ writer = p /\ updates \in Nat /\ updates < MaxWrites /\ bytes \in Contents
  BY JobKinds, NoneAssumption DEF Count, Basics, Locked
<1>2. updates' = updates + 1 /\ log' = Append(log, bytes) /\ reports' = reports
  BY DEF Count
<1>3. log \in Seq(Contents) /\ Len(log) = updates + 1 /\ log[updates + 1] = job[p].old
  BY <1>1, NoneAssumption DEF LogInv, Settled, Count
<1>4. /\ \A n \in 1..(updates + 1) : log'[n] = log[n]
      /\ log'[updates + 2] = bytes
  BY <1>1, <1>2, <1>3
<1>5. updates' <= MaxWrites
  BY <1>1, <1>2, MaxWritesAssumption
<1>6. ASSUME NEW r, OfWrite(r), due \subseteq due' PROVE r.n \in 1..updates /\ OfWrite(r)'
  <2>1. r.n \in 1..updates
    BY <1>6 DEF OfWrite, CallbackInv
  <2>2. r.n \in 1..(updates + 1) /\ r.n + 1 \in 1..(updates + 1)
    BY <1>1, <2>1
  <2> QED
    BY <1>4, <1>6, <2>1, <2>2 DEF OfWrite
<1>7. ~InHand(p)
  BY <1>1 DEF InHand
<1>8. PICK report :
        /\ job' = [job EXCEPT ![p] = [pc |-> "unlock", report |-> report]]
        /\ \/ report = None /\ due' = due
           \/ /\ report = [old |-> job[p].old, new |-> bytes, n |-> updates + 1]
              /\ due' = due \cup {updates + 1}
  BY DEF Count
<1> DEFINE j == [pc |-> "unlock", report |-> report]
<1>9. j.pc = "unlock" /\ j.report = report
  OBVIOUS
<1>10. job' = [job EXCEPT ![p] = j] /\ due \subseteq due'
  BY <1>8
<1> HIDE DEF j
<1>11. job'[p] = j /\ \A q \in Procs \ {p} : job'[q] = job[q]
  BY <1>10 DEF Basics
<1>12. /\ InHand(p)' <=> report # None
       /\ \A q \in Procs \ {p} : InHand(q)' <=> InHand(q)
  BY <1>9, <1>11 DEF InHand
<1>13. \A r \in reports : r.n \in 1..updates /\ OfWrite(r)'
  BY <1>6, <1>10 DEF CallbackInv
<1>14. ASSUME NEW q \in Procs \ {p}, InHand(q)
       PROVE  job'[q].report.n \in 1..updates /\ OfWrite(job[q].report)'
  <2>1. OfWrite(job[q].report) /\ job'[q] = job[q]
    BY <1>11, <1>14 DEF CallbackInv
  <2>2. job[q].report.n \in 1..updates
    BY <2>1 DEF OfWrite, CallbackInv
  <2> QED
    BY <1>1, <1>4, <1>10, <2>1, <2>2 DEF OfWrite
<1>15. CASE report = None /\ due' = due
  <2>1. \A q \in Procs : InHand(q)' => q # p /\ InHand(q) /\ job'[q] = job[q]
    BY <1>11, <1>12, <1>15
  <2>2. \A q \in Procs : InHand(q)' => OfWrite(job[q].report)'
    BY <1>14, <2>1
  <2>3. \A n \in due : \/ \E r \in reports : r.n = n
                       \/ \E q \in Procs : InHand(q)' /\ job'[q].report.n = n
    BY <1>7, <1>11, <1>12 DEF CallbackInv
  <2>4. /\ \A q, t \in Procs :
             (InHand(q)' /\ InHand(t)' /\ job'[q].report.n = job'[t].report.n) => q = t
        /\ \A q \in Procs, r \in reports : InHand(q)' => r.n # job'[q].report.n
    BY <2>1 DEF CallbackInv
  <2>5. due' \in SUBSET (1..updates')
    BY <1>1, <1>2, <1>15 DEF CallbackInv
  <2> QED
    BY <1>2, <1>5, <1>13, <1>15, <2>2, <2>3, <2>4, <2>5 DEF CallbackInv, OfWrite, Report
<1>16. CASE /\ report = [old |-> job[p].old, new |-> bytes, n |-> updates + 1]
            /\ due' = due \cup {updates + 1}
  <2>1. /\ report.n = updates + 1 /\ report.old = job[p].old /\ report.new = bytes
        /\ report # None
    BY <1>1, <1>16, NoneAssumption
  <2>2. due' \in SUBSET (1..updates') /\ updates + 1 \in due'
    BY <1>1, <1>2, <1>16 DEF CallbackInv
  <2>3. log'[updates + 1] = job[p].old /\ log'[(updates + 1) + 1] = bytes
    BY <1>1, <1>3, <1>4
  <2>4. InHand(p)' /\ job'[p].report = report
    BY <1>9, <1>11, <1>12, <2>1
  <2>5. OfWrite(job[p].report)'
    BY <2>1, <2>2, <2>3, <2>4 DEF OfWrite
  <2>6. \A q \in Procs : InHand(q)' => OfWrite(job[q].report)'
    BY <1>12, <1>14, <2>5
  <2>7. \A n \in due' : \/ \E r \in reports : r.n = n
                        \/ \E q \in Procs : InHand(q)' /\ job'[q].report.n = n
    <3> SUFFICES ASSUME NEW n \in due', ~ \E r \in reports : r.n = n
                 PROVE  \E q \in Procs : InHand(q)' /\ job'[q].report.n = n
      OBVIOUS
    <3>1. CASE n = updates + 1
      BY <2>1, <2>4, <3>1
    <3>2. CASE n \in due
      <4>1. PICK q \in Procs : InHand(q) /\ job[q].report.n = n
        BY <3>2 DEF CallbackInv
      <4>2. q # p
        BY <1>7, <4>1
      <4> QED
        BY <1>11, <1>12, <4>1, <4>2
    <3> QED
      BY <1>16, <3>1, <3>2
  <2>8. \A q \in Procs \ {p} : InHand(q)' => InHand(q) /\ job'[q] = job[q]
                                              /\ job'[q].report.n # updates + 1
    BY <1>1, <1>11, <1>12, <1>14
  <2>9. job'[p].report.n = updates + 1
    BY <2>1, <2>4
  <2>10. \A q, t \in Procs :
           (InHand(q)' /\ InHand(t)' /\ job'[q].report.n = job'[t].report.n) => q = t
    BY <2>8, <2>9 DEF CallbackInv
  <2>11. \A q \in Procs, r \in reports : InHand(q)' => r.n # job'[q].report.n
    <3>1. \A r \in reports : r.n # updates + 1
      BY <1>1, <1>13
    <3> QED
      BY <2>8, <2>9, <3>1 DEF CallbackInv
  <2> QED
    BY <1>2, <1>5, <1>13, <2>2, <2>6, <2>7, <2>10, <2>11 DEF CallbackInv, OfWrite, Report
<1> QED
  BY <1>8, <1>15, <1>16

\* Releasing the lock leaves in hand what was in hand.
LEMMA UnlockCallbacks ==
  ASSUME IInv, CallbackInv, NEW p \in Procs, Unlock(p)
  PROVE  CallbackInv'
<1>1. job[p].pc = "unlock" /\ UNCHANGED <<updates, log, due, reports>>
  BY DEF Unlock
<1>2. \A q \in Procs \ {p} : job'[q] = job[q]
  BY DEF Unlock, IInv, Basics
<1>3. /\ job[p].report = None => job'[p].pc = "idle"
      /\ job[p].report # None => job'[p].pc = "callback" /\ job'[p].report = job[p].report
  BY DEF Unlock, IInv, Basics, Idle
<1>4. \A q \in Procs : (InHand(q)' <=> InHand(q)) /\ (InHand(q) => job'[q].report = job[q].report)
  BY <1>1, <1>2, <1>3 DEF InHand
<1> QED
  BY <1>1, <1>4, SameHands

\* Making a callback takes its report out of the hand.
LEMMA CallbackMade ==
  ASSUME IInv, CallbackInv, NEW p \in Procs, Callback(p)
  PROVE  CallbackInv'
<1> USE DEF IInv
<1>1. job[p] \in [pc : {"callback"}, report : Report] /\ InHand(p)
  <2>1. job[p] \in [pc : {"callback"}, report : Report]
    BY JobKinds DEF Callback, Basics
  <2>2. None \notin Report
    BY NoneAssumption DEF Report
  <2> QED
    BY <2>1, <2>2 DEF InHand
<1>2. /\ reports' = reports \cup {job[p].report} /\ job' = [job EXCEPT ![p] = Idle]
      /\ UNCHANGED <<updates, log, due>>
  BY DEF Callback
<1>3. job'[p] = Idle /\ \A q \in Procs \ {p} : job'[q] = job[q]
  BY <1>2 DEF Basics
<1>4. ~InHand(p)' /\ \A q \in Procs \ {p} : InHand(q)' <=> InHand(q)
  BY <1>3 DEF InHand, Idle
<1>5. reports' \in SUBSET Report
  BY <1>1, <1>2 DEF CallbackInv
<1>6. \A r \in reports' : OfWrite(r)'
  BY <1>1, <1>2 DEF CallbackInv, OfWrite
<1>7. \A n \in due : \/ \E r \in reports' : r.n = n
                     \/ \E q \in Procs : InHand(q)' /\ job'[q].report.n = n
  <2> SUFFICES ASSUME NEW n \in due, ~ \E r \in reports' : r.n = n
               PROVE  \E q \in Procs : InHand(q)' /\ job'[q].report.n = n
    OBVIOUS
  <2>1. PICK q \in Procs : InHand(q) /\ job[q].report.n = n
    BY <1>2 DEF CallbackInv
  <2>2. q # p
    BY <1>2, <2>1
  <2> QED
    BY <1>3, <1>4, <2>1, <2>2
<1>8. \A q \in Procs : InHand(q)' => q # p /\ InHand(q) /\ job'[q] = job[q]
  BY <1>3, <1>4
<1>9. \A q \in Procs, r \in reports' : InHand(q)' => r.n # job'[q].report.n
  BY <1>1, <1>2, <1>8 DEF CallbackInv
<1>10. \A q, t \in Procs :
         (InHand(q)' /\ InHand(t)' /\ job'[q].report.n = job'[t].report.n) => q = t
  BY <1>8 DEF CallbackInv
<1>11. \A q \in Procs : InHand(q)' => OfWrite(job[q].report)'
  BY <1>2, <1>8 DEF CallbackInv, OfWrite
<1> QED
  BY <1>2, <1>5, <1>6, <1>7, <1>9, <1>10, <1>11 DEF CallbackInv, OfWrite, Report

LEMMA NextCallbacks == IInv /\ LogInv /\ CallbackInv /\ [Next]_vars => CallbackInv'
<1> SUFFICES ASSUME IInv, LogInv, CallbackInv, [Next]_vars PROVE CallbackInv'
  OBVIOUS
<1>1. ASSUME NEW p \in Procs, NEW w \in Writes, Lock(p, w) PROVE CallbackInv'
  <2> DEFINE j == [pc |-> "write", w |-> w, i |-> 0, old |-> bytes]
  <2>1. /\ job' = [job EXCEPT ![p] = j] /\ j.pc = "write" /\ job[p].pc = "idle"
        /\ UNCHANGED <<updates, log, due, reports>>
    BY <1>1 DEF Lock
  <2> HIDE DEF j
  <2> QED
    BY <2>1, CallbacksStay
<1>2. ASSUME NEW p \in Procs, CopyByte(p) PROVE CallbackInv'
  <2>1. job[p] \in [pc : {"write"}, w : Writes, i : Nat, old : Contents]
    BY <1>2, JobKinds DEF CopyByte, IInv, Basics
  <2> DEFINE j == [job[p] EXCEPT !.i = job[p].i + 1]
  <2>2. /\ job' = [job EXCEPT ![p] = j] /\ j.pc = "write" /\ job[p].pc = "write"
        /\ UNCHANGED <<updates, log, due, reports>>
    BY <1>2, <2>1 DEF CopyByte
  <2> HIDE DEF j
  <2> QED
    BY <2>2, CallbacksStay
<1>3. ASSUME NEW p \in Procs, Updates(p) PROVE CallbackInv'
  <2> DEFINE j == [pc |-> "counted", count |-> updates]
  <2>1. /\ job' = [job EXCEPT ![p] = j] /\ j.pc = "counted" /\ job[p].pc = "idle"
        /\ UNCHANGED <<updates, log, due, reports>>
    BY <1>3 DEF Updates
  <2> HIDE DEF j
  <2> QED
    BY <2>1, CallbacksStay
<1>4. ASSUME NEW p \in Procs, RLock(p) PROVE CallbackInv'
  <2> DEFINE j == [pc |-> "read", count |-> job[p].count, i |-> 0, out |-> Zeroed]
  <2>1. /\ job' = [job EXCEPT ![p] = j] /\ j.pc = "read" /\ job[p].pc = "counted"
        /\ UNCHANGED <<updates, log, due, reports>>
    BY <1>4 DEF RLock
  <2> HIDE DEF j
  <2> QED
    BY <2>1, CallbacksStay
<1>5. ASSUME NEW p \in Procs, ReadByte(p) PROVE CallbackInv'
  <2> DEFINE j == [pc |-> "read", count |-> job[p].count, i |-> job[p].i + 1,
                   out |-> [job[p].out EXCEPT ![job[p].i + 1] = bytes[job[p].i + 1]]]
  <2>1. /\ job' = [job EXCEPT ![p] = j] /\ j.pc = "read" /\ job[p].pc = "read"
        /\ UNCHANGED <<updates, log, due, reports>>
    BY <1>5 DEF ReadByte
  <2> HIDE DEF j
  <2> QED
    BY <2>1, CallbacksStay
<1>6. ASSUME NEW p \in Procs, RUnlock(p) PROVE CallbackInv'
  <2>1. /\ job' = [job EXCEPT ![p] = Idle] /\ Idle.pc = "idle" /\ job[p].pc = "read"
        /\ UNCHANGED <<updates, log, due, reports>>
    BY <1>6 DEF RUnlock, Idle
  <2> QED
    BY <2>1, CallbacksStay
<1>7. ASSUME NEW p \in Procs, OnChange(p) PROVE CallbackInv'
  BY <1>7, SameHands DEF OnChange, InHand
<1>8. CASE UNCHANGED vars
  BY <1>8, SameHands DEF vars, InHand
<1> QED
  BY <1>1, <1>2, <1>3, <1>4, <1>5, <1>6, <1>7, <1>8,
     CountCallbacks, UnlockCallbacks, CallbackMade DEF Next

\* What the lock, the log and the reports are in every reachable state.
THEOREM CallbacksInvariant == Spec => [](IInv /\ LogInv /\ CallbackInv)
<1>1. Spec => []IInv
  BY LockInvariant
<1> QED
  BY <1>1, InitLog, NextLog, InitCallbacks, NextCallbacks, PTL DEF Spec

\* Every variable keeps its type, for any constants.
THEOREM TypeCorrect == Spec => []TypeOK
<1>1. IInv /\ LogInv /\ CallbackInv => TypeOK
  <2> SUFFICES ASSUME IInv, LogInv, CallbackInv PROVE TypeOK
    OBVIOUS
  <2>1. updates \in 0..MaxWrites
    BY MaxWritesAssumption DEF IInv, Basics, CallbackInv
  <2> QED
    BY <2>1 DEF IInv, Basics, LogInv, CallbackInv, TypeOK
<1> QED
  BY <1>1, CallbacksInvariant, PTL

\* Every write that owes a callback is reported once, with the contents around that very
\* write, for every number of goroutines and every size.
THEOREM CallbacksReportWrites == Spec => []ReportsAreWrites
<1>1. CallbackInv => ReportsAreWrites
  <2> SUFFICES ASSUME CallbackInv PROVE ReportsAreWrites
    OBVIOUS
  <2> DEFINE owing == {p \in Procs : InHand(p)}
             all == reports \cup {job[p].report : p \in owing}
  <2>1. \A r \in all : OfWrite(r)
    BY DEF CallbackInv
  <2>2. \A n \in due : \E r \in all : r.n = n
    BY DEF CallbackInv
  <2>3. /\ \A p, q \in owing : job[p].report.n = job[q].report.n => p = q
        /\ \A p \in owing, r \in reports : r.n # job[p].report.n
    BY DEF CallbackInv
  <2> QED
    BY <2>1, <2>2, <2>3 DEF ReportsAreWrites, OfWrite
<1> QED
  BY <1>1, CallbacksInvariant, PTL

=============================================================================
