---------------------------- MODULE AtomicAssembly ----------------------------
(***************************************************************************)
(* What an Assembly promises its callers (assembly.go, docs/eip-adapter.md *)
(* "SetBytes / SetByte are concurrent-safe"): every write and every        *)
(* snapshot takes effect at one instant, each write is counted once, and a *)
(* write owes its callback the contents just before and just after itself. *)
(* Callbacks run after the write, in any order. A write by SetByte owes    *)
(* none: that is what the code does (assembly.go:95), where the comment on *)
(* OnChange ("invoked when the assembly contents change", assembly.go:116) *)
(* has every write reported. AssemblyBuffer implements this specification. *)
(***************************************************************************)
EXTENDS Integers, Sequences

CONSTANTS
  Procs,      \* the goroutines that use one assembly
  Size,       \* of the assembly, in bytes
  Bytes,      \* byte values
  Writes,     \* what callers write: [op, off, data]
  MaxWrites,  \* bound: number of writes
  None        \* nothing owed, nothing read

VARIABLES
  contents,     \* the bytes of the assembly
  version,      \* how often it was written
  hasCallback,  \* OnChange has registered a function
  owed,         \* the callback each goroutine still has to make
  got           \* the snapshot each goroutine read last

avars == <<contents, version, hasCallback, owed, got>>

Contents == [1..Size -> Bytes]

\* copy(a.bytes[off:], data[:n]), for n no longer than data: clipped to the assembly.
Overlay(bs, w, n) ==
  [k \in 1..Size |-> IF k \in (w.off + 1)..(w.off + n) THEN w.data[k - w.off] ELSE bs[k]]

AInit ==
  /\ contents = [k \in 1..Size |-> 0] /\ version = 0 /\ hasCallback = FALSE
  /\ owed = [p \in Procs |-> None] /\ got = [p \in Procs |-> None]

\* SetByte owes no callback, as in the code and unlike the comment on OnChange.
AWrite(p, w) ==
  /\ owed[p] = None /\ version < MaxWrites
  /\ contents' = Overlay(contents, w, Len(w.data))
  /\ version' = version + 1
  /\ owed' = [owed EXCEPT ![p] =
                IF hasCallback /\ w.op # "SetByte"
                THEN [old |-> contents, new |-> contents', n |-> version'] ELSE None]
  /\ UNCHANGED <<hasCallback, got>>

ARead(p) ==
  /\ got' = [got EXCEPT ![p] = contents]
  /\ UNCHANGED <<contents, version, hasCallback, owed>>

ARegister ==
  /\ hasCallback' \in BOOLEAN
  /\ UNCHANGED <<contents, version, owed, got>>

AReport(p) ==
  /\ owed[p] # None
  /\ owed' = [owed EXCEPT ![p] = None]
  /\ UNCHANGED <<contents, version, hasCallback, got>>

ANext ==
  \/ \E p \in Procs : ARead(p) \/ AReport(p) \/ \E w \in Writes : AWrite(p, w)
  \/ ARegister

ASpec == AInit /\ [][ANext]_avars
=============================================================================
