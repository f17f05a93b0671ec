--------------------------- MODULE MCAssemblyBuffer ---------------------------
(* A small instance of AssemblyBuffer for TLC: two bytes, of two values. *)
EXTENDS AssemblyBuffer, TLC

\* Goroutines are only ever compared for equality.
Symmetry == Permutations(Procs)

MCWrites ==
  {[op |-> "SetBytes", off |-> 0, data |-> <<1, 1>>],
   [op |-> "SetBytes", off |-> 1, data |-> <<0, 0>>],    \* clipped
   [op |-> "SetByte",  off |-> 1, data |-> <<1>>],
   [op |-> "receive",  off |-> 0, data |-> <<0>>],       \* shorter than the assembly
   [op |-> "receive",  off |-> 0, data |-> <<>>]}        \* counted, changes nothing
=============================================================================
