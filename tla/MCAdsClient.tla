----------------------------- MODULE MCAdsClient -----------------------------
(* A small instance of AdsClient for TLC: two goroutines, two symbols. *)
EXTENDS AdsClient, TLC

Symmetry ==
  Permutations(Procs) \cup Permutations(Symbols) \cup Permutations(Handles)

\* SymbolEntry objects have no identity beyond who points to them: states that differ
\* only in the numbers of the objects, or in objects nobody points to, are the same. Once
\* overlap holds, no property looks at the other history (lost, from).
View ==
  LET Seen(e) == IF overlap THEN <<entry[e].n>> ELSE <<entry[e].n, entry[e].from>>
      cached == [s \in Symbols |-> IF symbols[s] = 0 THEN <<>> ELSE Seen(symbols[s])]
      held   == [p \in Procs |-> IF op[p].e = 0 THEN <<>> ELSE Seen(op[p].e)]
      shared == [p \in Procs |-> <<{s \in Symbols : symbols[s] = op[p].e},
                                   {q \in Procs : op[q].e = op[p].e}>>]
      calls  == [p \in Procs |-> [op[p] EXCEPT !.e = 0, !.lost = @ /\ ~overlap,
                                               !.h.from = IF overlap THEN 0 ELSE @]]
  IN  <<conn, connected, mu, symbolsMu, cached, held, shared, symbolsLoaded, calls, flight,
        link, given, overlap, panicked>>
=============================================================================
