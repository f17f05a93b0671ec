------------------------ MODULE MCAdapterConnections ------------------------
(* Small instances of AdapterConnections for TLC. *)
EXTENDS AdapterConnections, TLC

\* The usual exclusive-owner pair. 
MCShapes == {{"produce", "consume"}}

\* Sessions and IDs are only ever compared for equality. Connections are not
\* symmetric: they are numbered in the order they were opened.
Symmetry == Permutations(Sessions) \cup Permutations(OTIds) \cup Permutations(TOIds)
=============================================================================
