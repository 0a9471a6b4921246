--------------------------- MODULE MCUpdateEngine ---------------------------
(* UpdateEngine on a small cluster, for TLC.                               *)
EXTENDS UpdateEngine, TLC

\* neither the handlers nor the operation ids are told apart
Symmetry == Permutations(Handlers) \cup Permutations(Requests)
=============================================================================
