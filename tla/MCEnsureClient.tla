--------------------------- MODULE MCEnsureClient ---------------------------
(* EnsureClient with three goroutines and a Secret that holds one of two   *)
(* good keys or a bad one.                                                 *)
EXTENDS ClientRefinement, TLC

Symmetry == Permutations(Thread) \cup Permutations(Usable)
=============================================================================
