---------------------------- MODULE MCPlacement -----------------------------
EXTENDS PlacementRefinement, TLC

(* Without usable scheme, and starting with "stackit" but not parsing. *)
MCSpoilt ==
    {[scheme |-> "other", parts |-> <<Blank>>],
     [scheme |-> "stackit", parts |-> <<Blank>>],
     [scheme |-> "stackit://", parts |-> <<Blank, Blank>>]}

Symmetry ==
    Permutations(ServerId) \cup Permutations(Machine) \cup Permutations(Name)
        \cup Permutations(Class) \cup Permutations(Project) \cup Permutations(Region)
=============================================================================
