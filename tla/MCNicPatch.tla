----------------------------- MODULE MCNicPatch -----------------------------
(* NicPatch on small sets, all of whose members are interchangeable. *)
EXTENDS NicPatch, TLC

Symmetry ==
    Permutations(Nic) \cup Permutations(Network) \cup Permutations(Address)
        \cup Permutations(Worker)
=============================================================================
