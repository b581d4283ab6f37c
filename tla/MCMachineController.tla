------------------------ MODULE MCMachineController ------------------------
(* MachineController on small sets.  Server ids, machines and workers are  *)
(* interchangeable as long as the foreign servers stay what they are.      *)
EXTENDS MachineRefinement, TLC

Symmetry ==
    Permutations(Worker) \cup Permutations(Machine)
        \cup Permutations(ServerId \ Foreign)
=============================================================================
