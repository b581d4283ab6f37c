-------------------------- MODULE PlacementRefinement --------------------------
(***************************************************************************)
(* A Machine whose name no other cluster uses has what MachineContract     *)
(* promises it, wherever its servers are and whoever else is there.        *)
(***************************************************************************)
EXTENDS Placement

(* The server that a usable ProviderID names. *)
Named(p) == p.parts[2]

OneName(m) == \A n \in Machine \ {m} : ident[n].name # ident[m].name

(* A server that is up and has the name of m. *)
Namesake(m, s) == Up(s) /\ servers[s].name = ident[m].name

(* The contract of one Machine, under the one goroutine that reconciles    *)
(* it; its servers are told by their name.                                 *)
Contract(m) == INSTANCE MachineContract WITH
    Machine <- {m}, AllowLate <- FALSE, Exclusive <- TRUE,
    state <- [n \in {m} |-> obj[n]],
    bound <- [n \in {m} |-> IF Usable(pid[n]) THEN Named(pid[n]) ELSE None],
    owner <- [s \in ServerId |-> IF servers[s].name = ident[m].name THEN m ELSE None],
    live <- {s \in ServerId : Namesake(m, s)},
    stray <- {}

(* Other clusters in the project, failures and restarts are invisible to   *)
(* such a Machine: each step is one of its contract or changes nothing in  *)
(* it.  Needs Secret and class to stay as they are, and ProviderIDs that   *)
(* nobody overwrites.                                                      *)
ImplementsContract ==
    /\ \A m \in Machine : OneName(m) => Contract(m)!Init
    /\ [][\A m \in Machine : OneName(m) =>
            UNCHANGED Contract(m)!contractVars \/ Contract(m)!Next]_vars
=============================================================================
