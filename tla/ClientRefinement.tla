-------------------------- MODULE ClientRefinement --------------------------
(***************************************************************************)
(* EnsureClient implements ClientContract: the Once, the fast path beside  *)
(* it and the kept error together are one decision per process.            *)
(***************************************************************************)
EXTENDS EnsureClient

(* NewStackitClient has returned, and it shows in p. *)
Decided == clientErr \/ clientType \/ clientPtr # NoKey

(* Until the pointer is stored, its value is with the goroutine that will. *)
Chosen ==
    IF clientPtr # NoKey THEN clientPtr
    ELSE IF clientType THEN th[CHOOSE t \in Thread : th[t].pc = "store"].key
    ELSE NoKey

PhaseOf(pc) ==
    CASE pc = "idle" -> "idle"
      [] pc = "used" -> "served"
      [] pc = "failed" -> "failed"
      [] OTHER -> "pending"

RequestOf(r) == [phase |-> PhaseOf(r.pc), key |-> r.key, client |-> r.client]

Contract == INSTANCE ClientContract WITH
    decided <- Decided, chosen <- Chosen, request <- [t \in Thread |-> RequestOf(th[t])]

(* Goroutines that arrive together, fail, come late or with another key    *)
(* all end by one and the same attempt to build the client, made with the  *)
(* key of one of them.                                                     *)
ImplementsContract == Contract!Spec
=============================================================================
