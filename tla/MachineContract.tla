--------------------------- MODULE MachineContract ---------------------------
(***************************************************************************)
(* What the driver and the machine controller promise together, with no    *)
(* calls, retries, crashes or lost answers in sight.                       *)
(*                                                                         *)
(* Always: a ProviderID is written once, never into an object that is      *)
(* gone, and names a server created for that machine; a server is created  *)
(* for one machine and never comes back; an object with a ProviderID goes  *)
(* away after the server it names.                                         *)
(* Under one controller at a time (Exclusive): a machine has at most one   *)
(* server that its caller waited for, its object goes away only when that  *)
(* one is gone, and no other appears after it.  A server that arrives      *)
(* after its creation was given up (AllowLate) is outside this promise.    *)
(***************************************************************************)
CONSTANTS ServerId, Machine, None, AllowLate, Exclusive

VARIABLES
    state,    \* state[m]: Machine object m is present, deleting or absent
    bound,    \* bound[m]: its ProviderID
    owner,    \* owner[s]: the machine server s was created for
    live,     \* machines' servers that exist
    stray     \* those of them that came after their creation was given up

contractVars == <<state, bound, owner, live, stray>>

Init ==
    /\ state = [m \in Machine |-> "present"]
    /\ bound = [m \in Machine |-> None]
    /\ owner = [s \in ServerId |-> None]
    /\ live = {}
    /\ stray = {}

(* m has no server but those of S. *)
Only(m, S) == Exclusive => {s \in live \ stray : owner[s] = m} \subseteq S

Gains(m, s) ==
    /\ owner[s] = None
    /\ owner' = [owner EXCEPT ![s] = m]
    /\ live' = live \cup {s}
    /\ UNCHANGED <<state, bound>>

(* A server is created for a machine that has none. *)
Provision(m, s) ==
    /\ Exclusive => state[m] # "absent"
    /\ Only(m, {})
    /\ Gains(m, s)
    /\ UNCHANGED stray

(* A creation that was given up takes place after all. *)
Arrive(m, s) ==
    /\ AllowLate
    /\ Gains(m, s)
    /\ stray' = stray \cup {s}

(* A server ceases to exist, on the driver's request or not. *)
Vanish(s) ==
    /\ s \in live
    /\ live' = live \ {s}
    /\ stray' = stray \ {s}
    /\ UNCHANGED <<state, bound, owner>>

(* The machine's server is recorded; it may have vanished meanwhile. *)
Bind(m, s) ==
    /\ state[m] # "absent"
    /\ bound[m] = None
    /\ owner[s] = m
    /\ Only(m, {s})
    /\ bound' = [bound EXCEPT ![m] = s]
    /\ UNCHANGED <<state, owner, live, stray>>

RequestDeletion(m) ==
    /\ state[m] = "present"
    /\ state' = [state EXCEPT ![m] = "deleting"]
    /\ UNCHANGED <<bound, owner, live, stray>>

Forget(m) ==
    /\ state[m] = "deleting"
    /\ bound[m] \notin live
    /\ Only(m, {})
    /\ state' = [state EXCEPT ![m] = "absent"]
    /\ UNCHANGED <<bound, owner, live, stray>>

Next ==
    \/ \E m \in Machine : RequestDeletion(m) \/ Forget(m)
    \/ \E s \in ServerId : Vanish(s)
    \/ \E m \in Machine, s \in ServerId : Provision(m, s) \/ Arrive(m, s) \/ Bind(m, s)

Spec == Init /\ [][Next]_contractVars
=============================================================================
