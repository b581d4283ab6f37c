--------------------------- MODULE ClientContract ---------------------------
(***************************************************************************)
(* What ensureClient promises the handlers, with no goroutines inside it:  *)
(* one of the requests of a process, with the key that came with it,       *)
(* decides once and for all which client there is, or that there is none;  *)
(* every request ends by that decision.  A request that is served may find *)
(* the client half written.                                                *)
(***************************************************************************)
CONSTANTS Thread, Key, Usable, NoKey, HalfClient

VARIABLES
    secret,     \* the key now in the Secret
    decided,    \* was there an attempt to build the client?
    chosen,     \* the key it was built from; NoKey if it could not be
    request     \* request[t]: what t asks, and how it ended

contractVars == <<secret, decided, chosen, request>>

NoRequest == [phase |-> "idle", key |-> NoKey, client |-> NoKey]

Init ==
    /\ secret \in Key
    /\ decided = FALSE
    /\ chosen = NoKey
    /\ request = [t \in Thread |-> NoRequest]

Arrive(t) ==
    /\ request[t].phase # "pending"
    /\ request' = [request EXCEPT ![t] =
                      [phase |-> "pending", key |-> secret, client |-> NoKey]]
    /\ UNCHANGED <<secret, decided, chosen>>

Decide(t) ==
    /\ ~ decided
    /\ request[t].phase = "pending"
    /\ decided' = TRUE
    /\ chosen' = IF request[t].key \in Usable THEN request[t].key ELSE NoKey
    /\ UNCHANGED <<secret, request>>

Serve(t) ==
    /\ decided /\ chosen # NoKey
    /\ request[t].phase = "pending"
    /\ \E c \in {chosen, HalfClient} :
          request' = [request EXCEPT ![t] =
                         [phase |-> "served", key |-> request[t].key, client |-> c]]
    /\ UNCHANGED <<secret, decided, chosen>>

Refuse(t) ==
    /\ decided /\ chosen = NoKey
    /\ request[t].phase = "pending"
    /\ request' = [request EXCEPT ![t] =
                      [phase |-> "failed", key |-> request[t].key, client |-> NoKey]]
    /\ UNCHANGED <<secret, decided, chosen>>

RotateSecret ==
    /\ secret' \in Key \ {secret}
    /\ UNCHANGED <<decided, chosen, request>>

Restart ==
    /\ decided' = FALSE
    /\ chosen' = NoKey
    /\ request' = [t \in Thread |-> NoRequest]
    /\ UNCHANGED secret

Next ==
    \/ \E t \in Thread : Arrive(t) \/ Decide(t) \/ Serve(t) \/ Refuse(t)
    \/ RotateSecret
    \/ Restart

Spec == Init /\ [][Next]_contractVars
=============================================================================
