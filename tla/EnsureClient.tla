---------------------------- MODULE EnsureClient ----------------------------
(***************************************************************************)
(* Provider.ensureClient (pkg/provider/provider.go): the one IaaS client   *)
(* of a process, built on first use from the service account key of the    *)
(* request that comes first, by goroutines that arrive together.           *)
(*                                                                         *)
(* The field p.client is a Go interface, two machine words: the type and   *)
(* the pointer.  ensureClient compares it with nil, which looks at the     *)
(* type word only, outside the sync.Once that writes it; the two words are *)
(* stored one after the other, in an order the compiler chooses.           *)
(***************************************************************************)
CONSTANTS
    Thread,      \* goroutines
    Key,         \* service account keys that the Secret may hold
    Usable,      \* those NewStackitClient accepts
    NoKey,       \* nil pointer word; also "nothing captured"
    HalfClient   \* type word set, pointer word still nil

ASSUME KeyAssumption ==
    /\ Usable \subseteq Key
    /\ NoKey \notin Key
    /\ HalfClient \notin Key \cup {NoKey}

VARIABLES
    secret,      \* the key now in the Secret
    clientType,  \* type word of p.client: is it set?
    clientPtr,   \* pointer word of p.client: the key its client was built from
    once,        \* p.clientOnce: "new", "running" or "done"
    clientErr,   \* is p.clientErr set?
    captured,    \* p.capturedCredentials
    th           \* th[t]: a goroutine inside ensureClient and the call after it

clientVars == <<clientType, clientPtr, once, clientErr, captured>>
vars == <<secret, clientVars, th>>

(* pc: the next step; key: the argument; warned: did it log the warning;   *)
(* client: what the goroutine found in p.client when it made its call.     *)
ThreadState ==
    [pc : {"idle", "check", "once", "new", "store", "capture", "leave",
           "compare", "return", "use", "used", "failed"},
     key : Key \cup {NoKey},
     warned : BOOLEAN,
     client : Key \cup {NoKey, HalfClient}]

Idle == [pc |-> "idle", key |-> NoKey, warned |-> FALSE, client |-> NoKey]

InOnce(t) == th[t].pc \in {"new", "store", "capture", "leave"}

(* The Once has a runner exactly while it is running. *)
TypeOK ==
    /\ secret \in Key
    /\ clientType \in BOOLEAN
    /\ clientPtr \in Usable \cup {NoKey}
    /\ once \in {"new", "running", "done"}
    /\ clientErr \in BOOLEAN
    /\ captured \in Usable \cup {NoKey}
    /\ th \in [Thread -> ThreadState]
    /\ once = "running" <=> \E t \in Thread : InOnce(t)

Init ==
    /\ secret \in Key
    /\ clientType = FALSE
    /\ clientPtr = NoKey
    /\ once = "new"
    /\ clientErr = FALSE
    /\ captured = NoKey
    /\ th = [t \in Thread |-> Idle]

Step(t, from, to) == th[t].pc = from /\ th' = [th EXCEPT ![t].pc = to]

----------------------------------------------------------------------------
(* A request arrives with the key the Secret holds at that moment. *)
Request(t) ==
    /\ th[t].pc \in {"idle", "used", "failed"}
    /\ th' = [th EXCEPT ![t] = [Idle EXCEPT !.pc = "check", !.key = secret]]
    /\ UNCHANGED <<secret, clientVars>>

(* p.client != nil: the client is there, return nil. *)
CheckClient(t) ==
    /\ Step(t, "check", IF clientType THEN "use" ELSE "once")
    /\ UNCHANGED <<secret, clientVars>>

EnterOnce_Unguarded(t) ==
    /\ once' = "running"
    /\ Step(t, "once", "new")
    /\ UNCHANGED <<secret, clientType, clientPtr, clientErr, captured>>

(* clientOnce.Do: the first to come runs the function; others wait until   *)
(* it is done.                                                             *)
EnterOnce(t) ==
    /\ once = "new"
    /\ once' = "running"
    /\ Step(t, "once", "new")
    /\ UNCHANGED <<secret, clientType, clientPtr, clientErr, captured>>

PassOnce_NotWaiting(t) ==
    /\ once # "new"
    /\ Step(t, "once", "compare")
    /\ UNCHANGED <<secret, clientVars>>

PassOnce(t) ==
    /\ once = "done"
    /\ Step(t, "once", "compare")
    /\ UNCHANGED <<secret, clientVars>>

NewClientFails_NotRemembered(t) ==
    /\ th[t].key \notin Usable
    /\ Step(t, "new", "leave")
    /\ UNCHANGED <<secret, clientVars>>

(* NewStackitClient fails: the error is kept for every later caller. *)
NewClientFails(t) ==
    /\ th[t].key \notin Usable
    /\ clientErr' = TRUE
    /\ Step(t, "new", "leave")
    /\ UNCHANGED <<secret, clientType, clientPtr, once, captured>>

(* The client is built; its first word is stored, either of the two. *)
StoreFirstWord(t) ==
    /\ th[t].key \in Usable
    /\ Step(t, "new", "store")
    /\ \/ clientType' = TRUE /\ UNCHANGED clientPtr
       \/ clientPtr' = th[t].key /\ UNCHANGED clientType
    /\ UNCHANGED <<secret, once, clientErr, captured>>

StoreSecondWord(t) ==
    /\ Step(t, "store", "capture")
    /\ clientType' = TRUE
    /\ clientPtr' = th[t].key
    /\ UNCHANGED <<secret, once, clientErr, captured>>

CaptureCredentials(t) ==
    /\ Step(t, "capture", "leave")
    /\ captured' = th[t].key
    /\ UNCHANGED <<secret, clientType, clientPtr, once, clientErr>>

LeaveOnce_OnlyOnSuccess(t) ==
    /\ Step(t, "leave", "compare")
    /\ once' = IF clientErr THEN once ELSE "done"
    /\ UNCHANGED <<secret, clientType, clientPtr, clientErr, captured>>

LeaveOnce(t) ==
    /\ Step(t, "leave", "compare")
    /\ once' = "done"
    /\ UNCHANGED <<secret, clientType, clientPtr, clientErr, captured>>

(* The defensive check: warn if the key is not the captured one. *)
CompareCredentials(t) ==
    /\ th[t].pc = "compare"
    /\ th' = [th EXCEPT ![t].pc = "return",
                        ![t].warned = ~ clientErr /\ captured # th[t].key]
    /\ UNCHANGED <<secret, clientVars>>

Return(t) ==
    /\ Step(t, "return", IF clientErr THEN "failed" ELSE "use")
    /\ UNCHANGED <<secret, clientVars>>

(* ensureClient returned nil: the handler calls a method of p.client. *)
UseClient(t) ==
    /\ th[t].pc = "use"
    /\ th' = [th EXCEPT ![t].pc = "used",
                        ![t].client = IF clientType /\ clientPtr = NoKey
                                      THEN HalfClient ELSE clientPtr]
    /\ UNCHANGED <<secret, clientVars>>

ThreadStep(t) ==
    \/ CheckClient(t) \/ EnterOnce(t) \/ PassOnce(t)
    \/ NewClientFails(t) \/ StoreFirstWord(t) \/ StoreSecondWord(t)
    \/ CaptureCredentials(t) \/ LeaveOnce(t)
    \/ CompareCredentials(t) \/ Return(t) \/ UseClient(t)

----------------------------------------------------------------------------
(* The Secret is edited: the key is rotated, or mistyped. *)
RotateSecret ==
    /\ secret' \in Key \ {secret}
    /\ UNCHANGED <<clientVars, th>>

(* The pod is restarted: NewProvider returns an empty Provider. *)
Restart ==
    /\ clientType' = FALSE
    /\ clientPtr' = NoKey
    /\ once' = "new"
    /\ clientErr' = FALSE
    /\ captured' = NoKey
    /\ th' = [t \in Thread |-> Idle]
    /\ UNCHANGED secret

Next ==
    \/ \E t \in Thread : Request(t) \/ ThreadStep(t)
    \/ RotateSecret
    \/ Restart

Spec == Init /\ [][Next]_vars

(* Goroutines are scheduled. *)
FairSpec == Spec /\ \A t \in Thread : WF_vars(ThreadStep(t))

----------------------------------------------------------------------------
(* The inductive invariant.  One goroutine runs the function of the Once,  *)
(* and each of its steps finds what the previous ones left.                *)
OnceInv ==
    /\ \A t, u \in Thread : InOnce(t) /\ InOnce(u) => t = u
    /\ clientErr => ~ clientType /\ clientPtr = NoKey
    /\ once = "new" => ~ clientType /\ clientPtr = NoKey /\ ~ clientErr
    /\ once = "done" => clientErr \/ (clientType /\ clientPtr # NoKey)
    /\ \A t \in Thread :
          /\ th[t].pc = "new" => ~ clientType /\ clientPtr = NoKey /\ ~ clientErr
          /\ th[t].pc = "store" => clientPtr = th[t].key \/ (clientType /\ clientPtr = NoKey)
          /\ th[t].pc \in {"store", "capture"} => th[t].key \in Usable /\ ~ clientErr
          /\ th[t].pc = "capture" => clientType /\ clientPtr = th[t].key
          /\ th[t].pc = "leave" => clientErr \/ (clientType /\ clientPtr # NoKey)
          /\ th[t].pc \in {"compare", "return"} => once = "done"

(* Who was let through saw the type word set, and has called the one       *)
(* client or half of it.                                                   *)
UserInv ==
    \A t \in Thread :
        /\ th[t].pc \in {"use", "used"} => clientType
        /\ th[t].pc = "used" <=> th[t].client # NoKey
        /\ th[t].client \in Key => th[t].client = clientPtr

ClientInv == TypeOK /\ OnceInv /\ UserInv

----------------------------------------------------------------------------
(* "Ensures client is initialized exactly once": a client, once there, is  *)
(* the process's client until it is restarted, whatever the Secret says by *)
(* then and however many goroutines came first together.                   *)
ClientNeverReplaced == [][clientPtr # NoKey => clientPtr' \in {clientPtr, NoKey}]_clientPtr

(* Single tenant: all calls made in a process go through a client built    *)
(* from one and the same key, also while the Secret is being rotated.      *)
OneCredential ==
    \A t, u \in Thread :
        th[t].client \in Key /\ th[u].client \in Key => th[t].client = th[u].client

(* A goroutine that got past ensureClient without an error never calls a   *)
(* method of a client that was not built: a failed initialization fails    *)
(* every later request of the process as well, with a good key too.        *)
NoCallWithoutClient ==
    /\ \A t \in Thread : th[t].pc = "used" => th[t].client # NoKey
    /\ clientErr => \A t \in Thread : th[t].pc \notin {"use", "used"}

(* Whoever enters ensureClient leaves it: nobody waits for a Once that is  *)
(* never done, neither after a failed initialization nor after a restart.  *)
EveryRequestReturns ==
    \A t \in Thread : th[t].pc = "check" ~> th[t].pc \in {"used", "failed", "idle"}

(* provider.go:44, "Thread-safe via sync.Once": a goroutine that is let    *)
(* through finds a whole client.                                           *)
ThreadSafe ==
    \A t \in Thread : th[t].client # HalfClient

(* provider.go:67, "warn if credentials changed after initialization": a   *)
(* request that is served with another key than its own has warned.        *)
RotationIsWarnedOf ==
    \A t \in Thread : th[t].pc = "used" /\ th[t].client \in Key /\ th[t].client # th[t].key =>
        th[t].warned
=============================================================================
