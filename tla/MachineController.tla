------------------------- MODULE MachineController -------------------------
(***************************************************************************)
(* The driver under the machine controller (MCM) that calls it: Machine    *)
(* objects in the cluster's API server, the workers that reconcile them,   *)
(* and the safety loop that removes orphaned servers.                      *)
(*                                                                         *)
(* MCM is an external library; it is modelled from what the driver says it *)
(* is called for: GetMachineStatus answering NotFound makes MCM call       *)
(* CreateMachine, its result's ProviderID is written into the Machine,     *)
(* DeleteMachine is repeated until it returns OK, and ListMachines feeds   *)
(* the safety loop.  Updates of a Machine object carry its version: an     *)
(* update made from an outdated object is refused by the API server.       *)
(***************************************************************************)
EXTENDS Provider

CONSTANT Serial  \* TRUE: at most one worker reconciles a given machine.
                 \* FALSE: two controllers overlap, e.g. around a leader change.

ASSUME SerialAssumption == Serial \in BOOLEAN

VARIABLES
    obj,         \* obj[m]: Machine object m is present, deleting or absent
    pid          \* pid[m]: spec.providerID of Machine m

vars == <<servers, late, call, obj, pid>>

TypeOK ==
    /\ IaasTypeOK
    /\ ProviderTypeOK
    /\ obj \in [Machine -> {"present", "deleting", "absent"}]
    /\ pid \in [Machine -> ServerId \cup {None}]

Init ==
    /\ IaasInit
    /\ ProviderInit
    /\ obj = [m \in Machine |-> "present"]
    /\ pid = [m \in Machine |-> None]

----------------------------------------------------------------------------
(* Reconciling a machine                                                   *)

Reconciles(w, m) == call[w].pc # "idle" /\ call[w].by = "machine" /\ call[w].m = m

MayReconcile(w, m) ==
    /\ call[w] = NoCall
    /\ Serial => \A v \in Worker : ~ Reconciles(v, m)

UserDeletes(m) ==
    /\ obj[m] = "present"
    /\ obj' = [obj EXCEPT ![m] = "deleting"]
    /\ UNCHANGED <<servers, late, call, pid>>

StartStatus(w, m) ==
    /\ obj[m] = "present"
    /\ MayReconcile(w, m)
    /\ call' = [call EXCEPT ![w] = Request("status", "machine", m, pid[m], {})]
    /\ UNCHANGED <<servers, late, obj, pid>>

(* The machine has no ProviderID: the same worker goes on to create. *)
StartCreate(w) ==
    /\ Done(w, "status", "NotFound")
    /\ call[w].pid = None
    /\ call' = [call EXCEPT ![w] = Request("create", "machine", call[w].m, None, {})]
    /\ UNCHANGED <<servers, late, obj, pid>>

(* The object is as the call's worker read it. *)
Current(w) == pid[call[w].m] = call[w].pid

RecordProviderID(w) ==
    /\ Done(w, "create", "OK")
    /\ Current(w)
    /\ obj[call[w].m] # "absent"
    /\ pid' = [pid EXCEPT ![call[w].m] = call[w].sid]
    /\ call' = [call EXCEPT ![w] = NoCall]
    /\ UNCHANGED <<servers, late, obj>>

StartDelete(w, m) ==
    /\ obj[m] = "deleting"
    /\ MayReconcile(w, m)
    /\ call' = [call EXCEPT ![w] = Request("delete", "machine", m, pid[m], {})]
    /\ UNCHANGED <<servers, late, obj, pid>>

(* DeleteMachine returned OK: the finalizer goes and with it the object. *)
ForgetMachine(w) ==
    /\ Done(w, "delete", "OK")
    /\ call[w].by = "machine"
    /\ Current(w)
    /\ obj' = [obj EXCEPT ![call[w].m] = "absent"]
    /\ call' = [call EXCEPT ![w] = NoCall]
    /\ UNCHANGED <<servers, late, pid>>

----------------------------------------------------------------------------
(* The safety loop: list the class's servers, then delete those that no    *)
(* Machine object accounts for.                                            *)

StartList(w) ==
    /\ call[w] = NoCall
    /\ \A v \in Worker : call[v].by = "machine"
    /\ call' = [call EXCEPT ![w] = Request("list", "safety", None, None, {})]
    /\ UNCHANGED <<servers, late, obj, pid>>

Orphan_NoProviderIDCounts(s) ==
    LET m == servers[s].machine
    IN  m # None => obj[m] = "absent" \/ pid[m] # s

(* ListMachines names the machine of a server by its label.  A Machine     *)
(* without ProviderID may be under creation and keeps its servers.         *)
Orphan(s) ==
    LET m == servers[s].machine
    IN  m # None => obj[m] = "absent" \/ pid[m] \notin {None, s}

StartOrphanDelete(w, s) ==
    /\ call[w].by = "safety"
    /\ call[w].pc = "done"
    /\ s \in call[w].seen
    /\ Orphan(s)
    /\ call' = [call EXCEPT ![w] =
          Request("delete", "safety", servers[s].machine, s, call[w].seen \ {s})]
    /\ UNCHANGED <<servers, late, obj, pid>>

(* The result is of no consequence, is an error to be retried, or the      *)
(* update it asks for was refused or lost; the safety loop is through with *)
(* its list.                                                               *)
EndCall(w) ==
    /\ call[w].pc = "done"
    /\ \A s \in call[w].seen : ~ Orphan(s)
    /\ call' = [call EXCEPT ![w] = NoCall]
    /\ UNCHANGED <<servers, late, obj, pid>>

(* The process dies and is started again: local state is lost. *)
Crash ==
    /\ call' = [w \in Worker |-> NoCall]
    /\ UNCHANGED <<servers, late, obj, pid>>

----------------------------------------------------------------------------
CloudStep == IaasNext /\ UNCHANGED <<call, obj, pid>>

DriverStep(w) == ProviderNext(w) /\ UNCHANGED <<obj, pid>>

ControllerStep(w) ==
    \/ \E m \in Machine : StartStatus(w, m) \/ StartDelete(w, m)
    \/ StartCreate(w) \/ RecordProviderID(w) \/ ForgetMachine(w) \/ EndCall(w)
    \/ StartList(w)
    \/ \E s \in ServerId : StartOrphanDelete(w, s)

Next ==
    \/ CloudStep
    \/ \E w \in Worker : DriverStep(w) \/ ControllerStep(w)
    \/ \E m \in Machine : UserDeletes(m)
    \/ Crash

Spec == Init /\ [][Next]_vars

----------------------------------------------------------------------------
(* Safety                                                                  *)

(* A machine never has two servers whose creation was waited for, whatever *)
(* crashes and lost answers it went through: CreateMachine looks for the   *)
(* server by its label before creating one.  A CreateServer carried out    *)
(* after it was given up is nobody's to prevent; it makes no handler       *)
(* create another.  Needs Serial.                                          *)
AtMostOneServer ==
    \A m \in Machine : \A s, t \in Timely(m) : s = t

(* Once DeleteMachine's OK has removed the Machine object, no server of    *)
(* that machine is left or comes, even if its ProviderID was never         *)
(* recorded, except late ones.  Needs Serial.                              *)
NoLeak ==
    \A m \in Machine : obj[m] = "absent" => Timely(m) = {}

(* A recorded ProviderID names a server created for that very machine. *)
PidNamesOwnServer ==
    \A m \in Machine : pid[m] # None =>
        servers[pid[m]].machine = m /\ servers[pid[m]].status # "ABSENT"

(* An object with a ProviderID is removed only when the server it names is *)
(* gone, even when controllers overlap: an accepted or failed deletion is  *)
(* never taken for a completed one.                                        *)
DeletedMeansGone ==
    \A m \in Machine : obj[m] = "absent" /\ pid[m] # None =>
        servers[pid[m]].status = "GONE"

(* While a server is being created for a machine, nothing the driver does  *)
(* deletes it under CreateMachine's hands: neither the deletion of that    *)
(* machine nor the safety loop with its outdated list.  Needs Serial.      *)
CreateUndisturbed ==
    \A w \in Worker : call[w].op = "create" /\ call[w].sid # None =>
        servers[call[w].sid].status # "DELETING"

(* GetMachineStatus answers NotFound for a ProviderID only if the server   *)
(* is gone for good; a failing service is never reported as a lost server. *)
NotFoundMeansGone ==
    \A w \in Worker : Done(w, "status", "NotFound") /\ call[w].pid # None =>
        servers[call[w].pid].status = "GONE"

(* The driver never has a server deleted that backs a machine nobody asked *)
(* to delete, nor one without the labels of this class, although the       *)
(* safety loop works from a ListMachines answer that may be out of date.   *)
OnlyUnwantedDeleted ==
    [][\A s \in ServerId :
          servers[s].status # "DELETING" /\ servers'[s].status = "DELETING" =>
              /\ servers[s].class = "this"
              /\ \A m \in Machine : pid[m] = s => obj[m] # "present"]_vars

----------------------------------------------------------------------------
(* Liveness                                                                *)

(* Results MCM acts upon, unless its update of the Machine object fails. *)
ActedUpon(w) ==
    /\ call[w].by = "machine"
    /\ \/ Done(w, "status", "NotFound") /\ call[w].pid = None
       \/ (Done(w, "create", "OK") \/ Done(w, "delete", "OK")) /\ Current(w)

(* A call fails that could be answered.  What an answer makes the handler  *)
(* return (two servers of one name, 404 while waiting) is no failure, nor  *)
(* are errors there is no way around (no id left, the server is gone).     *)
CallFails(w) ==
    /\ \/ Reject(w) \/ CreateLookupFails(w) \/ DeleteLookupFails(w) \/ DeleteServerFails(w)
       \/ StatusFails(w) \/ ListFails(w)
       \/ CreateServerFails(w) /\ Fresh # {}
       \/ PatchNicsFails(w) /\ Exists(call[w].sid)
       \/ (AwaitRunningFails(w) \/ AwaitDeletedFails(w)) /\ call'[w].why = "api"
    /\ ~ (CreateLookupAnswers(w) \/ DeleteLookupAnswers(w) \/ AwaitRunningAnswers(w))

(* What a quiet period is free of: restarts, failing calls, failing        *)
(* updates of Machine objects, and polls that outlast a server which is    *)
(* already up.  Timers that expire before stay possible.  A step that ends *)
(* the only call there is looks like a restart, and is none.               *)
Trouble ==
    \/ Crash /\ ~ \E w \in Worker : EndCall(w)
    \/ \E w \in Worker :
          \/ CallFails(w)
          \/ AwaitRunningFails(w) /\ servers[call[w].sid].status = "ACTIVE"
          \/ EndCall(w) /\ ActedUpon(w)

(* A worker goes on with the result of its call. *)
FollowUp(w) ==
    \/ StartCreate(w) \/ RecordProviderID(w) \/ ForgetMachine(w) \/ EndCall(w)
    \/ \E s \in ServerId : StartOrphanDelete(w, s)

(* Trouble ends; goroutines run on (their calls of the client return or    *)
(* their timer fires); MCM re-queues every machine to be deleted and       *)
(* repeats its safety loop; the service completes creations and deletions  *)
(* it accepted.                                                            *)
Fairness ==
    /\ <>[][~ Trouble]_vars
    /\ \A w \in Worker : WF_vars(DriverStep(w)) /\ WF_vars(FollowUp(w))
    /\ \A m \in Machine : WF_vars(\E w \in Worker : StartDelete(w, m))
    /\ WF_vars(\E w \in Worker : StartList(w))
    /\ \A s \in ServerId :
          /\ WF_vars(Boot(s) /\ UNCHANGED <<call, obj, pid>>)
          /\ WF_vars(DeletionCompletes(s) /\ UNCHANGED <<call, obj, pid>>)

FairSpec == Spec /\ Fairness

(* From some time on m has one server at most.  A CreateServer carried out *)
(* late may have left two with its label, which make CreateMachine and     *)
(* DeleteMachine by name fail; who deletes one of them is not said.        *)
FinallyUnambiguous(m) == <>[](\A s, t \in ListByMachine(m) : s = t)

(* Codes of CreateMachine that are documented as "no retry". *)
NoRetry == {"InvalidArgument", "Internal", "ResourceExhausted"}

(* CreateMachine has just answered for m that it is not to be repeated. *)
Refused(m) ==
    \E w \in Worker :
        call[w].op = "create" /\ call[w].pc = "done" /\ call[w].m = m /\ call[w].code \in NoRetry

(* MCM comes back to a machine to be created unless it is told not to: no  *)
(* creation of m is ever refused, and m is re-queued again and again.      *)
Retried(m) ==
    [](~ Refused(m)) /\ WF_vars(\E w \in Worker : StartStatus(w, m))

(* A machine somebody deleted does go away, whatever state its creation    *)
(* was in and even if it had two servers for a while.  Needs Serial.       *)
EventuallyForgotten ==
    \A m \in Machine :
        FinallyUnambiguous(m) => (obj[m] = "deleting" ~> obj[m] = "absent")

(* A server of the class or of a machine that no Machine object accounts   *)
(* for is found by the safety loop and deleted, also one created by a late *)
(* CreateServer.                                                           *)
OrphansCollected ==
    \A s \in ServerId :
        Exists(s) /\ (servers[s].class = "this" \/ servers[s].machine # None) /\ Orphan(s)
            ~> ~ Exists(s)

(* A machine without ProviderID gets one, however often its creation was   *)
(* interrupted and even if it had two servers for a while, as long as it   *)
(* fails with codes that are documented as retried: unless the machine is  *)
(* deleted, its server broke (CreateMachine finds the broken server again  *)
(* each time), or it has none and no id is left.  Needs Serial.            *)
CreationSettles ==
    \A m \in Machine :
        FinallyUnambiguous(m) /\ Retried(m) =>
            (obj[m] = "present" /\ pid[m] = None ~>
                \/ pid[m] # None \/ obj[m] # "present"
                \/ ListByMachine(m) = {} /\ Fresh = {}
                \/ \E s \in ListByMachine(m) : servers[s].status = "ERROR")

----------------------------------------------------------------------------
(* Error codes of create.go:38: DeadlineExceeded says that the server did  *)
(* not come up within the polling timeout.                                 *)
DeadlineMeansTimeout ==
    \A w \in Worker : Done(w, "create", "DeadlineExceeded") => call[w].why = "timer"
=============================================================================
