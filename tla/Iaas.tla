-------------------------------- MODULE Iaas --------------------------------
(***************************************************************************)
(* The STACKIT IaaS service as pkg/client/sdk.go sees it: a table of       *)
(* servers in one project and region, the calls of the StackitClient       *)
(* interface that read or change it, and what the service does on its own. *)
(*                                                                         *)
(* The service is external.  The calls are modelled from the wrapper that  *)
(* is in the repository (what it sends, which answers it tells apart), the *)
(* spontaneous actions from the server states and the 404 answers that the *)
(* polling loops of pkg/provider are written for.                          *)
(*                                                                         *)
(* A server id is used once: ABSENT is an id never handed out, GONE one    *)
(* whose server was deleted.  ServerId bounds the servers ever created.    *)
(***************************************************************************)
CONSTANTS
    ServerId,    \* ids the service hands out
    Machine,     \* names of Machine objects, the values of label kubernetes.io/machine
    None,        \* no machine label; also "no ProviderID" and "no server"
    Foreign,     \* servers of the project that this driver did not create
    AllowLate    \* TRUE: a CreateServer call given up by the client may still
                 \* be carried out by the service, at any later time

ASSUME IaasAssumption ==
    /\ None \notin ServerId
    /\ None \notin Machine
    /\ Foreign \subseteq ServerId
    /\ AllowLate \in BOOLEAN

VARIABLES
    servers,     \* servers[s]: state and labels of server s
    late         \* machines for which an abandoned CreateServer is still under way

iaasVars == <<servers, late>>

Status == {"ABSENT", "CREATING", "ACTIVE", "ERROR", "DELETING", "GONE"}

(* class: is label kubernetes.io/machineclass the name of the driver's class? *)
(* stray: does it exist although its creation was given up before?  A      *)
(* history variable no step reads.                                         *)
Server == [status : Status, machine : Machine \cup {None}, class : {"this", "other"},
           stray : BOOLEAN]

IaasTypeOK ==
    /\ servers \in [ServerId -> Server]
    /\ late \in SUBSET Machine

(* Servers made by hand carry no machine label; some may carry the class's. *)
IaasInit ==
    /\ \E labelled \in SUBSET Foreign :
          servers = [s \in ServerId |->
              [status |-> IF s \in Foreign THEN "ACTIVE" ELSE "ABSENT",
               machine |-> None,
               class |-> IF s \in labelled THEN "this" ELSE "other",
               stray |-> FALSE]]
    /\ late = {}

----------------------------------------------------------------------------
(* What the calls of the client return.                                    *)

(* GetServer and DeleteServer answer 404 for every other id. *)
Exists(s) == servers[s].status \notin {"ABSENT", "GONE"}

Fresh == {s \in ServerId : servers[s].status = "ABSENT"}

ListByMachine_IgnoresLabel(m) == {s \in ServerId : Exists(s)}

(* ListServers with selector kubernetes.io/machine = m. *)
ListByMachine(m) == {s \in ServerId : Exists(s) /\ servers[s].machine = m}

(* Those of them whose creation its caller waited for. *)
Timely(m) == {s \in ListByMachine(m) : ~ servers[s].stray}

ListByClass_IgnoresLabel == {s \in ServerId : Exists(s)}

(* ListServers with selector kubernetes.io/machineclass = the class's name. *)
ListByClass == {s \in ServerId : Exists(s) /\ servers[s].class = "this"}

Provisioned_WithoutMachineLabel(s, m, stray) ==
    servers' = [servers EXCEPT ![s] =
        [status |-> "CREATING", machine |-> None, class |-> "this", stray |-> stray]]

Provisioned_WithoutClassLabel(s, m, stray) ==
    servers' = [servers EXCEPT ![s] =
        [status |-> "CREATING", machine |-> m, class |-> "other", stray |-> stray]]

(* CreateServer carried out: both labels come with the request. *)
Provisioned(s, m, stray) ==
    servers' = [servers EXCEPT ![s] =
        [status |-> "CREATING", machine |-> m, class |-> "this", stray |-> stray]]

(* DeleteServer carried out: deletion is accepted and goes on in the service. *)
Deleting(s) == servers' = [servers EXCEPT ![s].status = "DELETING"]

(* A server is no more; nothing is said of how it was created. *)
Ended(s) ==
    servers' = [servers EXCEPT ![s] = [@ EXCEPT !.status = "GONE", !.stray = FALSE]]

----------------------------------------------------------------------------
(* What the service does on its own.                                       *)

(* A server comes up. *)
Boot(s) ==
    /\ servers[s].status = "CREATING"
    /\ servers' = [servers EXCEPT ![s].status = "ACTIVE"]
    /\ UNCHANGED late

(* A server cannot be built, or breaks later. *)
Break(s) ==
    /\ servers[s].status \in {"CREATING", "ACTIVE"}
    /\ servers' = [servers EXCEPT ![s].status = "ERROR"]
    /\ UNCHANGED late

(* An accepted deletion completes: from now on the id answers 404. *)
DeletionCompletes(s) ==
    /\ servers[s].status = "DELETING"
    /\ Ended(s)
    /\ UNCHANGED late

(* A server is deleted behind the driver's back. *)
Vanish(s) ==
    /\ servers[s].status \in {"CREATING", "ACTIVE", "ERROR"}
    /\ Ended(s)
    /\ UNCHANGED late

(* An abandoned CreateServer call is carried out after all. *)
LateCreate(m, s) ==
    /\ m \in late
    /\ s \in Fresh
    /\ Provisioned(s, m, TRUE)
    /\ late' = late \ {m}

IaasNext ==
    \/ \E s \in ServerId : Boot(s) \/ Break(s) \/ DeletionCompletes(s) \/ Vanish(s)
    \/ \E m \in Machine, s \in ServerId : LateCreate(m, s)
=============================================================================
