------------------------------ MODULE Placement ------------------------------
(***************************************************************************)
(* Where the driver looks for servers.  A ProviderID names a project and a *)
(* server; the region comes from the MachineClass, and the project of a    *)
(* Machine without usable ProviderID from the Secret, as they are at the   *)
(* time of each call.  Class and Secret may be edited between the calls, a *)
(* ProviderID may be overwritten by hand, and other clusters with machines *)
(* and classes of the same names may use the same project.                 *)
(*                                                                         *)
(* Each Machine is the only one of a cluster of its own, whose controller  *)
(* has two goroutines: one that reconciles it, and the safety loop.  The   *)
(* handlers, whose single steps are in Provider, are one step each here:   *)
(* they answer, or fail, perhaps after the service did what they asked,    *)
(* but not later: late creations are in MachineController.                 *)
(***************************************************************************)
EXTENDS Sequences, Naturals

CONSTANTS
    ServerId,
    Machine,     \* Machine objects, each with its cluster
    Name,        \* names of Machines: values of label kubernetes.io/machine
    Class,       \* names of MachineClasses: label kubernetes.io/machineclass
    Project, Region,
    None,        \* no ProviderID; a server id not handed out yet has None for labels
    Blank,       \* ""
    Editable,    \* what users edit: the "project" of Secrets, the "region" of classes
    Spoilt       \* what users overwrite ProviderIDs with

(* A ProviderID: up to "//", and the rest split at "/".  The scheme is     *)
(* "stackit://", something else that starts with "stackit", or "other".    *)
ProviderID ==
    [scheme : {"stackit://", "stackit", "other"},
     parts : Seq(Project \cup ServerId \cup {Blank})]

(* parseProviderID returns no error. *)
Parses(p) ==
    /\ p.scheme = "stackit://"
    /\ Len(p.parts) = 2
    /\ p.parts[1] # Blank /\ p.parts[2] # Blank

ASSUME PlacementAssumption ==
    /\ None \notin ServerId \cup Name \cup Class \cup ProviderID
    /\ Blank \notin ServerId \cup Project
    /\ Editable \subseteq {"project", "region"}
    /\ Spoilt \subseteq {p \in ProviderID : ~ Parses(p)}

Usable(p) == p # None /\ Parses(p)

(* DeleteMachine wants the prefix "stackit" only. *)
Refused(p) == p # None /\ p.scheme = "other"

VARIABLES
    servers,     \* servers[s]: state, place and labels of server s
    ident,       \* ident[m]: name of Machine m and of its class; never changes
    cfg,         \* cfg[m]: project in the Secret and region in the class of m
    obj,         \* obj[m]: Machine object m is present, deleting or absent
    pid,         \* pid[m]: its spec.providerID
    call         \* call[w]: the driver call of goroutine w, or its result

vars == <<servers, ident, cfg, obj, pid, call>>

Place == [project : Project, region : Region]

Identity == [name : Name, class : Class]

(* DELETED by the driver, or GONE without it. *)
Server ==
    [status : {"ABSENT", "UP", "DELETED", "GONE"}, at : Place \cup {None},
     name : Name \cup {None}, class : Class \cup {None}]

FormatProviderID_ServerOnly(project, s) == [scheme |-> "stackit://", parts |-> <<s>>]

FormatProviderID(project, s) == [scheme |-> "stackit://", parts |-> <<project, s>>]

(* One element of a ListMachines answer. *)
Entry == [pid : ProviderID, name : Name \cup {None}]

Worker == Machine \X {"reconcile", "safety"}

(* at: the Secret and class that came with the request; made: the          *)
(* ProviderID CreateMachine returns; seen: what ListMachines returned and  *)
(* the safety loop has not dealt with.                                     *)
Call ==
    [op : {"none", "create", "delete", "status", "list"},
     pc : {"idle", "begin", "done"},
     at : Place \cup {None},
     pid : ProviderID \cup {None},
     code : {"OK", "NotFound", "InvalidArgument", "Error"},
     made : ProviderID \cup {None},
     seen : SUBSET Entry]

NoCall ==
    [op |-> "none", pc |-> "idle", at |-> None, pid |-> None, code |-> "OK",
     made |-> None, seen |-> {}]

Request(op, at, p, seen) ==
    [op |-> op, pc |-> "begin", at |-> at, pid |-> p, code |-> "OK",
     made |-> None, seen |-> seen]

(* What CreateMachine returns parses. *)
TypeOK ==
    /\ servers \in [ServerId -> Server]
    /\ ident \in [Machine -> Identity]
    /\ cfg \in [Machine -> Place]
    /\ obj \in [Machine -> {"present", "deleting", "absent"}]
    /\ pid \in [Machine -> ProviderID \cup {None}]
    /\ call \in [Worker -> Call]
    /\ \A w \in Worker :
          /\ call[w].pc = "begin" => call[w].at \in Place
          /\ call[w].made # None => Parses(call[w].made)

Init ==
    /\ servers = [s \in ServerId |->
                    [status |-> "ABSENT", at |-> None, name |-> None, class |-> None]]
    /\ ident \in [Machine -> Identity]
    /\ cfg \in [Machine -> Place]
    /\ obj = [m \in Machine |-> "present"]
    /\ pid = [m \in Machine |-> None]
    /\ call = [w \in Worker |-> NoCall]

----------------------------------------------------------------------------
(* The service.  Calls name project and region; a server is in one place   *)
(* and answers 404 in every other.                                         *)

Up(s) == servers[s].status = "UP"

Exists(s, at) == Up(s) /\ servers[s].at = at

Fresh == {s \in ServerId : servers[s].status = "ABSENT"}

ListByName_IgnoresLabel(at, name) == {s \in ServerId : Exists(s, at)}

ListByName(at, name) == {s \in ServerId : Exists(s, at) /\ servers[s].name = name}

ListByClass_IgnoresLabel(at, class) == {s \in ServerId : Exists(s, at)}

ListByClass(at, class) == {s \in ServerId : Exists(s, at) /\ servers[s].class = class}

Provisioned(s, at, id) ==
    servers' = [servers EXCEPT ![s] =
        [status |-> "UP", at |-> at, name |-> id.name, class |-> id.class]]

Destroyed(s) == servers' = [servers EXCEPT ![s].status = "DELETED"]

(* Somebody else deletes a server. *)
Vanish(s) ==
    /\ Up(s)
    /\ servers' = [servers EXCEPT ![s].status = "GONE"]
    /\ UNCHANGED <<ident, cfg, obj, pid, call>>

----------------------------------------------------------------------------
(* The driver                                                              *)

Begun(w, op) == call[w].op = op /\ call[w].pc = "begin"

Done(w, op, code) == call[w].op = op /\ call[w].pc = "done" /\ call[w].code = code

Id(w) == ident[w[1]]

Return(w, code) ==
    /\ call' = [call EXCEPT ![w] = [@ EXCEPT !.pc = "done", !.code = code]]
    /\ UNCHANGED <<ident, cfg, obj, pid>>

PlaceOf_FromSecret(p, at) == at

(* The project that a usable ProviderID names, else the Secret's. *)
PlaceOf(p, at) ==
    IF Usable(p) THEN [at EXCEPT !.project = p.parts[1]] ELSE at

CreateAnswers(w) ==
    /\ Begun(w, "create")
    /\ \E s \in ServerId :
          LET at == call[w].at
              found == ListByName(at, Id(w).name)
          IN  /\ \/ found = {} /\ s \in Fresh /\ Provisioned(s, at, Id(w))
                 \/ found = {s} /\ UNCHANGED servers
              /\ call' = [call EXCEPT ![w] =
                    [@ EXCEPT !.pc = "done", !.made = FormatProviderID(at.project, s)]]
    /\ UNCHANGED <<ident, cfg, obj, pid>>

(* Also because several servers have the name. *)
CreateFails(w) ==
    /\ Begun(w, "create")
    /\ \/ UNCHANGED servers
       \/ /\ ListByName(call[w].at, Id(w).name) = {}
          /\ \E s \in Fresh : Provisioned(s, call[w].at, Id(w))
    /\ Return(w, "Error")

DeleteRefuses(w) ==
    /\ Begun(w, "delete")
    /\ Refused(call[w].pid)
    /\ Return(w, "InvalidArgument")
    /\ UNCHANGED servers

DeleteTargets_IdsOnly(w) == IF Usable(call[w].pid) THEN {call[w].pid.parts[2]} ELSE {}

DeleteTargets_UnlessOverwritten(w) ==
    IF Usable(call[w].pid) THEN {call[w].pid.parts[2]}
    ELSE IF call[w].pid = None THEN ListByName(call[w].at, Id(w).name)
    ELSE {}

(* A ProviderID that starts with "stackit" but does not parse counts as    *)
(* none: the server is looked up by name.                                  *)
DeleteTargets(w) ==
    IF Usable(call[w].pid) THEN {call[w].pid.parts[2]}
    ELSE ListByName(call[w].at, Id(w).name)

DeleteBegun(w) == Begun(w, "delete") /\ ~ Refused(call[w].pid)

(* Deletes the server named or found, or finds that there is none (404). *)
DeleteAnswers(w) ==
    /\ DeleteBegun(w)
    /\ \/ DeleteTargets(w) = {} /\ UNCHANGED servers
       \/ \E s \in ServerId :
             /\ DeleteTargets(w) = {s}
             /\ IF Exists(s, PlaceOf(call[w].pid, call[w].at))
                THEN Destroyed(s) ELSE UNCHANGED servers
    /\ Return(w, "OK")

(* Also because several servers have the name. *)
DeleteFails(w) ==
    /\ DeleteBegun(w)
    /\ \/ UNCHANGED servers
       \/ \E s \in ServerId :
             /\ DeleteTargets(w) = {s}
             /\ Exists(s, PlaceOf(call[w].pid, call[w].at))
             /\ Destroyed(s)
    /\ Return(w, "Error")

StatusAnswers(w) ==
    /\ Begun(w, "status")
    /\ LET p == call[w].pid
       IN  \/ p = None /\ Return(w, "NotFound")
           \/ p # None /\ ~ Parses(p) /\ Return(w, "InvalidArgument")
           \/ /\ Usable(p)
              /\ Return(w, IF Exists(p.parts[2], PlaceOf(p, call[w].at))
                           THEN "OK" ELSE "NotFound")
    /\ UNCHANGED servers

StatusFails(w) ==
    /\ Begun(w, "status")
    /\ call[w].pid # None
    /\ Return(w, "Error")
    /\ UNCHANGED servers

(* The Secret's project is in every ProviderID listed. *)
ListAnswers(w) ==
    /\ Begun(w, "list")
    /\ call' = [call EXCEPT ![w] =
          [@ EXCEPT !.pc = "done",
                    !.seen = {[pid |-> FormatProviderID(call[w].at.project, s),
                               name |-> servers[s].name] :
                                 s \in ListByClass(call[w].at, Id(w).class)}]]
    /\ UNCHANGED <<servers, ident, cfg, obj, pid>>

ListFails(w) == Begun(w, "list") /\ Return(w, "Error") /\ UNCHANGED servers

DriverStep(w) ==
    \/ CreateAnswers(w) \/ CreateFails(w)
    \/ DeleteRefuses(w) \/ DeleteAnswers(w) \/ DeleteFails(w)
    \/ StatusAnswers(w) \/ StatusFails(w)
    \/ ListAnswers(w) \/ ListFails(w)

----------------------------------------------------------------------------
(* The machine controllers, as in MachineController, and the users         *)

Issue(w, op, p, seen) ==
    /\ call' = [call EXCEPT ![w] = Request(op, cfg[w[1]], p, seen)]
    /\ UNCHANGED <<servers, ident, cfg, obj, pid>>

Reconcile(m) == <<m, "reconcile">>

Safety(m) == <<m, "safety">>

Current(m) == call[Reconcile(m)].pid = pid[m]

StartStatus(m) ==
    /\ call[Reconcile(m)] = NoCall
    /\ obj[m] = "present"
    /\ Issue(Reconcile(m), "status", pid[m], {})

StartCreate(m) ==
    /\ Done(Reconcile(m), "status", "NotFound")
    /\ call[Reconcile(m)].pid = None
    /\ Issue(Reconcile(m), "create", None, {})

RecordProviderID(m) ==
    /\ Done(Reconcile(m), "create", "OK")
    /\ Current(m)
    /\ pid' = [pid EXCEPT ![m] = call[Reconcile(m)].made]
    /\ call' = [call EXCEPT ![Reconcile(m)] = NoCall]
    /\ UNCHANGED <<servers, ident, cfg, obj>>

StartDelete(m) ==
    /\ call[Reconcile(m)] = NoCall
    /\ obj[m] = "deleting"
    /\ Issue(Reconcile(m), "delete", pid[m], {})

ForgetMachine(m) ==
    /\ Done(Reconcile(m), "delete", "OK")
    /\ Current(m)
    /\ obj' = [obj EXCEPT ![m] = "absent"]
    /\ call' = [call EXCEPT ![Reconcile(m)] = NoCall]
    /\ UNCHANGED <<servers, ident, cfg, pid>>

StartList(m) ==
    /\ call[Safety(m)] = NoCall
    /\ Issue(Safety(m), "list", None, {})

(* No Machine object of the cluster accounts for the server listed. *)
Orphan(m, e) ==
    e.name # ident[m].name \/ obj[m] = "absent" \/ pid[m] \notin {None, e.pid}

StartOrphanDelete(m) ==
    /\ call[Safety(m)].pc = "done"
    /\ \E e \in call[Safety(m)].seen :
          /\ Orphan(m, e)
          /\ Issue(Safety(m), "delete", e.pid, call[Safety(m)].seen \ {e})

(* A result that is to be retried, or was lost; the safety loop is through. *)
EndCall(w) ==
    /\ call[w].pc = "done"
    /\ call' = [call EXCEPT ![w] = NoCall]
    /\ UNCHANGED <<servers, ident, cfg, obj, pid>>

UserDeletes(m) ==
    /\ obj[m] = "present"
    /\ obj' = [obj EXCEPT ![m] = "deleting"]
    /\ UNCHANGED <<servers, ident, cfg, pid, call>>

UserEdits(m) ==
    /\ \E at \in Place :
          /\ \A f \in {"project", "region"} \ Editable : at[f] = cfg[m][f]
          /\ cfg' = [cfg EXCEPT ![m] = at]
    /\ UNCHANGED <<servers, ident, obj, pid, call>>

UserSpoils(m) ==
    /\ obj[m] # "absent"
    /\ \E p \in Spoilt : pid' = [pid EXCEPT ![m] = p]
    /\ UNCHANGED <<servers, ident, cfg, obj, call>>

ClusterStep(m) ==
    \/ StartStatus(m) \/ StartCreate(m) \/ RecordProviderID(m)
    \/ StartDelete(m) \/ ForgetMachine(m)
    \/ StartList(m) \/ StartOrphanDelete(m)
    \/ UserDeletes(m) \/ UserEdits(m) \/ UserSpoils(m)

Next ==
    \/ \E s \in ServerId : Vanish(s)
    \/ \E w \in Worker : DriverStep(w) \/ EndCall(w)
    \/ \E m \in Machine : ClusterStep(m)

Spec == Init /\ [][Next]_vars

----------------------------------------------------------------------------
(* A Machine object with a ProviderID goes away only when the server it    *)
(* names is gone: the ProviderID keeps the project when the Secret is      *)
(* edited.  Needs the region of the class to stay as it is.                *)
DeletedMeansGone ==
    \A m \in Machine : obj[m] = "absent" /\ Usable(pid[m]) =>
        ~ Up(pid[m].parts[2])

(* GetMachineStatus answers NotFound for a ProviderID only if its server   *)
(* is gone, also from another project than the Secret's.  Needs the region *)
(* to stay as it is.                                                       *)
NotFoundMeansGone ==
    \A w \in Worker : Done(w, "status", "NotFound") /\ call[w].pid # None =>
        Parses(call[w].pid) /\ ~ Up(call[w].pid.parts[2])

(* DeleteMachine without usable ProviderID, also one that starts with      *)
(* "stackit" but does not parse, returns OK only if no server of the       *)
(* Machine's name is left where the Secret and the class of the request    *)
(* point to, unless another cluster has a Machine of that name.  Creations *)
(* carried out late, which Iaas has, are not in this module.               *)
DeletedByNameMeansGone ==
    \A m \in Machine :
        LET c == call[Reconcile(m)]
        IN  /\ Done(Reconcile(m), "delete", "OK") /\ ~ Usable(c.pid)
            /\ \A n \in Machine \ {m} : ident[n].name # ident[m].name
            => ListByName(c.at, ident[m].name) = {}

(* No server of a Machine is left in its place once its object is gone,    *)
(* even when its ProviderID was never recorded or was overwritten with     *)
(* one that does not parse, unless another cluster has a Machine of that   *)
(* name.  Needs Secret and class to stay as they are.  A server that comes *)
(* of a creation carried out late would be left; see MachineController.    *)
NoLeak ==
    \A m \in Machine :
        obj[m] = "absent" /\ (\A n \in Machine \ {m} : ident[n].name # ident[m].name) =>
            ListByName(cfg[m], ident[m].name) = {}

(* The server a Machine's ProviderID names is deleted by the driver only   *)
(* once somebody wants the Machine deleted, whatever stale lists the       *)
(* safety loops of all the clusters work from, unless another cluster uses *)
(* the same name for a Machine or a class.                                 *)
WantedSpared ==
    [][\A s \in ServerId, m \in Machine :
          /\ Up(s) /\ servers'[s].status = "DELETED"
          /\ pid[m] = FormatProviderID(servers[s].at.project, s)
          /\ \A n \in Machine \ {m} :
                ident[n].name # ident[m].name /\ ident[n].class # ident[m].class
          => obj[m] # "present"]_vars
=============================================================================
