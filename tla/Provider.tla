------------------------------ MODULE Provider ------------------------------
(***************************************************************************)
(* The driver (pkg/provider): CreateMachine, DeleteMachine,                *)
(* GetMachineStatus and ListMachines as handlers that run concurrently in  *)
(* the goroutines (Worker) of the machine controller.  A handler keeps its *)
(* local variables in call[w]; every call of the IaaS client is one step,  *)
(* and between two steps anything else may happen.  A call of the client   *)
(* "answers" or "fails"; when it fails the service may have carried it out *)
(* nevertheless.                                                           *)
(*                                                                         *)
(* ProviderIDs are the server ids they name: here every ProviderID was     *)
(* written by CreateMachine.                                               *)
(***************************************************************************)
EXTENDS Iaas

CONSTANTS
    Worker,      \* goroutines that call the driver
    Ambiguous    \* more than one server carries the machine's name

ASSUME ProviderAssumption == Ambiguous \notin ServerId \cup {None}

VARIABLE call    \* call[w]: the driver call of worker w, or its result

providerVars == <<call>>

Code == {"OK", "InvalidArgument", "NotFound", "ResourceExhausted", "Internal",
         "Unavailable", "DeadlineExceeded", "Unauthenticated"}

(* op, m, pid: the request; by: who issued it; pc: the next step;          *)
(* sid: the server id the handler holds, and at last CreateMachine's       *)
(* ProviderID; code: the result; seen: the servers of the last             *)
(* ListMachines answer, kept by the safety loop;                           *)
(* why: what made a wait end, a history variable no step reads.            *)
Call ==
    [op : {"none", "create", "delete", "status", "list"},
     by : {"machine", "safety"},
     pc : {"idle", "begin", "create", "await", "nics", "destroy", "gone", "done"},
     m : Machine \cup {None},
     pid : ServerId \cup {None},
     sid : ServerId \cup {None},
     code : Code,
     why : {"", "timer", "api", "state"},
     seen : SUBSET ServerId]

NoCall ==
    [op |-> "none", by |-> "machine", pc |-> "idle", m |-> None, pid |-> None,
     sid |-> None, code |-> "OK", why |-> "", seen |-> {}]

Request(op, by, m, p, seen) ==
    [op |-> op, by |-> by, pc |-> "begin", m |-> m, pid |-> p,
     sid |-> None, code |-> "OK", why |-> "", seen |-> seen]

(* The steps that name a server to the service have its id. *)
ProviderTypeOK ==
    /\ call \in [Worker -> Call]
    /\ \A w \in Worker :
          call[w].pc \in {"await", "nics", "destroy", "gone"} => call[w].sid # None

ProviderInit == call = [w \in Worker |-> NoCall]

At(w, op, pc) == call[w].op = op /\ call[w].pc = pc

Done(w, op, code) == At(w, op, "done") /\ call[w].code = code

Goto(w, pc, s) == call' = [call EXCEPT ![w] = [@ EXCEPT !.pc = pc, !.sid = s]]

(* The handler returns; its locals are dropped. *)
ReturnWhy(w, code, why) ==
    call' = [call EXCEPT ![w] =
               [@ EXCEPT !.pc = "done", !.sid = None, !.code = code, !.why = why]]

Return(w, code) == ReturnWhy(w, code, "")

----------------------------------------------------------------------------
(* Errors before the first call of the service: foreign provider name,     *)
(* undecodable or invalid ProviderSpec, no client.                         *)
RejectCodes ==
    [none |-> {},
     create |-> {"InvalidArgument", "Internal"},
     delete |-> {"Unauthenticated", "Internal"},
     status |-> {"Internal"},
     list |-> {"Internal"}]

(* GetMachineStatus looks at the ProviderID before anything that can fail. *)
Reject(w) ==
    /\ call[w].pc = "begin"
    /\ call[w].op = "status" => call[w].pid # None
    /\ \E code \in RejectCodes[call[w].op] : Return(w, code)
    /\ UNCHANGED iaasVars

GetServerByName_NeverFinds(m) == None

(* The server that carries the machine's label, if the service answers. *)
GetServerByName(m) ==
    LET found == ListByMachine(m)
    IN  IF found = {} THEN None
        ELSE IF \E s \in ServerId : found = {s} THEN CHOOSE s \in ServerId : found = {s}
        ELSE Ambiguous

----------------------------------------------------------------------------
(* CreateMachine                                                           *)

CreateLookupAnswers_LeavesExisting(w) ==
    /\ At(w, "create", "begin")
    /\ LET s == GetServerByName(call[w].m)
       IN  IF s = None THEN Goto(w, "create", None) ELSE Return(w, "DeadlineExceeded")
    /\ UNCHANGED iaasVars

CreateLookupAnswers(w) ==
    /\ At(w, "create", "begin")
    /\ LET s == GetServerByName(call[w].m)
       IN  \/ s = None /\ Goto(w, "create", None)
           \/ s \in ServerId /\ Goto(w, "await", s)
           \/ s = Ambiguous /\ Return(w, "Unavailable")
    /\ UNCHANGED iaasVars

CreateLookupFails(w) ==
    /\ At(w, "create", "begin")
    /\ Return(w, "Unavailable")
    /\ UNCHANGED iaasVars

CreateServerAnswers(w) ==
    /\ At(w, "create", "create")
    /\ \E s \in Fresh : Provisioned(s, call[w].m, FALSE) /\ Goto(w, "await", s)
    /\ UNCHANGED late

(* The service refuses (capacity or not), the answer is lost after the     *)
(* server was created, or the call is abandoned and carried out later.     *)
CreateServerFails(w) ==
    /\ At(w, "create", "create")
    /\ \/ /\ \E code \in {"Unavailable", "ResourceExhausted"} : Return(w, code)
          /\ UNCHANGED iaasVars
       \/ /\ \E s \in Fresh : Provisioned(s, call[w].m, FALSE)
          /\ Return(w, "Unavailable")
          /\ UNCHANGED late
       \/ /\ AllowLate
          /\ late' = late \cup {call[w].m}
          /\ Return(w, "Unavailable")
          /\ UNCHANGED servers

(* WaitUntilServerRunning: a poll that finds CREATING or DELETING changes  *)
(* nothing and is a stuttering step.                                       *)
AwaitRunningAnswers(w) ==
    /\ At(w, "create", "await")
    /\ LET s == call[w].sid
       IN  \/ /\ servers[s].status = "ACTIVE"
              /\ Goto(w, "nics", s)
           \/ /\ servers[s].status = "ERROR"
              /\ \E code \in {"ResourceExhausted", "DeadlineExceeded"} :
                    ReturnWhy(w, code, "state")
           \/ /\ ~ Exists(s)
              /\ ReturnWhy(w, "DeadlineExceeded", "api")
    /\ UNCHANGED iaasVars

(* One failing GetServer ends the poll, and so does the timer.  Which code *)
(* an error gets depends on its text alone.                                *)
AwaitRunningFails(w) ==
    /\ At(w, "create", "await")
    /\ \/ \E code \in {"ResourceExhausted", "DeadlineExceeded"} : ReturnWhy(w, code, "api")
       \/ ReturnWhy(w, "DeadlineExceeded", "timer")
    /\ UNCHANGED iaasVars

(* patchNetworkInterfaces as a whole: it needs the server's NICs. *)
PatchNicsAnswers(w) ==
    /\ At(w, "create", "nics")
    /\ Exists(call[w].sid)
    /\ call' = [call EXCEPT ![w] = [@ EXCEPT !.pc = "done", !.code = "OK"]]
    /\ UNCHANGED iaasVars

PatchNicsFails(w) ==
    /\ At(w, "create", "nics")
    /\ Return(w, "Unavailable")
    /\ UNCHANGED iaasVars

CreateMachine(w) ==
    \/ CreateLookupAnswers(w) \/ CreateLookupFails(w)
    \/ CreateServerAnswers(w) \/ CreateServerFails(w)
    \/ AwaitRunningAnswers(w) \/ AwaitRunningFails(w)
    \/ PatchNicsAnswers(w) \/ PatchNicsFails(w)

----------------------------------------------------------------------------
(* DeleteMachine                                                           *)

DeleteByProviderID(w) ==
    /\ At(w, "delete", "begin")
    /\ call[w].pid # None
    /\ Goto(w, "destroy", call[w].pid)
    /\ UNCHANGED iaasVars

DeleteLookupAnswers_ForgetsNone(w) ==
    /\ At(w, "delete", "begin")
    /\ call[w].pid = None
    /\ LET s == GetServerByName(call[w].m)
       IN  \/ s # Ambiguous /\ Goto(w, "destroy", s)
           \/ s = Ambiguous /\ Return(w, "Internal")
    /\ UNCHANGED iaasVars

DeleteLookupAnswers(w) ==
    /\ At(w, "delete", "begin")
    /\ call[w].pid = None
    /\ LET s == GetServerByName(call[w].m)
       IN  \/ s = None /\ Return(w, "OK")
           \/ s \in ServerId /\ Goto(w, "destroy", s)
           \/ s = Ambiguous /\ Return(w, "Internal")
    /\ UNCHANGED iaasVars

DeleteLookupFails_AsDeleted(w) ==
    /\ At(w, "delete", "begin")
    /\ call[w].pid = None
    /\ Return(w, "OK")
    /\ UNCHANGED iaasVars

DeleteLookupFails(w) ==
    /\ At(w, "delete", "begin")
    /\ call[w].pid = None
    /\ Return(w, "Internal")
    /\ UNCHANGED iaasVars

DeleteServerAnswers_NotIdempotent(w) ==
    /\ At(w, "delete", "destroy")
    /\ LET s == call[w].sid
       IN  \/ Exists(s) /\ Deleting(s) /\ Goto(w, "gone", s)
           \/ ~ Exists(s) /\ Return(w, "Unavailable") /\ UNCHANGED servers
    /\ UNCHANGED late

DeleteServerAnswers(w) ==
    /\ At(w, "delete", "destroy")
    /\ LET s == call[w].sid
       IN  \/ Exists(s) /\ Deleting(s) /\ Goto(w, "gone", s)
           \/ ~ Exists(s) /\ Return(w, "OK") /\ UNCHANGED servers
    /\ UNCHANGED late

DeleteServerFails(w) ==
    /\ At(w, "delete", "destroy")
    /\ \/ UNCHANGED servers
       \/ Exists(call[w].sid) /\ Deleting(call[w].sid)
    /\ Return(w, "Internal")
    /\ UNCHANGED late

(* WaitUntilServerDeleted: only 404 counts as deleted. *)
AwaitDeletedAnswers(w) ==
    /\ At(w, "delete", "gone")
    /\ ~ Exists(call[w].sid)
    /\ Return(w, "OK")
    /\ UNCHANGED iaasVars

AwaitDeletedFails_AsDeleted(w) ==
    /\ At(w, "delete", "gone")
    /\ Return(w, "OK")
    /\ UNCHANGED iaasVars

AwaitDeletedFails(w) ==
    /\ At(w, "delete", "gone")
    /\ \E why \in {"api", "timer"} : ReturnWhy(w, "DeadlineExceeded", why)
    /\ UNCHANGED iaasVars

DeleteMachine(w) ==
    \/ DeleteByProviderID(w)
    \/ DeleteLookupAnswers(w) \/ DeleteLookupFails(w)
    \/ DeleteServerAnswers(w) \/ DeleteServerFails(w)
    \/ AwaitDeletedAnswers(w) \/ AwaitDeletedFails(w)

----------------------------------------------------------------------------
(* GetMachineStatus and ListMachines                                       *)

StatusWithoutProviderID(w) ==
    /\ At(w, "status", "begin")
    /\ call[w].pid = None
    /\ Return(w, "NotFound")
    /\ UNCHANGED iaasVars

StatusAnswers(w) ==
    /\ At(w, "status", "begin")
    /\ call[w].pid # None
    /\ Return(w, IF Exists(call[w].pid) THEN "OK" ELSE "NotFound")
    /\ UNCHANGED iaasVars

StatusFails_AsNotFound(w) ==
    /\ At(w, "status", "begin")
    /\ call[w].pid # None
    /\ Return(w, "NotFound")
    /\ UNCHANGED iaasVars

StatusFails(w) ==
    /\ At(w, "status", "begin")
    /\ call[w].pid # None
    /\ Return(w, "Internal")
    /\ UNCHANGED iaasVars

GetMachineStatus(w) ==
    StatusWithoutProviderID(w) \/ StatusAnswers(w) \/ StatusFails(w)

ListAnswers(w) ==
    /\ At(w, "list", "begin")
    /\ call' = [call EXCEPT ![w] = [@ EXCEPT !.pc = "done", !.code = "OK", !.seen = ListByClass]]
    /\ UNCHANGED iaasVars

ListFails(w) ==
    /\ At(w, "list", "begin")
    /\ Return(w, "Internal")
    /\ UNCHANGED iaasVars

ListMachines(w) == ListAnswers(w) \/ ListFails(w)

ProviderNext(w) ==
    Reject(w) \/ CreateMachine(w) \/ DeleteMachine(w) \/ GetMachineStatus(w) \/ ListMachines(w)
=============================================================================
