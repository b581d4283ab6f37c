-------------------------- MODULE MachineRefinement --------------------------
(***************************************************************************)
(* How MachineController implements MachineContract, and the invariants    *)
(* that make it do so.                                                     *)
(***************************************************************************)
EXTENDS MachineController

(* The machine each server was created for, the servers of machines that   *)
(* exist, and those of them that came late.                                *)
Owner == [s \in ServerId |-> servers[s].machine]

Live == {s \in ServerId : Exists(s) /\ servers[s].machine # None}

Strays == {s \in ServerId : servers[s].stray}

Contract == INSTANCE MachineContract WITH
    Exclusive <- Serial,
    state <- obj, bound <- pid, owner <- Owner, live <- Live, stray <- Strays

(* The driver under MCM implements the contract: crashes, lost answers,    *)
(* timeouts and retries are invisible.  If controllers overlap, what the   *)
(* contract promises without Exclusive is left.                            *)
ImplementsContract == Contract!Spec

----------------------------------------------------------------------------
(* The inductive invariant, first the part that holds whatever happens.    *)

(* Requests are what the controller issues. *)
RequestShape(c) ==
    /\ c.pc = "idle" <=> c = NoCall
    /\ c.pc = "idle" <=> c.op = "none"
    /\ c.by = "safety" => c.op \in {"list", "delete"}
    /\ c.by = "machine" => c.seen = {}
    /\ c.op = "list" => c.by = "safety" /\ c.pc \in {"begin", "done"}
    /\ c.op = "status" => c.m \in Machine /\ c.pc \in {"begin", "done"}
    /\ c.op = "create" => c.m \in Machine /\ c.pid = None
                              /\ c.pc \in {"begin", "create", "await", "nics", "done"}
    /\ c.op = "delete" => c.pc \in {"begin", "destroy", "gone", "done"}
    /\ c.op = "delete" /\ c.by = "machine" => c.m \in Machine
    /\ c.op = "delete" /\ c.by = "safety" => c.pid # None

Created(s) == servers[s].status # "ABSENT"

(* Ids in a handler's locals are of servers that were created, for the     *)
(* machine the handler works on.                                           *)
HandlesOwnServers(c) ==
    /\ c.op = "create" /\ c.sid # None => servers[c.sid].machine = c.m /\ Created(c.sid)
    /\ c.op = "create" /\ c.pc = "done" /\ c.code = "OK" => c.sid # None
    /\ c.op = "delete" /\ c.by = "machine" /\ c.sid # None =>
          servers[c.sid].machine = c.m /\ Created(c.sid)
    /\ c.op = "delete" /\ c.pid # None /\ c.sid # None => c.sid = c.pid
    /\ c.by = "machine" /\ c.pid # None => servers[c.pid].machine = c.m /\ Created(c.pid)

(* A deletion is only ever issued for an object somebody asked to delete,  *)
(* or for an orphan of the class; and an orphan stays an orphan, however   *)
(* old the list is on which the safety loop found it.                      *)
DeletesUnwanted(c) ==
    /\ c.op = "delete" /\ c.by = "machine" => obj[c.m] # "present"
    /\ c.op = "delete" /\ c.by = "safety" =>
          servers[c.pid].class = "this" /\ Created(c.pid) /\ Orphan(c.pid)
    /\ \A s \in c.seen : servers[s].class = "this" /\ Created(s)

(* Deletion of a ProviderID's server reported as done, and its absence     *)
(* reported by GetMachineStatus, are true for good.                        *)
AnswersMeanGone(c) ==
    /\ c.op = "delete" /\ c.pc = "done" /\ c.code = "OK" /\ c.pid # None =>
          servers[c.pid].status = "GONE"
    /\ c.op = "status" /\ c.pc = "done" /\ c.code = "NotFound" /\ c.pid # None =>
          servers[c.pid].status = "GONE"

CallInv(c) ==
    RequestShape(c) /\ HandlesOwnServers(c) /\ DeletesUnwanted(c) /\ AnswersMeanGone(c)

(* A machine's servers carry the label of the class as well. *)
BothLabels == \A s \in ServerId : servers[s].machine # None => servers[s].class = "this"

(* An id that was never used carries no label; only late calls, where they *)
(* are carried out at all, leave strays, and only with a machine's label.  *)
Origins ==
    /\ late # {} => AllowLate
    /\ \A s \in ServerId :
          /\ Created(s) \/ servers[s].machine = None
          /\ servers[s].stray => AllowLate /\ servers[s].machine # None

GeneralInv ==
    /\ TypeOK
    /\ BothLabels
    /\ PidNamesOwnServer
    /\ DeletedMeansGone
    /\ \A w \in Worker : CallInv(call[w])

----------------------------------------------------------------------------
(* The part that needs Serial.  Strays are left out of it: nobody knows of *)
(* them until they are there.                                              *)

(* One call per machine, about the object as it is now. *)
OneCall ==
    /\ \A v, w \in Worker : \A m \in Machine : Reconciles(v, m) /\ Reconciles(w, m) => v = w
    /\ \A w \in Worker : \A m \in Machine : Reconciles(w, m) =>
          obj[m] # "absent" /\ pid[m] = call[w].pid

(* What a handler knows about the servers of its machine. *)
KnowsServers(c) ==
    c.by = "machine" =>
        /\ c.op = "create" /\ c.pc = "create" => Timely(c.m) = {}
        /\ c.op \in {"create", "delete"} /\ c.sid # None => Timely(c.m) \subseteq {c.sid}
        /\ c.op = "delete" /\ c.pc = "done" /\ c.code = "OK" => Timely(c.m) = {}

OneServer ==
    /\ \A m \in Machine : pid[m] # None => Timely(m) \subseteq {pid[m]}
    /\ \A w \in Worker : KnowsServers(call[w])

SerialInv ==
    /\ GeneralInv
    /\ Origins
    /\ OneCall
    /\ OneServer
    /\ AtMostOneServer
    /\ NoLeak
=============================================================================
