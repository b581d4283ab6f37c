--------------------------- MODULE CreationProofs ---------------------------
(***************************************************************************)
(* Nothing the driver does deletes a server under CreateMachine's hands,   *)
(* when at most one worker reconciles a machine.                           *)
(***************************************************************************)
EXTENDS SerialProofs

(* Nobody creates a server for m any more. *)
Settled(m) ==
    /\ obj[m] # "present"
    /\ \A w \in Worker : Reconciles(w, m) => call[w].op = "delete"

(* A server without recorded ProviderID is only deleted together with its  *)
(* machine.                                                                *)
DeletedWithMachine ==
    \A s \in ServerId : \A m \in Machine :
        servers[s].machine = m /\ servers[s].status = "DELETING" /\ pid[m] = None => Settled(m)

----------------------------------------------------------------------------
(* A handler goes on with the request it has. *)
LEMMA HandlerKeepsRequest ==
  ASSUME NEW w \in Worker, TypeOK, DriverStep(w)
  PROVE  /\ call[w].pc # "idle" /\ call'[w].op = call[w].op /\ call'[w].by = call[w].by
         /\ call'[w].m = call[w].m /\ \A v \in Worker \ {w} : call'[v] = call[v]
<1> DEFINE Kept == /\ call'[w].op = call[w].op /\ call'[w].by = call[w].by
                   /\ call'[w].m = call[w].m /\ \A v \in Worker \ {w} : call'[v] = call[v]
<1>1. call \in [Worker -> Call] /\ call[w] \in Call
  BY DEF TypeOK, ProviderTypeOK
<1>2. ASSUME NEW pc, NEW s, Goto(w, pc, s) PROVE Kept
  <2>1. call'[w] = [call[w] EXCEPT !.pc = pc, !.sid = s]
    BY <1>1, <1>2 DEF Goto
  <2> QED
    BY <1>1, <1>2, <2>1 DEF Goto, Call
<1>3. ASSUME NEW code, NEW why, ReturnWhy(w, code, why) PROVE Kept
  <2>1. call'[w] = [call[w] EXCEPT !.pc = "done", !.sid = None, !.code = code, !.why = why]
    BY <1>1, <1>3 DEF ReturnWhy
  <2> QED
    BY <1>1, <1>3, <2>1 DEF ReturnWhy, Call
<1>4. ASSUME NEW code, Return(w, code) PROVE Kept
  BY <1>3, <1>4 DEF Return
<1> HIDE DEF Kept
<1>5. CASE Reject(w)
  <2>1. call[w].op \in {"none", "create", "delete", "status", "list"} /\ call[w].pc # "idle"
    BY <1>1, <1>5 DEF Reject, Call
  <2>2. PICK code : Return(w, code)
    BY <1>5, <2>1 DEF Reject
  <2> QED
    BY <1>4, <2>1, <2>2 DEF Kept
<1>6. CASE CreateMachine(w)
  <2>1. call[w].pc # "idle"
    BY <1>6 DEF CreateMachine, CreateLookupAnswers, CreateLookupFails, CreateServerAnswers,
       CreateServerFails, AwaitRunningAnswers, AwaitRunningFails, PatchNicsAnswers,
       PatchNicsFails, At
  <2>2. ASSUME CreateLookupAnswers(w) \/ CreateLookupFails(w) PROVE Kept
    BY <1>2, <1>4, <2>2 DEF CreateLookupAnswers, CreateLookupFails
  <2>3. ASSUME CreateServerAnswers(w) \/ CreateServerFails(w) PROVE Kept
    BY <1>2, <1>4, <2>3 DEF CreateServerAnswers, CreateServerFails
  <2>4. ASSUME AwaitRunningAnswers(w) PROVE Kept
    BY <1>1, <1>2, <1>3, <2>4 DEF AwaitRunningAnswers
  <2>5. ASSUME AwaitRunningFails(w) PROVE Kept
    BY <1>3, <2>5 DEF AwaitRunningFails
  <2>6. ASSUME PatchNicsFails(w) PROVE Kept
    BY <1>4, <2>6 DEF PatchNicsFails
  <2>7. ASSUME PatchNicsAnswers(w) PROVE Kept
    BY <1>1, <2>7 DEF PatchNicsAnswers, Call, Kept
  <2> QED
    BY <1>6, <2>1, <2>2, <2>3, <2>4, <2>5, <2>6, <2>7 DEF CreateMachine, Kept
<1>7. CASE DeleteMachine(w)
  <2>1. call[w].pc # "idle"
    BY <1>7 DEF DeleteMachine, DeleteByProviderID, DeleteLookupAnswers, DeleteLookupFails,
       DeleteServerAnswers, DeleteServerFails, AwaitDeletedAnswers, AwaitDeletedFails, At
  <2>2. ASSUME DeleteByProviderID(w) \/ DeleteLookupAnswers(w) \/ DeleteLookupFails(w) PROVE Kept
    BY <1>1, <1>2, <1>4, <2>2
       DEF DeleteByProviderID, DeleteLookupAnswers, DeleteLookupFails
  <2>3. ASSUME DeleteServerAnswers(w) \/ DeleteServerFails(w) PROVE Kept
    BY <1>1, <1>2, <1>4, <2>3 DEF DeleteServerAnswers, DeleteServerFails
  <2>4. ASSUME AwaitDeletedAnswers(w) \/ AwaitDeletedFails(w) PROVE Kept
    BY <1>3, <1>4, <2>4 DEF AwaitDeletedAnswers, AwaitDeletedFails
  <2> QED
    BY <1>7, <2>1, <2>2, <2>3, <2>4 DEF DeleteMachine, Kept
<1>8. CASE GetMachineStatus(w) \/ ListMachines(w)
  <2>1. call[w].pc # "idle"
    BY <1>8 DEF GetMachineStatus, StatusWithoutProviderID, StatusAnswers, StatusFails,
       ListMachines, ListAnswers, ListFails, At
  <2>2. ASSUME ListAnswers(w) PROVE Kept
    BY <1>1, <2>2 DEF ListAnswers, Call, Kept
  <2> QED
    BY <1>4, <1>8, <2>1, <2>2 DEF GetMachineStatus, StatusWithoutProviderID, StatusAnswers,
       StatusFails, ListMachines, ListFails, Kept
<1> QED
  BY <1>5, <1>6, <1>7, <1>8 DEF DriverStep, ProviderNext, Kept

(* Once the machine is to go and only its deletion is under way, this      *)
(* stays so.                                                               *)
LEMMA SettledStays ==
  ASSUME NEW m \in Machine, GeneralInv, Settled(m), [Next]_vars PROVE Settled(m)'
<1>1. TypeOK /\ call \in [Worker -> Call]
  BY DEF GeneralInv, TypeOK, ProviderTypeOK
<1>2. CASE UNCHANGED vars \/ CloudStep
  BY <1>2 DEF vars, CloudStep, Settled, Reconciles
<1>3. ASSUME NEW w \in Worker, DriverStep(w) PROVE Settled(m)'
  BY <1>1, <1>3, HandlerKeepsRequest DEF DriverStep, Settled, Reconciles
<1>4. ASSUME NEW n \in Machine, UserDeletes(n) PROVE Settled(m)'
  BY <1>1, <1>4 DEF UserDeletes, TypeOK, Settled, Reconciles
<1>5. CASE Crash
  BY <1>5 DEF Crash, NoCall, Settled, Reconciles
<1>6. ASSUME NEW w \in Worker, ControllerStep(w) PROVE Settled(m)'
  <2>1. ASSUME NEW n \in Machine, StartStatus(w, n) PROVE Settled(m)'
    <3>1. n # m /\ obj' = obj
      BY <2>1 DEF StartStatus, Settled
    <3>2. /\ call'[w].m = n /\ \A v \in Worker \ {w} : call'[v] = call[v]
      BY <1>1, <2>1 DEF StartStatus, Request
    <3> QED
      BY <3>1, <3>2 DEF Settled, Reconciles
  <2>2. ASSUME NEW n \in Machine, StartDelete(w, n) PROVE Settled(m)'
    <3>1. /\ obj' = obj /\ call'[w].op = "delete" /\ \A v \in Worker \ {w} : call'[v] = call[v]
      BY <1>1, <2>2 DEF StartDelete, Request
    <3> QED
      BY <3>1 DEF Settled, Reconciles
  <2>3. CASE StartCreate(w)
    <3>1. /\ call[w].op = "status" /\ call[w].pc = "done" /\ obj' = obj
          /\ call'[w].m = call[w].m /\ \A v \in Worker \ {w} : call'[v] = call[v]
      BY <1>1, <2>3 DEF StartCreate, Done, At, Request
    <3>2. call[w].by = "machine"
      BY <3>1, CallFacts DEF CallInv, RequestShape
    <3>3. call[w].m # m
      BY <3>1, <3>2 DEF Settled, Reconciles
    <3> QED
      BY <3>1, <3>3 DEF Settled, Reconciles
  <2>4. CASE RecordProviderID(w) \/ ForgetMachine(w) \/ EndCall(w)
    <3>1. call'[w].pc = "idle" /\ \A v \in Worker \ {w} : call'[v] = call[v]
      BY <1>1, <2>4, NoCallFacts DEF RecordProviderID, ForgetMachine, EndCall
    <3>2. obj'[m] # "present"
      BY <1>1, <2>4 DEF RecordProviderID, ForgetMachine, EndCall, TypeOK, Settled
    <3> QED
      BY <3>1, <3>2 DEF Settled, Reconciles
  <2>5. CASE StartList(w) \/ \E s \in ServerId : StartOrphanDelete(w, s)
    <3>1. /\ obj' = obj /\ call'[w].by = "safety" /\ \A v \in Worker \ {w} : call'[v] = call[v]
      <4>1. CASE StartList(w)
        BY <1>1, <4>1 DEF StartList, Request
      <4>2. ASSUME NEW s \in ServerId, StartOrphanDelete(w, s)
            PROVE  /\ obj' = obj /\ call'[w].by = "safety"
                   /\ \A v \in Worker \ {w} : call'[v] = call[v]
        BY <1>1, <4>2 DEF StartOrphanDelete, Request
      <4> QED
        BY <2>5, <4>1, <4>2
    <3> QED
      BY <3>1 DEF Settled, Reconciles
  <2> QED
    BY <1>6, <2>1, <2>2, <2>3, <2>4, <2>5 DEF ControllerStep
<1> QED
  BY <1>2, <1>3, <1>4, <1>5, <1>6 DEF Next

(* A deletion is issued by the one handler of a machine that is to go, or  *)
(* for a server whose machine is gone or has another one.                  *)
LEMMA DeletionSettles ==
  ASSUME SerialInv, NEW w \in Worker, NEW s \in ServerId, NEW m \in Machine,
         call[w].op = "delete", call[w].sid = s, servers[s].machine = m, pid[m] = None
  PROVE  Settled(m)
<1>1. /\ GeneralInv /\ OneCall /\ CallInv(call[w]) /\ call[w].by \in {"machine", "safety"}
      /\ call[w].pc # "idle" /\ None \notin ServerId /\ None \notin Machine
  BY CallFacts, IaasAssumption DEF SerialInv, CallInv, RequestShape
<1>2. CASE call[w].by = "machine"
  <2>1. call[w].m = m /\ obj[m] # "present"
    BY <1>1, <1>2 DEF CallInv, HandlesOwnServers, DeletesUnwanted
  <2> QED
    BY <1>1, <1>2, <2>1 DEF OneCall, Reconciles, Settled
<1>3. CASE call[w].by = "safety"
  <2>1. Orphan(s)
    BY <1>1, <1>3 DEF CallInv, RequestShape, HandlesOwnServers, DeletesUnwanted
  <2>2. obj[m] = "absent"
    BY <1>1, <2>1 DEF Orphan
  <2> QED
    BY <1>1, <2>2 DEF OneCall, Settled
<1> QED
  BY <1>1, <1>2, <1>3

(* ProviderIDs are not taken back. *)
LEMMA ProviderIDStays ==
  ASSUME GeneralInv, [Next]_vars, NEW m \in Machine, pid'[m] = None PROVE pid[m] = None
<1>1. pid \in [Machine -> ServerId \cup {None}]
  BY DEF GeneralInv, TypeOK
<1>2. CASE pid' = pid
  BY <1>2
<1>3. ASSUME NEW w \in Worker, RecordProviderID(w) PROVE pid[m] = None
  <2>1. call[w].pid = None
    BY <1>3, CallFacts DEF RecordProviderID, Done, At, CallInv, RequestShape
  <2> QED
    BY <1>1, <1>3, <2>1 DEF RecordProviderID, Current
<1> QED
  BY <1>2, <1>3 DEF Next, vars, CloudStep, DriverStep, ControllerStep, StartStatus, StartDelete,
     StartCreate, ForgetMachine, EndCall, StartList, StartOrphanDelete, UserDeletes, Crash

(* Whatever becomes of a server that is being deleted, its labels stay. *)
LEMMA DeletingKeepsLabels ==
  ASSUME GeneralInv, [Next]_vars, NEW s \in ServerId, servers'[s].status = "DELETING"
  PROVE  servers'[s].machine = servers[s].machine
<1>1. servers \in [ServerId -> Server] /\ ServerChange
  BY StepChanges DEF GeneralInv, TypeOK, IaasTypeOK
<1>2. CASE SetsStatus
  BY <1>1, <1>2 DEF SetsStatus, Server
<1>3. CASE Ends
  BY <1>1, <1>3 DEF Ends, Ended, Server
<1>4. CASE Creates
  BY <1>1, <1>4 DEF Creates, Provisioned, Server
<1> QED
  BY <1>1, <1>2, <1>3, <1>4 DEF ServerChange

LEMMA DeletedWithMachineStays ==
  ASSUME SerialInv, DeletedWithMachine, [Next]_vars, SerialInv' PROVE DeletedWithMachine'
<1> SUFFICES ASSUME NEW s \in ServerId, NEW m \in Machine, servers'[s].machine = m,
                    servers'[s].status = "DELETING", pid'[m] = None
             PROVE  Settled(m)'
  BY DEF DeletedWithMachine
<1>1. pid[m] = None /\ GeneralInv
  BY ProviderIDStays DEF SerialInv
<1>2. servers[s].machine = m
  BY DeletingKeepsLabels DEF SerialInv
<1>3. CASE servers[s].status = "DELETING"
  BY <1>1, <1>2, <1>3, SettledStays DEF DeletedWithMachine
<1>4. CASE servers[s].status # "DELETING"
  <2>1. PICK w \in Worker : call[w].op = "delete" /\ call[w].sid = s
    BY <1>1, <1>4, OnlyDeleteMachineDeletes
  <2> QED
    BY <1>1, <1>2, <2>1, DeletionSettles, SettledStays
<1> QED
  BY <1>3, <1>4

(* While CreateMachine works on a server, the driver does not delete it:   *)
(* neither the deletion of the machine nor the safety loop with its        *)
(* outdated list comes in between, also when two servers carry the label.  *)
THEOREM CreationIsSafe == ASSUME Serial PROVE Spec => []CreateUndisturbed
<1>1. Init => DeletedWithMachine
  BY DEF Init, IaasInit, DeletedWithMachine
<1>2. SerialInv /\ SerialInv' /\ DeletedWithMachine /\ [Next]_vars => DeletedWithMachine'
  BY DeletedWithMachineStays
<1>3. SerialInv /\ DeletedWithMachine => CreateUndisturbed
  <2> SUFFICES ASSUME SerialInv, DeletedWithMachine, NEW w \in Worker, call[w].op = "create",
                      call[w].sid # None, servers[call[w].sid].status = "DELETING"
               PROVE  FALSE
    BY DEF CreateUndisturbed
  <2>1. /\ call[w].by = "machine" /\ call[w].m \in Machine /\ call[w].pid = None
        /\ call[w].pc # "idle" /\ CallInv(call[w]) /\ call[w].sid \in ServerId
    BY CallFacts DEF SerialInv, CallInv, RequestShape, Call
  <2>2. servers[call[w].sid].machine = call[w].m
    BY <2>1 DEF CallInv, HandlesOwnServers
  <2>3. Reconciles(w, call[w].m) /\ pid[call[w].m] = None
    BY <2>1 DEF Reconciles, SerialInv, OneCall
  <2> QED
    BY <2>1, <2>2, <2>3 DEF DeletedWithMachine, Settled
<1> QED
  BY <1>1, <1>2, <1>3, SerialCorrect, PTL DEF Spec
=============================================================================
