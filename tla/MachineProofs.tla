---------------------------- MODULE MachineProofs ----------------------------
(***************************************************************************)
(* Theorems about MachineController for any sets of machines, servers and  *)
(* workers, for overlapping controllers and for late CreateServer calls.   *)
(***************************************************************************)
EXTENDS MachineRefinement, TLAPS

(***************************************************************************)
(* What any step may do to the servers: an id once used stays used, keeps  *)
(* its labels, and what is gone stays gone.                                *)
(***************************************************************************)
ServersEvolve ==
    /\ servers' \in [ServerId -> Server]
    /\ \A s \in ServerId :
          /\ Created(s) => /\ servers'[s].status # "ABSENT"
                           /\ servers'[s].machine = servers[s].machine
                           /\ servers'[s].class = servers[s].class
          /\ servers[s].status = "GONE" => servers'[s].status = "GONE"
          /\ servers'[s].machine # None => servers'[s].class = "this"

(* What any step may do to the Machine objects. *)
ObjectsEvolve ==
    /\ obj' \in [Machine -> {"present", "deleting", "absent"}]
    /\ pid' \in [Machine -> ServerId \cup {None}]
    /\ \A m \in Machine :
          /\ obj[m] = "absent" => obj'[m] = "absent"
          /\ obj[m] # "present" => obj'[m] # "present"
          /\ pid[m] # None => pid'[m] = pid[m]

----------------------------------------------------------------------------
(* The ways call changes.                                                  *)

(* Worker w's request is what it was, and no other worker is concerned. *)
SameRequest(w) ==
    /\ call' \in [Worker -> Call]
    /\ call'[w].op = call[w].op
    /\ call'[w].by = call[w].by
    /\ call'[w].m = call[w].m
    /\ call'[w].pid = call[w].pid
    /\ \A v \in Worker \ {w} : call'[v] = call[v]

(* What may have made a handler return. *)
Reasons == {"", "timer", "api", "state"}

LEMMA GotoCall ==
  ASSUME NEW w \in Worker, NEW s \in ServerId \cup {None},
         NEW pc \in {"create", "await", "nics", "destroy", "gone"},
         call \in [Worker -> Call], Goto(w, pc, s)
  PROVE  /\ SameRequest(w) /\ call'[w].seen = call[w].seen
         /\ call'[w].pc = pc /\ call'[w].sid = s /\ call'[w].code = call[w].code
<1>1. call[w] \in Call
  OBVIOUS
<1>2. [call[w] EXCEPT !.pc = pc, !.sid = s] \in Call
  BY <1>1 DEF Call
<1>3. call'[w] = [call[w] EXCEPT !.pc = pc, !.sid = s]
  BY DEF Goto
<1> QED
  BY <1>1, <1>2, <1>3 DEF Goto, SameRequest, Call

LEMMA ReturnCall ==
  ASSUME NEW w \in Worker, NEW code \in Code, NEW why \in Reasons,
         call \in [Worker -> Call], ReturnWhy(w, code, why)
  PROVE  /\ SameRequest(w) /\ call'[w].seen = call[w].seen
         /\ call'[w].pc = "done" /\ call'[w].sid = None /\ call'[w].code = code
<1> DEFINE r == [call[w] EXCEPT !.pc = "done", !.sid = None, !.code = code, !.why = why]
<1>1. call[w] \in Call
  OBVIOUS
<1>2. r \in Call
  BY <1>1, ZenonT(40) DEF Call, Reasons
<1>3. /\ r.op = call[w].op /\ r.by = call[w].by /\ r.m = call[w].m /\ r.pid = call[w].pid
      /\ r.seen = call[w].seen /\ r.pc = "done" /\ r.sid = None /\ r.code = code
  BY <1>1 DEF Call
<1>4. call' = [call EXCEPT ![w] = r]
  BY DEF ReturnWhy
<1> HIDE DEF r
<1> QED
  BY <1>2, <1>3, <1>4 DEF SameRequest

LEMMA RequestCall ==
  ASSUME NEW op \in {"create", "delete", "status", "list"}, NEW by \in {"machine", "safety"},
         NEW m \in Machine \cup {None}, NEW p \in ServerId \cup {None}, NEW seen \in SUBSET ServerId
  PROVE  Request(op, by, m, p, seen) \in Call
  BY DEF Request, Call, Code

LEMMA NoCallFacts == NoCall \in Call /\ CallInv(NoCall) /\ NoCall.pc = "idle"
  BY DEF NoCall, Call, Code, CallInv, RequestShape, HandlesOwnServers, DeletesUnwanted,
         AnswersMeanGone

LEMMA NameResult ==
  ASSUME NEW m \in Machine, TypeOK
  PROVE  /\ GetServerByName(m) \in ServerId \cup {None, Ambiguous}
         /\ GetServerByName(m) = None => ListByMachine(m) = {}
         /\ GetServerByName(m) \in ServerId => ListByMachine(m) = {GetServerByName(m)}
<1>1. CASE ListByMachine(m) = {}
  BY <1>1, IaasAssumption DEF GetServerByName
<1>2. CASE ListByMachine(m) # {} /\ \E s \in ServerId : ListByMachine(m) = {s}
  <2> DEFINE S == CHOOSE s \in ServerId : ListByMachine(m) = {s}
  <2>1. S \in ServerId /\ ListByMachine(m) = {S}
    BY <1>2
  <2>2. GetServerByName(m) = S
    BY <1>2 DEF GetServerByName
  <2> QED
    BY <2>1, <2>2, IaasAssumption
<1>3. CASE ListByMachine(m) # {} /\ ~ \E s \in ServerId : ListByMachine(m) = {s}
  BY <1>3, ProviderAssumption DEF GetServerByName
<1> QED
  BY <1>1, <1>2, <1>3

----------------------------------------------------------------------------
(* The ways servers change.                                                *)

LEMMA EvolveByNothing ==
  ASSUME TypeOK, BothLabels, UNCHANGED servers PROVE ServersEvolve
  BY DEF TypeOK, IaasTypeOK, BothLabels, ServersEvolve, Created

LEMMA EvolveByStatus ==
  ASSUME TypeOK, BothLabels, NEW s \in ServerId, NEW x \in Status \ {"ABSENT"},
         servers[s].status # "GONE", servers' = [servers EXCEPT ![s].status = x]
  PROVE  ServersEvolve
  BY DEF TypeOK, IaasTypeOK, BothLabels, ServersEvolve, Created, Server

LEMMA EvolveByEnd ==
  ASSUME TypeOK, BothLabels, NEW s \in ServerId, Created(s), Ended(s) PROVE ServersEvolve
<1>1. servers[s] \in Server /\ servers \in [ServerId -> Server]
  BY DEF TypeOK, IaasTypeOK
<1>2. [servers[s] EXCEPT !.status = "GONE", !.stray = FALSE] \in Server
  BY <1>1 DEF Server, Status
<1> QED
  BY <1>1, <1>2 DEF Ended, BothLabels, ServersEvolve, Created, Server

LEMMA EvolveByDeletion ==
  ASSUME TypeOK, BothLabels, NEW s \in ServerId, Exists(s), Deleting(s) PROVE ServersEvolve
<1>1. servers[s].status # "GONE" /\ servers' = [servers EXCEPT ![s].status = "DELETING"]
  BY DEF Exists, Deleting
<1>2. "DELETING" \in Status \ {"ABSENT"}
  BY DEF Status
<1> QED
  BY <1>1, <1>2, EvolveByStatus, Zenon

LEMMA EvolveByCreation ==
  ASSUME TypeOK, BothLabels, NEW s \in Fresh, NEW m \in Machine,
         NEW stray \in BOOLEAN, Provisioned(s, m, stray)
  PROVE  ServersEvolve /\ servers'[s].machine = m /\ servers'[s].status # "ABSENT"
  BY DEF TypeOK, IaasTypeOK, BothLabels, ServersEvolve, Created, Server, Status, Fresh, Provisioned

(* A record that a worker keeps stays right while the world goes on. *)
LEMMA CallInvStable ==
  ASSUME NEW c \in Call, CallInv(c), TypeOK, ServersEvolve, ObjectsEvolve
  PROVE  CallInv(c)'
<1>1. RequestShape(c)'
  BY DEF CallInv, RequestShape
<1>2. HandlesOwnServers(c)'
  BY DEF CallInv, HandlesOwnServers, ServersEvolve, Created, Call
<1>3. DeletesUnwanted(c)'
  <2>1. c.op = "delete" /\ c.by = "machine" => obj'[c.m] # "present"
    BY DEF CallInv, DeletesUnwanted, RequestShape, ObjectsEvolve
  <2>2. \A s \in c.seen : servers'[s].class = "this" /\ servers'[s].status # "ABSENT"
    BY DEF CallInv, DeletesUnwanted, ServersEvolve, Created, Call
  <2>3. ASSUME c.op = "delete", c.by = "safety"
        PROVE  servers'[c.pid].class = "this" /\ servers'[c.pid].status # "ABSENT" /\ Orphan(c.pid)'
    <3>1. c.pid \in ServerId
      BY <2>3 DEF CallInv, RequestShape, Call
    <3>2. servers'[c.pid].machine = servers[c.pid].machine
          /\ servers'[c.pid].class = "this" /\ servers'[c.pid].status # "ABSENT"
      BY <2>3, <3>1 DEF CallInv, DeletesUnwanted, ServersEvolve, Created
    <3>3. servers[c.pid].machine \in Machine \cup {None}
      BY <3>1 DEF TypeOK, IaasTypeOK, Server
    <3>4. Orphan(c.pid)
      BY <2>3 DEF CallInv, DeletesUnwanted
    <3> QED
      BY <3>2, <3>3, <3>4 DEF Orphan, ObjectsEvolve
  <2> QED
    BY <2>1, <2>2, <2>3 DEF DeletesUnwanted, Created
<1>4. AnswersMeanGone(c)'
  BY DEF CallInv, AnswersMeanGone, ServersEvolve, Call
<1> QED
  BY <1>1, <1>2, <1>3, <1>4 DEF CallInv

----------------------------------------------------------------------------
(* The frame of a step of worker w: what is left to show is about w's call. *)

LEMMA Frame ==
  ASSUME NEW w \in Worker, GeneralInv, ServersEvolve, ObjectsEvolve, late' \in SUBSET Machine,
         call' \in [Worker -> Call], \A v \in Worker \ {w} : call'[v] = call[v],
         call'[w].pc \in {"await", "nics", "destroy", "gone"} => call'[w].sid # None,
         CallInv(call[w])', PidNamesOwnServer', DeletedMeansGone'
  PROVE  GeneralInv'
<1>1. TypeOK'
  BY DEF GeneralInv, TypeOK, IaasTypeOK, ProviderTypeOK, ServersEvolve, ObjectsEvolve
<1>2. BothLabels'
  BY DEF BothLabels, ServersEvolve
<1>3. ASSUME NEW v \in Worker \ {w} PROVE CallInv(call[v])'
  <2>1. PICK c \in Call : c = call[v] /\ c = call'[v]
    BY DEF GeneralInv, TypeOK, ProviderTypeOK
  <2>2. CallInv(c)'
    BY <2>1, CallInvStable DEF GeneralInv
  <2> QED
    BY <2>1, <2>2 DEF CallInv, RequestShape, HandlesOwnServers, DeletesUnwanted, AnswersMeanGone,
       Created, Orphan
<1> QED
  BY <1>1, <1>2, <1>3 DEF GeneralInv

(* Steps of the driver and the service leave the Machine objects alone. *)
LEMMA DriverFrame ==
  ASSUME NEW w \in Worker, GeneralInv, ServersEvolve, obj' = obj, pid' = pid,
         late' \in SUBSET Machine,
         call' \in [Worker -> Call], \A v \in Worker \ {w} : call'[v] = call[v],
         call'[w].pc \in {"await", "nics", "destroy", "gone"} => call'[w].sid # None,
         CallInv(call[w])'
  PROVE  GeneralInv'
<1>1. ObjectsEvolve
  BY DEF GeneralInv, TypeOK, ObjectsEvolve
<1>2. PidNamesOwnServer'
  BY DEF GeneralInv, PidNamesOwnServer, ServersEvolve, Created, TypeOK
<1>3. DeletedMeansGone'
  BY DEF GeneralInv, DeletedMeansGone, ServersEvolve, TypeOK
<1> QED
  BY <1>1, <1>2, <1>3, Frame

LEMMA OwnCall ==
  ASSUME NEW w \in Worker, NEW c \in Call, c = call'[w], CallInv(c),
         GeneralInv, ServersEvolve, obj' = obj, pid' = pid, late' \in SUBSET Machine,
         call' \in [Worker -> Call], \A v \in Worker \ {w} : call'[v] = call[v],
         c.pc \in {"await", "nics", "destroy", "gone"} => c.sid # None
  PROVE  GeneralInv'
<1>1. ObjectsEvolve
  BY DEF GeneralInv, TypeOK, ObjectsEvolve
<1>2. CallInv(c)'
  BY <1>1, CallInvStable DEF GeneralInv
<1>3. CallInv(call[w])'
  BY <1>2 DEF CallInv, RequestShape, HandlesOwnServers, DeletesUnwanted, AnswersMeanGone,
     Created, Orphan
<1> QED
  BY <1>3, DriverFrame

(* A handler returns: not with an id, and with no false claim. *)
LEMMA ReturnStep ==
  ASSUME NEW w \in Worker, NEW code \in Code, NEW why \in Reasons,
         ReturnWhy(w, code, why),
         GeneralInv, ServersEvolve, obj' = obj, pid' = pid, late' \in SUBSET Machine,
         call[w].op # "none",
         call[w].op = "create" => code # "OK",
         call[w].op = "delete" /\ code = "OK" /\ call[w].pid # None =>
             servers[call[w].pid].status = "GONE",
         call[w].op = "status" /\ code = "NotFound" /\ call[w].pid # None =>
             servers[call[w].pid].status = "GONE"
  PROVE  GeneralInv'
<1>1. /\ SameRequest(w) /\ call'[w].seen = call[w].seen
      /\ call'[w].pc = "done" /\ call'[w].sid = None /\ call'[w].code = code
  <2>1. call \in [Worker -> Call]
    BY DEF GeneralInv, TypeOK, ProviderTypeOK
  <2> QED
    BY <2>1, ReturnCall, Zenon
<1>2. PICK c \in Call : c = call'[w]
  BY <1>1 DEF SameRequest
<1>3. CallInv(c)
  <2>1. CallInv(call[w]) /\ call[w] \in Call
    BY DEF GeneralInv, TypeOK, ProviderTypeOK
  <2>2. RequestShape(c)
    BY <1>1, <1>2, <2>1, NoCallFacts DEF CallInv, RequestShape, SameRequest
  <2>3. HandlesOwnServers(c) /\ AnswersMeanGone(c)
    BY <1>1, <1>2, <2>1 DEF CallInv, HandlesOwnServers, AnswersMeanGone, SameRequest
  <2>4. DeletesUnwanted(c)
    BY <1>1, <1>2, <2>1 DEF CallInv, DeletesUnwanted, SameRequest
  <2> QED
    BY <2>2, <2>3, <2>4 DEF CallInv
<1> QED
  BY <1>1, <1>2, <1>3, OwnCall DEF SameRequest

(* A handler goes on, with no id or with one of a server of its machine. *)
LEMMA GotoStep ==
  ASSUME NEW w \in Worker, NEW s \in ServerId \cup {None},
         NEW pc \in {"create", "await", "nics", "destroy", "gone"}, Goto(w, pc, s),
         GeneralInv, ServersEvolve, obj' = obj, pid' = pid, late' \in SUBSET Machine,
         call[w].op = IF pc \in {"destroy", "gone"} THEN "delete" ELSE "create",
         pc # "create" => s # None,
         call[w].by = "machine" /\ s # None =>
             servers'[s].machine = call[w].m /\ servers'[s].status # "ABSENT",
         call[w].op = "delete" /\ call[w].pid # None => s = call[w].pid
  PROVE  GeneralInv'
<1>1. /\ SameRequest(w) /\ call'[w].seen = call[w].seen
      /\ call'[w].pc = pc /\ call'[w].sid = s /\ call'[w].code = call[w].code
  <2>1. call \in [Worker -> Call]
    BY DEF GeneralInv, TypeOK, ProviderTypeOK
  <2> QED
    BY <2>1, GotoCall, Zenon
<1>2. ObjectsEvolve
  BY DEF GeneralInv, TypeOK, ObjectsEvolve
<1>3. CallInv(call[w])'
  <2>1. PICK c \in Call : c = call[w]
    BY DEF GeneralInv, TypeOK, ProviderTypeOK
  <2>2. CallInv(c)
    BY <2>1 DEF GeneralInv
  <2>3. CallInv(c)'
    BY <1>2, <2>2, CallInvStable DEF GeneralInv
  <2>4. RequestShape(call[w])'
    BY <1>1, <2>1, <2>2, NoCallFacts DEF CallInv, RequestShape, SameRequest
  <2>5. HandlesOwnServers(call[w])'
    <3>1. c.by \in {"machine", "safety"}
      BY DEF Call
    <3> QED
      BY <1>1, <2>1, <2>2, <2>3, <3>1
         DEF CallInv, RequestShape, HandlesOwnServers, SameRequest, Created
  <2>6. AnswersMeanGone(call[w])'
    BY <1>1 DEF AnswersMeanGone
  <2>7. DeletesUnwanted(call[w])'
    BY <1>1, <2>1, <2>3 DEF CallInv, DeletesUnwanted, SameRequest, Created, Orphan
  <2> QED
    BY <2>4, <2>5, <2>6, <2>7 DEF CallInv
<1> QED
  BY <1>1, <1>3, DriverFrame DEF SameRequest

----------------------------------------------------------------------------
(* The steps of the driver, handler by handler.                            *)

(* What GeneralInv says of w's call, in the form the steps below need it. *)
LEMMA CallFacts ==
  ASSUME NEW w \in Worker, GeneralInv
  PROVE  /\ TypeOK /\ BothLabels
         /\ call[w] \in Call /\ CallInv(call[w]) /\ late \in SUBSET Machine
         /\ call[w].pc \in {"await", "nics", "destroy", "gone"} => call[w].sid \in ServerId
         /\ call[w].by \in {"machine", "safety"}
         /\ call[w].pid \in ServerId \cup {None}
         /\ call[w].op = "create" => call[w].by = "machine" /\ call[w].m \in Machine
         /\ call[w].op \in {"create", "delete"} /\ call[w].by = "machine" => call[w].m \in Machine
<1>1. call[w] \in Call /\ CallInv(call[w]) /\ TypeOK /\ BothLabels
  BY DEF GeneralInv, TypeOK, ProviderTypeOK
<1> QED
  BY <1>1 DEF TypeOK, IaasTypeOK, ProviderTypeOK, CallInv, RequestShape, Call

(* The server a deletion names was created before. *)
LEMMA DeletionTarget ==
  ASSUME NEW w \in Worker, GeneralInv, call[w].op = "delete"
  PROVE  /\ call[w].pid # None => Created(call[w].pid)
         /\ call[w].sid # None => Created(call[w].sid)
         /\ call[w].sid # None /\ call[w].pid # None => call[w].sid = call[w].pid
         /\ call[w].by = "machine" /\ call[w].sid # None => servers[call[w].sid].machine = call[w].m
         /\ call[w].by = "machine" /\ call[w].pid # None => servers[call[w].pid].machine = call[w].m
<1>1. CallInv(call[w]) /\ call[w].by \in {"machine", "safety"}
  BY CallFacts
<1> QED
  BY <1>1 DEF CallInv, RequestShape, HandlesOwnServers, DeletesUnwanted

LEMMA RejectKeeps ==
  ASSUME NEW w \in Worker, GeneralInv, Reject(w), obj' = obj, pid' = pid PROVE GeneralInv'
<1>1. PICK code \in RejectCodes[call[w].op] : Return(w, code)
  BY DEF Reject
<1>2. /\ call[w].op \in {"none", "create", "delete", "status", "list"}
      /\ servers' = servers /\ late' = late /\ call[w].pc = "begin"
  BY CallFacts DEF Reject, iaasVars, Call
<1>3. code \in Code \ {"OK", "NotFound"} /\ call[w].op # "none"
  BY <1>1, <1>2 DEF RejectCodes, Code
<1>4. ServersEvolve
  BY <1>2, CallFacts, EvolveByNothing
<1>5. ReturnWhy(w, code, "")
  BY <1>1 DEF Return
<1> QED
  BY <1>2, <1>3, <1>4, <1>5, CallFacts, ReturnStep DEF Reasons

(* Every step that returns an error and lets servers evolve. *)
LEMMA FailureKeeps ==
  ASSUME NEW w \in Worker, NEW code \in {"Unavailable", "ResourceExhausted", "DeadlineExceeded", "Internal"},
         NEW why \in Reasons, ReturnWhy(w, code, why),
         GeneralInv, ServersEvolve, obj' = obj, pid' = pid, late' \in SUBSET Machine,
         call[w].op # "none"
  PROVE  GeneralInv'
<1>1. code \in Code /\ code # "OK" /\ code # "NotFound"
  BY DEF Code
<1> QED
  BY <1>1, ReturnStep

LEMMA CreateKeeps ==
  ASSUME NEW w \in Worker, GeneralInv, CreateMachine(w), obj' = obj, pid' = pid PROVE GeneralInv'
<1>0. /\ TypeOK /\ BothLabels /\ late \in SUBSET Machine
      /\ call[w].op = "create" /\ call[w].by = "machine" /\ call[w].m \in Machine
      /\ call[w].pc \in {"await", "nics"} => call[w].sid \in ServerId
  BY CallFacts DEF CreateMachine, CreateLookupAnswers, CreateLookupFails, CreateServerAnswers,
     CreateServerFails, AwaitRunningAnswers, AwaitRunningFails, PatchNicsAnswers, PatchNicsFails, At
<1>00. UNCHANGED iaasVars => ServersEvolve /\ late' \in SUBSET Machine
  BY <1>0, EvolveByNothing DEF iaasVars
<1>1. CASE CreateLookupAnswers(w)
  <2> DEFINE s == GetServerByName(call[w].m)
  <2>1. UNCHANGED iaasVars
    BY <1>1 DEF CreateLookupAnswers
  <2>2. CASE s = None /\ Goto(w, "create", None)
    BY <1>0, <1>00, <2>1, <2>2, GotoStep
  <2>3. CASE s \in ServerId /\ Goto(w, "await", s)
    <3>1. servers[s].machine = call[w].m /\ servers[s].status # "ABSENT"
      BY <1>0, <2>3, NameResult DEF ListByMachine, Exists
    <3>2. servers' = servers
      BY <2>1 DEF iaasVars
    <3> HIDE DEF s
    <3> QED
      BY <1>0, <1>00, <2>1, <2>3, <3>1, <3>2, GotoStep, IaasAssumption
  <2>4. CASE Return(w, "Unavailable")
    BY <1>0, <1>00, <2>1, <2>4, FailureKeeps DEF Return, Reasons
  <2> QED
    BY <1>1, <2>2, <2>3, <2>4 DEF CreateLookupAnswers
<1>2. CASE CreateLookupFails(w)
  BY <1>0, <1>00, <1>2, FailureKeeps DEF CreateLookupFails, Return, Reasons
<1>3. CASE CreateServerAnswers(w)
  <2>1. PICK s \in Fresh : Provisioned(s, call[w].m, FALSE) /\ Goto(w, "await", s)
    BY <1>3 DEF CreateServerAnswers
  <2>2. ServersEvolve /\ servers'[s].machine = call[w].m /\ servers'[s].status # "ABSENT"
    BY <1>0, <2>1, EvolveByCreation
  <2>3. s \in ServerId /\ s # None
    BY IaasAssumption DEF Fresh
  <2>4. late' \in SUBSET Machine
    BY <1>0, <1>3 DEF CreateServerAnswers
  <2> QED
    BY <1>0, <2>1, <2>2, <2>3, <2>4, GotoStep
<1>4. CASE CreateServerFails(w)
  <2>1. ASSUME NEW code \in {"Unavailable", "ResourceExhausted"}, Return(w, code), UNCHANGED iaasVars
        PROVE  GeneralInv'
    BY <1>0, <1>00, <2>1, FailureKeeps DEF Return, Reasons
  <2>2. ASSUME NEW s \in Fresh, Provisioned(s, call[w].m, FALSE), Return(w, "Unavailable"), UNCHANGED late
        PROVE  GeneralInv'
    <3>1. ServersEvolve
      BY <1>0, <2>2, EvolveByCreation
    <3> QED
      BY <1>0, <2>2, <3>1, FailureKeeps DEF Return, Reasons
  <2>3. ASSUME late' = late \cup {call[w].m}, Return(w, "Unavailable"), UNCHANGED servers
        PROVE  GeneralInv'
    <3>1. ServersEvolve /\ late' \in SUBSET Machine
      BY <1>0, <2>3, EvolveByNothing
    <3> QED
      BY <1>0, <2>3, <3>1, FailureKeeps DEF Return, Reasons
  <2> QED
    BY <1>4, <2>1, <2>2, <2>3 DEF CreateServerFails
<1>5. CASE AwaitRunningAnswers(w)
  <2>1. /\ UNCHANGED iaasVars /\ servers' = servers
        /\ call[w].sid \in ServerId /\ call[w].sid # None
    BY <1>0, <1>5, IaasAssumption DEF AwaitRunningAnswers, At, iaasVars
  <2>2. CASE Goto(w, "nics", call[w].sid)
    <3>1. servers[call[w].sid].machine = call[w].m /\ servers[call[w].sid].status # "ABSENT"
      BY <1>0, <2>1, CallFacts DEF CallInv, HandlesOwnServers, Created
    <3> QED
      BY <1>0, <1>00, <2>1, <2>2, <3>1, GotoStep
  <2>3. ASSUME NEW code \in {"ResourceExhausted", "DeadlineExceeded"}, NEW why \in {"state", "api"},
               ReturnWhy(w, code, why)
        PROVE  GeneralInv'
    BY <1>0, <1>00, <2>1, <2>3, FailureKeeps DEF Reasons
  <2> QED
    BY <1>5, <2>2, <2>3 DEF AwaitRunningAnswers
<1>6. CASE AwaitRunningFails(w)
  <2>1. PICK code \in {"ResourceExhausted", "DeadlineExceeded"}, why \in {"api", "timer"} :
          ReturnWhy(w, code, why)
    BY <1>6 DEF AwaitRunningFails
  <2> QED
    BY <1>0, <1>00, <1>6, <2>1, FailureKeeps DEF AwaitRunningFails, Reasons
<1>8. CASE PatchNicsFails(w)
  BY <1>0, <1>00, <1>8, FailureKeeps DEF PatchNicsFails, Return, Reasons
<1>7. CASE PatchNicsAnswers(w)
  <2> DEFINE r == [call[w] EXCEPT !.pc = "done", !.code = "OK"]
  <2>1. call[w] \in Call /\ CallInv(call[w]) /\ call[w].sid \in ServerId /\ call[w].pc = "nics"
    BY <1>0, <1>7, CallFacts DEF PatchNicsAnswers, At
  <2>2. r \in Call
    BY <2>1 DEF Call, Code
  <2>3. r.pc = "done" /\ r.code = "OK" /\ r.sid = call[w].sid /\ r.op = "create"
        /\ r.by = call[w].by /\ r.m = call[w].m /\ r.pid = call[w].pid /\ r.seen = call[w].seen
    BY <1>0, <2>1 DEF Call
  <2>4. call' = [call EXCEPT ![w] = r] /\ UNCHANGED iaasVars
    BY <1>7 DEF PatchNicsAnswers
  <2> HIDE DEF r
  <2>5. call' \in [Worker -> Call] /\ call'[w] = r /\ \A v \in Worker \ {w} : call'[v] = call[v]
    BY <1>0, <2>2, <2>4 DEF TypeOK, ProviderTypeOK
  <2>6. RequestShape(r)
    BY <1>0, <2>1, <2>3, NoCallFacts DEF CallInv, RequestShape
  <2>7. HandlesOwnServers(r) /\ AnswersMeanGone(r) /\ DeletesUnwanted(r)
    BY <1>0, <2>1, <2>3, IaasAssumption
       DEF CallInv, RequestShape, HandlesOwnServers, AnswersMeanGone, DeletesUnwanted
  <2>8. CallInv(r)
    BY <2>6, <2>7 DEF CallInv
  <2> QED
    BY <1>00, <2>2, <2>3, <2>4, <2>5, <2>8, OwnCall
<1> QED
  BY <1>1, <1>2, <1>3, <1>4, <1>5, <1>6, <1>7, <1>8 DEF CreateMachine

LEMMA DeleteKeeps ==
  ASSUME NEW w \in Worker, GeneralInv, DeleteMachine(w), obj' = obj, pid' = pid PROVE GeneralInv'
<1>0. /\ TypeOK /\ BothLabels /\ late \in SUBSET Machine
      /\ call[w].op = "delete" /\ call[w].pid \in ServerId \cup {None}
      /\ call[w].by \in {"machine", "safety"}
      /\ call[w].by = "machine" => call[w].m \in Machine
      /\ call[w].by = "safety" => call[w].pid # None
      /\ call[w].pc \in {"destroy", "gone"} => call[w].sid \in ServerId
  BY CallFacts DEF DeleteMachine, DeleteByProviderID, DeleteLookupAnswers, DeleteLookupFails,
     DeleteServerAnswers, DeleteServerFails, AwaitDeletedAnswers, AwaitDeletedFails, At,
     CallInv, RequestShape
<1>00. UNCHANGED iaasVars => ServersEvolve /\ late' \in SUBSET Machine /\ servers' = servers
  BY <1>0, EvolveByNothing DEF iaasVars
(* An id that answers 404 is of a server that is gone. *)
<1>000. ASSUME call[w].sid \in ServerId, ~ Exists(call[w].sid)
        PROVE  call[w].pid # None => servers[call[w].pid].status = "GONE"
  BY <1>0, <1>000, DeletionTarget, IaasAssumption DEF Exists, Created
<1>1. CASE DeleteByProviderID(w)
  <2>1. Goto(w, "destroy", call[w].pid) /\ UNCHANGED iaasVars /\ call[w].pid \in ServerId
    BY <1>0, <1>1 DEF DeleteByProviderID
  <2>2. call[w].by = "machine" =>
          servers[call[w].pid].machine = call[w].m /\ servers[call[w].pid].status # "ABSENT"
    BY <1>0, <1>1, DeletionTarget DEF DeleteByProviderID, Created
  <2> QED
    BY <1>0, <1>00, <2>1, <2>2, IaasAssumption, GotoStep
<1>2. CASE DeleteLookupAnswers(w)
  <2> DEFINE s == GetServerByName(call[w].m)
  <2>1. UNCHANGED iaasVars /\ call[w].pid = None /\ call[w].m \in Machine
    BY <1>0, <1>2 DEF DeleteLookupAnswers
  <2>2. CASE Return(w, "OK")
    BY <1>0, <1>00, <2>1, <2>2, ReturnStep DEF Return, Code, Reasons
  <2>3. CASE s \in ServerId /\ Goto(w, "destroy", s)
    <3>1. servers[s].machine = call[w].m /\ servers[s].status # "ABSENT"
      BY <1>0, <2>1, <2>3, NameResult DEF ListByMachine, Exists
    <3> HIDE DEF s
    <3> QED
      BY <1>0, <1>00, <2>1, <2>3, <3>1, GotoStep, IaasAssumption
  <2>4. CASE Return(w, "Internal")
    BY <1>0, <1>00, <2>1, <2>4, FailureKeeps DEF Return, Reasons
  <2> QED
    BY <1>2, <2>2, <2>3, <2>4 DEF DeleteLookupAnswers
<1>3. CASE DeleteLookupFails(w)
  BY <1>0, <1>00, <1>3, FailureKeeps DEF DeleteLookupFails, Return, Reasons
<1>4. CASE DeleteServerAnswers(w)
  <2>1. late' \in SUBSET Machine /\ call[w].sid \in ServerId
    BY <1>0, <1>4 DEF DeleteServerAnswers, At
  <2>2. CASE Exists(call[w].sid) /\ Deleting(call[w].sid) /\ Goto(w, "gone", call[w].sid)
    <3>1. ServersEvolve
      BY <1>0, <2>1, <2>2, EvolveByDeletion
    <3>2. Created(call[w].sid) /\ (call[w].by = "machine" => servers[call[w].sid].machine = call[w].m)
          /\ (call[w].pid # None => call[w].sid = call[w].pid)
      BY <1>0, <2>1, DeletionTarget, IaasAssumption
    <3>3. servers'[call[w].sid].machine = servers[call[w].sid].machine
          /\ servers'[call[w].sid].status # "ABSENT"
      BY <2>1, <3>1, <3>2 DEF ServersEvolve
    <3> QED
      BY <1>0, <2>1, <2>2, <3>1, <3>2, <3>3, GotoStep, IaasAssumption
  <2>3. CASE ~ Exists(call[w].sid) /\ Return(w, "OK") /\ UNCHANGED servers
    <3>1. ServersEvolve
      BY <1>0, <2>3, EvolveByNothing
    <3>2. call[w].pid # None => servers[call[w].pid].status = "GONE"
      BY <1>000, <2>1, <2>3
    <3> QED
      BY <1>0, <2>1, <2>3, <3>1, <3>2, ReturnStep DEF Return, Code, Reasons
  <2> QED
    BY <1>4, <2>2, <2>3 DEF DeleteServerAnswers
<1>5. CASE DeleteServerFails(w)
  <2>1. late' \in SUBSET Machine /\ call[w].sid \in ServerId /\ Return(w, "Internal")
    BY <1>0, <1>5 DEF DeleteServerFails, At
  <2>2. ServersEvolve
    <3>1. CASE UNCHANGED servers
      BY <1>0, <3>1, EvolveByNothing
    <3>2. CASE Exists(call[w].sid) /\ Deleting(call[w].sid)
      BY <1>0, <2>1, <3>2, EvolveByDeletion
    <3> QED
      BY <1>5, <3>1, <3>2 DEF DeleteServerFails
  <2> QED
    BY <1>0, <2>1, <2>2, FailureKeeps DEF Return, Reasons
<1>6. CASE AwaitDeletedAnswers(w)
  <2>1. UNCHANGED iaasVars /\ Return(w, "OK") /\ (call[w].pid # None => servers[call[w].pid].status = "GONE")
    BY <1>0, <1>000, <1>6 DEF AwaitDeletedAnswers, At
  <2> QED
    BY <1>0, <1>00, <2>1, ReturnStep DEF Return, Code, Reasons
<1>7. CASE AwaitDeletedFails(w)
  <2>1. PICK why \in {"api", "timer"} : ReturnWhy(w, "DeadlineExceeded", why)
    BY <1>7 DEF AwaitDeletedFails
  <2> QED
    BY <1>0, <1>00, <1>7, <2>1, FailureKeeps DEF AwaitDeletedFails, Reasons
<1> QED
  BY <1>1, <1>2, <1>3, <1>4, <1>5, <1>6, <1>7 DEF DeleteMachine

LEMMA StatusKeeps ==
  ASSUME NEW w \in Worker, GeneralInv, GetMachineStatus(w), obj' = obj, pid' = pid PROVE GeneralInv'
<1>0. /\ TypeOK /\ BothLabels /\ late \in SUBSET Machine /\ CallInv(call[w])
      /\ call[w].op = "status" /\ call[w].pid \in ServerId \cup {None} /\ UNCHANGED iaasVars
      /\ call[w].by \in {"machine", "safety"}
  BY CallFacts DEF GetMachineStatus, StatusWithoutProviderID, StatusAnswers, StatusFails, At
<1>00. ServersEvolve /\ late' \in SUBSET Machine
  BY <1>0, EvolveByNothing DEF iaasVars
<1>1. CASE StatusWithoutProviderID(w)
  BY <1>0, <1>00, <1>1, ReturnStep DEF StatusWithoutProviderID, Return, Code, Reasons
<1>2. CASE StatusAnswers(w)
  <2>1. Created(call[w].pid)
    BY <1>0, <1>2 DEF StatusAnswers, CallInv, RequestShape, HandlesOwnServers
  <2>2. CASE Exists(call[w].pid) /\ Return(w, "OK")
    BY <1>0, <1>00, <2>2, ReturnStep DEF Return, Code, Reasons
  <2>3. CASE ~ Exists(call[w].pid) /\ Return(w, "NotFound")
    <3>1. servers[call[w].pid].status = "GONE"
      BY <2>1, <2>3 DEF Exists, Created
    <3> QED
      BY <1>0, <1>00, <2>3, <3>1, ReturnStep DEF Return, Code, Reasons
  <2> QED
    BY <1>2, <2>2, <2>3 DEF StatusAnswers
<1>3. CASE StatusFails(w)
  BY <1>0, <1>00, <1>3, FailureKeeps DEF StatusFails, Return, Reasons
<1> QED
  BY <1>1, <1>2, <1>3 DEF GetMachineStatus

LEMMA ListKeeps ==
  ASSUME NEW w \in Worker, GeneralInv, ListMachines(w), obj' = obj, pid' = pid PROVE GeneralInv'
<1>0. /\ TypeOK /\ BothLabels /\ late \in SUBSET Machine
      /\ call[w] \in Call /\ CallInv(call[w])
      /\ call[w].op = "list" /\ call[w].pc = "begin" /\ UNCHANGED iaasVars
  BY CallFacts DEF ListMachines, ListAnswers, ListFails, At
<1>00. ServersEvolve /\ late' \in SUBSET Machine
  BY <1>0, EvolveByNothing DEF iaasVars
<1>1. CASE ListAnswers(w)
  <2> DEFINE r == [call[w] EXCEPT !.pc = "done", !.code = "OK", !.seen = ListByClass]
  <2>1. r \in Call
    BY <1>0 DEF Call, Code, ListByClass
  <2>2. r.pc = "done" /\ r.code = "OK" /\ r.sid = call[w].sid /\ r.op = "list"
        /\ r.by = call[w].by /\ r.m = call[w].m /\ r.pid = call[w].pid /\ r.seen = ListByClass
    BY <1>0 DEF Call
  <2>3. call' = [call EXCEPT ![w] = r]
    BY <1>1 DEF ListAnswers
  <2> HIDE DEF r
  <2>4. call' \in [Worker -> Call] /\ call'[w] = r /\ \A v \in Worker \ {w} : call'[v] = call[v]
    BY <1>0, <2>1, <2>3 DEF TypeOK, ProviderTypeOK
  <2>5. RequestShape(r)
    BY <1>0, <2>2, NoCallFacts DEF CallInv, RequestShape
  <2>6. HandlesOwnServers(r) /\ AnswersMeanGone(r)
    BY <1>0, <2>2 DEF CallInv, RequestShape, HandlesOwnServers, AnswersMeanGone
  <2>7. DeletesUnwanted(r)
    BY <2>2 DEF DeletesUnwanted, ListByClass, Exists, Created
  <2>8. CallInv(r)
    BY <2>5, <2>6, <2>7 DEF CallInv
  <2> QED
    BY <1>00, <2>1, <2>2, <2>4, <2>8, OwnCall
<1>2. CASE ListFails(w)
  BY <1>0, <1>00, <1>2, FailureKeeps DEF ListFails, Return, Reasons
<1> QED
  BY <1>1, <1>2 DEF ListMachines

LEMMA DriverKeeps ==
  ASSUME NEW w \in Worker, GeneralInv, DriverStep(w) PROVE GeneralInv'
  BY RejectKeeps, CreateKeeps, DeleteKeeps, StatusKeeps, ListKeeps DEF DriverStep, ProviderNext

----------------------------------------------------------------------------
(* The steps of the service, of the users and of the controller.           *)

(* A step that only evolves the world and ends some calls. *)
LEMMA WorldFrame ==
  ASSUME GeneralInv, ServersEvolve, ObjectsEvolve, late' \in SUBSET Machine,
         call' \in [Worker -> Call], \A w \in Worker : call'[w] \in {call[w], NoCall},
         PidNamesOwnServer', DeletedMeansGone'
  PROVE  GeneralInv'
<1>1. ASSUME NEW w \in Worker
      PROVE  /\ CallInv(call[w])'
             /\ call'[w].pc \in {"await", "nics", "destroy", "gone"} => call'[w].sid # None
  <2>1. PICK c \in Call : c = call'[w]
    OBVIOUS
  <2>2. CallInv(c) /\ (c.pc \in {"await", "nics", "destroy", "gone"} => c.sid # None)
    BY <2>1, NoCallFacts DEF GeneralInv, TypeOK, ProviderTypeOK
  <2>3. CallInv(c)'
    BY <2>2, CallInvStable DEF GeneralInv
  <2> QED
    BY <2>1, <2>2, <2>3 DEF CallInv, RequestShape, HandlesOwnServers, DeletesUnwanted,
       AnswersMeanGone, Created, Orphan
<1>2. TypeOK'
  BY <1>1 DEF GeneralInv, TypeOK, IaasTypeOK, ProviderTypeOK, ServersEvolve, ObjectsEvolve
<1>3. BothLabels'
  BY DEF BothLabels, ServersEvolve
<1> QED
  BY <1>1, <1>2, <1>3 DEF GeneralInv

(* The Machine objects stay as they are. *)
LEMMA ObjectsUnchanged ==
  ASSUME GeneralInv, ServersEvolve, obj' = obj, pid' = pid
  PROVE  ObjectsEvolve /\ PidNamesOwnServer' /\ DeletedMeansGone'
<1>1. ObjectsEvolve
  BY DEF GeneralInv, TypeOK, ObjectsEvolve
<1>2. PidNamesOwnServer'
  BY DEF GeneralInv, PidNamesOwnServer, ServersEvolve, Created, TypeOK
<1>3. DeletedMeansGone'
  BY DEF GeneralInv, DeletedMeansGone, ServersEvolve, TypeOK
<1> QED
  BY <1>1, <1>2, <1>3

LEMMA CloudEvolves ==
  ASSUME TypeOK, BothLabels, IaasNext PROVE ServersEvolve /\ late' \in SUBSET Machine
<1>0. late \in SUBSET Machine
  BY DEF TypeOK, IaasTypeOK
<1>1. ASSUME NEW s \in ServerId, NEW x \in {"ACTIVE", "ERROR"}, servers[s].status # "GONE",
             servers' = [servers EXCEPT ![s].status = x]
      PROVE  ServersEvolve
  <2>1. x \in Status \ {"ABSENT"}
    BY DEF Status
  <2> QED
    BY <1>1, <2>1, EvolveByStatus, Zenon
<1>2. ASSUME NEW s \in ServerId, Boot(s) PROVE ServersEvolve /\ late' = late
  BY <1>1, <1>2 DEF Boot
<1>3. ASSUME NEW s \in ServerId, Break(s) PROVE ServersEvolve /\ late' = late
  BY <1>1, <1>3 DEF Break
<1>4. ASSUME NEW s \in ServerId, DeletionCompletes(s) PROVE ServersEvolve /\ late' = late
  BY <1>4, EvolveByEnd DEF DeletionCompletes, Created
<1>5. ASSUME NEW s \in ServerId, Vanish(s) PROVE ServersEvolve /\ late' = late
  BY <1>5, EvolveByEnd DEF Vanish, Created
<1>6. ASSUME NEW m \in Machine, NEW s \in ServerId, LateCreate(m, s)
      PROVE  ServersEvolve /\ late' \in SUBSET Machine
  BY <1>0, <1>6, EvolveByCreation DEF LateCreate
<1> QED
  BY <1>0, <1>2, <1>3, <1>4, <1>5, <1>6 DEF IaasNext

LEMMA CloudKeeps == ASSUME GeneralInv, CloudStep PROVE GeneralInv'
<1>1. IaasNext /\ call' = call /\ obj' = obj /\ pid' = pid
  BY DEF CloudStep
<1>2. ServersEvolve /\ late' \in SUBSET Machine
  BY <1>1, CloudEvolves DEF GeneralInv
<1>3. call' \in [Worker -> Call] /\ \A w \in Worker : call'[w] \in {call[w], NoCall}
  BY <1>1 DEF GeneralInv, TypeOK, ProviderTypeOK
<1> QED
  BY <1>1, <1>2, <1>3, ObjectsUnchanged, WorldFrame

(* One call ends, the servers stay as they are. *)
LEMMA EndOfCall ==
  ASSUME GeneralInv, NEW w \in Worker, call' = [call EXCEPT ![w] = NoCall],
         servers' = servers, late' = late
  PROVE  /\ ServersEvolve /\ late' \in SUBSET Machine
         /\ call' \in [Worker -> Call] /\ \A v \in Worker : call'[v] \in {call[v], NoCall}
<1>1. TypeOK /\ BothLabels
  BY DEF GeneralInv
<1> QED
  BY <1>1, EvolveByNothing, NoCallFacts DEF TypeOK, IaasTypeOK, ProviderTypeOK

LEMMA EndCallKeeps == ASSUME GeneralInv, NEW w \in Worker, EndCall(w) PROVE GeneralInv'
  BY EndOfCall, ObjectsUnchanged, WorldFrame DEF EndCall

LEMMA CrashKeeps == ASSUME GeneralInv, Crash PROVE GeneralInv'
<1>1. servers' = servers /\ late' = late /\ obj' = obj /\ pid' = pid /\ call' = [w \in Worker |-> NoCall]
  BY DEF Crash
<1>2. ServersEvolve /\ late' \in SUBSET Machine
  BY <1>1, EvolveByNothing DEF GeneralInv, TypeOK, IaasTypeOK
<1>3. call' \in [Worker -> Call] /\ \A w \in Worker : call'[w] \in {call[w], NoCall}
  BY <1>1, NoCallFacts
<1> QED
  BY <1>1, <1>2, <1>3, ObjectsUnchanged, WorldFrame

LEMMA UserKeeps == ASSUME GeneralInv, NEW m \in Machine, UserDeletes(m) PROVE GeneralInv'
<1>1. servers' = servers /\ late' = late /\ pid' = pid /\ call' = call
      /\ obj[m] = "present" /\ obj' = [obj EXCEPT ![m] = "deleting"]
  BY DEF UserDeletes
<1>2. ServersEvolve /\ late' \in SUBSET Machine
  BY <1>1, EvolveByNothing DEF GeneralInv, TypeOK, IaasTypeOK
<1>3. call' \in [Worker -> Call] /\ \A w \in Worker : call'[w] \in {call[w], NoCall}
  BY <1>1 DEF GeneralInv, TypeOK, ProviderTypeOK
<1>4. ObjectsEvolve
  BY <1>1 DEF GeneralInv, TypeOK, ObjectsEvolve
<1>5. PidNamesOwnServer' /\ DeletedMeansGone'
  BY <1>1 DEF GeneralInv, TypeOK, PidNamesOwnServer, DeletedMeansGone
<1> QED
  BY <1>2, <1>3, <1>4, <1>5, WorldFrame

LEMMA RecordKeeps == ASSUME GeneralInv, NEW w \in Worker, RecordProviderID(w) PROVE GeneralInv'
<1> DEFINE m == call[w].m
           s == call[w].sid
<1>1. /\ servers' = servers /\ late' = late /\ obj' = obj /\ call' = [call EXCEPT ![w] = NoCall]
      /\ pid[m] = call[w].pid /\ obj[m] # "absent" /\ pid' = [pid EXCEPT ![m] = s]
      /\ call[w].op = "create" /\ call[w].pc = "done" /\ call[w].code = "OK"
  BY DEF RecordProviderID, Done, At, Current
<1>2. /\ m \in Machine /\ s \in ServerId /\ call[w].pid = None
      /\ servers[s].machine = m /\ servers[s].status # "ABSENT"
  <2>1. call[w] \in Call /\ CallInv(call[w])
    BY CallFacts
  <2> QED
    BY <1>1, <2>1 DEF Call, CallInv, RequestShape, HandlesOwnServers, Created
<1> HIDE DEF m, s
<1>3. ObjectsEvolve
  BY <1>1, <1>2 DEF GeneralInv, TypeOK, ObjectsEvolve
<1>4. PidNamesOwnServer' /\ DeletedMeansGone'
  BY <1>1, <1>2 DEF GeneralInv, TypeOK, PidNamesOwnServer, DeletedMeansGone
<1> QED
  BY <1>1, <1>3, <1>4, EndOfCall, WorldFrame

LEMMA ForgetKeeps == ASSUME GeneralInv, NEW w \in Worker, ForgetMachine(w) PROVE GeneralInv'
<1> DEFINE m == call[w].m
<1>1. /\ servers' = servers /\ late' = late /\ pid' = pid /\ call' = [call EXCEPT ![w] = NoCall]
      /\ pid[m] = call[w].pid /\ obj' = [obj EXCEPT ![m] = "absent"] /\ call[w].by = "machine"
      /\ call[w].op = "delete" /\ call[w].pc = "done" /\ call[w].code = "OK"
  BY DEF ForgetMachine, Done, At, Current
<1>2. m \in Machine /\ (pid[m] # None => servers[pid[m]].status = "GONE")
  <2>1. call[w] \in Call /\ CallInv(call[w])
    BY CallFacts
  <2> QED
    BY <1>1, <2>1 DEF CallInv, RequestShape, AnswersMeanGone
<1> HIDE DEF m
<1>3. ObjectsEvolve
  BY <1>1, <1>2 DEF GeneralInv, TypeOK, ObjectsEvolve
<1>4. PidNamesOwnServer' /\ DeletedMeansGone'
  BY <1>1, <1>2 DEF GeneralInv, TypeOK, PidNamesOwnServer, DeletedMeansGone
<1> QED
  BY <1>1, <1>3, <1>4, EndOfCall, WorldFrame

(* A worker begins a call. *)
LEMMA BeginCall ==
  ASSUME GeneralInv, NEW w \in Worker, NEW r \in Call, call' = [call EXCEPT ![w] = r],
         servers' = servers, late' = late, obj' = obj, pid' = pid, r.pc = "begin", CallInv(r)
  PROVE  GeneralInv'
<1>1. ServersEvolve /\ late' \in SUBSET Machine
  BY EvolveByNothing DEF GeneralInv, TypeOK, IaasTypeOK
<1>2. call' \in [Worker -> Call] /\ call'[w] = r /\ \A v \in Worker \ {w} : call'[v] = call[v]
  BY DEF GeneralInv, TypeOK, ProviderTypeOK
<1> QED
  BY <1>1, <1>2, OwnCall

LEMMA StartStatusKeeps ==
  ASSUME GeneralInv, NEW w \in Worker, NEW m \in Machine, StartStatus(w, m) PROVE GeneralInv'
<1> DEFINE r == Request("status", "machine", m, pid[m], {})
<1>1. pid[m] \in ServerId \cup {None}
  BY DEF GeneralInv, TypeOK
<1>2. r \in Call
  BY <1>1 DEF Request, Call, Code
<1>3. r.pc = "begin" /\ CallInv(r)
  BY <1>1, NoCallFacts DEF Request, CallInv, RequestShape, HandlesOwnServers, DeletesUnwanted,
     AnswersMeanGone, GeneralInv, PidNamesOwnServer, Created
<1> QED
  BY <1>2, <1>3, BeginCall DEF StartStatus

LEMMA StartCreateKeeps ==
  ASSUME GeneralInv, NEW w \in Worker, StartCreate(w) PROVE GeneralInv'
<1> DEFINE r == Request("create", "machine", call[w].m, None, {})
<1>1. call[w].m \in Machine
  BY CallFacts DEF StartCreate, Done, At, CallInv, RequestShape
<1>2. r \in Call
  BY <1>1 DEF Request, Call, Code
<1>3. r.pc = "begin" /\ CallInv(r)
  BY <1>1, NoCallFacts DEF Request, CallInv, RequestShape, HandlesOwnServers, DeletesUnwanted,
     AnswersMeanGone
<1> QED
  BY <1>2, <1>3, BeginCall DEF StartCreate

LEMMA StartDeleteKeeps ==
  ASSUME GeneralInv, NEW w \in Worker, NEW m \in Machine, StartDelete(w, m) PROVE GeneralInv'
<1> DEFINE r == Request("delete", "machine", m, pid[m], {})
<1>1. pid[m] \in ServerId \cup {None} /\ obj[m] = "deleting"
  BY DEF GeneralInv, TypeOK, StartDelete
<1>2. r \in Call
  BY <1>1 DEF Request, Call, Code
<1>3. r.pc = "begin" /\ CallInv(r)
  BY <1>1, NoCallFacts DEF Request, CallInv, RequestShape, HandlesOwnServers, DeletesUnwanted,
     AnswersMeanGone, GeneralInv, PidNamesOwnServer, Created
<1> QED
  BY <1>2, <1>3, BeginCall DEF StartDelete

LEMMA StartListKeeps ==
  ASSUME GeneralInv, NEW w \in Worker, StartList(w) PROVE GeneralInv'
<1> DEFINE r == Request("list", "safety", None, None, {})
<1>1. r \in Call
  BY DEF Request, Call, Code
<1>2. r.pc = "begin" /\ CallInv(r)
  BY NoCallFacts DEF Request, CallInv, RequestShape, HandlesOwnServers, DeletesUnwanted,
     AnswersMeanGone
<1> QED
  BY <1>1, <1>2, BeginCall DEF StartList

LEMMA StartOrphanDeleteKeeps ==
  ASSUME GeneralInv, NEW w \in Worker, NEW s \in ServerId, StartOrphanDelete(w, s) PROVE GeneralInv'
<1> DEFINE r == Request("delete", "safety", servers[s].machine, s, call[w].seen \ {s})
<1>1. servers[s].machine \in Machine \cup {None}
  BY DEF GeneralInv, TypeOK, IaasTypeOK, Server
<1>2. \A x \in call[w].seen : servers[x].class = "this" /\ Created(x)
  BY CallFacts DEF CallInv, DeletesUnwanted
<1>3. call[w].seen \in SUBSET ServerId
  BY CallFacts DEF Call
<1>4. s \in call[w].seen /\ Orphan(s)
  BY DEF StartOrphanDelete
<1>5. r \in Call
  BY <1>1, <1>3 DEF Request, Call, Code
<1>6. r.pc = "begin" /\ RequestShape(r)
  BY <1>1, NoCallFacts, IaasAssumption DEF Request, RequestShape
<1>7. HandlesOwnServers(r) /\ AnswersMeanGone(r) /\ DeletesUnwanted(r)
  BY <1>2, <1>4 DEF Request, HandlesOwnServers, DeletesUnwanted, AnswersMeanGone
<1>8. CallInv(r)
  BY <1>6, <1>7 DEF CallInv
<1>9. call' = [call EXCEPT ![w] = r] /\ servers' = servers /\ late' = late /\ obj' = obj /\ pid' = pid
  BY DEF StartOrphanDelete
<1> HIDE DEF r
<1> QED
  BY <1>5, <1>6, <1>8, <1>9, BeginCall

LEMMA ControllerKeeps ==
  ASSUME GeneralInv, NEW w \in Worker, ControllerStep(w) PROVE GeneralInv'
  BY StartStatusKeeps, StartCreateKeeps, StartDeleteKeeps, StartListKeeps, StartOrphanDeleteKeeps,
     RecordKeeps, ForgetKeeps, EndCallKeeps DEF ControllerStep

----------------------------------------------------------------------------

LEMMA GeneralStep == GeneralInv /\ [Next]_vars => GeneralInv'
<1> SUFFICES ASSUME GeneralInv, [Next]_vars PROVE GeneralInv'
  OBVIOUS
<1>1. CASE UNCHANGED vars
  <2>1. servers' = servers /\ late' = late /\ obj' = obj /\ pid' = pid /\ call' = call
    BY <1>1 DEF vars
  <2>2. ServersEvolve /\ late' \in SUBSET Machine
    BY <2>1, EvolveByNothing DEF GeneralInv, TypeOK, IaasTypeOK
  <2>3. call' \in [Worker -> Call] /\ \A w \in Worker : call'[w] \in {call[w], NoCall}
    BY <2>1 DEF GeneralInv, TypeOK, ProviderTypeOK
  <2> QED
    BY <2>1, <2>2, <2>3, ObjectsUnchanged, WorldFrame
<1>2. CASE Next
  BY <1>2, CloudKeeps, DriverKeeps, ControllerKeeps, UserKeeps, CrashKeeps DEF Next
<1> QED
  BY <1>1, <1>2

LEMMA GeneralInit == Init => GeneralInv
<1> SUFFICES ASSUME Init PROVE GeneralInv
  OBVIOUS
<1>1. IaasTypeOK /\ BothLabels
  BY DEF Init, IaasInit, IaasTypeOK, Server, Status, BothLabels
<1>2. \A w \in Worker : call[w] = NoCall
  BY DEF Init, ProviderInit
<1>3. TypeOK
  BY <1>1, <1>2, NoCallFacts DEF Init, ProviderInit, ProviderTypeOK, TypeOK
<1>4. PidNamesOwnServer /\ DeletedMeansGone
  BY DEF Init, PidNamesOwnServer, DeletedMeansGone
<1> QED
  BY <1>1, <1>2, <1>3, <1>4, NoCallFacts DEF GeneralInv

(* GeneralInv holds throughout, whether controllers overlap or not and     *)
(* whatever becomes of abandoned CreateServer calls.                       *)
THEOREM GeneralCorrect == Spec => []GeneralInv
  BY GeneralInit, GeneralStep, PTL DEF Spec

(* Every variable keeps its type, and no handler calls the service for a   *)
(* server whose id it does not have.                                       *)
THEOREM TypeCorrect == Spec => []TypeOK
<1>1. GeneralInv => TypeOK
  BY DEF GeneralInv
<1> QED
  BY <1>1, GeneralCorrect, PTL

(* A recorded ProviderID always names a server created for its machine. *)
THEOREM ProviderIDCorrect == Spec => []PidNamesOwnServer
<1>1. GeneralInv => PidNamesOwnServer
  BY DEF GeneralInv
<1> QED
  BY <1>1, GeneralCorrect, PTL

(* An object with a ProviderID is only ever removed after its server.      *)
THEOREM DeletionCorrect == Spec => []DeletedMeansGone
<1>1. GeneralInv => DeletedMeansGone
  BY DEF GeneralInv
<1> QED
  BY <1>1, GeneralCorrect, PTL

(* GetMachineStatus never reports a living server as NotFound. *)
THEOREM StatusCorrect == Spec => []NotFoundMeansGone
<1>1. GeneralInv => NotFoundMeansGone
  BY DEF GeneralInv, CallInv, AnswersMeanGone, NotFoundMeansGone, Done, At
<1> QED
  BY <1>1, GeneralCorrect, PTL

----------------------------------------------------------------------------
(* What a step does to the servers and to the late calls, whoever takes it. *)

SetsStatus ==
    \E s \in ServerId, x \in {"ACTIVE", "ERROR", "DELETING"} :
        Exists(s) /\ servers' = [servers EXCEPT ![s].status = x]

Ends == \E s \in ServerId : Exists(s) /\ Ended(s)

(* By a late call, or by a handler that found no server. *)
Creates ==
    \E s \in Fresh, m \in Machine, stray \in BOOLEAN :
        /\ Provisioned(s, m, stray)
        /\ IF stray THEN m \in late
                    ELSE \E w \in Worker : At(w, "create", "create") /\ call[w].m = m

ServerChange == servers' = servers \/ SetsStatus \/ Ends \/ Creates

LateChange == late' \subseteq late \/ AllowLate

LEMMA StepChanges == ASSUME GeneralInv, [Next]_vars PROVE ServerChange /\ LateChange
<1>1. CASE CloudStep
  <2>1. ASSUME NEW s \in ServerId, Boot(s) \/ Break(s) PROVE SetsStatus /\ late' = late
    <3>1. PICK x \in {"ACTIVE", "ERROR", "DELETING"} : servers' = [servers EXCEPT ![s].status = x]
      BY <2>1 DEF Boot, Break
    <3> QED
      BY <2>1, <3>1 DEF Boot, Break, SetsStatus, Exists
  <2>2. ASSUME NEW s \in ServerId, DeletionCompletes(s) \/ Vanish(s) PROVE Ends /\ late' = late
    BY <2>2 DEF DeletionCompletes, Vanish, Ends, Exists
  <2>3. ASSUME NEW m \in Machine, NEW s \in ServerId, LateCreate(m, s)
        PROVE  Creates /\ late' \subseteq late
    BY <2>3 DEF LateCreate, Creates
  <2> QED
    BY <1>1, <2>1, <2>2, <2>3 DEF CloudStep, IaasNext, ServerChange, LateChange
<1>2. ASSUME NEW w \in Worker, DriverStep(w) PROVE ServerChange /\ LateChange
  <2>1. CASE CreateMachine(w)
    <3>1. ASSUME NEW s \in Fresh, At(w, "create", "create"), Provisioned(s, call[w].m, FALSE)
          PROVE  Creates
      <4>1. call[w].m \in Machine
        BY <3>1, CallFacts DEF At
      <4> QED
        BY <3>1, <4>1 DEF Creates
    <3> QED
      BY <2>1, <3>1
         DEF CreateMachine, CreateLookupAnswers, CreateLookupFails, CreateServerAnswers,
           CreateServerFails, AwaitRunningAnswers, AwaitRunningFails, PatchNicsAnswers,
           PatchNicsFails, iaasVars, ServerChange, LateChange
  <2>2. CASE DeleteMachine(w)
    <3>1. ASSUME At(w, "delete", "destroy"), Exists(call[w].sid), Deleting(call[w].sid)
          PROVE  SetsStatus
      BY <3>1, CallFacts DEF At, Deleting, SetsStatus
    <3> QED
      BY <2>2, <3>1
         DEF DeleteMachine, DeleteByProviderID, DeleteLookupAnswers, DeleteLookupFails,
           DeleteServerAnswers, DeleteServerFails, AwaitDeletedAnswers, AwaitDeletedFails,
           iaasVars, ServerChange, LateChange
  <2>3. CASE Reject(w) \/ GetMachineStatus(w) \/ ListMachines(w)
    BY <2>3
       DEF Reject, GetMachineStatus, StatusWithoutProviderID, StatusAnswers, StatusFails,
         ListMachines, ListAnswers, ListFails, iaasVars, ServerChange, LateChange
  <2> QED
    BY <1>2, <2>1, <2>2, <2>3 DEF DriverStep, ProviderNext
<1> QED
  BY <1>1, <1>2 DEF Next, vars, ControllerStep, StartStatus, StartDelete, StartCreate,
     RecordProviderID, ForgetMachine, EndCall, StartList, StartOrphanDelete, UserDeletes, Crash,
     ServerChange, LateChange

LEMMA OriginsStay == ASSUME GeneralInv, Origins, [Next]_vars PROVE Origins'
<1>1. ServerChange /\ (late' # {} => AllowLate) /\ servers \in [ServerId -> Server]
  BY StepChanges DEF LateChange, Origins, GeneralInv, TypeOK, IaasTypeOK
<1>2. CASE servers' = servers
  BY <1>1, <1>2 DEF Origins, Created
<1>3. CASE SetsStatus
  BY <1>1, <1>3 DEF SetsStatus, Origins, Created, Exists, Server
<1>4. CASE Ends
  BY <1>1, <1>4 DEF Ends, Ended, Origins, Created, Exists, Server
<1>5. CASE Creates
  BY <1>1, <1>5, IaasAssumption DEF Creates, Provisioned, Origins, Created, Server
<1> QED
  BY <1>1, <1>2, <1>3, <1>4, <1>5 DEF ServerChange

(* A server whose label names a machine was created for it, and strays     *)
(* exist only where abandoned CreateServer calls are carried out late.     *)
THEOREM OriginsCorrect == Spec => []Origins
<1>1. Init => Origins
  BY DEF Init, IaasInit, Origins
<1>2. GeneralInv /\ Origins /\ [Next]_vars => Origins'
  BY OriginsStay
<1> QED
  BY <1>1, <1>2, GeneralCorrect, PTL DEF Spec

----------------------------------------------------------------------------
(* Which servers the driver has deleted.                                   *)

LEMMA DeletionIsUnwanted ==
  ASSUME GeneralInv, NEW w \in Worker, call[w].op = "delete", call[w].sid \in ServerId
  PROVE  /\ servers[call[w].sid].class = "this"
         /\ \A m \in Machine : pid[m] = call[w].sid => obj[m] # "present"
<1> DEFINE s == call[w].sid
<1>1. /\ call[w].by \in {"machine", "safety"} /\ CallInv(call[w]) /\ BothLabels /\ PidNamesOwnServer
      /\ None \notin ServerId /\ None \notin Machine
  BY CallFacts, IaasAssumption DEF GeneralInv
<1>2. \A m \in Machine : pid[m] = s => servers[s].machine = m
  BY <1>1 DEF PidNamesOwnServer
<1>3. CASE call[w].by = "machine"
  <2>1. servers[s].machine = call[w].m /\ call[w].m \in Machine /\ obj[call[w].m] # "present"
    BY <1>1, <1>3, DeletionTarget, CallFacts DEF CallInv, DeletesUnwanted
  <2> QED
    BY <1>1, <1>2, <2>1 DEF BothLabels
<1>4. CASE call[w].by = "safety"
  <2>1. call[w].pid = s /\ servers[s].class = "this" /\ Orphan(s)
    BY <1>1, <1>4 DEF CallInv, RequestShape, HandlesOwnServers, DeletesUnwanted
  <2> QED
    BY <1>1, <1>2, <2>1 DEF Orphan
<1> QED
  BY <1>1, <1>3, <1>4

(* Only DeleteMachine has a server deleted, the one it holds the id of. *)
LEMMA OnlyDeleteMachineDeletes ==
  ASSUME GeneralInv, [Next]_vars, NEW s \in ServerId,
         servers[s].status # "DELETING", servers'[s].status = "DELETING"
  PROVE  \E w \in Worker : call[w].op = "delete" /\ call[w].sid = s
<1>1. servers \in [ServerId -> Server]
  BY DEF GeneralInv, TypeOK, IaasTypeOK
<1>2. servers' # servers
  OBVIOUS
<1>3. ASSUME NEW t \in ServerId, NEW m, NEW stray, Provisioned(t, m, stray) PROVE FALSE
  BY <1>1, <1>3 DEF Provisioned, Server
<1>4. ~ CloudStep
  <2>1. ASSUME NEW t \in ServerId, NEW x \in {"ACTIVE", "ERROR"},
               servers' = [servers EXCEPT ![t].status = x]
        PROVE  FALSE
    BY <1>1, <2>1 DEF Server
  <2>2. ASSUME NEW t \in ServerId, Ended(t) PROVE FALSE
    BY <1>1, <2>2 DEF Ended, Server
  <2> QED
    BY <1>3, <2>1, <2>2 DEF CloudStep, IaasNext, Boot, Break, DeletionCompletes, Vanish, LateCreate
<1>5. ASSUME NEW w \in Worker, DriverStep(w) PROVE call[w].op = "delete" /\ call[w].sid = s
  <2>1. ASSUME At(w, "delete", "destroy"), Deleting(call[w].sid)
        PROVE  call[w].op = "delete" /\ call[w].sid = s
    BY <1>1, <2>1 DEF Deleting, At
  <2>2. ~ CreateMachine(w)
    BY <1>2, <1>3 DEF CreateMachine, CreateLookupAnswers, CreateLookupFails, CreateServerAnswers,
       CreateServerFails, AwaitRunningAnswers, AwaitRunningFails, PatchNicsAnswers, PatchNicsFails,
       iaasVars, Fresh
  <2>3. ~ (Reject(w) \/ GetMachineStatus(w) \/ ListMachines(w))
    BY <1>2 DEF Reject, GetMachineStatus, StatusWithoutProviderID, StatusAnswers, StatusFails,
       ListMachines, ListAnswers, ListFails, iaasVars
  <2>4. CASE DeleteMachine(w)
    BY <1>2, <2>1, <2>4 DEF DeleteMachine, DeleteByProviderID, DeleteLookupAnswers,
       DeleteLookupFails, DeleteServerAnswers, DeleteServerFails, AwaitDeletedAnswers,
       AwaitDeletedFails, iaasVars
  <2> QED
    BY <1>5, <2>2, <2>3, <2>4 DEF DriverStep, ProviderNext
<1>6. ASSUME NEW w \in Worker PROVE ~ ControllerStep(w)
  BY <1>2 DEF ControllerStep, StartStatus, StartDelete, StartCreate, RecordProviderID,
     ForgetMachine, EndCall, StartList, StartOrphanDelete
<1>7. ~ Crash /\ \A m \in Machine : ~ UserDeletes(m)
  BY <1>2 DEF Crash, UserDeletes
<1> QED
  BY <1>2, <1>4, <1>5, <1>6, <1>7 DEF Next, vars

(* However old the safety loop's list and however many controllers run:    *)
(* no server that backs a present machine, and none without the class's    *)
(* label, is ever deleted by the driver.                                   *)
THEOREM NothingWantedIsDeleted == Spec => OnlyUnwantedDeleted
<1>1. GeneralInv /\ [Next]_vars =>
        [\A s \in ServerId :
            servers[s].status # "DELETING" /\ servers'[s].status = "DELETING" =>
                /\ servers[s].class = "this"
                /\ \A m \in Machine : pid[m] = s => obj[m] # "present"]_vars
  BY OnlyDeleteMachineDeletes, DeletionIsUnwanted
<1> QED
  BY <1>1, GeneralCorrect, PTL DEF Spec, OnlyUnwantedDeleted
=============================================================================
