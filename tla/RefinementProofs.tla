-------------------------- MODULE RefinementProofs --------------------------
(***************************************************************************)
(* MachineController implements MachineContract, for any sets of machines, *)
(* servers and workers, for one controller at a time and for overlapping   *)
(* ones, with late CreateServer calls and without.                         *)
(***************************************************************************)
EXTENDS SerialProofs

(* What is known of a state: the exclusive part of it under Serial. *)
KnownInv == GeneralInv /\ Origins /\ (Serial => SerialInv)

LEMMA KnownFacts ==
  ASSUME KnownInv
  PROVE  /\ servers \in [ServerId -> Server]
         /\ obj \in [Machine -> {"present", "deleting", "absent"}]
         /\ pid \in [Machine -> ServerId \cup {None}]
         /\ None \notin ServerId /\ None \notin Machine
         /\ PidNamesOwnServer
  BY IaasAssumption DEF KnownInv, GeneralInv, TypeOK, IaasTypeOK

(* The contract's exclusive servers of m are its timely ones. *)
LEMMA OnlyTimely ==
  ASSUME KnownInv, NEW m \in Machine, NEW S, Serial => Timely(m) \subseteq S
  PROVE  Contract!Only(m, S)
<1>1. {s \in Live \ Strays : Owner[s] = m} = Timely(m)
  BY KnownFacts DEF Live, Strays, Owner, Timely, ListByMachine
<1> QED
  BY <1>1 DEF Contract!Only

(* What a handler of machine m knows under Serial. *)
LEMMA OwnServers ==
  ASSUME KnownInv, Serial, NEW w \in Worker, call[w].pc # "idle", call[w].by = "machine",
         call[w].op \in {"create", "delete"}
  PROVE  /\ obj[call[w].m] # "absent" /\ KnowsServers(call[w])
  BY OwnObject DEF KnownInv, SerialInv, ServersInv, OneServer

----------------------------------------------------------------------------
(* The ways servers change, as the contract sees them.                     *)

LEMMA SameServers ==
  ASSUME servers' = servers PROVE Owner' = Owner /\ Live' = Live /\ Strays' = Strays
  BY DEF Owner, Live, Strays, Exists

LEMMA StatusStutters ==
  ASSUME KnownInv, SetsStatus PROVE Owner' = Owner /\ Live' = Live /\ Strays' = Strays
<1>1. PICK s \in ServerId, x \in {"ACTIVE", "ERROR", "DELETING"} :
        Exists(s) /\ servers' = [servers EXCEPT ![s].status = x]
  BY DEF SetsStatus
<1>2. /\ \A t \in ServerId : /\ servers'[t].machine = servers[t].machine
                             /\ servers'[t].stray = servers[t].stray
      /\ \A t \in ServerId \ {s} : servers'[t] = servers[t]
      /\ servers'[s].status = x
  BY <1>1, KnownFacts DEF Server
<1>3. \A t \in ServerId : Exists(t)' <=> Exists(t)
  BY <1>1, <1>2 DEF Exists
<1> QED
  BY <1>2, <1>3 DEF Owner, Live, Strays

LEMMA EndVanishes ==
  ASSUME KnownInv, Ends, obj' = obj, pid' = pid PROVE [Contract!Next]_(Contract!contractVars)
<1>1. PICK s \in ServerId : Exists(s) /\ Ended(s)
  BY DEF Ends
<1>2. /\ \A t \in ServerId : servers'[t].machine = servers[t].machine
      /\ \A t \in ServerId \ {s} : servers'[t] = servers[t]
      /\ servers'[s].status = "GONE" /\ servers'[s].stray = FALSE
  BY <1>1, KnownFacts DEF Server, Ended
<1>3. Owner' = Owner /\ Live' = Live \ {s} /\ Strays' = Strays \ {s}
  BY <1>1, <1>2 DEF Owner, Live, Strays, Exists
<1>4. CASE s \in Live
  BY <1>3, <1>4 DEF Contract!Vanish, Contract!Next
<1>5. CASE s \notin Live
  <2>1. s \notin Strays
    BY <1>1, <1>5 DEF Live, Strays, KnownInv, Origins
  <2>2. Live' = Live /\ Strays' = Strays
    BY <1>3, <1>5, <2>1
  <2> QED
    BY <1>3, <2>2 DEF Contract!contractVars
<1> QED
  BY <1>4, <1>5

(* A server is created by a handler, which found none, or comes late. *)
LEMMA CreationGains ==
  ASSUME KnownInv, Creates, obj' = obj, pid' = pid PROVE Contract!Next
<1>1. PICK s \in Fresh, m \in Machine, stray \in BOOLEAN :
        /\ Provisioned(s, m, stray)
        /\ IF stray THEN m \in late
                    ELSE \E w \in Worker : At(w, "create", "create") /\ call[w].m = m
  BY DEF Creates
<1>2. /\ s \in ServerId /\ servers[s].machine = None /\ servers[s].stray = FALSE
      /\ \A t \in ServerId \ {s} : servers'[t] = servers[t]
      /\ servers'[s].machine = m /\ servers'[s].stray = stray /\ servers'[s].status = "CREATING"
      /\ m # None
  BY <1>1, KnownFacts DEF KnownInv, Origins, Created, Fresh, Provisioned, Server
<1>3. Owner[s] = None /\ Owner' = [Owner EXCEPT ![s] = m]
  BY <1>2 DEF Owner
<1>4. Live' = Live \cup {s} /\ Strays' = IF stray THEN Strays \cup {s} ELSE Strays
  BY <1>2 DEF Live, Strays, Exists
<1>5. Contract!Gains(m, s)
  BY <1>3, <1>4 DEF Contract!Gains
<1>6. CASE stray
  BY <1>1, <1>2, <1>4, <1>5, <1>6 DEF Contract!Arrive, Contract!Next, KnownInv, Origins
<1>7. CASE ~ stray
  <2>1. PICK w \in Worker : call[w].op = "create" /\ call[w].pc = "create" /\ call[w].m = m
    BY <1>1, <1>7 DEF At
  <2>2. call[w].by = "machine"
    BY <2>1, CallFacts DEF KnownInv
  <2>3. Serial => obj[m] # "absent" /\ Timely(m) = {}
    BY <2>1, <2>2, OwnServers DEF KnowsServers
  <2>4. Contract!Only(m, {})
    BY <2>3, OnlyTimely
  <2>5. Contract!Provision(m, s)
    BY <1>4, <1>5, <1>7, <2>3, <2>4 DEF Contract!Provision
  <2> QED
    BY <1>2, <2>5 DEF Contract!Next
<1> QED
  BY <1>6, <1>7

LEMMA ServersRefine ==
  ASSUME KnownInv, ServerChange, obj' = obj, pid' = pid
  PROVE  [Contract!Next]_(Contract!contractVars)
<1>1. CASE servers' = servers \/ SetsStatus
  BY <1>1, SameServers, StatusStutters DEF Contract!contractVars
<1> QED
  BY <1>1, EndVanishes, CreationGains DEF ServerChange

----------------------------------------------------------------------------
(* The steps that change a Machine object.                                 *)

LEMMA RecordRefines ==
  ASSUME KnownInv, NEW w \in Worker, RecordProviderID(w) PROVE Contract!Next
<1>1. /\ call[w].op = "create" /\ call[w].pc = "done" /\ call[w].code = "OK"
      /\ call[w].by = "machine" /\ call[w].pid = None /\ CallInv(call[w])
      /\ call[w].m \in Machine /\ call[w].sid \in ServerId \cup {None}
  BY CallFacts DEF RecordProviderID, Done, At, KnownInv, CallInv, RequestShape, Call
<1>2. PICK m \in Machine, s \in ServerId : m = call[w].m /\ s = call[w].sid
  BY <1>1 DEF CallInv, HandlesOwnServers
<1>3. /\ servers' = servers /\ obj' = obj /\ pid' = [pid EXCEPT ![m] = s]
      /\ obj[m] # "absent" /\ pid[m] = None
  BY <1>1, <1>2 DEF RecordProviderID, Current
<1>4. servers[s].machine = m /\ s # None
  BY <1>1, <1>2, KnownFacts DEF CallInv, HandlesOwnServers
<1>5. Serial => Timely(m) \subseteq {s}
  BY <1>1, <1>2, <1>4, OwnServers DEF KnowsServers
<1>6. Contract!Only(m, {s})
  BY <1>5, OnlyTimely
<1>7. Contract!Bind(m, s)
  BY <1>3, <1>4, <1>6, SameServers DEF Contract!Bind, Owner
<1> QED
  BY <1>7 DEF Contract!Next

(* Where controllers overlap, the object may be gone already. *)
LEMMA ForgetRefines ==
  ASSUME KnownInv, NEW w \in Worker, ForgetMachine(w) PROVE [Contract!Next]_(Contract!contractVars)
<1>1. /\ call[w].op = "delete" /\ call[w].pc = "done" /\ call[w].code = "OK"
      /\ call[w].by = "machine" /\ CallInv(call[w]) /\ call[w].m \in Machine
  BY CallFacts DEF ForgetMachine, Done, At, KnownInv, CallInv, RequestShape
<1>2. PICK m \in Machine : m = call[w].m
  BY <1>1
<1>3. servers' = servers /\ pid' = pid /\ obj' = [obj EXCEPT ![m] = "absent"] /\ pid[m] = call[w].pid
  BY <1>2 DEF ForgetMachine, Current
<1>4. obj[m] # "present"
  BY <1>1, <1>2 DEF CallInv, DeletesUnwanted
<1>5. CASE obj[m] = "absent"
  <2>1. obj' = obj
    BY <1>3, <1>5, KnownFacts
  <2> QED
    BY <1>3, <2>1, SameServers DEF Contract!contractVars
<1>6. CASE obj[m] = "deleting"
  <2>1. pid[m] \notin Live
    BY <1>1, <1>3, KnownFacts DEF CallInv, AnswersMeanGone, Live, Exists
  <2>2. Serial => Timely(m) \subseteq {}
    BY <1>1, <1>2, OwnServers DEF KnowsServers
  <2>3. Contract!Only(m, {})
    BY <2>2, OnlyTimely
  <2>4. Contract!Forget(m)
    BY <1>3, <1>6, <2>1, <2>3, SameServers DEF Contract!Forget
  <2> QED
    BY <2>4 DEF Contract!Next
<1> QED
  BY <1>4, <1>5, <1>6, KnownFacts

LEMMA UserRefines ==
  ASSUME NEW m \in Machine, UserDeletes(m) PROVE Contract!Next
<1>1. Contract!RequestDeletion(m)
  BY SameServers DEF UserDeletes, Contract!RequestDeletion
<1> QED
  BY <1>1 DEF Contract!Next

----------------------------------------------------------------------------

LEMMA StepRefines ==
  ASSUME KnownInv, [Next]_vars PROVE [Contract!Next]_(Contract!contractVars)
<1>1. CASE obj' = obj /\ pid' = pid
  BY <1>1, StepChanges, ServersRefine DEF KnownInv
<1>2. ASSUME NEW w \in Worker, ControllerStep(w) PROVE [Contract!Next]_(Contract!contractVars)
  BY <1>1, <1>2, RecordRefines, ForgetRefines
     DEF ControllerStep, StartStatus, StartDelete, StartCreate, EndCall, StartList, StartOrphanDelete
<1>3. ASSUME NEW m \in Machine, UserDeletes(m) PROVE [Contract!Next]_(Contract!contractVars)
  BY <1>3, UserRefines
<1> QED
  BY <1>1, <1>2, <1>3 DEF Next, vars, CloudStep, DriverStep, Crash

LEMMA InitRefines == Init => Contract!Init
<1> SUFFICES ASSUME Init PROVE Contract!Init
  OBVIOUS
<1>1. PICK labelled \in SUBSET Foreign :
        servers = [s \in ServerId |->
            [status |-> IF s \in Foreign THEN "ACTIVE" ELSE "ABSENT",
             machine |-> None,
             class |-> IF s \in labelled THEN "this" ELSE "other",
             stray |-> FALSE]]
  BY DEF Init, IaasInit
<1>2. Owner = [s \in ServerId |-> None] /\ Live = {} /\ Strays = {}
  BY <1>1 DEF Owner, Live, Strays
<1> QED
  BY <1>2 DEF Init, Contract!Init

(* The driver under MCM implements the contract, with no assumption on how *)
(* many controllers run or on what becomes of abandoned CreateServer       *)
(* calls: crashes, lost answers, timeouts and retries are invisible, and   *)
(* what is left is a machine whose ProviderID is written once, and whose   *)
(* object goes away after its servers; under Serial it has at most one     *)
(* whose creation was waited for.                                          *)
THEOREM DriverImplementsContract == Spec => ImplementsContract
<1>1. Spec => [](Serial => SerialInv)
  <2>1. CASE Serial
    <3>1. SerialInv => (Serial => SerialInv)
      OBVIOUS
    <3> QED
      BY <2>1, <3>1, SerialCorrect, PTL
  <2>2. CASE ~ Serial
    <3>1. Serial => SerialInv
      BY <2>2
    <3> QED
      BY <3>1, PTL
  <2> QED
    BY <2>1, <2>2
<1>2. KnownInv /\ [Next]_vars => [Contract!Next]_(Contract!contractVars)
  BY StepRefines
<1>3. GeneralInv /\ Origins /\ (Serial => SerialInv) => KnownInv
  BY DEF KnownInv
<1> QED
  BY <1>1, <1>2, <1>3, InitRefines, GeneralCorrect, OriginsCorrect, PTL
     DEF Spec, ImplementsContract, Contract!Spec
=============================================================================
