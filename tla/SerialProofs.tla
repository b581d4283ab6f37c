---------------------------- MODULE SerialProofs ----------------------------
(***************************************************************************)
(* Theorems about MachineController when at most one worker reconciles a   *)
(* machine.  Abandoned CreateServer calls may be carried out later: what   *)
(* is said of the servers of a machine is said of the timely ones.         *)
(***************************************************************************)
EXTENDS MachineProofs

(* No machine gets a timely server. *)
Shrinks == \A m \in Machine : Timely(m)' \subseteq Timely(m)

(* No worker takes up a machine; the objects stay as they are. *)
SameCalls ==
    /\ obj' = obj /\ pid' = pid
    /\ \A v \in Worker : \A m \in Machine : Reconciles(v, m)' =>
          Reconciles(v, m) /\ call'[v].pid = call[v].pid

ServersInv == OneServer /\ AtMostOneServer /\ NoLeak

LEMMA SameCallsKeep == ASSUME OneCall, SameCalls PROVE OneCall'
  BY DEF OneCall, SameCalls

LEMMA ShrinkByStatus ==
  ASSUME TypeOK, NEW s \in ServerId, NEW x, Exists(s), servers' = [servers EXCEPT ![s].status = x]
  PROVE  Shrinks
  BY DEF TypeOK, IaasTypeOK, Shrinks, Timely, ListByMachine, Exists, Server

LEMMA ShrinkByEnd ==
  ASSUME TypeOK, NEW s \in ServerId, Exists(s), Ended(s) PROVE Shrinks
  BY DEF TypeOK, IaasTypeOK, Shrinks, Timely, ListByMachine, Exists, Server, Ended

(* A server that comes late is not one of those its machine's handlers     *)
(* know of.                                                                *)
LEMMA ShrinkByStray ==
  ASSUME TypeOK, NEW s \in ServerId, NEW m \in Machine, Provisioned(s, m, TRUE) PROVE Shrinks
  BY DEF TypeOK, IaasTypeOK, Shrinks, Timely, ListByMachine, Exists, Server, Provisioned

LEMMA ShrinkByNothing == ASSUME servers' = servers PROVE Shrinks
  BY DEF Shrinks, Timely, ListByMachine, Exists

(* When no machine gets a server, only what worker w knows is in question. *)
LEMMA ShrinkFrame ==
  ASSUME GeneralInv, ServersInv, Shrinks, obj' = obj, pid' = pid, NEW w \in Worker,
         \A v \in Worker \ {w} : call'[v] = call[v], KnowsServers(call[w])'
  PROVE  ServersInv'
<1>1. ASSUME NEW v \in Worker PROVE KnowsServers(call[v])'
  <2>1. CASE v = w
    BY <2>1
  <2>2. CASE v # w
    <3>1. KnowsServers(call[v]) /\ call'[v] = call[v]
      BY <2>2 DEF ServersInv, OneServer
    <3>2. call[v].by = "machine" /\ call[v].op \in {"create", "delete"} => call[v].m \in Machine
      BY CallFacts
    <3> QED
      BY <3>1, <3>2 DEF KnowsServers, Shrinks
  <2> QED
    BY <2>1, <2>2
<1> QED
  BY <1>1 DEF ServersInv, OneServer, AtMostOneServer, NoLeak, Shrinks

(* A machine without a server gets one. *)
LEMMA GrowFrame ==
  ASSUME GeneralInv, OneCall, ServersInv, NEW w \in Worker, NEW s \in Fresh,
         Reconciles(w, call[w].m), call[w].m \in Machine, call[w].pid = None,
         Timely(call[w].m) = {}, Provisioned(s, call[w].m, FALSE), obj' = obj, pid' = pid,
         \A v \in Worker \ {w} : call'[v] = call[v],
         call'[w].m = call[w].m, call'[w].sid \in {s, None}, call'[w].pc # "create",
         ~ (call'[w].op = "delete")
  PROVE  ServersInv'
<1>0. PICK m \in Machine : m = call[w].m
  OBVIOUS
<1>1. Timely(m)' = {s}
  BY <1>0 DEF GeneralInv, TypeOK, IaasTypeOK, Server, Timely, ListByMachine, Exists, Provisioned, Fresh
<1>2. \A n \in Machine \ {m} : Timely(n)' = Timely(n)
  BY <1>0 DEF GeneralInv, TypeOK, IaasTypeOK, Server, Timely, ListByMachine, Exists, Provisioned, Fresh
<1>3. obj[m] # "absent" /\ pid[m] = None
  BY <1>0 DEF OneCall
<1>4. ASSUME NEW v \in Worker PROVE KnowsServers(call[v])'
  <2>1. CASE v = w
    BY <1>0, <1>1, <2>1 DEF KnowsServers
  <2>2. CASE v # w /\ call[v].by = "machine" /\ call[v].op \in {"create", "delete"}
    <3>1. KnowsServers(call[v]) /\ call'[v] = call[v] /\ call[v].m \in Machine
      BY <2>2, CallFacts DEF ServersInv, OneServer
    <3>2. call[v].pc # "idle"
      BY <2>2, CallFacts DEF CallInv, RequestShape
    <3>3. call[v].m # m
      BY <1>0, <2>2, <3>1, <3>2 DEF OneCall, Reconciles
    <3> QED
      BY <1>2, <3>1, <3>3 DEF KnowsServers
  <2>3. CASE v # w /\ ~ (call[v].by = "machine" /\ call[v].op \in {"create", "delete"})
    BY <2>3 DEF KnowsServers
  <2> QED
    BY <2>1, <2>2, <2>3
<1>5. OneServer'
  BY <1>2, <1>3, <1>4 DEF ServersInv, OneServer
<1>6. AtMostOneServer'
  <2>1. ASSUME NEW n \in Machine PROVE \A a, b \in Timely(n)' : a = b
    <3>1. CASE n = m
      BY <1>1, <3>1
    <3>2. CASE n # m
      <4>1. Timely(n)' = Timely(n)
        BY <1>2, <3>2
      <4>2. \A a, b \in Timely(n) : a = b
        BY DEF ServersInv, AtMostOneServer
      <4> QED
        BY <4>1, <4>2
    <3> QED
      BY <3>1, <3>2
  <2> QED
    BY <2>1 DEF AtMostOneServer
<1>7. NoLeak'
  BY <1>2, <1>3 DEF ServersInv, NoLeak
<1> QED
  BY <1>5, <1>6, <1>7 DEF ServersInv

----------------------------------------------------------------------------
(* The steps of the driver.                                                *)

(* A handler's step keeps who reconciles what. *)
LEMMA HandlerSameCalls ==
  ASSUME NEW w \in Worker, obj' = obj, pid' = pid, call[w].pc # "idle",
         call'[w].by = call[w].by, call'[w].m = call[w].m, call'[w].pid = call[w].pid,
         \A v \in Worker \ {w} : call'[v] = call[v]
  PROVE  SameCalls
  BY DEF SameCalls, Reconciles

(* A step of w that adds no server. *)
LEMMA HandlerShrinks ==
  ASSUME GeneralInv, OneCall, ServersInv, NEW w \in Worker, call[w].pc # "idle",
         Shrinks, obj' = obj, pid' = pid,
         call'[w].by = call[w].by, call'[w].m = call[w].m, call'[w].pid = call[w].pid,
         \A v \in Worker \ {w} : call'[v] = call[v], KnowsServers(call[w])'
  PROVE  OneCall' /\ ServersInv'
<1>1. SameCalls
  BY HandlerSameCalls
<1>2. OneCall'
  BY <1>1, SameCallsKeep DEF OneCall
<1>3. ServersInv'
  BY ShrinkFrame
<1> QED
  BY <1>2, <1>3

(* A handler that returns no id and does not claim that a deletion is done. *)
LEMMA FailureSerial ==
  ASSUME NEW w \in Worker, NEW code \in Code, NEW why \in Reasons,
         ReturnWhy(w, code, why), GeneralInv, OneCall, ServersInv,
         call[w].op = "delete" => code # "OK", call[w].pc # "idle",
         Shrinks, obj' = obj, pid' = pid
  PROVE  OneCall' /\ ServersInv'
<1>1. /\ SameRequest(w) /\ call'[w].pc = "done" /\ call'[w].sid = None /\ call'[w].code = code
  <2>1. call \in [Worker -> Call]
    BY DEF GeneralInv, TypeOK, ProviderTypeOK
  <2> QED
    BY <2>1, ReturnCall, SMT
<1>2. KnowsServers(call[w])'
  BY <1>1 DEF KnowsServers, SameRequest
<1> QED
  BY <1>1, <1>2, HandlerShrinks DEF SameRequest

(* DeleteMachine returns OK. *)
LEMMA DeletedSerial ==
  ASSUME NEW w \in Worker, Return(w, "OK"), GeneralInv, OneCall, ServersInv,
         call[w].op = "delete", call[w].pc # "idle",
         call[w].by = "machine" => Timely(call[w].m) = {},
         servers' = servers, obj' = obj, pid' = pid
  PROVE  OneCall' /\ ServersInv'
<1>1. /\ SameRequest(w) /\ call'[w].pc = "done" /\ call'[w].sid = None
  <2>1. call \in [Worker -> Call] /\ ReturnWhy(w, "OK", "") /\ "OK" \in Code
    BY DEF GeneralInv, TypeOK, ProviderTypeOK, Return, Code
  <2> QED
    BY <2>1, ReturnCall, Zenon DEF Reasons
<1>2. KnowsServers(call[w])'
  BY <1>1 DEF KnowsServers, SameRequest, Timely, ListByMachine, Exists
<1> QED
  BY <1>1, <1>2, HandlerShrinks, ShrinkByNothing DEF SameRequest

(* A handler goes on with the only server its machine may have. *)
LEMMA GotoSerial ==
  ASSUME NEW w \in Worker, NEW s \in ServerId \cup {None},
         NEW pc \in {"create", "await", "nics", "destroy", "gone"}, Goto(w, pc, s),
         GeneralInv, OneCall, ServersInv, call[w].pc # "idle",
         call[w].by = "machine" => /\ call[w].m \in Machine
                                   /\ pc = "create" => Timely(call[w].m) = {}
                                   /\ s # None => Timely(call[w].m) \subseteq {s},
         Shrinks, obj' = obj, pid' = pid
  PROVE  OneCall' /\ ServersInv'
<1>1. SameRequest(w) /\ call'[w].pc = pc /\ call'[w].sid = s
  <2>1. call \in [Worker -> Call]
    BY DEF GeneralInv, TypeOK, ProviderTypeOK
  <2> QED
    BY <2>1, GotoCall, SMT
<1>2. KnowsServers(call[w])'
  BY <1>1 DEF KnowsServers, SameRequest, Shrinks
<1> QED
  BY <1>1, <1>2, HandlerShrinks DEF SameRequest

(* What a handler of an object of MCM knows of it. *)
LEMMA OwnObject ==
  ASSUME NEW w \in Worker, GeneralInv, OneCall, ServersInv, call[w].pc # "idle",
         call[w].by = "machine", call[w].op \in {"create", "delete"}
  PROVE  /\ call[w].m \in Machine /\ obj[call[w].m] # "absent" /\ pid[call[w].m] = call[w].pid
         /\ call[w].pid # None => Timely(call[w].m) \subseteq {call[w].pid}
         /\ call[w].sid # None => Timely(call[w].m) \subseteq {call[w].sid}
         /\ call[w].op = "create" => call[w].pid = None
         /\ call[w].op = "create" /\ call[w].pc = "create" => Timely(call[w].m) = {}
<1>1. call[w].m \in Machine /\ Reconciles(w, call[w].m)
  BY CallFacts DEF Reconciles
<1>2. obj[call[w].m] # "absent" /\ pid[call[w].m] = call[w].pid
  BY <1>1 DEF OneCall
<1>3. call[w].op = "create" => call[w].pid = None
  BY CallFacts DEF CallInv, RequestShape
<1> QED
  BY <1>1, <1>2, <1>3 DEF ServersInv, OneServer, KnowsServers

(* What a look-up by name says of the timely servers. *)
LEMMA TimelyName ==
  ASSUME NEW m \in Machine, TypeOK
  PROVE  /\ GetServerByName(m) = None => Timely(m) = {}
         /\ GetServerByName(m) \in ServerId => Timely(m) \subseteq {GetServerByName(m)}
  BY NameResult DEF Timely

LEMMA RejectSerial ==
  ASSUME NEW w \in Worker, GeneralInv, OneCall, ServersInv, Reject(w), obj' = obj, pid' = pid
  PROVE  OneCall' /\ ServersInv'
<1>1. PICK code \in RejectCodes[call[w].op] : Return(w, code)
  BY DEF Reject
<1>2. /\ call[w].op \in {"none", "create", "delete", "status", "list"}
      /\ servers' = servers /\ call[w].pc = "begin"
  BY CallFacts DEF Reject, iaasVars, Call
<1>3. code \in Code \ {"OK"} /\ call[w].pc # "idle"
  BY <1>1, <1>2 DEF RejectCodes, Code
<1>4. ReturnWhy(w, code, "")
  BY <1>1 DEF Return
<1> QED
  BY <1>2, <1>3, <1>4, ShrinkByNothing, FailureSerial DEF Reasons

(* A handler returns an error and leaves the service alone. *)
LEMMA ErrorSerial ==
  ASSUME NEW w \in Worker, NEW code \in {"Unavailable", "ResourceExhausted", "DeadlineExceeded", "Internal"},
         NEW why \in Reasons, ReturnWhy(w, code, why),
         GeneralInv, OneCall, ServersInv, call[w].pc # "idle",
         Shrinks, obj' = obj, pid' = pid
  PROVE  OneCall' /\ ServersInv'
<1>1. code \in Code /\ code # "OK"
  BY DEF Code
<1> QED
  BY <1>1, FailureSerial

(* CreateServer is carried out: the machine had no server before. *)
LEMMA CreationSerial ==
  ASSUME NEW w \in Worker, NEW s \in Fresh, GeneralInv, OneCall, ServersInv,
         At(w, "create", "create"), Provisioned(s, call[w].m, FALSE), obj' = obj, pid' = pid,
         SameRequest(w), call'[w].sid \in {s, None}, call'[w].pc # "create"
  PROVE  OneCall' /\ ServersInv'
<1>1. /\ call[w].op = "create" /\ call[w].pc = "create" /\ call[w].by = "machine"
      /\ call[w].m \in Machine
  BY CallFacts DEF At
<1>2. call[w].pid = None /\ Timely(call[w].m) = {}
  BY <1>1, OwnObject
<1>3. Reconciles(w, call[w].m)
  BY <1>1 DEF Reconciles
<1>4. call'[w].m = call[w].m /\ ~ (call'[w].op = "delete") /\ \A v \in Worker \ {w} : call'[v] = call[v]
  BY <1>1 DEF SameRequest
<1>5. ServersInv'
  BY <1>1, <1>2, <1>3, <1>4, GrowFrame
<1>6. SameCalls
  BY <1>1, HandlerSameCalls DEF SameRequest
<1>7. OneCall'
  BY <1>6, SameCallsKeep DEF OneCall
<1> QED
  BY <1>5, <1>7

LEMMA CreateSerial ==
  ASSUME NEW w \in Worker, GeneralInv, OneCall, ServersInv, CreateMachine(w),
         obj' = obj, pid' = pid
  PROVE  OneCall' /\ ServersInv'
<1>0. /\ TypeOK /\ call \in [Worker -> Call] /\ call[w].pc # "idle"
      /\ call[w].op = "create" /\ call[w].by = "machine" /\ call[w].m \in Machine
      /\ call[w].pc \in {"await", "nics"} => call[w].sid \in ServerId
  BY CallFacts DEF CreateMachine, CreateLookupAnswers, CreateLookupFails, CreateServerAnswers,
     CreateServerFails, AwaitRunningAnswers, AwaitRunningFails, PatchNicsAnswers, PatchNicsFails, At,
     TypeOK, ProviderTypeOK
<1>00. UNCHANGED iaasVars => Shrinks
  BY ShrinkByNothing DEF iaasVars
<1>1. CASE CreateLookupAnswers(w)
  <2> DEFINE s == GetServerByName(call[w].m)
  <2>1. UNCHANGED iaasVars
    BY <1>1 DEF CreateLookupAnswers
  <2>2. CASE s = None /\ Goto(w, "create", None)
    <3>1. Timely(call[w].m) = {}
      BY <1>0, <2>2, TimelyName
    <3> QED
      BY <1>0, <1>00, <2>1, <2>2, <3>1, GotoSerial
  <2>3. CASE s \in ServerId /\ Goto(w, "await", s)
    <3>1. Timely(call[w].m) \subseteq {s}
      BY <1>0, <2>3, TimelyName
    <3> HIDE DEF s
    <3> QED
      BY <1>0, <1>00, <2>1, <2>3, <3>1, GotoSerial
  <2>4. CASE Return(w, "Unavailable")
    BY <1>0, <1>00, <2>1, <2>4, ErrorSerial DEF Return, Reasons
  <2> QED
    BY <1>1, <2>2, <2>3, <2>4 DEF CreateLookupAnswers
<1>2. CASE CreateLookupFails(w)
  BY <1>0, <1>00, <1>2, ErrorSerial DEF CreateLookupFails, Return, Reasons
<1>3. CASE CreateServerAnswers(w)
  <2>1. PICK s \in Fresh : Provisioned(s, call[w].m, FALSE) /\ Goto(w, "await", s)
    BY <1>3 DEF CreateServerAnswers
  <2>2. s \in ServerId \cup {None}
    BY DEF Fresh
  <2>3. SameRequest(w) /\ call'[w].pc = "await" /\ call'[w].sid = s
    BY <1>0, <2>1, <2>2, GotoCall
  <2> QED
    BY <1>3, <2>1, <2>3, CreationSerial DEF CreateServerAnswers
<1>4. CASE CreateServerFails(w)
  <2>1. ASSUME NEW code \in {"Unavailable", "ResourceExhausted"}, Return(w, code), UNCHANGED iaasVars
        PROVE  OneCall' /\ ServersInv'
    BY <1>0, <1>00, <2>1, ErrorSerial DEF Return, Reasons
  <2>2. ASSUME NEW s \in Fresh, Provisioned(s, call[w].m, FALSE), Return(w, "Unavailable")
        PROVE  OneCall' /\ ServersInv'
    <3>1. ReturnWhy(w, "Unavailable", "") /\ "Unavailable" \in Code
      BY <2>2 DEF Return, Code
    <3>2. SameRequest(w) /\ call'[w].pc = "done" /\ call'[w].sid = None
      BY <1>0, <3>1, ReturnCall DEF Reasons
    <3> QED
      BY <1>4, <2>2, <3>2, CreationSerial DEF CreateServerFails
  <2>3. ASSUME Return(w, "Unavailable"), UNCHANGED servers PROVE OneCall' /\ ServersInv'
    BY <1>0, <2>3, ShrinkByNothing, ErrorSerial DEF Return, Reasons
  <2> QED
    BY <1>4, <2>1, <2>2, <2>3 DEF CreateServerFails
<1>5. CASE AwaitRunningAnswers(w)
  <2>1. UNCHANGED iaasVars /\ call[w].sid \in ServerId /\ call[w].sid # None
    BY <1>0, <1>5, IaasAssumption DEF AwaitRunningAnswers, At
  <2>2. CASE Goto(w, "nics", call[w].sid)
    <3>1. Timely(call[w].m) \subseteq {call[w].sid}
      BY <1>0, <2>1, OwnObject
    <3> QED
      BY <1>0, <1>00, <2>1, <2>2, <3>1, GotoSerial
  <2>3. ASSUME NEW code \in {"ResourceExhausted", "DeadlineExceeded"}, NEW why \in {"state", "api"},
               ReturnWhy(w, code, why)
        PROVE  OneCall' /\ ServersInv'
    BY <1>0, <1>00, <2>1, <2>3, ErrorSerial DEF Reasons
  <2> QED
    BY <1>5, <2>2, <2>3 DEF AwaitRunningAnswers
<1>6. CASE AwaitRunningFails(w)
  <2>1. PICK code \in {"ResourceExhausted", "DeadlineExceeded"}, why \in {"api", "timer"} :
          ReturnWhy(w, code, why)
    BY <1>6 DEF AwaitRunningFails
  <2> QED
    BY <1>0, <1>00, <1>6, <2>1, ErrorSerial DEF AwaitRunningFails, Reasons
<1>8. CASE PatchNicsFails(w)
  BY <1>0, <1>00, <1>8, ErrorSerial DEF PatchNicsFails, Return, Reasons
<1>7. CASE PatchNicsAnswers(w)
  <2>1. UNCHANGED iaasVars /\ call[w].sid \in ServerId /\ call[w].sid # None
    BY <1>0, <1>7, IaasAssumption DEF PatchNicsAnswers, At
  <2>2. Timely(call[w].m) \subseteq {call[w].sid}
    BY <1>0, <2>1, OwnObject
  <2>3. /\ call'[w].op = "create" /\ call'[w].pc = "done" /\ call'[w].sid = call[w].sid
        /\ call'[w].by = call[w].by /\ call'[w].m = call[w].m /\ call'[w].pid = call[w].pid
        /\ \A v \in Worker \ {w} : call'[v] = call[v]
    BY <1>0, <1>7 DEF PatchNicsAnswers, Call
  <2>4. KnowsServers(call[w])'
    BY <1>0, <1>00, <2>1, <2>2, <2>3 DEF KnowsServers, Shrinks
  <2> QED
    BY <1>0, <1>00, <2>1, <2>3, <2>4, HandlerShrinks
<1> QED
  BY <1>1, <1>2, <1>3, <1>4, <1>5, <1>6, <1>7, <1>8 DEF CreateMachine

LEMMA DeleteSerial ==
  ASSUME NEW w \in Worker, GeneralInv, OneCall, ServersInv, DeleteMachine(w), obj' = obj, pid' = pid
  PROVE  OneCall' /\ ServersInv'
<1>0. /\ TypeOK /\ call[w].pc # "idle"
      /\ call[w].op = "delete" /\ call[w].pid \in ServerId \cup {None}
      /\ call[w].by \in {"machine", "safety"}
      /\ call[w].by = "machine" => call[w].m \in Machine
      /\ call[w].by = "safety" => call[w].pid # None
      /\ call[w].pc \in {"destroy", "gone"} => call[w].sid \in ServerId /\ call[w].sid # None
  BY CallFacts, IaasAssumption
     DEF DeleteMachine, DeleteByProviderID, DeleteLookupAnswers, DeleteLookupFails,
     DeleteServerAnswers, DeleteServerFails, AwaitDeletedAnswers, AwaitDeletedFails, At,
     CallInv, RequestShape
<1>00. UNCHANGED iaasVars => Shrinks /\ servers' = servers
  BY ShrinkByNothing DEF iaasVars
<1>01. ASSUME call[w].sid \in ServerId
       PROVE  call[w].by = "machine" => Timely(call[w].m) \subseteq {call[w].sid}
  BY <1>0, <1>01, OwnObject, IaasAssumption
(* The machine's only server is gone. *)
<1>02. ASSUME call[w].sid \in ServerId, ~ Exists(call[w].sid)
       PROVE  call[w].by = "machine" => Timely(call[w].m) = {}
  BY <1>01, <1>02 DEF Timely, ListByMachine
<1>1. CASE DeleteByProviderID(w)
  <2>1. Goto(w, "destroy", call[w].pid) /\ UNCHANGED iaasVars /\ call[w].pid # None
    BY <1>1 DEF DeleteByProviderID
  <2>2. call[w].by = "machine" => Timely(call[w].m) \subseteq {call[w].pid}
    BY <1>0, <2>1, OwnObject
  <2> QED
    BY <1>0, <1>00, <2>1, <2>2, GotoSerial
<1>2. CASE DeleteLookupAnswers(w)
  <2> DEFINE s == GetServerByName(call[w].m)
  <2>1. UNCHANGED iaasVars /\ call[w].m \in Machine
    BY <1>0, <1>2 DEF DeleteLookupAnswers
  <2>2. CASE s = None /\ Return(w, "OK")
    <3>1. Timely(call[w].m) = {}
      BY <1>0, <2>1, <2>2, TimelyName
    <3> QED
      BY <1>0, <1>00, <2>1, <2>2, <3>1, DeletedSerial
  <2>3. CASE s \in ServerId /\ Goto(w, "destroy", s)
    <3>1. Timely(call[w].m) \subseteq {s}
      BY <1>0, <2>1, <2>3, TimelyName
    <3> HIDE DEF s
    <3> QED
      BY <1>0, <1>00, <2>1, <2>3, <3>1, GotoSerial
  <2>4. CASE Return(w, "Internal")
    BY <1>0, <1>00, <2>1, <2>4, ErrorSerial DEF Return, Reasons
  <2> QED
    BY <1>2, <2>2, <2>3, <2>4 DEF DeleteLookupAnswers
<1>3. CASE DeleteLookupFails(w)
  BY <1>0, <1>00, <1>3, ErrorSerial DEF DeleteLookupFails, Return, Reasons
<1>4. CASE DeleteServerAnswers(w)
  <2>1. call[w].sid \in ServerId /\ call[w].sid # None
    BY <1>0, <1>4 DEF DeleteServerAnswers, At
  <2>2. CASE Exists(call[w].sid) /\ Deleting(call[w].sid) /\ Goto(w, "gone", call[w].sid)
    <3>1. Shrinks
      BY <1>0, <2>1, <2>2, ShrinkByStatus DEF Deleting
    <3> QED
      BY <1>0, <1>01, <2>1, <2>2, <3>1, GotoSerial
  <2>3. CASE ~ Exists(call[w].sid) /\ Return(w, "OK") /\ UNCHANGED servers
    BY <1>0, <1>02, <2>1, <2>3, DeletedSerial
  <2> QED
    BY <1>4, <2>2, <2>3 DEF DeleteServerAnswers
<1>5. CASE DeleteServerFails(w)
  <2>1. call[w].sid \in ServerId /\ Return(w, "Internal")
    BY <1>0, <1>5 DEF DeleteServerFails, At
  <2>2. Shrinks
    <3>1. CASE UNCHANGED servers
      BY <3>1, ShrinkByNothing
    <3>2. CASE Exists(call[w].sid) /\ Deleting(call[w].sid)
      BY <1>0, <2>1, <3>2, ShrinkByStatus DEF Deleting
    <3> QED
      BY <1>5, <3>1, <3>2 DEF DeleteServerFails
  <2> QED
    BY <1>0, <2>1, <2>2, ErrorSerial DEF Return, Reasons
<1>6. CASE AwaitDeletedAnswers(w)
  <2>1. UNCHANGED iaasVars /\ Return(w, "OK") /\ call[w].sid \in ServerId /\ ~ Exists(call[w].sid)
    BY <1>0, <1>6 DEF AwaitDeletedAnswers, At
  <2> QED
    BY <1>0, <1>00, <1>02, <2>1, DeletedSerial
<1>7. CASE AwaitDeletedFails(w)
  <2>1. PICK why \in {"api", "timer"} : ReturnWhy(w, "DeadlineExceeded", why)
    BY <1>7 DEF AwaitDeletedFails
  <2> QED
    BY <1>0, <1>00, <1>7, <2>1, ErrorSerial DEF AwaitDeletedFails, Reasons
<1> QED
  BY <1>1, <1>2, <1>3, <1>4, <1>5, <1>6, <1>7 DEF DeleteMachine

LEMMA StatusSerial ==
  ASSUME NEW w \in Worker, GeneralInv, OneCall, ServersInv, GetMachineStatus(w), obj' = obj, pid' = pid
  PROVE  OneCall' /\ ServersInv'
<1>1. /\ call[w].op = "status" /\ call[w].pc # "idle" /\ Shrinks
      /\ \E code \in {"OK", "NotFound", "Internal"} : Return(w, code)
  BY ShrinkByNothing DEF GetMachineStatus, StatusWithoutProviderID, StatusAnswers, StatusFails, At,
     iaasVars
<1>2. PICK code \in {"OK", "NotFound", "Internal"} : Return(w, code)
  BY <1>1
<1>3. code \in Code /\ ReturnWhy(w, code, "")
  BY <1>2 DEF Code, Return
<1> QED
  BY <1>1, <1>3, FailureSerial DEF Reasons

LEMMA ListSerial ==
  ASSUME NEW w \in Worker, GeneralInv, OneCall, ServersInv, ListMachines(w), obj' = obj, pid' = pid
  PROVE  OneCall' /\ ServersInv'
<1>1. /\ call[w] \in Call /\ call[w].op = "list" /\ call[w].pc # "idle" /\ Shrinks
      /\ call \in [Worker -> Call]
  BY CallFacts, ShrinkByNothing DEF ListMachines, ListAnswers, ListFails, At, iaasVars,
     TypeOK, ProviderTypeOK
<1>2. CASE ListAnswers(w)
  <2> DEFINE r == [call[w] EXCEPT !.pc = "done", !.code = "OK", !.seen = ListByClass]
  <2>1. /\ r.op = "list" /\ r.by = call[w].by /\ r.m = call[w].m /\ r.pid = call[w].pid
    BY <1>1 DEF Call
  <2>2. call' = [call EXCEPT ![w] = r]
    BY <1>2 DEF ListAnswers
  <2> HIDE DEF r
  <2>3. call'[w] = r /\ \A v \in Worker \ {w} : call'[v] = call[v]
    BY <1>1, <2>2
  <2>4. KnowsServers(call[w])'
    BY <2>1, <2>3 DEF KnowsServers
  <2> QED
    BY <1>1, <2>1, <2>3, <2>4, HandlerShrinks
<1>3. CASE ListFails(w)
  BY <1>1, <1>3, ErrorSerial DEF ListFails, Return, Reasons
<1> QED
  BY <1>2, <1>3 DEF ListMachines

LEMMA DriverSerial ==
  ASSUME NEW w \in Worker, GeneralInv, OneCall, ServersInv, DriverStep(w)
  PROVE  OneCall' /\ ServersInv'
  BY RejectSerial, CreateSerial, DeleteSerial, StatusSerial, ListSerial DEF DriverStep, ProviderNext

----------------------------------------------------------------------------
(* The steps of the service, of the users and of the controller.           *)

LEMMA NoCallOp == NoCall.op = "none"
  BY DEF NoCall

(* Calls end or go on, and no machine gets a server. *)
LEMMA EndSerial ==
  ASSUME GeneralInv, OneCall, ServersInv, Shrinks, obj' = obj, pid' = pid,
         \A w \in Worker : call'[w] \in {call[w], NoCall}
  PROVE  OneCall' /\ ServersInv'
<1>1. SameCalls
  BY NoCallFacts DEF SameCalls, Reconciles
<1>2. OneCall'
  BY <1>1, SameCallsKeep DEF OneCall
<1>3. ASSUME NEW v \in Worker PROVE KnowsServers(call[v])'
  <2>1. CASE call'[v] = NoCall
    BY <2>1, NoCallOp DEF KnowsServers
  <2>2. CASE call'[v] = call[v]
    <3>1. KnowsServers(call[v])
      BY DEF ServersInv, OneServer
    <3>2. call[v].by = "machine" /\ call[v].op \in {"create", "delete"} => call[v].m \in Machine
      BY CallFacts
    <3> QED
      BY <2>2, <3>1, <3>2 DEF KnowsServers, Shrinks
  <2> QED
    BY <2>1, <2>2
<1>4. ServersInv'
  BY <1>3 DEF ServersInv, OneServer, AtMostOneServer, NoLeak, Shrinks
<1> QED
  BY <1>2, <1>4

LEMMA CloudSerial ==
  ASSUME GeneralInv, OneCall, ServersInv, CloudStep PROVE OneCall' /\ ServersInv'
<1>1. IaasNext /\ call' = call /\ obj' = obj /\ pid' = pid /\ TypeOK
  BY DEF CloudStep, GeneralInv
<1>2. ASSUME NEW s \in ServerId, Boot(s) \/ Break(s) PROVE Shrinks
  BY <1>1, <1>2, ShrinkByStatus DEF Boot, Break, Exists
<1>3. ASSUME NEW s \in ServerId, DeletionCompletes(s) \/ Vanish(s) PROVE Shrinks
  BY <1>1, <1>3, ShrinkByEnd DEF DeletionCompletes, Vanish, Exists
<1>4. ASSUME NEW m \in Machine, NEW s \in ServerId, LateCreate(m, s) PROVE Shrinks
  BY <1>1, <1>4, ShrinkByStray DEF LateCreate
<1>5. Shrinks
  BY <1>1, <1>2, <1>3, <1>4 DEF IaasNext
<1> QED
  BY <1>1, <1>5, EndSerial

LEMMA EndCallSerial ==
  ASSUME GeneralInv, OneCall, ServersInv, NEW w \in Worker, EndCall(w) PROVE OneCall' /\ ServersInv'
<1>1. call \in [Worker -> Call]
  BY DEF GeneralInv, TypeOK, ProviderTypeOK
<1> QED
  BY <1>1, EndSerial, ShrinkByNothing DEF EndCall

LEMMA CrashSerial ==
  ASSUME GeneralInv, OneCall, ServersInv, Crash PROVE OneCall' /\ ServersInv'
  BY EndSerial, ShrinkByNothing DEF Crash

LEMMA UserSerial ==
  ASSUME GeneralInv, OneCall, ServersInv, NEW m \in Machine, UserDeletes(m)
  PROVE  OneCall' /\ ServersInv'
<1>1. servers' = servers /\ pid' = pid /\ call' = call
      /\ obj[m] = "present" /\ obj' = [obj EXCEPT ![m] = "deleting"] /\ TypeOK
  BY DEF UserDeletes, GeneralInv
<1>2. \A n \in Machine : obj'[n] = "absent" <=> obj[n] = "absent"
  BY <1>1 DEF TypeOK
<1>3. OneCall'
  BY <1>1, <1>2 DEF OneCall, Reconciles
<1>4. OneServer' /\ AtMostOneServer' /\ NoLeak'
  BY <1>1, <1>2 DEF ServersInv, OneServer, AtMostOneServer, NoLeak, KnowsServers, Timely, ListByMachine, Exists
<1> QED
  BY <1>3, <1>4 DEF ServersInv

(* The worker that reconciles m is done with it. *)
LEMMA LastSerial ==
  ASSUME GeneralInv, OneCall, ServersInv, NEW w \in Worker, NEW m \in Machine, Reconciles(w, m),
         call' = [call EXCEPT ![w] = NoCall], servers' = servers,
         \A n \in Machine \ {m} : obj'[n] = obj[n] /\ pid'[n] = pid[n],
         pid'[m] # None => Timely(m) \subseteq {pid'[m]},
         obj'[m] = "absent" => Timely(m) = {}
  PROVE  OneCall' /\ ServersInv'
<1>1. call'[w] = NoCall /\ \A v \in Worker \ {w} : call'[v] = call[v]
  BY DEF GeneralInv, TypeOK, ProviderTypeOK
<1>2. \A n \in Machine : Timely(n)' = Timely(n)
  BY DEF Timely, ListByMachine, Exists
<1>3. OneCall'
  <2>1. \A v \in Worker : \A n \in Machine : Reconciles(v, n)' => v # w /\ n # m /\ Reconciles(v, n)
    BY <1>1, NoCallFacts DEF OneCall, Reconciles
  <2> QED
    BY <1>1, <2>1 DEF OneCall
<1>4. OneServer'
  <2>1. ASSUME NEW v \in Worker PROVE KnowsServers(call[v])'
    <3>1. CASE v = w
      BY <1>1, <3>1, NoCallOp DEF KnowsServers
    <3>2. CASE v # w
      BY <1>1, <3>2 DEF ServersInv, OneServer, KnowsServers, Timely, ListByMachine, Exists
    <3> QED
      BY <3>1, <3>2
  <2> QED
    BY <1>2, <2>1 DEF ServersInv, OneServer
<1>5. AtMostOneServer' /\ NoLeak'
  BY <1>2 DEF ServersInv, AtMostOneServer, NoLeak
<1> QED
  BY <1>3, <1>4, <1>5 DEF ServersInv

LEMMA RecordSerial ==
  ASSUME GeneralInv, OneCall, ServersInv, NEW w \in Worker, RecordProviderID(w)
  PROVE  OneCall' /\ ServersInv'
<1>1. /\ servers' = servers /\ obj' = obj /\ call' = [call EXCEPT ![w] = NoCall]
      /\ obj[call[w].m] # "absent" /\ pid' = [pid EXCEPT ![call[w].m] = call[w].sid]
      /\ call[w].op = "create" /\ call[w].pc = "done" /\ pid \in [Machine -> ServerId \cup {None}]
  BY DEF RecordProviderID, Done, At, GeneralInv, TypeOK
<1>2. call[w].by = "machine" /\ call[w].m \in Machine /\ Reconciles(w, call[w].m)
  BY <1>1, CallFacts DEF Reconciles
<1>3. call[w].sid # None => Timely(call[w].m) \subseteq {call[w].sid}
  BY <1>1, <1>2, OwnObject
<1>4. PICK m \in Machine : m = call[w].m
  BY <1>2
<1> QED
  BY <1>1, <1>2, <1>3, <1>4, LastSerial

LEMMA ForgetSerial ==
  ASSUME GeneralInv, OneCall, ServersInv, NEW w \in Worker, ForgetMachine(w)
  PROVE  OneCall' /\ ServersInv'
<1>1. /\ servers' = servers /\ pid' = pid /\ call' = [call EXCEPT ![w] = NoCall]
      /\ obj' = [obj EXCEPT ![call[w].m] = "absent"] /\ call[w].by = "machine"
      /\ call[w].op = "delete" /\ call[w].pc = "done" /\ call[w].code = "OK"
      /\ obj \in [Machine -> {"present", "deleting", "absent"}]
  BY DEF ForgetMachine, Done, At, GeneralInv, TypeOK
<1>2. call[w].m \in Machine /\ Reconciles(w, call[w].m)
  BY <1>1, CallFacts DEF Reconciles
<1>3. Timely(call[w].m) = {}
  BY <1>1 DEF ServersInv, OneServer, KnowsServers
<1>4. PICK m \in Machine : m = call[w].m
  BY <1>2
<1>5. pid[m] # None => Timely(m) \subseteq {pid[m]}
  BY DEF ServersInv, OneServer
<1> QED
  BY <1>1, <1>2, <1>3, <1>4, <1>5, LastSerial

(* A worker begins a call: MCM's for a machine nobody else reconciles, or  *)
(* the safety loop's.                                                      *)
LEMMA BeginSerial ==
  ASSUME NEW w \in Worker, NEW r \in Call, GeneralInv, OneCall, ServersInv,
         call' = [call EXCEPT ![w] = r], r.pc = "begin", r.sid = None,
         servers' = servers, obj' = obj, pid' = pid,
         r.by = "machine" =>
             /\ r.m \in Machine /\ obj[r.m] # "absent" /\ pid[r.m] = r.pid
             /\ \A v \in Worker \ {w} : ~ Reconciles(v, r.m)
  PROVE  OneCall' /\ ServersInv'
<1>1. call'[w] = r /\ \A v \in Worker \ {w} : call'[v] = call[v]
  BY DEF GeneralInv, TypeOK, ProviderTypeOK
<1>2. OneCall'
  <2>1. ASSUME NEW v \in Worker, NEW m \in Machine, Reconciles(v, m)'
        PROVE  /\ obj[m] # "absent" /\ pid[m] = call'[v].pid
               /\ v # w => Reconciles(v, m) /\ ~ (r.by = "machine" /\ r.m = m)
               /\ v = w => r.by = "machine" /\ r.m = m
    <3>1. CASE v = w
      BY <1>1, <2>1, <3>1 DEF Reconciles
    <3>2. CASE v # w
      BY <1>1, <2>1, <3>2 DEF Reconciles, OneCall
    <3> QED
      BY <3>1, <3>2
  <2> QED
    BY <1>1, <2>1 DEF OneCall
<1>3. KnowsServers(call[w])'
  BY <1>1 DEF KnowsServers
<1>4. ServersInv'
  BY <1>1, <1>3, ShrinkByNothing, ShrinkFrame
<1> QED
  BY <1>2, <1>4

LEMMA StartSerial ==
  ASSUME NEW w \in Worker, NEW m \in Machine, NEW op \in {"status", "delete"}, Serial,
         GeneralInv, OneCall, ServersInv, MayReconcile(w, m), obj[m] # "absent",
         call' = [call EXCEPT ![w] = Request(op, "machine", m, pid[m], {})],
         servers' = servers, obj' = obj, pid' = pid
  PROVE  OneCall' /\ ServersInv'
<1> DEFINE r == Request(op, "machine", m, pid[m], {})
<1>1. pid[m] \in ServerId \cup {None}
  BY DEF GeneralInv, TypeOK
<1>2. r \in Call
  BY <1>1, RequestCall
<1>3. r.pc = "begin" /\ r.sid = None /\ r.m = m /\ r.pid = pid[m]
  BY DEF Request
<1>4. \A v \in Worker : ~ Reconciles(v, m)
  BY DEF MayReconcile
<1>5. call' = [call EXCEPT ![w] = r]
  OBVIOUS
<1> HIDE DEF r
<1> QED
  BY <1>2, <1>3, <1>4, <1>5, BeginSerial

LEMMA StartCreateSerial ==
  ASSUME NEW w \in Worker, GeneralInv, OneCall, ServersInv, StartCreate(w)
  PROVE  OneCall' /\ ServersInv'
<1> DEFINE r == Request("create", "machine", call[w].m, None, {})
<1>1. /\ call[w].op = "status" /\ call[w].pc = "done" /\ call[w].pid = None
      /\ call' = [call EXCEPT ![w] = r] /\ servers' = servers /\ obj' = obj /\ pid' = pid
  BY DEF StartCreate, Done, At
<1>2. call[w].by = "machine" /\ call[w].m \in Machine
  BY <1>1, CallFacts DEF CallInv, RequestShape
<1>3. Reconciles(w, call[w].m)
  BY <1>1, <1>2 DEF Reconciles
<1>4. /\ obj[call[w].m] # "absent" /\ pid[call[w].m] = None
      /\ \A v \in Worker \ {w} : ~ Reconciles(v, call[w].m)
  BY <1>1, <1>2, <1>3 DEF OneCall
<1>5. r \in Call
  BY <1>2, RequestCall
<1>6. r.pc = "begin" /\ r.sid = None /\ r.m = call[w].m /\ r.pid = None
  BY DEF Request
<1> HIDE DEF r
<1> QED
  BY <1>1, <1>2, <1>4, <1>5, <1>6, BeginSerial

LEMMA SafetySerial ==
  ASSUME NEW w \in Worker, NEW m \in Machine \cup {None}, NEW p \in ServerId \cup {None},
         NEW seen \in SUBSET ServerId, NEW op \in {"list", "delete"}, GeneralInv, OneCall, ServersInv,
         call' = [call EXCEPT ![w] = Request(op, "safety", m, p, seen)],
         servers' = servers, obj' = obj, pid' = pid
  PROVE  OneCall' /\ ServersInv'
<1> DEFINE r == Request(op, "safety", m, p, seen)
<1>1. r \in Call
  BY RequestCall
<1>2. r.pc = "begin" /\ r.sid = None /\ ~ (r.by = "machine")
  BY DEF Request
<1>3. call' = [call EXCEPT ![w] = r]
  OBVIOUS
<1> HIDE DEF r
<1> QED
  BY <1>1, <1>2, <1>3, BeginSerial

LEMMA StartListSerial ==
  ASSUME NEW w \in Worker, GeneralInv, OneCall, ServersInv, StartList(w)
  PROVE  OneCall' /\ ServersInv'
  BY SafetySerial DEF StartList

LEMMA StartOrphanDeleteSerial ==
  ASSUME NEW w \in Worker, NEW s \in ServerId, GeneralInv, OneCall, ServersInv,
         StartOrphanDelete(w, s)
  PROVE  OneCall' /\ ServersInv'
<1>1. servers[s].machine \in Machine \cup {None}
  BY DEF GeneralInv, TypeOK, IaasTypeOK, Server
<1>2. call[w].seen \ {s} \in SUBSET ServerId
  BY CallFacts DEF Call
<1> QED
  BY <1>1, <1>2, SafetySerial DEF StartOrphanDelete

LEMMA ControllerSerial ==
  ASSUME NEW w \in Worker, Serial, GeneralInv, OneCall, ServersInv, ControllerStep(w)
  PROVE  OneCall' /\ ServersInv'
<1>1. ASSUME NEW m \in Machine, StartStatus(w, m) \/ StartDelete(w, m)
      PROVE  OneCall' /\ ServersInv'
  BY <1>1, StartSerial DEF StartStatus, StartDelete
<1> QED
  BY <1>1, StartCreateSerial, RecordSerial, ForgetSerial, EndCallSerial, StartListSerial,
     StartOrphanDeleteSerial DEF ControllerStep

----------------------------------------------------------------------------

LEMMA SerialStep ==
  ASSUME Serial, GeneralInv, OneCall, ServersInv, [Next]_vars
  PROVE  OneCall' /\ ServersInv'
<1>1. CASE UNCHANGED vars
  BY <1>1, EndSerial, ShrinkByNothing DEF vars
<1>2. CASE Next
  BY <1>2, CloudSerial, DriverSerial, ControllerSerial, UserSerial, CrashSerial DEF Next
<1> QED
  BY <1>1, <1>2

LEMMA SerialInit == Init => OneCall /\ ServersInv
<1> SUFFICES ASSUME Init PROVE OneCall /\ ServersInv
  OBVIOUS
<1>1. \A w \in Worker : call[w] = NoCall
  BY DEF Init, ProviderInit
<1>2. \A m \in Machine : Timely(m) = {}
  <2>1. \A s \in ServerId : servers[s].machine = None
    <3>1. PICK labelled \in SUBSET Foreign :
            servers = [s \in ServerId |->
                [status |-> IF s \in Foreign THEN "ACTIVE" ELSE "ABSENT",
                 machine |-> None,
                 class |-> IF s \in labelled THEN "this" ELSE "other",
                 stray |-> FALSE]]
      BY DEF Init, IaasInit
    <3> QED
      BY <3>1
  <2> QED
    BY <2>1, IaasAssumption DEF Timely, ListByMachine
<1>3. OneCall
  BY <1>1, NoCallFacts DEF Init, IaasInit, OneCall, Reconciles
<1>4. \A w \in Worker : KnowsServers(call[w])
  BY <1>1, NoCallOp DEF KnowsServers
<1> QED
  BY <1>2, <1>3, <1>4 DEF Init, ServersInv, OneServer, AtMostOneServer, NoLeak

(* With one reconcile per machine at a time the handlers know the timely   *)
(* servers of their machines throughout.                                   *)
THEOREM SerialCorrect == ASSUME Serial PROVE Spec => []SerialInv
<1>1. Init => OneCall /\ ServersInv
  BY SerialInit
<1>2. GeneralInv /\ GeneralInv' /\ OneCall /\ ServersInv /\ [Next]_vars => (OneCall /\ ServersInv)'
  BY SerialStep
<1>3. GeneralInv /\ Origins /\ OneCall /\ ServersInv => SerialInv
  BY DEF ServersInv, SerialInv
<1> QED
  BY <1>1, <1>2, <1>3, GeneralCorrect, OriginsCorrect, PTL DEF Spec

(* A machine never has two servers whose creation was waited for: no       *)
(* crash, lost answer, timeout or retry makes CreateMachine create a       *)
(* second one, and no late server makes it either.                         *)
THEOREM NoDuplicates == ASSUME Serial PROVE Spec => []AtMostOneServer
<1>1. SerialInv => AtMostOneServer
  BY DEF SerialInv
<1> QED
  BY <1>1, SerialCorrect, PTL

(* When a Machine object is gone, no server of that machine is left, even  *)
(* if its ProviderID was never recorded, except one that came late.        *)
THEOREM NothingLeaks == ASSUME Serial PROVE Spec => []NoLeak
<1>1. SerialInv => NoLeak
  BY DEF SerialInv
<1> QED
  BY <1>1, SerialCorrect, PTL

(* Where abandoned CreateServer calls are never carried out, both hold of  *)
(* all servers with the machine's label.                                   *)
THEOREM OneServerOutright ==
  ASSUME Serial, ~ AllowLate
  PROVE  Spec => [](\A m \in Machine :
                      /\ \A s, t \in ListByMachine(m) : s = t
                      /\ obj[m] = "absent" => ListByMachine(m) = {})
<1>1. SerialInv => \A m \in Machine :
                      /\ \A s, t \in ListByMachine(m) : s = t
                      /\ obj[m] = "absent" => ListByMachine(m) = {}
  <2>1. Origins => \A m \in Machine : Timely(m) = ListByMachine(m)
    BY DEF Origins, Timely, ListByMachine
  <2> QED
    BY <2>1 DEF SerialInv, AtMostOneServer, NoLeak
<1> QED
  BY <1>1, SerialCorrect, PTL
=============================================================================
