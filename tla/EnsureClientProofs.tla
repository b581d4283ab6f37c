------------------------- MODULE EnsureClientProofs -------------------------
(***************************************************************************)
(* Theorems about EnsureClient, for any number of goroutines and keys.     *)
(***************************************************************************)
EXTENDS ClientRefinement, TLAPS

LEMMA ClientInit == Init => ClientInv
<1> SUFFICES ASSUME Init PROVE ClientInv
  OBVIOUS
<1>1. Idle \in ThreadState
  BY DEF Idle, ThreadState
<1>2. \A t \in Thread : th[t] = Idle /\ th[t].pc = "idle" /\ th[t].client = NoKey
  BY DEF Init, Idle
<1>3. TypeOK
  BY <1>1, <1>2 DEF Init, TypeOK, InOnce
<1>4. OnceInv
  BY <1>2 DEF Init, OnceInv, InOnce
<1>5. UserInv
  BY <1>2, KeyAssumption DEF Init, UserInv
<1> QED
  BY <1>3, <1>4, <1>5 DEF ClientInv

(* Every step of every goroutine, a rotation and a restart keep ClientInv. *)
LEMMA ClientStep == ClientInv /\ [Next]_vars => ClientInv'
<1> SUFFICES ASSUME ClientInv, [Next]_vars PROVE ClientInv'
  OBVIOUS
<1> USE KeyAssumption DEF ClientInv
<1>1. ASSUME NEW t \in Thread, Request(t) PROVE ClientInv'
  <2>1. th'[t] \in ThreadState /\ th' = [th EXCEPT ![t] = th'[t]]
    BY <1>1 DEF Request, TypeOK, ThreadState, Idle
  <2>2. TypeOK'
    BY <1>1, <2>1 DEF Request, TypeOK, InOnce, Idle, clientVars
  <2>3. OnceInv'
    BY <1>1 DEF Request, TypeOK, OnceInv, InOnce, Idle, clientVars
  <2>4. UserInv'
    BY <1>1 DEF Request, TypeOK, OnceInv, UserInv, Idle, clientVars
  <2> QED
    BY <2>2, <2>3, <2>4
<1>2. ASSUME NEW t \in Thread, CheckClient(t) PROVE ClientInv'
  BY <1>2 DEF CheckClient, Step, TypeOK, OnceInv, UserInv, InOnce, ThreadState, clientVars
<1>3. ASSUME NEW t \in Thread, EnterOnce(t) PROVE ClientInv'
  BY <1>3 DEF EnterOnce, Step, TypeOK, OnceInv, UserInv, InOnce, ThreadState
<1>4. ASSUME NEW t \in Thread, PassOnce(t) PROVE ClientInv'
  BY <1>4 DEF PassOnce, Step, TypeOK, OnceInv, UserInv, InOnce, ThreadState, clientVars
<1>5. ASSUME NEW t \in Thread, NewClientFails(t) PROVE ClientInv'
  BY <1>5 DEF NewClientFails, Step, TypeOK, OnceInv, UserInv, InOnce, ThreadState
<1>6. ASSUME NEW t \in Thread, StoreFirstWord(t) PROVE ClientInv'
  <2>1. th'[t] \in ThreadState /\ th' = [th EXCEPT ![t] = th'[t]]
    BY <1>6 DEF StoreFirstWord, TypeOK, ThreadState, Step
  <2>2. TypeOK'
    <3>1. clientType' \in BOOLEAN /\ clientPtr' \in Usable \cup {NoKey}
      BY <1>6 DEF StoreFirstWord, TypeOK
    <3>2. once' = "running" /\ InOnce(t)'
      BY <1>6 DEF StoreFirstWord, Step, TypeOK, InOnce
    <3> QED
      BY <1>6, <2>1, <3>1, <3>2 DEF StoreFirstWord, TypeOK
  <2>3. OnceInv'
    BY <1>6 DEF StoreFirstWord, TypeOK, OnceInv, InOnce, Step
  <2>4. UserInv'
    BY <1>6 DEF StoreFirstWord, TypeOK, OnceInv, UserInv, Step
  <2> QED
    BY <2>2, <2>3, <2>4
<1>7. ASSUME NEW t \in Thread, StoreSecondWord(t) PROVE ClientInv'
  BY <1>7 DEF StoreSecondWord, Step, TypeOK, OnceInv, UserInv, InOnce, ThreadState
<1>8. ASSUME NEW t \in Thread, CaptureCredentials(t) PROVE ClientInv'
  BY <1>8 DEF CaptureCredentials, Step, TypeOK, OnceInv, UserInv, InOnce, ThreadState
<1>9. ASSUME NEW t \in Thread, LeaveOnce(t) PROVE ClientInv'
  <2>1. TypeOK'
    BY <1>9 DEF LeaveOnce, Step, TypeOK, OnceInv, InOnce, ThreadState
  <2>2. OnceInv'
    BY <1>9 DEF LeaveOnce, Step, TypeOK, OnceInv, InOnce, ThreadState
  <2>3. UserInv'
    BY <1>9 DEF LeaveOnce, Step, TypeOK, UserInv, ThreadState
  <2> QED
    BY <2>1, <2>2, <2>3
<1>10. ASSUME NEW t \in Thread, CompareCredentials(t) PROVE ClientInv'
  <2>1. th'[t] \in ThreadState /\ th' = [th EXCEPT ![t] = th'[t]]
    BY <1>10, ZenonT(40) DEF CompareCredentials, TypeOK, ThreadState
  <2>2. TypeOK'
    BY <1>10, <2>1 DEF CompareCredentials, TypeOK, InOnce, clientVars
  <2>3. OnceInv'
    BY <1>10 DEF CompareCredentials, TypeOK, OnceInv, InOnce, clientVars
  <2>4. UserInv'
    BY <1>10 DEF CompareCredentials, TypeOK, OnceInv, UserInv, clientVars
  <2> QED
    BY <2>2, <2>3, <2>4
<1>11. ASSUME NEW t \in Thread, Return(t) PROVE ClientInv'
  BY <1>11 DEF Return, Step, TypeOK, OnceInv, UserInv, InOnce, ThreadState, clientVars
<1>12. ASSUME NEW t \in Thread, UseClient(t) PROVE ClientInv'
  <2>1. th'[t] \in ThreadState /\ th' = [th EXCEPT ![t] = th'[t]]
    BY <1>12, ZenonT(40) DEF UseClient, TypeOK, ThreadState
  <2>2. TypeOK'
    BY <1>12, <2>1 DEF UseClient, TypeOK, InOnce, clientVars
  <2>3. OnceInv'
    BY <1>12 DEF UseClient, TypeOK, OnceInv, InOnce, clientVars
  <2>4. UserInv'
    BY <1>12 DEF UseClient, TypeOK, OnceInv, UserInv, clientVars
  <2> QED
    BY <2>2, <2>3, <2>4
<1>13. CASE RotateSecret
  BY <1>13 DEF RotateSecret, TypeOK, OnceInv, UserInv, InOnce, ThreadState, clientVars
<1>14. CASE Restart
  BY <1>14 DEF Restart, TypeOK, OnceInv, UserInv, InOnce, ThreadState, Idle
<1>15. CASE UNCHANGED vars
  BY <1>15 DEF vars, clientVars, TypeOK, OnceInv, UserInv, InOnce
<1> QED
  BY <1>1, <1>2, <1>3, <1>4, <1>5, <1>6, <1>7, <1>8, <1>9, <1>10, <1>11, <1>12, <1>13,
     <1>14, <1>15 DEF Next, ThreadStep

(* ClientInv, and with it type correctness, holds in every behaviour. *)
THEOREM ClientCorrect == Spec => []ClientInv
  BY ClientInit, ClientStep, PTL DEF Spec

(* All calls made in a process use a client built from one key. *)
THEOREM SingleTenant == Spec => []OneCredential
<1>1. ClientInv => OneCredential
  BY DEF ClientInv, UserInv, OneCredential
<1> QED
  BY <1>1, ClientCorrect, PTL

(* No method is ever called on a client that was not built, and after a    *)
(* failed initialization no request of the process succeeds.               *)
THEOREM FailureSticks == Spec => []NoCallWithoutClient
<1>1. ClientInv => NoCallWithoutClient
  BY DEF ClientInv, OnceInv, UserInv, NoCallWithoutClient
<1> QED
  BY <1>1, ClientCorrect, PTL

(* A process never replaces its client. *)
THEOREM ClientIsFinal == Spec => ClientNeverReplaced
<1>1. ClientInv /\ [Next]_vars => [clientPtr # NoKey => clientPtr' \in {clientPtr, NoKey}]_clientPtr
  <2> SUFFICES ASSUME ClientInv, Next PROVE clientPtr # NoKey => clientPtr' \in {clientPtr, NoKey}
    BY DEF vars, clientVars
  <2>1. ASSUME NEW t \in Thread, StoreFirstWord(t)
        PROVE clientPtr # NoKey => clientPtr' \in {clientPtr, NoKey}
    BY <2>1 DEF StoreFirstWord, Step, ClientInv, OnceInv
  <2>2. ASSUME NEW t \in Thread, StoreSecondWord(t)
        PROVE clientPtr # NoKey => clientPtr' \in {clientPtr, NoKey}
    BY <2>2 DEF StoreSecondWord, Step, ClientInv, OnceInv
  <2> QED
    BY <2>1, <2>2 DEF Next, ThreadStep, Request, CheckClient, EnterOnce, PassOnce,
       NewClientFails, CaptureCredentials, LeaveOnce, CompareCredentials, Return, UseClient,
       RotateSecret, Restart, clientVars
<1> QED
  BY <1>1, ClientCorrect, PTL DEF Spec, ClientNeverReplaced

----------------------------------------------------------------------------
(* The contract                                                            *)

Requests == [t \in Thread |-> RequestOf(th[t])]

(* While the client is half written, the one goroutine that writes it has  *)
(* the key.                                                                *)
LEMMA ChosenIs ==
  ASSUME ClientInv
  PROVE  /\ Decided \in BOOLEAN
         /\ clientPtr # NoKey => Chosen = clientPtr
         /\ clientPtr = NoKey /\ ~ clientType => Chosen = NoKey
         /\ clientPtr = NoKey /\ clientType => \E t \in Thread : th[t].pc = "store"
         /\ \A t \in Thread : th[t].pc = "store" => Chosen = th[t].key /\ Chosen \in Usable
<1>1. ASSUME NEW t \in Thread, th[t].pc = "store"
      PROVE  Chosen = th[t].key /\ Chosen \in Usable
  <2>1. th[t].key \in Usable /\ (clientPtr = th[t].key \/ (clientType /\ clientPtr = NoKey))
    BY <1>1 DEF ClientInv, OnceInv
  <2>2. (CHOOSE u \in Thread : th[u].pc = "store") = t
    BY <1>1 DEF ClientInv, OnceInv, InOnce
  <2> QED
    BY <2>1, <2>2, KeyAssumption DEF Chosen
<1>2. ASSUME clientPtr = NoKey, clientType
      PROVE  \E t \in Thread : th[t].pc = "store"
  <2>1. once = "running"
    BY <1>2 DEF ClientInv, TypeOK, OnceInv
  <2>2. PICK t \in Thread : InOnce(t)
    BY <2>1 DEF ClientInv, TypeOK
  <2>3. th[t].key \in Usable \/ th[t].pc # "capture"
    BY DEF ClientInv, OnceInv
  <2>4. th[t].pc = "store"
    BY <1>2, <2>2, <2>3, KeyAssumption DEF ClientInv, OnceInv, InOnce
  <2> QED
    BY <2>4
<1> QED
  BY <1>1, <1>2 DEF Decided, Chosen, ClientInv, TypeOK

(* The decision stays as long as the same two words are there and who      *)
(* writes them goes on.                                                    *)
LEMMA ChosenStays ==
  ASSUME ClientInv, ClientInv', UNCHANGED <<clientType, clientPtr, clientErr>>,
         \A t \in Thread : th[t].pc = "store" => th'[t].pc = "store" /\ th'[t].key = th[t].key
  PROVE  UNCHANGED <<Decided, Chosen>>
<1>1. CASE clientPtr = NoKey /\ clientType
  <2>1. PICK t \in Thread : th[t].pc = "store"
    BY <1>1, ChosenIs
  <2>2. th'[t].pc = "store" /\ th'[t].key = th[t].key
    BY <2>1
  <2>3. Chosen = th[t].key
    BY <2>1, ChosenIs
  <2>4. Chosen' = th'[t].key
    <3>1. (CHOOSE u \in Thread : th'[u].pc = "store") = t
      BY <2>2 DEF ClientInv, OnceInv, InOnce
    <3> QED
      BY <1>1, <3>1 DEF Chosen
  <2> QED
    BY <2>2, <2>3, <2>4 DEF Decided
<1>2. CASE ~ (clientPtr = NoKey /\ clientType)
  BY <1>2 DEF Chosen, Decided
<1> QED
  BY <1>1, <1>2

(* A step inside ensureClient is invisible to the request. *)
LEMMA SamePhase ==
  ASSUME TypeOK, NEW t \in Thread, NEW from, NEW to, Step(t, from, to),
         PhaseOf(from) = PhaseOf(to)
  PROVE  UNCHANGED Requests
<1>1. \A u \in Thread : RequestOf(th'[u]) = RequestOf(th[u])
  BY DEF TypeOK, ThreadState, Step, RequestOf
<1> QED
  BY <1>1 DEF Requests

(* How a request ends. *)
LEMMA NextPhase ==
  ASSUME TypeOK, NEW t \in Thread, NEW r, th' = [th EXCEPT ![t] = r]
  PROVE  Requests' = [Requests EXCEPT ![t] = RequestOf(r)]
  BY DEF TypeOK, Requests

LEMMA PhaseFacts ==
  /\ PhaseOf("idle") = "idle" /\ PhaseOf("used") = "served" /\ PhaseOf("failed") = "failed"
  /\ \A pc \in {"check", "once", "new", "store", "capture", "leave", "compare", "return",
                "use"} : PhaseOf(pc) = "pending"
  BY DEF PhaseOf

(* Every step is one of the contract or invisible to it. *)
LEMMA ClientStepRefines ==
  ASSUME ClientInv, ClientInv', Next
  PROVE  [Contract!Next]_(Contract!contractVars)
<1> USE PhaseFacts
<1>0. TypeOK /\ th \in [Thread -> ThreadState]
  BY DEF ClientInv, TypeOK
<1>1. ASSUME UNCHANGED <<secret, Decided, Chosen, Requests>>
      PROVE  UNCHANGED Contract!contractVars
  BY <1>1 DEF Requests, Contract!contractVars
<1>2. ASSUME NEW t \in Thread, Request(t) PROVE Contract!Arrive(t)
  <2> DEFINE r == [Idle EXCEPT !.pc = "check", !.key = secret]
  <2>1. RequestOf(r) = [phase |-> "pending", key |-> secret, client |-> NoKey]
    BY DEF RequestOf, Idle
  <2>2. Requests' = [Requests EXCEPT ![t] = RequestOf(r)]
    BY <1>0, <1>2, NextPhase DEF Request
  <2>3. UNCHANGED <<secret, Decided, Chosen>>
    BY <1>2, ChosenStays DEF Request, clientVars, TypeOK, ClientInv
  <2>4. Requests[t].phase # "pending"
    BY <1>2 DEF Request, Requests, RequestOf
  <2> QED
    BY <2>1, <2>2, <2>3, <2>4 DEF Requests, Contract!Arrive
<1>3. ASSUME NEW t \in Thread,
             CheckClient(t) \/ EnterOnce(t) \/ PassOnce(t) \/ CaptureCredentials(t) \/ LeaveOnce(t)
      PROVE  UNCHANGED Contract!contractVars
  <2>1. PICK from \in {"check", "once", "capture", "leave"},
             to \in {"use", "once", "new", "compare", "leave"} : Step(t, from, to)
    BY <1>3 DEF CheckClient, EnterOnce, PassOnce, CaptureCredentials, LeaveOnce
  <2>2. UNCHANGED Requests
    BY <1>0, <2>1, SamePhase
  <2>3. UNCHANGED <<secret, clientType, clientPtr, clientErr>>
    BY <1>3 DEF CheckClient, EnterOnce, PassOnce, CaptureCredentials, LeaveOnce, clientVars
  <2>4. UNCHANGED <<Decided, Chosen>>
    BY <1>0, <2>1, <2>3, ChosenStays DEF Step
  <2> QED
    BY <1>1, <2>2, <2>3, <2>4
<1>4. ASSUME NEW t \in Thread, NewClientFails(t) PROVE Contract!Decide(t)
  <2>1. UNCHANGED Requests
    BY <1>0, <1>4, SamePhase DEF NewClientFails
  <2>2. ~ clientErr /\ ~ clientType /\ clientPtr = NoKey
    BY <1>4 DEF NewClientFails, Step, ClientInv, OnceInv
  <2>3. ~ Decided /\ Decided' /\ Chosen' = NoKey
    BY <1>4, <2>2 DEF NewClientFails, Decided, Chosen
  <2>4. Requests[t].phase = "pending" /\ Requests[t].key \notin Usable
    BY <1>4 DEF NewClientFails, Step, Requests, RequestOf
  <2>5. UNCHANGED secret
    BY <1>4 DEF NewClientFails
  <2> QED
    BY <2>1, <2>3, <2>4, <2>5 DEF Requests, Contract!Decide, Decided
<1>5. ASSUME NEW t \in Thread, StoreFirstWord(t) PROVE Contract!Decide(t)
  <2>1. UNCHANGED Requests
    BY <1>0, <1>5, SamePhase DEF StoreFirstWord
  <2>2. ~ clientErr /\ ~ clientType /\ clientPtr = NoKey
    BY <1>5 DEF StoreFirstWord, Step, ClientInv, OnceInv
  <2>3. th[t].key \in Usable /\ th'[t].pc = "store" /\ th'[t].key = th[t].key
    BY <1>0, <1>5 DEF StoreFirstWord, Step, ThreadState
  <2>4. ~ Decided /\ Decided'
    BY <1>5, <2>2, <2>3, KeyAssumption DEF StoreFirstWord, Decided
  <2>5. Chosen' = th[t].key
    <3>1. (CHOOSE u \in Thread : th'[u].pc = "store") = t
      BY <2>3 DEF ClientInv, OnceInv, InOnce
    <3>2. \/ clientPtr' = th[t].key
          \/ clientPtr' = NoKey /\ clientType'
      BY <1>5, <2>2 DEF StoreFirstWord
    <3> QED
      BY <2>3, <3>1, <3>2, KeyAssumption DEF Chosen
  <2>6. Requests[t].phase = "pending" /\ Requests[t].key = th[t].key
    BY <1>5 DEF StoreFirstWord, Step, Requests, RequestOf
  <2>7. UNCHANGED secret
    BY <1>5 DEF StoreFirstWord
  <2> QED
    BY <2>1, <2>3, <2>4, <2>5, <2>6, <2>7 DEF Requests, Contract!Decide, Decided
<1>6. ASSUME NEW t \in Thread, StoreSecondWord(t) PROVE UNCHANGED Contract!contractVars
  <2>1. UNCHANGED Requests /\ UNCHANGED <<secret, clientErr>>
    BY <1>0, <1>6, SamePhase DEF StoreSecondWord
  <2>2. Chosen = th[t].key /\ th[t].key \in Usable
    BY <1>6, ChosenIs DEF StoreSecondWord, Step
  <2>3. Chosen' = th[t].key
    BY <1>6, <2>2, KeyAssumption DEF StoreSecondWord, Chosen
  <2>4. Decided /\ Decided'
    BY <1>6, <2>2, KeyAssumption
       DEF StoreSecondWord, Step, Decided, ClientInv, OnceInv
  <2> QED
    BY <1>1, <2>1, <2>2, <2>3, <2>4 DEF Decided
<1>7. ASSUME NEW t \in Thread, CompareCredentials(t) PROVE UNCHANGED Contract!contractVars
  <2>1. UNCHANGED <<secret, clientVars>>
    BY <1>7 DEF CompareCredentials
  <2>2. PICK b : th' = [th EXCEPT ![t].pc = "return", ![t].warned = b] /\ th[t].pc = "compare"
    BY <1>7 DEF CompareCredentials
  <2>3. UNCHANGED Requests
    BY <1>0, <2>2 DEF Requests, RequestOf, ThreadState
  <2>4. UNCHANGED <<Decided, Chosen>>
    BY <1>0, <2>1, <2>2, ChosenStays DEF clientVars
  <2> QED
    BY <1>1, <2>1, <2>3, <2>4
<1>8. ASSUME NEW t \in Thread, Return(t)
      PROVE  UNCHANGED Contract!contractVars \/ Contract!Refuse(t)
  <2>1. UNCHANGED <<secret, clientVars>> /\ th[t].pc = "return"
    BY <1>8 DEF Return, Step
  <2>2. UNCHANGED <<Decided, Chosen>>
    BY <1>0, <1>8, <2>1, ChosenStays DEF clientVars, Return, Step
  <2>3. CASE clientErr
    <3>1. Step(t, "return", "failed")
      BY <1>8, <2>3 DEF Return
    <3>2. Requests' = [Requests EXCEPT ![t] =
                         [phase |-> "failed", key |-> Requests[t].key, client |-> NoKey]]
      <4>1. PICK r : r = [th[t] EXCEPT !.pc = "failed"] /\ th' = [th EXCEPT ![t] = r]
        BY <1>0, <3>1 DEF Step
      <4>2. th[t].client = NoKey
        BY <2>1, <2>3 DEF ClientInv, UserInv
      <4>3. RequestOf(r) = [phase |-> "failed", key |-> Requests[t].key, client |-> NoKey]
        BY <1>0, <4>1, <4>2 DEF RequestOf, Requests, ThreadState
      <4>4. Requests' = [Requests EXCEPT ![t] = RequestOf(r)]
        BY <1>0, <4>1, NextPhase
      <4> QED
        BY <4>3, <4>4
    <3>3. Decided /\ Chosen = NoKey
      BY <2>3 DEF Decided, Chosen, ClientInv, OnceInv
    <3>4. Requests[t].phase = "pending"
      BY <2>1 DEF Requests, RequestOf
    <3> QED
      BY <2>1, <2>2, <3>2, <3>3, <3>4 DEF Requests, Contract!Refuse
  <2>4. CASE ~ clientErr
    <3>1. UNCHANGED Requests
      BY <1>0, <1>8, <2>4, SamePhase DEF Return
    <3> QED
      BY <1>1, <2>1, <2>2, <3>1
  <2> QED
    BY <2>3, <2>4
<1>9. ASSUME NEW t \in Thread, UseClient(t) PROVE Contract!Serve(t)
  <2>1. UNCHANGED <<secret, clientVars>> /\ th[t].pc = "use" /\ clientType
    BY <1>9 DEF UseClient, ClientInv, UserInv
  <2>2. UNCHANGED <<Decided, Chosen>>
    BY <1>0, <1>9, <2>1, ChosenStays DEF clientVars, UseClient
  <2>3. Decided /\ Chosen # NoKey
    BY <2>1, ChosenIs, KeyAssumption DEF Decided
  <2>4. PICK c : /\ c = IF clientType /\ clientPtr = NoKey THEN HalfClient ELSE clientPtr
                 /\ th' = [th EXCEPT ![t].pc = "used", ![t].client = c]
    BY <1>9 DEF UseClient
  <2>5. c \in {Chosen, HalfClient}
    BY <2>1, <2>4, ChosenIs
  <2>6. Requests' = [Requests EXCEPT ![t] =
                       [phase |-> "served", key |-> Requests[t].key, client |-> c]]
    <3>1. PICK r : /\ r = [th[t] EXCEPT !.pc = "used", !.client = c]
                   /\ th' = [th EXCEPT ![t] = r]
      BY <1>0, <2>4
    <3>2. RequestOf(r) = [phase |-> "served", key |-> Requests[t].key, client |-> c]
      BY <1>0, <3>1 DEF RequestOf, Requests, ThreadState
    <3>3. Requests' = [Requests EXCEPT ![t] = RequestOf(r)]
      BY <1>0, <3>1, NextPhase
    <3> QED
      BY <3>2, <3>3
  <2>7. Requests[t].phase = "pending"
    BY <2>1 DEF Requests, RequestOf
  <2> QED
    BY <2>1, <2>2, <2>3, <2>5, <2>6, <2>7 DEF Requests, Contract!Serve
<1>10. ASSUME RotateSecret PROVE Contract!RotateSecret
  BY <1>10, ChosenStays DEF RotateSecret, clientVars, Contract!RotateSecret
<1>11. ASSUME Restart PROVE Contract!Restart
  <2>1. \A t \in Thread : RequestOf(th'[t]) = Contract!NoRequest
    BY <1>11 DEF Restart, Idle, RequestOf, Contract!NoRequest
  <2> QED
    BY <1>11, <2>1 DEF Restart, Decided, Chosen, Contract!Restart
<1> QED
  BY <1>2, <1>3, <1>4, <1>5, <1>6, <1>7, <1>8, <1>9, <1>10, <1>11
     DEF Next, ThreadStep, Contract!Next

LEMMA ClientInitRefines == Init => Contract!Init
  BY PhaseFacts, KeyAssumption
     DEF Init, Idle, Decided, Chosen, RequestOf, Contract!Init, Contract!NoRequest

(* Per process there is one attempt to build the client, made with the key *)
(* of a request, and every request is answered by what came of it.         *)
THEOREM OneDecision == Spec => ImplementsContract
<1>1. ClientInv /\ ClientInv' /\ [Next]_vars => [Contract!Next]_(Contract!contractVars)
  <2>1. UNCHANGED vars => UNCHANGED Contract!contractVars
    BY DEF vars, clientVars, Contract!contractVars, Decided, Chosen
  <2> QED
    BY <2>1, ClientStepRefines
<1> QED
  BY <1>1, ClientInitRefines, ClientCorrect, PTL DEF Spec, ImplementsContract, Contract!Spec
=============================================================================
