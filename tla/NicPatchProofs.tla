--------------------------- MODULE NicPatchProofs ---------------------------
(***************************************************************************)
(* Theorems about NicPatch for any NICs, addresses and workers.            *)
(***************************************************************************)
EXTENDS NicPatch, TLAPS

LEMMA SpecFacts == ASSUME TypeOK PROVE spec.allowed \subseteq Address
  BY DEF TypeOK, ProviderSpec

(* An update adds the spec's addresses and, under Quiet, nothing else; it  *)
(* takes none away.                                                        *)
LEMMA UpdatedFacts ==
  ASSUME PatchInv, NEW w \in Worker, NEW n \in patch[w].todo, patch[w].pc = "patch", Updated(w, n)
  PROVE  /\ n \in Nic /\ nics' \in [Nic -> NicState]
         /\ \A k \in Nic : nics'[k].networkID = nics[k].networkID
         /\ \A k \in Nic \ {n} : nics'[k] = nics[k]
         /\ spec.allowed \subseteq nics'[n].allowed
         /\ Quiet => \A k \in Nic :
               /\ nics[k].allowed \subseteq nics'[k].allowed
               /\ nics'[k].allowed \subseteq nics[k].allowed \cup spec.allowed
<1>1. patch[w] \in Patch /\ TypeOK /\ Knows(w)
  BY DEF PatchInv, TypeOK
<1>2. n \in Nic /\ patch[w].nics[n] \in NicState /\ nics \in [Nic -> NicState]
  BY <1>1 DEF Patch, TypeOK
<1>3. PICK new \in SUBSET Address : new = patch[w].nics[n].allowed \cup spec.allowed
  BY <1>1, <1>2, SpecFacts DEF NicState
<1>4. nics' = [nics EXCEPT ![n].allowed = new]
  BY <1>3 DEF Updated
<1>5. /\ nics' \in [Nic -> NicState] /\ \A k \in Nic \ {n} : nics'[k] = nics[k]
      /\ nics'[n].networkID = nics[n].networkID /\ nics'[n].allowed = new
  BY <1>2, <1>4 DEF NicState
<1>6. Quiet => nics[n].allowed \subseteq new /\ new \subseteq nics[n].allowed \cup spec.allowed
  BY <1>1, <1>2, <1>3 DEF Knows
<1> QED
  BY <1>2, <1>3, <1>5, <1>6

(* Workers that run on while a NIC is updated still know what they know. *)
LEMMA OthersKnow ==
  ASSUME NEW v \in Worker, PatchInv, patch[v].pc = "patch", patch'[v] = patch[v], spec' = spec,
         \A k \in Nic : nics'[k].networkID = nics[k].networkID,
         Quiet => \A k \in Nic :
               /\ nics[k].allowed \subseteq nics'[k].allowed
               /\ nics'[k].allowed \subseteq nics[k].allowed \cup spec.allowed
  PROVE  Knows(v)'
<1>1. Knows(v) /\ patch[v] \in Patch
  BY DEF PatchInv, TypeOK
<1>2. patch[v].todo \subseteq Nic
  BY <1>1 DEF Patch
<1> QED
  BY <1>1, <1>2 DEF Knows, Configured

LEMMA GetNicsKeeps == ASSUME PatchInv, NEW w \in Worker, GetNicsAnswers(w) PROVE PatchInv'
<1> DEFINE todo == {n \in Nic : NeedsUpdate(nics[n], n)}
           r == [pc |-> IF todo = {} THEN "done" ELSE "patch",
                 nics |-> nics, todo |-> todo, result |-> Nic \ todo]
<1>1. TypeOK /\ spec' = spec /\ nics' = nics /\ patch' = [patch EXCEPT ![w] = r]
  BY DEF PatchInv, GetNicsAnswers
<1>2. r \in Patch
  BY <1>1 DEF TypeOK, Patch
<1>3. r.nics = nics /\ r.todo = todo /\ r.result = Nic \ todo
  OBVIOUS
<1> HIDE DEF r
<1>4. TypeOK' /\ patch'[w] = r /\ \A v \in Worker \ {w} : patch'[v] = patch[v]
  BY <1>1, <1>2 DEF TypeOK
<1>5. Knows(w)'
  BY <1>1, <1>3, <1>4 DEF Knows, NeedsUpdate, Configured
<1>6. \A v \in Worker \ {w} : patch'[v].pc = "patch" => Knows(v)'
  BY <1>1, <1>4, OthersKnow
<1>7. \A v \in Worker : patch'[v].pc = "patch" => Knows(v)'
  BY <1>5, <1>6
<1> QED
  BY <1>4, <1>7 DEF PatchInv

LEMMA UpdateKeeps ==
  ASSUME PatchInv, NEW w \in Worker, NEW n \in Nic, UpdateNicAnswers(w, n) PROVE PatchInv'
<1> DEFINE r == [patch[w] EXCEPT !.pc = IF patch[w].todo = {n} THEN "done" ELSE "patch",
                                 !.todo = patch[w].todo \ {n},
                                 !.result = patch[w].result \cup {n}]
<1>1. /\ TypeOK /\ spec' = spec /\ patch' = [patch EXCEPT ![w] = r] /\ patch[w].pc = "patch"
      /\ n \in patch[w].todo /\ Updated(w, n) /\ patch[w] \in Patch /\ Knows(w)
  BY DEF PatchInv, UpdateNicAnswers, TypeOK
<1>2. /\ nics' \in [Nic -> NicState]
      /\ \A k \in Nic : nics'[k].networkID = nics[k].networkID
      /\ \A k \in Nic \ {n} : nics'[k] = nics[k]
      /\ spec.allowed \subseteq nics'[n].allowed
      /\ Quiet => \A k \in Nic :
            /\ nics[k].allowed \subseteq nics'[k].allowed
            /\ nics'[k].allowed \subseteq nics[k].allowed \cup spec.allowed
  BY <1>1, UpdatedFacts
<1>3. r \in Patch /\ r.nics = patch[w].nics /\ r.todo = patch[w].todo \ {n}
      /\ r.result = patch[w].result \cup {n}
  BY <1>1 DEF Patch
<1> HIDE DEF r
<1>4. TypeOK' /\ patch'[w] = r /\ \A v \in Worker \ {w} : patch'[v] = patch[v]
  BY <1>1, <1>2, <1>3 DEF TypeOK
<1>5. Knows(w)'
  <2>1. patch[w].todo \subseteq Nic /\ patch[w].nics \in [Nic -> NicState]
    BY <1>1 DEF Patch
  <2>2. r.result = Nic \ r.todo
    BY <1>1, <1>3, <2>1 DEF Knows
  <2>3. \A k \in r.todo : Configured(nics[k], k)' 
    BY <1>1, <1>2, <1>3, <2>1 DEF Knows, Configured
  <2>4. ASSUME Quiet, NEW k \in Nic
        PROVE  /\ r.nics[k].allowed \subseteq nics'[k].allowed
               /\ nics'[k].allowed \subseteq r.nics[k].allowed \cup spec.allowed
               /\ k \notin r.todo /\ Configured(nics[k], k)' => spec.allowed \subseteq nics'[k].allowed
    BY <1>1, <1>2, <1>3, <2>4 DEF Knows, Configured
  <2> QED
    BY <1>1, <1>4, <2>2, <2>3, <2>4 DEF Knows
<1>6. \A v \in Worker \ {w} : patch'[v].pc = "patch" => Knows(v)'
  BY <1>1, <1>2, <1>4, OthersKnow
<1>7. \A v \in Worker : patch'[v].pc = "patch" => Knows(v)'
  BY <1>5, <1>6
<1> QED
  BY <1>4, <1>7 DEF PatchInv

(* A failed call ends the function; UpdateNIC may have been carried out.   *)
LEMMA FailureKeeps ==
  ASSUME PatchInv, NEW w \in Worker,
         GetNicsFails(w) \/ \E n \in Nic : UpdateNicFails(w, n)
  PROVE  PatchInv'
<1>1. /\ TypeOK /\ spec' = spec /\ patch' = [patch EXCEPT ![w].pc = "failed"]
      /\ \/ nics' = nics
         \/ \E n \in patch[w].todo : patch[w].pc = "patch" /\ Updated(w, n)
  BY DEF PatchInv, GetNicsFails, UpdateNicFails
<1>2. /\ nics' \in [Nic -> NicState]
      /\ \A k \in Nic : nics'[k].networkID = nics[k].networkID
      /\ Quiet => \A k \in Nic :
            /\ nics[k].allowed \subseteq nics'[k].allowed
            /\ nics'[k].allowed \subseteq nics[k].allowed \cup spec.allowed
  <2>1. CASE nics' = nics
    BY <1>1, <2>1 DEF TypeOK
  <2>2. CASE \E n \in patch[w].todo : patch[w].pc = "patch" /\ Updated(w, n)
    BY <2>2, UpdatedFacts
  <2> QED
    BY <1>1, <2>1, <2>2
<1>3. /\ TypeOK' /\ patch'[w].pc = "failed"
      /\ \A v \in Worker \ {w} : patch'[v] = patch[v]
  <2> DEFINE r == [patch[w] EXCEPT !.pc = "failed"]
  <2>1. patch' = [patch EXCEPT ![w] = r] /\ r \in Patch /\ r.pc = "failed"
    BY <1>1 DEF TypeOK, Patch
  <2> HIDE DEF r
  <2> QED
    BY <1>1, <1>2, <2>1 DEF TypeOK
<1>4. \A v \in Worker \ {w} : patch'[v].pc = "patch" => Knows(v)'
  BY <1>1, <1>2, <1>3, OthersKnow
<1>5. \A v \in Worker : patch'[v].pc = "patch" => Knows(v)'
  BY <1>3, <1>4
<1> QED
  BY <1>3, <1>5 DEF PatchInv

LEMMA CrashKeeps == ASSUME PatchInv, Crash PROVE PatchInv'
<1>1. TypeOK'
  BY DEF PatchInv, TypeOK, Crash, Patch
<1>2. \A w \in Worker : patch'[w].pc = "failed"
  BY DEF PatchInv, TypeOK, Crash, Patch
<1> QED
  BY <1>1, <1>2 DEF PatchInv

(* Edits leave the network of a NIC alone, and under Quiet nobody runs.    *)
LEMMA EditKeeps == ASSUME PatchInv, NEW n \in Nic, SomebodyEdits(n) PROVE PatchInv'
<1>1. PICK allowed \in SUBSET Address : nics' = [nics EXCEPT ![n].allowed = allowed]
  BY DEF SomebodyEdits
<1>2. /\ TypeOK /\ spec' = spec /\ patch' = patch
      /\ Quiet => \A w \in Worker : patch[w].pc # "patch"
  BY DEF PatchInv, SomebodyEdits
<1>3. /\ nics' \in [Nic -> NicState]
      /\ \A k \in Nic : nics'[k].networkID = nics[k].networkID
  BY <1>1, <1>2 DEF TypeOK, NicState
<1>4. \A w \in Worker : patch'[w].pc = "patch" => Knows(w)'
  BY <1>2, <1>3, OthersKnow
<1>5. TypeOK'
  BY <1>2, <1>3 DEF TypeOK
<1> QED
  BY <1>4, <1>5 DEF PatchInv

LEMMA PatchInvStep == ASSUME PatchInv, [Next]_vars PROVE PatchInv'
<1>1. ASSUME NEW w \in Worker, PatchStep(w) PROVE PatchInv'
  BY <1>1, GetNicsKeeps, UpdateKeeps, FailureKeeps DEF PatchStep
<1>2. CASE UNCHANGED vars
  BY <1>2 DEF PatchInv, TypeOK, Knows, Configured, vars
<1> QED
  BY <1>1, <1>2, CrashKeeps, EditKeeps DEF Next

(* Type correctness, and what a worker between two calls knows: for the    *)
(* networks alone whoever edits the NICs, for the addresses under Quiet.   *)
THEOREM PatchCorrect == Spec => []PatchInv
<1>1. Init => PatchInv
  <2> SUFFICES ASSUME Init PROVE PatchInv
    OBVIOUS
  <2>1. TypeOK
    BY DEF Init, TypeOK, Patch
  <2>2. \A w \in Worker : patch[w].pc = "idle"
    BY DEF Init
  <2> QED
    BY <2>1, <2>2 DEF PatchInv
<1> QED
  BY <1>1, PatchInvStep, PTL DEF Spec

----------------------------------------------------------------------------
(* patchNetworkInterfaces never takes an address from a NIC.               *)
THEOREM OnlyAdds == ASSUME Quiet PROVE Spec => UpdatesOnlyAdd
<1>1. ASSUME PatchInv, [Next]_vars, NEW w \in Worker, PatchStep(w)
      PROVE  \A n \in Nic : nics[n].allowed \subseteq nics'[n].allowed
  <2>1. CASE nics' = nics
    BY <2>1
  <2>2. ASSUME NEW n \in patch[w].todo, patch[w].pc = "patch", Updated(w, n)
        PROVE  \A k \in Nic : nics[k].allowed \subseteq nics'[k].allowed
    BY <1>1, <2>2, UpdatedFacts
  <2> QED
    BY <1>1, <2>1, <2>2
       DEF PatchStep, GetNicsAnswers, GetNicsFails, UpdateNicAnswers, UpdateNicFails
<1>2. PatchInv /\ [Next]_vars =>
        [(\E w \in Worker : PatchStep(w)) =>
            \A n \in Nic : nics[n].allowed \subseteq nics'[n].allowed]_vars
  BY <1>1
<1> QED
  BY <1>2, PatchCorrect, PTL DEF Spec, UpdatesOnlyAdd

(* NICs that networking does not name are left alone, also by a function   *)
(* that works from an answer somebody has made stale.                      *)
THEOREM OthersLeftAlone == Spec => OthersUntouched
<1>1. ASSUME PatchInv, [Next]_vars, NEW w \in Worker, PatchStep(w),
             NEW k \in Nic, ~ Configured(nics[k], k)
      PROVE  nics'[k] = nics[k]
  <2>1. ASSUME NEW n \in patch[w].todo, patch[w].pc = "patch", Updated(w, n)
        PROVE  nics'[k] = nics[k]
    <3>1. Configured(nics[n], n)
      BY <1>1, <2>1 DEF PatchInv, Knows
    <3>2. \A j \in Nic \ {n} : nics'[j] = nics[j]
      BY <1>1, <2>1, UpdatedFacts
    <3> QED
      BY <1>1, <3>1, <3>2
  <2> QED
    BY <1>1, <2>1
       DEF PatchStep, GetNicsAnswers, GetNicsFails, UpdateNicAnswers, UpdateNicFails
<1>2. PatchInv /\ [Next]_vars =>
        [(\E w \in Worker : PatchStep(w)) =>
            \A n \in Nic : ~ Configured(nics[n], n) => nics'[n] = nics[n]]_vars
  BY <1>1
<1> QED
  BY <1>2, PatchCorrect, PTL DEF Spec, OthersUntouched

(* Success of patchNetworkInterfaces means that every NIC named by         *)
(* networking allows the addresses of the ProviderSpec.                    *)
THEOREM SuccessIsComplete == ASSUME Quiet PROVE Spec => SuccessMeansPatched
<1> DEFINE Finished(w) == /\ patch'[w].result = Nic
                         /\ \A n \in Nic : Configured(nics'[n], n) =>
                               spec.allowed \subseteq nics'[n].allowed
<1>1. ASSUME PatchInv, NEW w \in Worker, GetNicsAnswers(w), patch'[w].pc = "done"
      PROVE  Finished(w)
  <2>1. {n \in Nic : NeedsUpdate(nics[n], n)} = {} /\ patch'[w].result = Nic /\ nics' = nics
    BY <1>1 DEF GetNicsAnswers, PatchInv, TypeOK
  <2> QED
    BY <2>1 DEF NeedsUpdate
<1>2. ASSUME PatchInv, NEW w \in Worker, NEW n \in Nic, UpdateNicAnswers(w, n),
             patch'[w].pc = "done"
      PROVE  Finished(w)
  <2>1. /\ patch[w].pc = "patch" /\ n \in patch[w].todo /\ Updated(w, n) /\ spec' = spec
        /\ patch[w].todo = {n} /\ patch'[w].result = patch[w].result \cup {n}
    BY <1>2 DEF UpdateNicAnswers, PatchInv, TypeOK, Patch
  <2>2. Knows(w)
    BY <1>2, <2>1 DEF PatchInv
  <2>3. /\ \A k \in Nic : nics'[k].networkID = nics[k].networkID
        /\ spec.allowed \subseteq nics'[n].allowed
        /\ \A k \in Nic : nics[k].allowed \subseteq nics'[k].allowed
    BY <1>2, <2>1, UpdatedFacts
  <2>4. patch'[w].result = Nic
    BY <2>1, <2>2 DEF Knows
  <2> QED
    BY <2>1, <2>2, <2>3, <2>4 DEF Knows, Configured
<1>3. ASSUME PatchInv, [Next]_vars, NEW w \in Worker, patch[w].pc # "done", patch'[w].pc = "done"
      PROVE  Finished(w)
  <2>1. ASSUME NEW v \in Worker, PatchStep(v) PROVE Finished(w)
    <3>1. v = w
      BY <1>3, <2>1 DEF PatchStep, GetNicsAnswers, GetNicsFails, UpdateNicAnswers,
                        UpdateNicFails, PatchInv, TypeOK
    <3>2. ~ GetNicsFails(w) /\ \A n \in Nic : ~ UpdateNicFails(w, n)
      BY <1>3 DEF GetNicsFails, UpdateNicFails, PatchInv, TypeOK, Patch
    <3> QED
      BY <1>1, <1>2, <1>3, <2>1, <3>1, <3>2 DEF PatchStep
  <2>2. ~ Crash
    BY <1>3 DEF Crash, PatchInv, TypeOK, Patch
  <2>3. patch' # patch
    BY <1>3
  <2> QED
    BY <1>3, <2>1, <2>2, <2>3 DEF Next, SomebodyEdits, vars
<1>4. PatchInv /\ [Next]_vars =>
        [\A w \in Worker : patch[w].pc # "done" /\ patch'[w].pc = "done" =>
            /\ patch'[w].result = Nic
            /\ \A n \in Nic : Configured(nics'[n], n) => spec.allowed \subseteq nics'[n].allowed]_vars
  BY <1>3
<1> QED
  BY <1>4, PatchCorrect, PTL DEF Spec, SuccessMeansPatched
=============================================================================
