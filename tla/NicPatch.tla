------------------------------ MODULE NicPatch ------------------------------
(***************************************************************************)
(* patchNetworkInterfaces (pkg/provider/create.go), the last part of       *)
(* CreateMachine: the allowed addresses of the ProviderSpec are added to   *)
(* the NICs of the server, one UpdateNIC call after the other, each with   *)
(* the NIC's whole new list, from what GetNICsForServer said at first.     *)
(* MCM repeats CreateMachine after an error or a crash; after a change of  *)
(* leader two controllers may be at it together.                           *)
(*                                                                         *)
(* The ProviderSpec is one that passed validation: networking is there and *)
(* names either a network or NICs.  Lists of addresses are sets here:      *)
(* only membership is tested, and an address is appended once.             *)
(***************************************************************************)
CONSTANTS
    Nic,         \* NICs of the server
    Network,
    Address,     \* address ranges
    Worker,      \* goroutines that may run CreateMachine for the machine
    NoNetwork,   \* networking names NICs, no network
    Quiet        \* TRUE: nobody else changes a NIC while the function runs

ASSUME NicAssumption == NoNetwork \notin Network /\ Quiet \in BOOLEAN

VARIABLES
    spec,        \* Networking and AllowedAddresses of the ProviderSpec
    nics,        \* nics[n]: NIC n in the service
    patch        \* patch[w]: the function's locals in worker w

vars == <<spec, nics, patch>>

ProviderSpec ==
    [networkID : Network, nicIDs : {{}}, allowed : SUBSET Address]
        \cup [networkID : {NoNetwork}, nicIDs : SUBSET Nic \ {{}}, allowed : SUBSET Address]

NicState == [networkID : Network, allowed : SUBSET Address]

(* nics: the answer of GetNICsForServer; todo: NICs still to be updated;   *)
(* result: the NICs whose IPs CreateMachine will report.                   *)
Patch ==
    [pc : {"idle", "patch", "done", "failed"},
     nics : [Nic -> NicState],
     todo : SUBSET Nic,
     result : SUBSET Nic]

TypeOK ==
    /\ spec \in ProviderSpec
    /\ nics \in [Nic -> NicState]
    /\ patch \in [Worker -> Patch]

Init ==
    /\ spec \in ProviderSpec
    /\ nics \in [Nic -> NicState]
    /\ patch = [w \in Worker |-> [pc |-> "idle", nics |-> nics, todo |-> {}, result |-> {}]]

----------------------------------------------------------------------------
(* The NICs of the ProviderSpec's networking. *)
Configured(nic, n) == nic.networkID = spec.networkID \/ n \in spec.nicIDs

NeedsUpdate_SkipsPartlyAllowed(nic, n) ==
    Configured(nic, n) /\ spec.allowed # {} /\ nic.allowed \cap spec.allowed = {}

NeedsUpdate_AnyNic(nic, n) == ~ (spec.allowed \subseteq nic.allowed)

NeedsUpdate(nic, n) == Configured(nic, n) /\ ~ (spec.allowed \subseteq nic.allowed)

(* The NICs that need no update go into the result as they are. *)
GetNicsAnswers(w) ==
    /\ patch[w].pc # "patch"
    /\ LET todo == {n \in Nic : NeedsUpdate(nics[n], n)}
       IN  patch' = [patch EXCEPT ![w] =
               [pc |-> IF todo = {} THEN "done" ELSE "patch",
                nics |-> nics, todo |-> todo, result |-> Nic \ todo]]
    /\ UNCHANGED <<spec, nics>>

(* The call fails, or the service lists no NICs (yet). *)
GetNicsFails(w) ==
    /\ patch[w].pc # "patch"
    /\ patch' = [patch EXCEPT ![w].pc = "failed"]
    /\ UNCHANGED <<spec, nics>>

Updated_OnlyAllowed(w, n) == nics' = [nics EXCEPT ![n].allowed = spec.allowed]

(* UpdateNIC carried out: the whole list is replaced. *)
Updated(w, n) ==
    nics' = [nics EXCEPT ![n].allowed = patch[w].nics[n].allowed \cup spec.allowed]

UpdateNicAnswers(w, n) ==
    /\ patch[w].pc = "patch"
    /\ n \in patch[w].todo
    /\ Updated(w, n)
    /\ patch' = [patch EXCEPT ![w] =
          [@ EXCEPT !.pc = IF patch[w].todo = {n} THEN "done" ELSE "patch",
                    !.todo = patch[w].todo \ {n},
                    !.result = patch[w].result \cup {n}]]
    /\ UNCHANGED spec

UpdateNicFails_Ignored(w, n) ==
    /\ patch[w].pc = "patch"
    /\ n \in patch[w].todo
    /\ patch' = [patch EXCEPT ![w] =
          [@ EXCEPT !.pc = IF patch[w].todo = {n} THEN "done" ELSE "patch",
                    !.todo = patch[w].todo \ {n},
                    !.result = patch[w].result \cup {n}]]
    /\ UNCHANGED <<spec, nics>>

(* The function gives up; the NIC may have been updated all the same. *)
UpdateNicFails(w, n) ==
    /\ patch[w].pc = "patch"
    /\ n \in patch[w].todo
    /\ UNCHANGED nics \/ Updated(w, n)
    /\ patch' = [patch EXCEPT ![w].pc = "failed"]
    /\ UNCHANGED spec

PatchStep(w) ==
    \/ GetNicsAnswers(w) \/ GetNicsFails(w)
    \/ \E n \in Nic : UpdateNicAnswers(w, n) \/ UpdateNicFails(w, n)

(* The process dies between two calls. *)
Crash ==
    /\ patch' = [w \in Worker |-> [patch[w] EXCEPT !.pc = "failed"]]
    /\ UNCHANGED <<spec, nics>>

(* Users and other programs edit a NIC as they like. *)
SomebodyEdits(n) ==
    /\ Quiet => \A w \in Worker : patch[w].pc # "patch"
    /\ \E allowed \in SUBSET Address : nics' = [nics EXCEPT ![n].allowed = allowed]
    /\ UNCHANGED <<spec, patch>>

Next ==
    \/ \E w \in Worker : PatchStep(w)
    \/ Crash
    \/ \E n \in Nic : SomebodyEdits(n)

Spec == Init /\ [][Next]_vars

----------------------------------------------------------------------------
(* When the function succeeds, every configured NIC allows every address   *)
(* of the ProviderSpec at that moment, and the IPs of all NICs of the      *)
(* server are reported; also after attempts that failed half way and with  *)
(* another controller at the same server.  Needs Quiet.                    *)
SuccessMeansPatched ==
    [][\A w \in Worker : patch[w].pc # "done" /\ patch'[w].pc = "done" =>
          /\ patch'[w].result = Nic
          /\ \A n \in Nic : Configured(nics'[n], n) => spec.allowed \subseteq nics'[n].allowed]_vars

(* The function adds addresses and never takes one away that somebody else *)
(* put there, although it sends whole lists.  Needs Quiet: an address that *)
(* is added between GetNICsForServer and UpdateNIC is lost.                *)
UpdatesOnlyAdd ==
    [][(\E w \in Worker : PatchStep(w)) =>
          \A n \in Nic : nics[n].allowed \subseteq nics'[n].allowed]_vars

(* NICs that the ProviderSpec's networking does not name are left alone,   *)
(* whatever else happens to them.                                          *)
OthersUntouched ==
    [][(\E w \in Worker : PatchStep(w)) =>
          \A n \in Nic : ~ Configured(nics[n], n) => nics'[n] = nics[n]]_vars

----------------------------------------------------------------------------
(* What a worker that runs knows: a NIC differs from its copy at most by   *)
(* addresses of the ProviderSpec, and what it has ticked off is patched.   *)
Knows(w) ==
    /\ patch[w].result = Nic \ patch[w].todo
    /\ \A n \in patch[w].todo : Configured(nics[n], n)
    /\ Quiet => \A n \in Nic :
          /\ patch[w].nics[n].allowed \subseteq nics[n].allowed
          /\ nics[n].allowed \subseteq patch[w].nics[n].allowed \cup spec.allowed
          /\ n \notin patch[w].todo /\ Configured(nics[n], n) =>
                spec.allowed \subseteq nics[n].allowed

(* The inductive invariant of patchNetworkInterfaces: whoever is between   *)
(* two of its calls knows the NICs.                                        *)
PatchInv == TypeOK /\ \A w \in Worker : patch[w].pc = "patch" => Knows(w)
=============================================================================
