# Formal models of machine-controller-manager-provider-stackit

TLA+ specifications of the STACKIT driver for Gardener's machine controller
manager (MCM), model-checked with TLC and, for the properties that matter most,
proved with TLAPS for every value of the constants. `PROJECT.json` ties every
definition to the lines it models and lists runs, mutants, hazards, findings and
theorems.

## The system

MCM runs in the process of `cmd/machine-controller` and reconciles `Machine`
objects of the control cluster. For everything that concerns a server it calls the
driver (`pkg/provider`), which calls the STACKIT IaaS service through a thin
wrapper of the SDK (`pkg/client`). The driver keeps no state apart from its client:
what it knows of the servers it asks the service for, by `ProviderID` or by the
labels `kubernetes.io/machine` and `kubernetes.io/machineclass`.

| Part | State | Operations | Works with | What makes it correct |
|---|---|---|---|---|
| `CreateMachine` (`create.go`) | locals of one call | look-up by label, create, wait for ACTIVE, patch NICs | wrapper; repeated by MCM until it succeeds | at most one server per machine, whatever was interrupted; the ProviderID names that machine's server |
| `DeleteMachine` (`delete.go`) | locals | find by ProviderID or name, delete, wait for 404 | wrapper; repeated by MCM | OK only if the server is gone; nothing leaks; nothing else is deleted |
| `GetMachineStatus` (`status.go`) | – | `GetServer` | its NotFound makes MCM create a server | NotFound only if there is none |
| `ListMachines` (`list.go`) | – | `ListServers` by class | its answer feeds MCM's safety loop, which deletes orphans | names the servers of the class and no others |
| `ensureClient` (`provider.go`) | client, `sync.Once`, error, captured key; shared by all goroutines | build once, warn of changed keys | every handler, first thing | one client, one key, never half built, no request stuck |
| `patchNetworkInterfaces` (`create.go`) | locals; the NICs are the service's | read NICs, write allowed addresses | wrapper; two controllers, and users, may be at the same NICs | success means patched; only additions; only configured NICs |
| IaaS wrapper (`sdk.go`, `stackit.go`, `helper.go`) | – | one REST call per method, 404 told apart | service | 404 is the only "not there" |
| Request builder (`create.go`, `sdk.go`) | – | ProviderSpec to `CreateServer` payload | called by `CreateMachine` | the two labels always win; networking, boot volume and user data as validated |
| Validation (`apis/validation`), decoding and `ProviderID` (`helpers.go`) | – | pure functions | called first by the handlers | what passes can be built; a ProviderID parses to what it was made from |
| MCM (library) | `Machine` objects, queues | reconcile, record ProviderID, remove finalizer, safety loop | driver | external |
| IaaS service | servers, NICs | carries out the calls, boots, breaks, deletes in the background | wrapper | external |
| `core.go`, `spi.go`, `main.go` | – | unimplemented methods, start-up | – | no logic |

What makes it hard: every handler is a sequence of remote calls, and between two of
them other goroutines run, the service moves on, the user deletes the machine, the
process dies or the leader changes. A call that failed may have been carried out,
or may be carried out much later. Retries by MCM are the only recovery, so each
handler must be able to take up any state a previous attempt left behind.

## Modules

| Module | What it is | Code |
|---|---|---|
| `Iaas` | servers of one project and region; what the wrapper's calls return and change; what the service does on its own | `pkg/client/sdk.go`; service external |
| `Provider` | the four handlers; one action per call of the service and outcome, locals in `call[w]` | `create.go`, `delete.go`, `status.go`, `list.go` |
| `MachineController` | `Provider` under MCM: objects, workers, safety loop, crashes; the properties; fairness | MCM external |
| `MachineContract` | abstract specification: machines and the servers created for them, no calls or failures | – |
| `MachineRefinement` | refinement mapping `MachineController` → `MachineContract`, inductive invariants | – |
| `MachineProofs`, `SerialProofs`, `CreationProofs`, `RefinementProofs` | theorems about the above | – |
| `EnsureClient`, `EnsureClientProofs` | the shared client at the granularity of the memory accesses that race | `provider.go`, `NewStackitClient` |
| `ClientContract` | abstract specification: one decision per process, by which every request ends | – |
| `ClientRefinement` | refinement mapping `EnsureClient` → `ClientContract` | – |
| `NicPatch`, `NicPatchProofs` | `patchNetworkInterfaces`, which is one step of `Provider`, call by call | `create.go:258`, `UpdateNIC` |
| `ServerSpec`, `ServerSpecProofs` | from MachineClass and Secret to the payload of `CreateServer`: decoding, validation, request, payload, labels read back | `apis/validation`, `provider_spec.go`, `create.go:115`, `sdk.go:88`, `helper.go` |
| `Placement`, `PlacementRefinement`, `PlacementProofs` | where the handlers look for a server: ProviderIDs from their parts, project and region of each call, several clusters in one project | `helpers.go`, `create.go`, `delete.go`, `status.go`, `list.go`; MCM and users external |
| `MCMachineController`, `MCEnsureClient`, `MCNicPatch`, `MCPlacement` | symmetry sets and small values for TLC | – |
| `MCServerSpec` | the ProviderSpecs and Secrets that TLC enumerates | – |

`Provider` extends `Iaas`, `MachineController` extends `Provider`,
`MachineRefinement` and `PlacementRefinement` instantiate `MachineContract`. `NicPatch`, `ServerSpec` and
`Placement` look into what `Provider` abstracts from: the step `nics`, the action
`Reject` together with the contents of `CreateServer`, and the ids. In turn each of
them takes the rest of a handler as one step.

How state and actions correspond to the code:

- `call[w]` is the stack frame of the handler goroutine `w` runs: `pc` is the next
  call of the client, `sid` the local `server.ID`, `code` the gRPC code returned.
  `XAnswers` is the call whose answer arrives (success and 404), `XFails` every other
  outcome: refusal, lost answer after the effect, abandoned call. What the handler
  does with the answer, up to its next call or its return, is part of the action.
- A poll that finds the server neither ACTIVE nor ERROR (`WaitUntilServerRunning`),
  or still there (`WaitUntilServerDeleted`), changes nothing and is a stuttering
  step; a poll that fails once ends the wait, as in the code
  (`PollUntilContextTimeout` returns the condition's error), and so does the timer.
- Errors found before the first remote call (provider name, ProviderSpec, Secret,
  `ensureClient`) are the action `Reject`; which input causes them is not modelled.
- Server states are those the loops of `create.go` and `delete.go` are written for.
  An id is never reused; `GONE` answers 404 like an id never handed out.
  `stray` marks a server that exists although its creation had been given up
  (`LateCreate`); no step reads it, only properties do (`Timely` leaves strays out).
- `p.client` in `EnsureClient` is an interface value, two words stored one after the
  other in either order: the race of `provider.go:53` with `:63` is modelled by what
  a reader can see between the two stores.
- `NicPatch` works through the NICs in any order (the service's list has none the
  code could rely on) and treats lists of addresses as sets, since only membership
  is tested. It takes the networking part of a validated ProviderSpec: a network or
  NICs, not both and not none.

- `ServerSpec`: a string is empty, junk (what the field's pattern or length limit
  refuses) or good; patterns differ in nothing else, except that zones have one more
  good form. The stages of `CreateMachine` are actions; validation, request and payload
  are operators, with the order of the code's overriding assignments. All errors found
  are a set, of which `CreateMachine` reports the first.
- `Placement`: a ProviderID is its prefix and the parts between slashes, so that
  `parseProviderID` is what it does: prefix, number of parts, empty parts. Secret and
  class come with each request (`call[w].at`), copied when it is issued. A handler is
  one step that answers or fails, after its effect or without it; what happens between
  its calls is `Provider`'s subject. A crash is a call that fails and is not followed up.

### The contracts

`MachineContract` says, in terms of objects, recorded ProviderIDs and existing servers
alone, what driver and MCM promise together. Always: a ProviderID is written once and
names a server created for that machine, a server has one owner and never comes back, and
an object with a ProviderID goes away only after its server. While one call at a time
reconciles a machine (`Exclusive`): it is given a server only when it has none, and its
object goes away only when none is left; strays, which may arrive at any time
(`AllowLate`), are outside this part, since the handler cannot know of them.

Two specifications implement it. `MachineRefinement` maps one cluster to it: `owner` is
the machine label, `live` the labelled servers that exist, `stray` the history flag,
`Exclusive` is `Serial`. `PlacementRefinement` maps each machine of `Placement` to a
contract of its own (`Contract(m)`, with `Machine <- {m}`): there the label is a name that
others might use, ids come out of ProviderIDs, and servers are looked for in the place
each request names. The two complement each other: the first has each call of a handler
and overlapping controllers, the second has other clusters and the ids.

`ClientContract` does the same for `ensureClient`: a request arrives with the key of the
Secret, one pending request of the process decides (`Decide`) which client there is or
that there is none, and then each is served with that client, perhaps half written, or
refused. In `ClientRefinement` the decision falls when `NewStackitClient` returns and the
first word of `p.client`, or `p.clientErr`, is stored (`Decided`); until the pointer is
stored too, which client it will be is known to the goroutine inside the `Once` only
(`Chosen`). Everything between is invisible.

### Assumptions about MCM

MCM is not in the repository. It is modelled from what the driver's comments,
error-code documentation and end-to-end test say it is called for:

- It asks `GetMachineStatus` first and calls `CreateMachine` only on NotFound and
  while the object has no ProviderID.
- After a failed creation it may come back to the machine at any time. For safety this
  is all that is assumed, and it is more than `create.go:34-38` says, where
  InvalidArgument, Internal and ResourceExhausted (`NoRetry`) are marked "no retry".
  For liveness the documentation is taken at its word: MCM owes a machine another
  attempt only as long as no creation of it was answered with one of these
  (`Retried`), and `CreationSettles` promises nothing for a machine that was.
- It repeats `DeleteMachine` until OK, then removes the finalizer. `delete.go:22-24`
  says nothing of retries; that the deletion of an object with a finalizer is repeated
  after every code is an assumption.
- Updates of an object that changed meanwhile are refused (resource versions):
  `Current`. After `Crash` all local state is lost, the objects are not.
- `Serial`: one worker reconciles a given machine at a time. The queue guarantees
  this in one process; `Serial = FALSE` is the time around a leader change.
- The safety loop deletes a server of the class if no object accounts for it; an
  object without ProviderID accounts for every server with its name.
- Names of machines are not reused, so an absent object stays absent.
- `Placement` has no creations that are carried out after they were given up: its
  `NoLeak` and `DeletedByNameMeansGone` hold but for servers that come of these, as the
  properties of `MachineController` say (`Timely`).
- In `Placement` each Machine is the only one of a cluster of its own, with one
  goroutine that reconciles it and one that runs the safety loop. Users edit what
  `Editable` says and overwrite ProviderIDs only with ones that do not parse: one that
  parses and names another server is an order to manage that server. The service
  answers 404 for a server outside the project and region of the call.

## Runs

| Run | Instance | What it shows |
|---|---|---|
| `serial` | 2 machines, 2 server ids, 2 workers, late calls, serial | crashes, lost answers, timeouts and retries neither duplicate nor leak servers nor disturb a creation, also while calls given up are carried out late (the stray servers themselves apart), and `MachineController` implements `MachineContract`; the inductive invariant of the proofs holds |
| `overlap` | 1 machine, 3 ids (1 foreign), 2 workers, late calls, not serial | what holds when two controllers overlap and abandoned `CreateServer` calls are carried out later: own ProviderID, no false "deleted" or "not found"; only unwanted servers of the class are deleted, also from a stale list |
| `liveness` | 1 machine, 2 ids, 2 workers, late calls, serial | once trouble ends, deletions complete, creations that were not refused for good settle, and the safety loop gets every orphan; two servers with one label stand in the way only as long as both are there |
| `client` | 3 goroutines, 2 usable keys and 1 bad | one client and one key per process; nobody gets stuck or calls a client never built; `EnsureClient` implements `ClientContract` |
| `nics` | 2 NICs, 2 networks, 2 addresses, 2 workers, quiet | success means patched, nothing is taken away, other NICs are left alone |
| `server_spec` | every ProviderSpec that differs from a minimal valid one in at most two fields, with user data in the Secret or not; every Secret; other providers and broken specs | what passes validation becomes a payload the service can carry out, with the networking, boot volume and other fields asked for, and a server that is found again by its labels |
| `placement` | 1 machine, 2 ids, 2 projects, Secret edited, ProviderID overwritten | OK and NotFound for a ProviderID mean that its server is gone, whatever the Secret says meanwhile; without a usable one, the look-up by name leaves none behind where it looks |
| `neighbours` | 2 clusters in one project, 2 ids; names of machines and classes equal or not | who shares no name loses no wanted server and leaks none (ProviderIDs as recorded: that `NoLeak` holds for overwritten ones too is left to the proof, `NothingLeaks`), and `Placement` implements the contract of such a machine |
| `client_race`, `client_rotation`, `deadline_code`, `region_edit` | as the runs of their modules | the findings below (expected violations) |

Bounds. `ServerId` bounds the servers ever created, not those that exist at once:
two ids let a machine's server be created, lost and replaced, or be duplicated, or
two machines have one each; a foreign one, with the class's label or without, is in
the run where the labels matter for deletion. An abandoned `CreateServer` is
remembered once per machine. Two workers let two reconciles of one machine overlap
or of two machines, or let one meet the safety loop; that all three meet is left to the
proofs, which hold for any number.
There is at most one safety loop. Two NICs of which any subset is configured,
and two addresses, are the least with which an update can stop half way and a NIC
can be partly patched. Of three goroutines one runs the `Once`, one waits and one
comes late. In `server_spec`, rules of validation and builder relate at most two fields
(image and boot source, network and NICs, user data in spec and Secret), so specs that
differ in two from a valid one meet each rule, kept and broken, beside every other;
lists have up to two elements. The proofs need none of this. In the `Placement` runs two
servers let one be replaced or stand in the other place, and two names, classes,
projects or regions let them be equal or not. No counter is bounded: retries, crashes, edits and restarts are unlimited
in all runs. Deadlock is checked in all of them.

Fairness (`MachineController!Fairness`, `EnsureClient!FairSpec`). Goroutines are
scheduled, and a call of the client returns or its poll timer fires, so a handler that
can go on does (WF of `DriverStep`, `FollowUp`). MCM re-queues machines that are to be
deleted and repeats its safety loop (WF of `StartDelete`, `StartList`); that it comes
back to a machine to be created is promised only where no creation of it was answered
with a code documented as "no retry" (`Retried`, the hypothesis of `CreationSettles`). The service
finishes creations and deletions it accepted (WF of `Boot`, `DeletionCompletes`).
Retries converge only if failures stop: `<>[][~ Trouble]_vars` says that from some
time on there is no crash, no failing call, and no poll that gives up although the
server is ACTIVE. Polls that time out earlier stay possible for ever, and so do errors
that are an answer (a name with two servers, a server that is gone while it is waited
for or patched), so that no handler is ever left without a step it may take. No fairness
is assumed of users, of late calls, or of servers breaking. `FinallyUnambiguous`, a
hypothesis of `EventuallyForgotten` and `CreationSettles`, is not a fairness of the code:
that two servers of one name become one again is up to people.

## Findings

- `provider.go:53` (`client_race`): `p.client` is compared with nil outside the
  `sync.Once` that assigns it. "Thread-safe via sync.Once" (`provider.go:44`) does not
  hold: a goroutine can be let through on a half-written interface value.
- `provider.go:53` (`client_rotation`): the same early return skips the check of
  `provider.go:67` for changed credentials; a Secret rotated later is never noticed.
- `create.go:94` (`deadline_code`): `DeadlineExceeded` is also returned when a single
  `GetServer` fails or the server is in ERROR, whereas `create.go:38` reserves it for
  the polling timeout.
- `delete.go:79` (`region_edit`): once the class's region is edited, `DeleteMachine`
  asks the new region, takes its 404 for "already deleted" and returns success while
  the server lives on in the old one. The ProviderID has no region, so nothing can tell.
Not counted as findings, since no text promises otherwise, but visible in the models:
once two servers carry a machine's name, `CreateMachine` and `DeleteMachine` without
ProviderID fail until one is deleted by hand (only with overlapping controllers or
late creations; `liveness` shows that this is over once one of them is gone); two
clusters in one project whose machines or classes have the same names delete each
other's servers (`WantedSpared` needs its condition); and an address somebody adds to
a NIC between `GetNICsForServer` and `UpdateNIC` is lost (`Quiet = FALSE`).

Places where a text and the code disagree that no run is about:

- `validation.go:128` requires networking (`NetworkingErrors` in `ServerSpec`), although
  `provider_spec.go:24` calls it optional and the "bare minimum" MachineClass of the
  repository's README (`README.md:25`) has none.
- `create.go:164` sends `deleteOnTermination` only with a `bootVolume`
  (`BootVolumeRequest`); the one created by default is left to the API's default,
  although `create.go:167` says that boot volumes should always be cleaned up.
- `delete.go:46` logs a ProviderID that starts with `stackit` but does not parse and goes
  on by name (`DeleteTargets` in `Placement`), where `delete.go:23` promises
  `InvalidArgument`; `GetMachineStatus` does refuse such an id. `DeletedByNameMeansGone`
  says that the server is found all the same.
- `validation.go:39` takes zones that end in `-m`; `docs/machine-class.md:65` documents a
  pattern that refuses them.

## Proofs

All theorems hold for any number of servers, machines, workers, goroutines, keys,
NICs and addresses. They rest on the named assumptions of the modules (distinct
special values) and, where said, on `Serial`, on `Quiet`, or on what `Editable` and
`Spoilt` leave out.

- `MachineProofs`, no further assumption. The properties speak of objects and
  servers, but whether a step keeps them depends on what handlers hold. `GeneralInv`
  adds that: requests have the shape MCM issues (`RequestShape`), ids held by handlers
  are of servers created for their machine (`HandlesOwnServers`), deletions under way
  concern objects somebody asked to delete or orphans, and an orphan stays one
  (`DeletesUnwanted`), results that report absence stay true (`AnswersMeanGone`). The
  last two hold because a GONE server and a recorded ProviderID never change: this
  is proved once (`ServersEvolve`, `ObjectsEvolve`) and used for every call but the stepping one.
  From it `TypeOK`, `PidNamesOwnServer`, `DeletedMeansGone`, `NotFoundMeansGone` and
  the action property `OnlyUnwantedDeleted`. `Origins`, proved beside it, says where
  servers come from: an unused id has no label, and strays come of late calls for a
  machine. `StepChanges` lists what a step can do to the servers; every later proof
  splits on it.
- `SerialProofs`, with `Serial`, and with late calls or without. `AtMostOneServer` is not inductive:
  between look-up and `CreateServer` the handler must still be right about there being
  no server. `SerialInv` adds that one call reconciles a machine, about the object as
  it is (`OneCall`), and what it knows of the machine's servers at each step
  (`KnowsServers`). Steps either leave no machine with more servers (`Shrinks`,
  everything but `CreateServer`) or create one for a machine that has none. A late
  call changes what the service lists, so the handler may find a stray and adopt or
  delete it, or find two servers and give up; the invariant therefore bounds the servers
  that were waited for (`Timely`) and not what the service lists.
  From it `AtMostOneServer` and `NoLeak`. `OneServerOutright` adds `~ AllowLate`: then
  there are no strays, and both hold of all servers of the machine.
- `CreationProofs`, with `Serial`: `CreateUndisturbed`. The invariant it takes is
  that a server whose ProviderID was not recorded is deleted only once its machine is to
  go and nothing but its deletion is under way (`DeletedWithMachine`).
- `RefinementProofs`, no further assumption: `Spec => ImplementsContract`. The steps of
  `MachineController` that are not stuttering steps of the contract are those that
  create or end a server, record a ProviderID, delete and forget an object. Each is
  mapped with what `GeneralInv` and `Origins` say, and under `Serial` with `SerialInv`
  for the contract's exclusive part (`KnownInv` is the three together). TLC checks the
  refinement in `serial`; that it also holds when controllers overlap, where the run
  would take too long, is left to the proof.
- `EnsureClientProofs`: `ClientInv` says what each step inside the `Once` finds, and
  that whoever was let through saw the type word. From it `OneCredential`,
  `NoCallWithoutClient`, `ClientNeverReplaced`. (`ThreadSafe` is false, see above.)
  `OneDecision` is the refinement: each step is one of `ClientContract` or invisible
  (`ClientStepRefines`). The choice in `Chosen` is settled by `ChosenIs`: a client that is
  half written has one goroutine that writes it.
- `NicPatchProofs`: `PatchInv` says what a worker between two calls knows of the NICs:
  its copies differ from them at most by addresses of the ProviderSpec (under
  `Quiet`), and what it has ticked off is patched. From it `SuccessMeansPatched` and
  `UpdatesOnlyAdd` under `Quiet`, and `OthersUntouched` without.

- `ServerSpecProofs`, for any strings and lists of any length: `SpecInv` says what is
  known at each stage (validated: no errors; built: the request is `ServerRequest` of
  spec and Secret; sent: the payload is `ServerPayload` of the request). The properties
  then follow from lemmas about these operators alone: what no validation error means
  (`NoErrors`, `ScalarFacts`), labels, networking, boot volume (`BootVolumeFacts`).
  `PayloadCorrect` says that what is sent is well-formed, `NothingGetsLost` that it is
  what was asked for, field by field; networking, labels and the deletion of the boot
  volume have theorems of their own.
- `PlacementProofs`, for any number of clusters. `PlacementInv`, without assumptions on
  edits, says that ids held by handlers, Machines and lists are of servers made for
  these Machines and classes (`Mine`, `Listed`) and that an orphan stays one (`Stray`):
  servers only grow older (`Grow`), and a ProviderID that was recorded or overwritten
  never comes back. From it `TypeOK` and `WantedSpared`, and, as only the handler of
  a Machine creates servers of a name used once, `DeletedByNameMeansGone`. With `"region"` not editable,
  `PinnedInv` adds that requests and ids name the region their servers are in, so that
  a 404 means what it says: `DeletedMeansGone`, `NotFoundMeansGone`. With nothing
  editable, `FixedInv` adds what a Machine of unique name knows of its namesakes:
  there is no other than the one its ProviderID or its handler names, and none when
  the object or its last deletion is through. From it `NoLeak`. `region_edit` shows
  that the assumption on the region is needed. With ProviderIDs left alone as well
  (`Spoilt = {}`), every step is one of the contract of such a Machine or invisible to it
  (`PlacementImplementsContract`): servers of others bear other names (`Invisible`), the
  driver creates a server of its name only for it (`CreationRefines`), and what the
  controller records and forgets is what `FixedInv` says (`ClusterRefines`).

Only model-checked: liveness (`EventuallyForgotten`, `CreationSettles`,
`OrphansCollected`, `EveryRequestReturns`), which is out of the prover's reach (fairness
and ENABLED).

## Not modelled

- `core.go` (methods that return Unimplemented and keep no state), `spi.go` (an empty
  interface), `main.go` (flags and start-up), generated and vendored code, wording of
  errors and logs; mocks and tests are read as evidence only.
- `createIAASClient` (`sdk.go:48`) beyond its success or failure: options for the SDK.
- Character-level patterns: which strings a pattern takes is the good/junk distinction
  of `ServerSpec`. Whether a Machine's name is a valid label value is not checked by the
  code and holds for names Kubernetes accepts up to 63 characters.
- A ProviderSpec that is the JSON `null`, which `decodeProviderSpec` (`helpers.go:19-24`)
  returns as nil without an error; the API server does not deliver it.
- Addresses of a NIC that are no strings: `convertSDKNICtoNIC` (`sdk.go:323-338`) drops
  them, so that `UpdateNIC` would not write them back; `NicPatch` keeps every address.
- The IPs `nicAddresses` reports, beyond the NICs it gets them from; and an `UpdateNIC`
  that succeeds without a NIC in its answer (`sdk.go:314`), which the service does not
  do and after which `nicAddresses` would dereference nil.
- MCM beyond the assumptions above: it is not in the repository.

Seen while modelling, not in conflict with anything checked: `stackit.go:15` says that
the region is extracted from the Secret, with examples that look like zones, while all
handlers take it from the MachineClass; the branch of `patchNetworkInterfaces` for a
server without networking (`create.go:274`) is dead after validation; `imageId` and a
`bootVolume.source` may both be sent.
