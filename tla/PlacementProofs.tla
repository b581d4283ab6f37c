--------------------------- MODULE PlacementProofs ---------------------------
(***************************************************************************)
(* Theorems about Placement for any clusters, projects, regions and        *)
(* unusable ProviderIDs.                                                   *)
(***************************************************************************)
EXTENDS PlacementRefinement, TLAPS

Known(s) == servers[s].status # "ABSENT"

Names(p) ==
    /\ Named(p) \in ServerId /\ Known(Named(p))
    /\ p.parts[1] = servers[Named(p)].at.project

(* p is fit to be the ProviderID of m. *)
Mine(m, p) ==
    Usable(p) => Names(p) /\ servers[Named(p)].name = ident[m].name

(* p is from a ListMachines answer for the class of m. *)
Listed(m, p) ==
    Usable(p) /\ Names(p) /\ servers[Named(p)].class = ident[m].class

(* No object of the cluster accounts for the server, now and later. *)
Stray(m, p) ==
    servers[Named(p)].name # ident[m].name \/ obj[m] = "absent" \/ pid[m] \notin {None, p}

ReconcileOK(m) ==
    LET c == call[Reconcile(m)]
    IN  /\ c.op \in {"none", "status", "create", "delete"}
        /\ Mine(m, c.pid) /\ Mine(m, c.made)
        /\ c.op = "create" => c.pid = None
        /\ c.op = "delete" => obj[m] # "present"
        /\ obj[m] = "absent" => c.op = "none"

SafetyOK(m) ==
    LET c == call[Safety(m)]
    IN  /\ c.op \in {"none", "list", "delete"}
        /\ \A e \in c.seen : Listed(m, e.pid) /\ e.name = servers[Named(e.pid)].name
        /\ c.op = "delete" => Listed(m, c.pid) /\ Stray(m, c.pid)

(* A server with a name nobody else uses was created for that Machine. *)
ClassAsName(m) ==
    OneName(m) => \A s \in ServerId :
        Known(s) /\ servers[s].name = ident[m].name => servers[s].class = ident[m].class

PlacementInv ==
    /\ TypeOK
    /\ \A s \in ServerId : Known(s) => servers[s].at \in Place
    /\ \A m \in Machine :
          Mine(m, pid[m]) /\ ReconcileOK(m) /\ SafetyOK(m) /\ ClassAsName(m)

(* What every step does to the servers. *)
Grow ==
    \A s \in ServerId : Known(s) =>
        /\ Known(s)' /\ (Up(s)' => Up(s))
        /\ servers'[s].at = servers[s].at
        /\ servers'[s].name = servers[s].name
        /\ servers'[s].class = servers[s].class

(* The call of w ends with r: the request stays. *)
Ended(w, r) ==
    /\ call' = [call EXCEPT ![w] = r]
    /\ r.op = call[w].op /\ r.pc = "done" /\ r.at = call[w].at /\ r.pid = call[w].pid
    /\ r.made = call[w].made \/ CreateAnswers(w)
    /\ r.seen = call[w].seen \/ ListAnswers(w)
    /\ r.made # None => Parses(r.made)

----------------------------------------------------------------------------
LEMMA WorkerFacts ==
  /\ \A w \in Worker :
        /\ w[1] \in Machine
        /\ w = Reconcile(w[1]) \/ w = Safety(w[1])
  /\ \A m \in Machine : /\ Reconcile(m) \in Worker /\ Safety(m) \in Worker
                        /\ Reconcile(m)[1] = m /\ Safety(m)[1] = m
  /\ \A m, n \in Machine : /\ Reconcile(m) # Safety(n)
                           /\ m # n => Reconcile(m) # Reconcile(n) /\ Safety(m) # Safety(n)
  BY DEF Worker, Reconcile, Safety

LEMMA FormatFacts ==
  ASSUME NEW project \in Project, NEW s \in ServerId
  PROVE  LET p == FormatProviderID(project, s)
         IN  /\ p \in ProviderID /\ Usable(p) /\ p # None /\ Parses(p)
             /\ p.parts[1] = project /\ Named(p) = s
<1> DEFINE p == FormatProviderID(project, s)
<1>1. p \in ProviderID
  BY DEF FormatProviderID, ProviderID
<1>2. p # None
  BY <1>1, PlacementAssumption
<1>3. Parses(p)
  BY PlacementAssumption DEF FormatProviderID, Parses
<1> QED BY <1>1, <1>2, <1>3 DEF FormatProviderID, Usable, Named

LEMMA NoCallFacts ==
  NoCall \in Call /\ NoCall.op = "none" /\ NoCall.pc = "idle" /\ NoCall.pid = None
    /\ NoCall.made = None /\ NoCall.seen = {} /\ ~ Usable(None)
  BY DEF NoCall, Call, Usable

LEMMA RequestFacts ==
  ASSUME NEW op \in {"create", "delete", "status", "list"}, NEW at \in Place,
         NEW p \in ProviderID \cup {None}, NEW seen \in SUBSET Entry
  PROVE  LET c == Request(op, at, p, seen)
         IN  /\ c \in Call /\ c.op = op /\ c.pc = "begin" /\ c.at = at /\ c.pid = p
             /\ c.made = None /\ c.seen = seen
  BY DEF Request, Call

LEMMA ReturnShape ==
  ASSUME TypeOK, NEW w \in Worker, call[w].pc = "begin",
         NEW code \in {"OK", "NotFound", "InvalidArgument", "Error"}, Return(w, code)
  PROVE  \E r \in Call : Ended(w, r)
<1>1. call[w] \in Call /\ (call[w].made # None => Parses(call[w].made))
  BY DEF TypeOK
<1> DEFINE r == [call[w] EXCEPT !.pc = "done", !.code = code]
<1>2. /\ r \in Call
      /\ r.op = call[w].op /\ r.pc = "done" /\ r.at = call[w].at /\ r.pid = call[w].pid
      /\ r.made = call[w].made /\ r.seen = call[w].seen
  BY <1>1 DEF Call
<1>3. call' = [call EXCEPT ![w] = r]
  BY DEF Return
<1> HIDE DEF r
<1> QED BY <1>1, <1>2, <1>3 DEF Ended

(* A step of the driver ends the call of w. *)
LEMMA DriverShape ==
  ASSUME PlacementInv, NEW w \in Worker, DriverStep(w)
  PROVE  /\ UNCHANGED <<ident, cfg, obj, pid>>
         /\ call[w].pc = "begin" /\ call[w].op # "none" /\ call[w].at \in Place
         /\ \E r \in Call : Ended(w, r)
<1> USE DEF Begun
<1>1. TypeOK /\ call[w] \in Call
  BY DEF PlacementInv, TypeOK
<1>2. call[w].pc = "begin" /\ call[w].op # "none" /\ UNCHANGED <<ident, cfg, obj, pid>>
  BY DEF DriverStep, CreateAnswers, CreateFails, DeleteRefuses, DeleteAnswers, DeleteFails,
         DeleteBegun, StatusAnswers, StatusFails, ListAnswers, ListFails, Return
<1>3. call[w].at \in Place
  BY <1>1, <1>2 DEF TypeOK
<1>4. CASE CreateAnswers(w)
  <2>1. PICK s \in ServerId : call' = [call EXCEPT ![w] = [call[w] EXCEPT !.pc = "done",
                                !.made = FormatProviderID(call[w].at.project, s)]]
    BY <1>4 DEF CreateAnswers
  <2> DEFINE p == FormatProviderID(call[w].at.project, s)
  <2>2. p \in ProviderID /\ Parses(p)
    BY <1>3, FormatFacts DEF Place
  <2> HIDE DEF p
  <2> DEFINE r == [call[w] EXCEPT !.pc = "done", !.made = p]
  <2>3. /\ r \in Call
        /\ r.op = call[w].op /\ r.pc = "done" /\ r.at = call[w].at /\ r.pid = call[w].pid
        /\ r.made = p /\ r.seen = call[w].seen
    BY <1>1, <2>2 DEF Call
  <2>4. call' = [call EXCEPT ![w] = r]
    BY <2>1 DEF p
  <2> HIDE DEF r
  <2>5. Ended(w, r)
    BY <1>4, <2>2, <2>3, <2>4 DEF Ended
  <2> QED BY <1>2, <1>3, <2>3, <2>5
<1>5. CASE ListAnswers(w)
  <2> DEFINE seen == {[pid |-> FormatProviderID(call[w].at.project, s),
                       name |-> servers[s].name] : s \in ListByClass(call[w].at, Id(w).class)}
  <2>1. seen \in SUBSET Entry
    <3>1. ASSUME NEW s \in ServerId
          PROVE  [pid |-> FormatProviderID(call[w].at.project, s), name |-> servers[s].name]
                    \in Entry
      <4>1. FormatProviderID(call[w].at.project, s) \in ProviderID
        BY <1>3, FormatFacts DEF Place
      <4>2. servers[s].name \in Name \cup {None}
        BY <1>1 DEF TypeOK, Server
      <4> QED BY <4>1, <4>2 DEF Entry
    <3> QED BY <3>1 DEF ListByClass
  <2> DEFINE r == [call[w] EXCEPT !.pc = "done", !.seen = seen]
  <2>2. call' = [call EXCEPT ![w] = r]
    BY <1>5 DEF ListAnswers
  <2> HIDE DEF seen
  <2>3. /\ r \in Call
        /\ r.op = call[w].op /\ r.pc = "done" /\ r.at = call[w].at /\ r.pid = call[w].pid
        /\ r.made = call[w].made
    BY <1>1, <2>1 DEF Call
  <2>4. call[w].made # None => Parses(call[w].made)
    BY <1>1 DEF TypeOK
  <2> HIDE DEF r
  <2>5. Ended(w, r)
    BY <1>5, <2>2, <2>3, <2>4 DEF Ended
  <2> QED BY <1>2, <1>3, <2>3, <2>5
<1>6. CASE \E code \in {"OK", "NotFound", "InvalidArgument", "Error"} : Return(w, code)
  BY <1>1, <1>2, <1>3, <1>6, ReturnShape
<1> QED BY <1>4, <1>5, <1>6 DEF DriverStep, CreateFails, DeleteRefuses, DeleteAnswers,
            DeleteFails, StatusAnswers, StatusFails, ListFails

----------------------------------------------------------------------------
(* Servers                                                                 *)

LEMMA StatusChange ==
  ASSUME TypeOK, NEW s \in ServerId, Up(s), NEW st \in {"DELETED", "GONE"},
         servers' = [servers EXCEPT ![s].status = st]
  PROVE  /\ Grow /\ servers' \in [ServerId -> Server]
         /\ \A z \in ServerId : /\ Known(z)' => Known(z)
                                /\ Up(z)' <=> Up(z) /\ z # s
                                /\ z # s => servers'[z] = servers[z]
         /\ servers'[s].status = st
<1>1. servers \in [ServerId -> Server]
  BY DEF TypeOK
<1>2. servers[s] \in Server
  BY <1>1
<1> DEFINE z == [servers[s] EXCEPT !.status = st]
<1>3. /\ z \in Server /\ z.status = st
      /\ z.at = servers[s].at /\ z.name = servers[s].name /\ z.class = servers[s].class
  BY <1>2 DEF Server
<1>4. servers' = [servers EXCEPT ![s] = z]
  OBVIOUS
<1> HIDE DEF z
<1> QED BY <1>1, <1>3, <1>4 DEF Grow, Known, Up

LEMMA ProvisionedFacts ==
  ASSUME TypeOK, NEW s \in Fresh, NEW at \in Place, NEW m \in Machine,
         Provisioned(s, at, ident[m])
  PROVE  /\ Grow /\ servers' \in [ServerId -> Server] /\ ~ Known(s)
         /\ \A z \in ServerId \ {s} : servers'[z] = servers[z]
         /\ Up(s)' /\ servers'[s].at = at
         /\ servers'[s].name = ident[m].name /\ servers'[s].class = ident[m].class
<1>1. servers \in [ServerId -> Server] /\ ident[m] \in Identity
  BY DEF TypeOK
<1> DEFINE z == [status |-> "UP", at |-> at, name |-> ident[m].name, class |-> ident[m].class]
<1>2. z \in Server /\ z.status = "UP" /\ z.at = at
  BY <1>1 DEF Server, Identity
<1>3. servers' = [servers EXCEPT ![s] = z] /\ s \in ServerId /\ ~ Known(s)
  BY DEF Provisioned, Fresh, Known
<1>4. z.name = ident[m].name /\ z.class = ident[m].class
  OBVIOUS
<1> HIDE DEF z
<1> QED BY <1>1, <1>2, <1>3, <1>4 DEF Grow, Known, Up

(* What a step of the driver does to the servers: nothing, create one for  *)
(* the Machine of w, or delete the one that DeleteTargets gives.           *)
Creates(w, s) ==
    /\ call[w].op = "create" /\ s \in Fresh
    /\ ListByName(call[w].at, Id(w).name) = {}
    /\ Provisioned(s, call[w].at, Id(w))

Deletes(w, s) ==
    /\ call[w].op = "delete" /\ DeleteTargets(w) = {s}
    /\ Exists(s, PlaceOf(call[w].pid, call[w].at))
    /\ Destroyed(s)

LEMMA DriverOnServers ==
  ASSUME NEW w \in Worker, DriverStep(w)
  PROVE  \/ UNCHANGED servers
         \/ \E s \in Fresh : Creates(w, s)
         \/ \E s \in ServerId : Deletes(w, s)
  BY DEF DriverStep, CreateAnswers, CreateFails, DeleteRefuses, DeleteAnswers, DeleteFails,
         DeleteBegun, StatusAnswers, StatusFails, ListAnswers, ListFails, Begun, Fresh,
         Creates, Deletes

LEMMA ServersGrow ==
  ASSUME PlacementInv, [Next]_vars
  PROVE  /\ Grow /\ servers' \in [ServerId -> Server]
         /\ \A s \in ServerId : Known(s)' =>
               \/ Known(s) /\ servers'[s].at = servers[s].at
               \/ \E w \in Worker : /\ DriverStep(w) /\ call[w].op = "create"
                                    /\ servers'[s].at = call[w].at /\ call[w].at \in Place
                                    /\ servers'[s].name = Id(w).name
                                    /\ servers'[s].class = Id(w).class
<1>1. TypeOK /\ servers \in [ServerId -> Server]
  BY DEF PlacementInv, TypeOK
<1>2. CASE UNCHANGED servers
  BY <1>1, <1>2 DEF Grow, Known, Up
<1>3. ASSUME NEW s \in ServerId, Vanish(s)
      PROVE  Grow /\ servers' \in [ServerId -> Server] /\ \A z \in ServerId : Known(z)' => Known(z)
  BY <1>1, <1>3, StatusChange DEF Vanish
<1>4. ASSUME NEW w \in Worker, DriverStep(w)
      PROVE  /\ Grow /\ servers' \in [ServerId -> Server]
             /\ \A s \in ServerId : Known(s)' =>
               \/ Known(s) /\ servers'[s].at = servers[s].at
               \/ /\ call[w].op = "create"
                  /\ servers'[s].at = call[w].at /\ call[w].at \in Place
                  /\ servers'[s].name = Id(w).name /\ servers'[s].class = Id(w).class
  <2>1. call[w].at \in Place /\ w[1] \in Machine
    BY <1>4, DriverShape, WorkerFacts
  <2>2. ASSUME NEW s \in Fresh, Creates(w, s)
        PROVE  /\ Grow /\ servers' \in [ServerId -> Server] /\ s \in ServerId
               /\ \A z \in ServerId \ {s} : servers'[z] = servers[z]
               /\ servers'[s].at = call[w].at
               /\ servers'[s].name = Id(w).name /\ servers'[s].class = Id(w).class
    BY <1>1, <2>1, <2>2, ProvisionedFacts DEF Creates, Id, Fresh
  <2>3. ASSUME NEW s \in ServerId, Deletes(w, s)
        PROVE  /\ Grow /\ servers' \in [ServerId -> Server]
               /\ \A z \in ServerId : Known(z)' => Known(z)
    BY <1>1, <2>3, StatusChange DEF Deletes, Destroyed, Exists
  <2>4. CASE \E s \in Fresh : Creates(w, s)
    BY <2>1, <2>2, <2>4 DEF Creates, Known
  <2>5. CASE \E s \in ServerId : Deletes(w, s)
    BY <2>3, <2>5 DEF Grow
  <2>6. CASE UNCHANGED servers
    BY <1>1, <2>6 DEF Grow, Known, Up
  <2> QED BY <1>4, <2>4, <2>5, <2>6, DriverOnServers
<1>5. ASSUME NEW w \in Worker, EndCall(w) PROVE UNCHANGED servers
  BY <1>5 DEF EndCall
<1>6. ASSUME NEW m \in Machine, ClusterStep(m) PROVE UNCHANGED servers
  BY <1>6 DEF ClusterStep, StartStatus, StartCreate, RecordProviderID, StartDelete, ForgetMachine,
              StartList, StartOrphanDelete, UserDeletes, UserEdits, UserSpoils, Issue
<1>7. CASE \E s \in ServerId : Vanish(s)
  BY <1>3, <1>7 DEF Grow
<1>8. CASE \E w \in Worker : DriverStep(w)
  BY <1>4, <1>8
<1> QED BY <1>2, <1>5, <1>6, <1>7, <1>8 DEF Next, vars

----------------------------------------------------------------------------
(* Machine objects, calls and classes                                      *)

LEMMA ClusterTypes ==
  ASSUME PlacementInv, NEW m \in Machine, ClusterStep(m)
  PROVE  TypeOK'
<1>1. /\ TypeOK /\ cfg[m] \in Place /\ pid[m] \in ProviderID \cup {None}
      /\ Reconcile(m) \in Worker /\ Safety(m) \in Worker /\ Reconcile(m)[1] = m /\ Safety(m)[1] = m
      /\ call[Reconcile(m)] \in Call /\ call[Safety(m)] \in Call
  BY WorkerFacts DEF PlacementInv, TypeOK
<1>2. ASSUME NEW w \in {Reconcile(m), Safety(m)},
             NEW op \in {"create", "delete", "status", "list"},
             NEW p \in ProviderID \cup {None}, NEW seen \in SUBSET Entry, Issue(w, op, p, seen)
      PROVE  TypeOK'
  <2> DEFINE c == Request(op, cfg[m], p, seen)
  <2>1. c \in Call /\ c.at \in Place /\ c.made = None
    BY <1>1, RequestFacts
  <2> HIDE DEF c
  <2> call' = [call EXCEPT ![w] = c] /\ UNCHANGED <<servers, ident, cfg, obj, pid>>
    BY <1>1, <1>2 DEF Issue, c
  <2> QED BY <1>1, <2>1 DEF TypeOK
<1>3. None \in ProviderID \cup {None} /\ {} \in SUBSET Entry
  OBVIOUS
<1>4. CASE StartStatus(m) \/ StartCreate(m) \/ StartDelete(m) \/ StartList(m)
  BY <1>1, <1>2, <1>3, <1>4 DEF StartStatus, StartCreate, StartDelete, StartList
<1>5. CASE StartOrphanDelete(m)
  <2> PICK e \in call[Safety(m)].seen :
              Issue(Safety(m), "delete", e.pid, call[Safety(m)].seen \ {e})
    BY <1>5 DEF StartOrphanDelete
  <2> call[Safety(m)].seen \in SUBSET Entry /\ e.pid \in ProviderID
    BY <1>1 DEF Call, Entry
  <2> QED BY <1>2
<1>6. CASE RecordProviderID(m)
  <2> PICK p \in ProviderID \cup {None} : p = call[Reconcile(m)].made
    BY <1>1 DEF Call
  <2> QED BY <1>1, <1>6, NoCallFacts DEF RecordProviderID, TypeOK
<1>7. CASE ForgetMachine(m)
  BY <1>1, <1>7, NoCallFacts DEF ForgetMachine, TypeOK
<1>8. CASE UserDeletes(m) \/ UserEdits(m)
  BY <1>1, <1>8 DEF UserDeletes, UserEdits, TypeOK
<1>9. CASE UserSpoils(m)
  BY <1>1, <1>9, PlacementAssumption DEF UserSpoils, TypeOK
<1> QED BY <1>4, <1>5, <1>6, <1>7, <1>8, <1>9 DEF ClusterStep

LEMMA TypeStep ==
  ASSUME PlacementInv, [Next]_vars
  PROVE  TypeOK' /\ \A s \in ServerId : Known(s)' => servers'[s].at \in Place
<1>1. TypeOK /\ servers' \in [ServerId -> Server]
  BY ServersGrow DEF PlacementInv
<1>2. ASSUME NEW s \in ServerId, Vanish(s) PROVE TypeOK'
  BY <1>1, <1>2 DEF Vanish, TypeOK
<1>3. ASSUME NEW w \in Worker, DriverStep(w) PROVE TypeOK'
  <2> PICK r \in Call : Ended(w, r)
    BY <1>3, DriverShape
  <2>1. UNCHANGED <<ident, cfg, obj, pid>>
    BY <1>3, DriverShape
  <2> QED BY <1>1, <2>1 DEF Ended, TypeOK
<1>4. ASSUME NEW w \in Worker, EndCall(w) PROVE TypeOK'
  BY <1>1, <1>4, NoCallFacts DEF EndCall, TypeOK
<1>5. ASSUME UNCHANGED vars PROVE TypeOK'
  <2> UNCHANGED servers /\ UNCHANGED <<ident, cfg, obj, pid, call>>
    BY <1>5 DEF vars
  <2> QED BY <1>1 DEF TypeOK
<1>6. TypeOK'
  BY <1>2, <1>3, <1>4, <1>5, ClusterTypes DEF Next
<1>7. \A s \in ServerId : Known(s)' => servers'[s].at \in Place
  BY ServersGrow DEF PlacementInv
<1> QED BY <1>6, <1>7

(* What the invariants say of ProviderIDs stays true while servers grow.   *)
LEMMA PidsStable ==
  ASSUME TypeOK, Grow, UNCHANGED ident, NEW m \in Machine, NEW p
  PROVE  /\ Mine(m, p) => Mine(m, p)'
         /\ Listed(m, p) => Listed(m, p)' /\ servers'[Named(p)].name = servers[Named(p)].name
  BY DEF Mine, Listed, Names, Grow

LEMMA IdentStable ==
  ASSUME PlacementInv, [Next]_vars
  PROVE  UNCHANGED ident
  BY DriverShape DEF Next, Vanish, EndCall, ClusterStep, StartStatus, StartCreate,
     RecordProviderID, StartDelete, ForgetMachine, StartList, StartOrphanDelete, UserDeletes,
     UserEdits, UserSpoils, Issue, vars

LEMMA ClassStep ==
  ASSUME PlacementInv, [Next]_vars, NEW m \in Machine
  PROVE  ClassAsName(m)'
<1>1. Grow /\ UNCHANGED ident /\ ClassAsName(m)
  BY ServersGrow, IdentStable DEF PlacementInv
<1> SUFFICES ASSUME OneName(m), NEW s \in ServerId, Known(s)', servers'[s].name = ident[m].name
             PROVE  servers'[s].class = ident[m].class
  BY <1>1 DEF ClassAsName, OneName
<1>2. CASE Known(s)
  BY <1>1, <1>2 DEF Grow, ClassAsName
<1>3. CASE ~ Known(s)
  <2> PICK w \in Worker : servers'[s].name = Id(w).name /\ servers'[s].class = Id(w).class
    BY <1>3, ServersGrow
  <2> QED BY WorkerFacts DEF OneName, Id
<1> QED BY <1>2, <1>3

Same(m) ==
    /\ obj'[m] = obj[m] /\ pid'[m] = pid[m] /\ cfg'[m] = cfg[m]
    /\ call'[Reconcile(m)] = call[Reconcile(m)] /\ call'[Safety(m)] = call[Safety(m)]

(* Which steps change the object of m, its ProviderID or its calls.        *)
LEMMA Untouched ==
  ASSUME PlacementInv, [Next]_vars, NEW m \in Machine,
         ~ ClusterStep(m), \A w \in {Reconcile(m), Safety(m)} : ~ DriverStep(w) /\ ~ EndCall(w)
  PROVE  Same(m)
<1> USE DEF Same
<1>1. TypeOK
  BY DEF PlacementInv
<1>2. ASSUME NEW w \in Worker, DriverStep(w) PROVE Same(m)
  <2> PICK r \in Call : Ended(w, r)
    BY <1>2, DriverShape
  <2>1. w # Reconcile(m) /\ w # Safety(m) /\ UNCHANGED <<ident, cfg, obj, pid>>
    BY <1>2, DriverShape
  <2> QED BY <2>1, <1>1, WorkerFacts DEF Ended, TypeOK
<1>3. ASSUME NEW w \in Worker, EndCall(w) PROVE Same(m)
  BY <1>1, <1>3, WorkerFacts DEF EndCall, TypeOK
<1>4. ASSUME NEW n \in Machine, ClusterStep(n) PROVE Same(m)
  <2>1. n # m /\ Reconcile(n) # Reconcile(m) /\ Reconcile(n) # Safety(m)
        /\ Safety(n) # Reconcile(m) /\ Safety(n) # Safety(m)
    BY <1>4, WorkerFacts
  <2> QED BY <1>1, <1>4, <2>1, WorkerFacts DEF ClusterStep, StartStatus, StartCreate,
      RecordProviderID, StartDelete, ForgetMachine, StartList, StartOrphanDelete, UserDeletes,
      UserEdits, UserSpoils, Issue, TypeOK
<1>5. CASE \E s \in ServerId : Vanish(s)
  BY <1>5 DEF Vanish
<1>6. CASE UNCHANGED vars
  BY <1>6 DEF vars
<1>7. CASE \E w \in Worker : DriverStep(w) \/ EndCall(w)
  BY <1>2, <1>3, <1>7
<1>8. CASE \E n \in Machine : ClusterStep(n)
  BY <1>4, <1>8
<1> QED BY <1>5, <1>6, <1>7, <1>8 DEF Next

----------------------------------------------------------------------------
(* The invariant                                                           *)

(* The server that a handler finds by name was created for its Machine.    *)
LEMMA CreateAnswersFacts ==
  ASSUME PlacementInv, NEW w \in Worker, CreateAnswers(w)
  PROVE  /\ w = Reconcile(w[1]) /\ w[1] \in Machine
         /\ Mine(w[1], call[w].made)'
<1>1. /\ call[w].op = "create" /\ call[w].at \in Place
      /\ TypeOK /\ TypeOK' /\ UNCHANGED ident /\ Id(w) = ident[w[1]]
  BY DriverShape, TypeStep, IdentStable DEF DriverStep, Next, CreateAnswers, Begun, PlacementInv, Id
<1>2. w = Reconcile(w[1]) /\ w[1] \in Machine
  BY <1>1, WorkerFacts DEF PlacementInv, SafetyOK
<1>3. PICK s \in ServerId :
        /\ \/ s \in Fresh /\ Provisioned(s, call[w].at, ident[w[1]])
           \/ s \in ListByName(call[w].at, ident[w[1]].name) /\ UNCHANGED servers
        /\ call' = [call EXCEPT ![w] = [call[w] EXCEPT !.pc = "done",
                       !.made = FormatProviderID(call[w].at.project, s)]]
  BY <1>1 DEF CreateAnswers
<1>4. call'[w].made = FormatProviderID(call[w].at.project, s)
  BY <1>1, <1>3 DEF TypeOK, Call
<1>5. /\ servers'[s].at = call[w].at /\ servers'[s].name = ident[w[1]].name
      /\ Known(s)'
  <2>1. CASE s \in Fresh /\ Provisioned(s, call[w].at, ident[w[1]])
    BY <1>1, <1>2, <2>1, ProvisionedFacts DEF Known, Up
  <2>2. CASE s \in ListByName(call[w].at, ident[w[1]].name) /\ UNCHANGED servers
    BY <2>2 DEF ListByName, Exists, Up, Known
  <2> QED BY <1>3, <2>1, <2>2
<1>6. /\ Usable(call'[w].made) /\ Named(call'[w].made) = s
      /\ call'[w].made.parts[1] = call[w].at.project
  BY <1>1, <1>4, FormatFacts DEF Place
<1> QED BY <1>1, <1>2, <1>5, <1>6 DEF Mine, Names

LEMMA ListAnswersFacts ==
  ASSUME PlacementInv, NEW w \in Worker, ListAnswers(w)
  PROVE  /\ w = Safety(w[1]) /\ w[1] \in Machine
         /\ \A e \in call'[w].seen : Listed(w[1], e.pid) /\ e.name = servers[Named(e.pid)].name
<1>1. /\ call[w].op = "list" /\ call[w].at \in Place /\ TypeOK /\ Id(w) = ident[w[1]]
  BY DriverShape DEF DriverStep, ListAnswers, Begun, PlacementInv, Id
<1>2. w = Safety(w[1]) /\ w[1] \in Machine
  BY <1>1, WorkerFacts DEF PlacementInv, ReconcileOK
<1>3. call'[w].seen = {[pid |-> FormatProviderID(call[w].at.project, s),
         name |-> servers[s].name] : s \in ListByClass(call[w].at, ident[w[1]].class)}
  BY <1>1 DEF ListAnswers, TypeOK, Call
<1>4. ASSUME NEW s \in ListByClass(call[w].at, ident[w[1]].class), NEW e,
             e = [pid |-> FormatProviderID(call[w].at.project, s), name |-> servers[s].name]
      PROVE  Listed(w[1], e.pid) /\ e.name = servers[Named(e.pid)].name
  <2>1. /\ Known(s) /\ servers[s].at = call[w].at /\ servers[s].class = ident[w[1]].class
        /\ s \in ServerId
    BY DEF ListByClass, Exists, Up, Known
  <2>2. Usable(e.pid) /\ Named(e.pid) = s /\ e.pid.parts[1] = servers[s].at.project
    BY <1>1, <1>4, <2>1, FormatFacts DEF Place
  <2> QED BY <1>4, <2>1, <2>2 DEF Listed, Names
<1> QED BY <1>2, <1>3, <1>4

LEMMA ReconcileStep ==
  ASSUME PlacementInv, [Next]_vars, NEW m \in Machine
  PROVE  Mine(m, pid[m])' /\ ReconcileOK(m)'
<1>1. /\ TypeOK /\ Grow /\ UNCHANGED ident /\ ReconcileOK(m) /\ Mine(m, pid[m])
      /\ Reconcile(m) \in Worker /\ call[Reconcile(m)] \in Call
      /\ Reconcile(m)[1] = m /\ Safety(m) \in Worker /\ Reconcile(m) # Safety(m)
  BY ServersGrow, IdentStable, WorkerFacts DEF PlacementInv, TypeOK
<1>2. \A p : Mine(m, p) => Mine(m, p)'
  BY <1>1, PidsStable
<1>3. CASE Same(m)
  BY <1>1, <1>2, <1>3 DEF Same, ReconcileOK, Mine
<1>4. ASSUME NEW w \in {Reconcile(m), Safety(m)}, DriverStep(w)
      PROVE  Mine(m, pid[m])' /\ ReconcileOK(m)'
  <2>1. UNCHANGED <<ident, cfg, obj, pid>> /\ \E r \in Call : Ended(w, r)
    BY <1>1, <1>4, DriverShape
  <2>2. PICK r \in Call : Ended(w, r)
    BY <2>1
  <2>3. Mine(m, pid[m])'
    BY <1>1, <1>2, <2>1 DEF Mine
  <2>4. CASE w = Safety(m)
    <3> call'[Reconcile(m)] = call[Reconcile(m)]
      BY <1>1, <2>2, <2>4 DEF Ended, TypeOK
    <3> QED BY <1>1, <1>2, <2>1, <2>3 DEF ReconcileOK, Mine
  <2>5. CASE w = Reconcile(m)
    <3>1. call'[Reconcile(m)] = r
      BY <1>1, <2>2, <2>5 DEF Ended, TypeOK
    <3>2. Mine(m, r.made)'
      <4>1. CASE CreateAnswers(w)
        BY <1>1, <2>5, <3>1, <4>1, CreateAnswersFacts DEF Mine
      <4>2. CASE r.made = call[w].made
        BY <1>1, <1>2, <2>5, <4>2 DEF ReconcileOK, Mine
      <4> QED BY <2>2, <4>1, <4>2 DEF Ended
    <3>3. Mine(m, r.pid)'
      BY <1>1, <1>2, <2>2, <2>5 DEF Ended, ReconcileOK, Mine
    <3>4. r.op = call[w].op /\ r.pid = call[w].pid /\ call[w].op # "none"
      BY <1>1, <1>4, <2>2, DriverShape DEF Ended
    <3> QED BY <1>1, <2>1, <2>3, <2>5, <3>1, <3>2, <3>3, <3>4 DEF ReconcileOK, Mine
  <2> QED BY <2>4, <2>5
<1>5. ASSUME NEW w \in {Reconcile(m), Safety(m)}, EndCall(w)
      PROVE  Mine(m, pid[m])' /\ ReconcileOK(m)'
  <2>1. UNCHANGED <<obj, pid>> /\ call' = [call EXCEPT ![w] = NoCall]
    BY <1>5 DEF EndCall
  <2>2. call'[Reconcile(m)] \in {call[Reconcile(m)], NoCall}
    BY <1>1, <2>1 DEF TypeOK
  <2> QED BY <1>1, <1>2, <2>1, <2>2, NoCallFacts DEF ReconcileOK, Mine
<1>6. ASSUME ClusterStep(m) PROVE Mine(m, pid[m])' /\ ReconcileOK(m)'
  <2> DEFINE c == call[Reconcile(m)]
  <2>0. cfg[m] \in Place /\ pid[m] \in ProviderID \cup {None} /\ Mine(m, None)'
    BY <1>1, NoCallFacts DEF TypeOK, Mine
  <2>1. ASSUME NEW op \in {"create", "delete", "status"}, NEW p \in ProviderID \cup {None},
               Issue(Reconcile(m), op, p, {}), Mine(m, p),
               op = "create" => p = None, op = "delete" => obj[m] # "present", obj[m] # "absent"
        PROVE  Mine(m, pid[m])' /\ ReconcileOK(m)'
    <3>1. call'[Reconcile(m)] = Request(op, cfg[m], p, {}) /\ UNCHANGED <<obj, pid>>
      BY <1>1, <2>1 DEF Issue, TypeOK
    <3>2. /\ call'[Reconcile(m)].op = op /\ call'[Reconcile(m)].pid = p
          /\ call'[Reconcile(m)].made = None
      BY <2>0, <3>1, RequestFacts
    <3> QED BY <1>1, <1>2, <2>0, <2>1, <3>1, <3>2 DEF ReconcileOK, Mine
  <2>2. CASE StartStatus(m)
    BY <1>1, <2>0, <2>1, <2>2 DEF StartStatus
  <2>3. CASE StartCreate(m)
    BY <1>1, <2>1, <2>3, NoCallFacts DEF StartCreate, Done, ReconcileOK, Mine
  <2>4. CASE StartDelete(m)
    BY <1>1, <2>0, <2>1, <2>4 DEF StartDelete
  <2>5. CASE RecordProviderID(m)
    <3>1. /\ pid'[m] = c.made /\ call'[Reconcile(m)] = NoCall /\ UNCHANGED obj
      BY <1>1, <2>5 DEF RecordProviderID, TypeOK
    <3> QED BY <1>1, <1>2, <2>0, <3>1, NoCallFacts DEF ReconcileOK, Mine
  <2>6. CASE ForgetMachine(m)
    <3>1. /\ call'[Reconcile(m)] = NoCall /\ UNCHANGED pid
      BY <1>1, <2>6 DEF ForgetMachine, TypeOK
    <3> QED BY <1>1, <1>2, <2>0, <3>1, NoCallFacts DEF ReconcileOK, Mine
  <2>7. CASE StartList(m) \/ StartOrphanDelete(m)
    <3>1. call'[Reconcile(m)] = call[Reconcile(m)] /\ UNCHANGED <<obj, pid>>
      BY <1>1, <2>7 DEF StartList, StartOrphanDelete, Issue, TypeOK
    <3> QED BY <1>1, <1>2, <3>1 DEF ReconcileOK, Mine
  <2>8. CASE UserDeletes(m) \/ UserEdits(m)
    <3>1. /\ UNCHANGED <<call, pid>> /\ obj'[m] \in {obj[m], "deleting"}
          /\ obj[m] = "absent" <=> obj'[m] = "absent"
      BY <1>1, <2>8 DEF UserDeletes, UserEdits, TypeOK
    <3> QED BY <1>1, <1>2, <3>1 DEF ReconcileOK, Mine
  <2>9. CASE UserSpoils(m)
    <3>1. UNCHANGED <<call, obj>> /\ ~ Usable(pid'[m])
      BY <1>1, <2>9, PlacementAssumption DEF UserSpoils, TypeOK, Usable
    <3> QED BY <1>1, <1>2, <3>1 DEF ReconcileOK, Mine
  <2> QED BY <1>6, <2>2, <2>3, <2>4, <2>5, <2>6, <2>7, <2>8, <2>9 DEF ClusterStep
<1> QED BY <1>3, <1>4, <1>5, <1>6, Untouched

LEMMA StrayStable ==
  ASSUME PlacementInv, [Next]_vars, NEW m \in Machine, NEW p \in ProviderID,
         Listed(m, p), Stray(m, p)
  PROVE  Stray(m, p)'
<1>1. /\ TypeOK /\ Grow /\ UNCHANGED ident /\ Usable(p) /\ p # None
      /\ servers'[Named(p)].name = servers[Named(p)].name
      /\ ReconcileOK(m)
  BY ServersGrow, IdentStable, PidsStable, PlacementAssumption DEF PlacementInv, Listed
<1>2. obj[m] = "absent" => obj'[m] = "absent"
  BY <1>1, DriverShape DEF Next, vars, Vanish, EndCall, ClusterStep, StartStatus, StartCreate,
     RecordProviderID, StartDelete, ForgetMachine, StartList, StartOrphanDelete, UserDeletes,
     UserEdits, UserSpoils, Issue, TypeOK
<1>3. pid'[m] = pid[m] \/ RecordProviderID(m) \/ UserSpoils(m)
  <2>1. CASE Same(m)
    BY <2>1 DEF Same
  <2>2. ASSUME NEW w \in Worker, DriverStep(w) \/ EndCall(w) PROVE pid'[m] = pid[m]
    BY <2>2, DriverShape DEF EndCall
  <2>3. ASSUME ClusterStep(m)
        PROVE  pid'[m] = pid[m] \/ RecordProviderID(m) \/ UserSpoils(m)
    BY <2>3 DEF ClusterStep, StartStatus, StartCreate, StartDelete, ForgetMachine,
       StartList, StartOrphanDelete, UserDeletes, UserEdits, Issue
  <2> QED BY <2>1, <2>2, <2>3, Untouched, WorkerFacts
<1>4. CASE pid[m] \notin {None, p}
  <2>1. ~ RecordProviderID(m)
    BY <1>1, <1>4 DEF RecordProviderID, Done, Current, ReconcileOK
  <2>2. ASSUME UserSpoils(m) PROVE pid'[m] \notin {None, p}
    BY <1>1, <2>2, PlacementAssumption DEF UserSpoils, TypeOK, Usable
  <2> QED BY <1>3, <1>4, <2>1, <2>2 DEF Stray
<1> QED BY <1>1, <1>2, <1>4 DEF Stray

LEMMA SafetyStep ==
  ASSUME PlacementInv, [Next]_vars, NEW m \in Machine
  PROVE  SafetyOK(m)'
<1>1. /\ TypeOK /\ Grow /\ UNCHANGED ident /\ SafetyOK(m)
      /\ Safety(m) \in Worker /\ call[Safety(m)] \in Call
      /\ Safety(m)[1] = m /\ Reconcile(m) \in Worker /\ Reconcile(m) # Safety(m)
  BY ServersGrow, IdentStable, WorkerFacts DEF PlacementInv, TypeOK
<1>2. \A p : Listed(m, p) =>
          Listed(m, p)' /\ servers'[Named(p)].name = servers[Named(p)].name
  BY <1>1, PidsStable
<1>3. \A p \in ProviderID : Listed(m, p) /\ Stray(m, p) => Stray(m, p)'
  BY StrayStable
<1>4. CASE call'[Safety(m)] = call[Safety(m)]
  <2> call[Safety(m)].op = "delete" => call[Safety(m)].pid \in ProviderID
    BY <1>1 DEF SafetyOK, Listed, Usable, Call
  <2> QED BY <1>1, <1>2, <1>3, <1>4 DEF SafetyOK
<1>5. ASSUME DriverStep(Safety(m)) PROVE SafetyOK(m)'
  <2> DEFINE c == call[Safety(m)]
  <2>1. PICK r \in Call : Ended(Safety(m), r)
    BY <1>1, <1>5, DriverShape
  <2>2. call'[Safety(m)] = r /\ r.op = c.op /\ r.pid = c.pid
    BY <1>1, <2>1 DEF Ended, TypeOK
  <2>3. \A e \in r.seen : Listed(m, e.pid)' /\ e.name = servers'[Named(e.pid)].name
    <3>1. CASE ListAnswers(Safety(m))
      BY <1>1, <1>2, <2>2, <3>1, ListAnswersFacts
    <3>2. CASE r.seen = c.seen
      BY <1>1, <1>2, <3>2 DEF SafetyOK
    <3> QED BY <2>1, <3>1, <3>2 DEF Ended
  <2>4. r.op = "delete" => Listed(m, r.pid)' /\ Stray(m, r.pid)'
    <3> r.op = "delete" => r.pid \in ProviderID /\ Listed(m, r.pid) /\ Stray(m, r.pid)
      BY <1>1, <2>2 DEF SafetyOK, Listed, Usable, Call
    <3> QED BY <1>2, <1>3
  <2>5. c.op \in {"none", "list", "delete"}
    BY <1>1 DEF SafetyOK
  <2> HIDE DEF c
  <2> QED BY <2>2, <2>3, <2>4, <2>5 DEF SafetyOK
<1>6. ASSUME DriverStep(Reconcile(m)) PROVE call'[Safety(m)] = call[Safety(m)]
  <2>1. PICK r \in Call : Ended(Reconcile(m), r)
    BY <1>1, <1>6, DriverShape
  <2> QED BY <1>1, <2>1 DEF Ended, TypeOK
<1>7. ASSUME NEW w \in {Reconcile(m), Safety(m)}, EndCall(w) PROVE SafetyOK(m)'
  <2>1. call'[Safety(m)] \in {call[Safety(m)], NoCall}
    BY <1>1, <1>7 DEF EndCall, TypeOK
  <2>2. CASE call'[Safety(m)] = NoCall
    BY <2>2, NoCallFacts DEF SafetyOK
  <2> QED BY <1>4, <2>1, <2>2
<1>8. ASSUME ClusterStep(m) PROVE SafetyOK(m)'
  <2>1. CASE StartList(m)
    <3>1. cfg[m] \in Place /\ None \in ProviderID \cup {None} /\ {} \in SUBSET Entry
      BY <1>1 DEF TypeOK
    <3>2. call'[Safety(m)] = Request("list", cfg[m], None, {})
      BY <1>1, <2>1 DEF StartList, Issue, TypeOK
    <3>3. call'[Safety(m)].op = "list" /\ call'[Safety(m)].seen = {}
      BY <3>1, <3>2, RequestFacts
    <3> QED BY <3>3 DEF SafetyOK
  <2>2. CASE StartOrphanDelete(m)
    <3> DEFINE c == call[Safety(m)]
    <3>1. PICK e \in c.seen : Orphan(m, e) /\ Issue(Safety(m), "delete", e.pid, c.seen \ {e})
      BY <2>2 DEF StartOrphanDelete
    <3>2. /\ cfg[m] \in Place /\ e.pid \in ProviderID /\ c.seen \ {e} \in SUBSET Entry
          /\ Listed(m, e.pid) /\ e.name = servers[Named(e.pid)].name
      BY <1>1 DEF TypeOK, Call, Entry, SafetyOK
    <3>3. /\ call'[Safety(m)] = Request("delete", cfg[m], e.pid, c.seen \ {e})
          /\ UNCHANGED <<servers, ident, obj, pid>>
      BY <1>1, <3>1 DEF Issue, TypeOK
    <3>4. /\ call'[Safety(m)].op = "delete" /\ call'[Safety(m)].pid = e.pid
          /\ call'[Safety(m)].seen = c.seen \ {e}
      BY <3>2, <3>3, RequestFacts
    <3>5. Stray(m, e.pid)'
      BY <3>1, <3>2, <3>3 DEF Orphan, Stray
    <3>6. \A d \in c.seen : Listed(m, d.pid)' /\ d.name = servers'[Named(d.pid)].name
      BY <1>1, <1>2 DEF SafetyOK
    <3>7. Listed(m, e.pid)'
      BY <1>2, <3>2
    <3> HIDE DEF c
    <3> QED BY <3>4, <3>5, <3>6, <3>7 DEF SafetyOK, Listed, Stray, Names
  <2>3. ASSUME ~ StartList(m), ~ StartOrphanDelete(m)
        PROVE  call'[Safety(m)] = call[Safety(m)]
    BY <1>1, <1>8, <2>3 DEF ClusterStep, StartStatus, StartCreate, RecordProviderID, StartDelete,
       ForgetMachine, UserDeletes, UserEdits, UserSpoils, Issue, TypeOK
  <2> QED BY <1>4, <2>1, <2>2, <2>3
<1>9. CASE Same(m)
  BY <1>4, <1>9 DEF Same
<1> QED BY <1>4, <1>5, <1>6, <1>7, <1>8, <1>9, Untouched

LEMMA InvInit ==
  ASSUME Init
  PROVE  PlacementInv
<1>1. \A s \in ServerId : servers[s] = [status |-> "ABSENT", at |-> None, name |-> None,
                                        class |-> None] /\ ~ Known(s)
  BY DEF Init, Known
<1>2. \A w \in Worker : call[w] = NoCall
  BY DEF Init
<1>3. TypeOK
  <2>1. servers \in [ServerId -> Server]
    BY DEF Init, Server
  <2>2. call \in [Worker -> Call]
    BY NoCallFacts DEF Init
  <2> QED BY <1>2, <2>1, <2>2, NoCallFacts DEF Init, TypeOK
<1>4. ASSUME NEW m \in Machine
      PROVE  Mine(m, pid[m]) /\ ReconcileOK(m) /\ SafetyOK(m) /\ ClassAsName(m)
  <2>1. /\ call[Reconcile(m)] = NoCall /\ call[Safety(m)] = NoCall /\ obj[m] = "present"
        /\ pid[m] = None
    BY <1>2, WorkerFacts DEF Init
  <2> QED BY <1>1, <2>1, NoCallFacts DEF Mine, ReconcileOK, SafetyOK, ClassAsName
<1> QED BY <1>1, <1>3, <1>4 DEF PlacementInv

LEMMA InvStep ==
  ASSUME PlacementInv, [Next]_vars
  PROVE  PlacementInv'
<1>1. TypeOK' /\ \A s \in ServerId : Known(s)' => servers'[s].at \in Place
  BY TypeStep
<1>2. ASSUME NEW m \in Machine
      PROVE  Mine(m, pid[m])' /\ ReconcileOK(m)' /\ SafetyOK(m)' /\ ClassAsName(m)'
  BY ReconcileStep, SafetyStep, ClassStep
<1> QED BY <1>1, <1>2 DEF PlacementInv

(* Ids held by handlers, Machines and the lists of the safety loops are of *)
(* servers made for these Machines and classes, however Secrets, classes   *)
(* and ProviderIDs are edited meanwhile.                                   *)
THEOREM PlacementCorrect == Spec => []PlacementInv
<1>1. Init => PlacementInv
  BY InvInit
<1>2. PlacementInv /\ [Next]_vars => PlacementInv'
  BY InvStep
<1> QED BY <1>1, <1>2, PTL DEF Spec

(* Type correctness, and a ProviderID that CreateMachine returns parses.   *)
THEOREM TypeCorrect == Spec => []TypeOK
<1>1. PlacementInv => TypeOK
  BY DEF PlacementInv
<1> QED BY <1>1, PlacementCorrect, PTL

(* The server a usable ProviderID of this form names has one ProviderID.   *)
LEMMA OneProviderID ==
  ASSUME NEW p \in ProviderID, Parses(p)
  PROVE  p = FormatProviderID(p.parts[1], p.parts[2])
<1>1. p.parts \in Seq(Project \cup ServerId \cup {Blank}) /\ Len(p.parts) = 2
  BY DEF ProviderID, Parses
<1>2. p.parts = <<p.parts[1], p.parts[2]>>
  BY <1>1
<1>3. p = [scheme |-> p.scheme, parts |-> p.parts] /\ p.scheme = "stackit://"
  BY DEF ProviderID, Parses
<1> QED BY <1>2, <1>3 DEF FormatProviderID

(* The driver deletes what a deletion of this Machine asks for.            *)
LEMMA SparedStep ==
  ASSUME PlacementInv, [Next]_vars, NEW s \in ServerId, NEW m \in Machine,
         Up(s), servers'[s].status = "DELETED",
         pid[m] = FormatProviderID(servers[s].at.project, s),
         \A n \in Machine \ {m} : ident[n].name # ident[m].name /\ ident[n].class # ident[m].class
  PROVE  obj[m] # "present"
<1>1. TypeOK /\ Known(s) /\ servers[s].at \in Place /\ servers[s].at.project \in Project
  BY DEF PlacementInv, Up, Known, Place
<1>2. /\ Usable(pid[m]) /\ pid[m].parts[1] = servers[s].at.project /\ Named(pid[m]) = s
      /\ servers[s].name = ident[m].name
  BY <1>1, FormatFacts DEF PlacementInv, Mine
<1>3. servers[s].class = ident[m].class
  BY <1>1, <1>2 DEF PlacementInv, ClassAsName, OneName
<1>4. PICK w \in Worker : Deletes(w, s)
  <2>1. servers'[s].status # servers[s].status
    BY DEF Up
  <2>2. ASSUME NEW z \in ServerId, Vanish(z) PROVE FALSE
    <3>1. \A y \in ServerId : /\ Up(y)' <=> Up(y) /\ y # z
                              /\ y # z => servers'[y] = servers[y]
          /\ servers'[z].status = "GONE"
      BY <1>1, <2>2, StatusChange DEF Vanish
    <3> QED BY <2>1, <3>1
  <2>3. ASSUME NEW w \in Worker, DriverStep(w) PROVE Deletes(w, s)
    <3>1. ASSUME NEW z \in Fresh, Creates(w, z) PROVE FALSE
      <4>1. w[1] \in Machine /\ call[w].at \in Place
        BY <2>3, WorkerFacts, DriverShape
      <4>2. \A y \in ServerId \ {z} : servers'[y] = servers[y]
        BY <1>1, <3>1, <4>1, ProvisionedFacts DEF Creates, Id
      <4> QED BY <1>1, <2>1, <4>2 DEF Fresh, Known
    <3>2. ASSUME NEW z \in ServerId, Deletes(w, z) PROVE z = s
      <4>1. \A y \in ServerId : y # z => servers'[y] = servers[y]
        BY <1>1, <3>2, StatusChange DEF Deletes, Destroyed, Exists
      <4> QED BY <2>1, <4>1
    <3> QED BY <2>1, <2>3, <3>1, <3>2, DriverOnServers
  <2>4. ~ UNCHANGED servers
    BY <2>1
  <2>5. \A w \in Worker : ~ EndCall(w)
    BY <2>4 DEF EndCall
  <2>6. \A n \in Machine : ~ ClusterStep(n)
    BY <2>4 DEF ClusterStep, StartStatus, StartCreate, RecordProviderID, StartDelete,
       ForgetMachine, StartList, StartOrphanDelete, UserDeletes, UserEdits, UserSpoils, Issue
  <2> QED BY <2>2, <2>3, <2>4, <2>5, <2>6 DEF Next, vars
<1>5. PICK n \in Machine : n = w[1]
  BY WorkerFacts
<1>6. /\ Usable(call[w].pid) => Named(call[w].pid) = s
      /\ ~ Usable(call[w].pid) => servers[s].name = ident[n].name
  <2>1. Usable(call[w].pid) => DeleteTargets(w) = {Named(call[w].pid)}
    BY DEF DeleteTargets, Named
  <2>2. ~ Usable(call[w].pid) => DeleteTargets(w) = ListByName(call[w].at, ident[n].name)
    BY <1>5 DEF DeleteTargets, Id
  <2> QED BY <1>4, <2>1, <2>2 DEF Deletes, ListByName
<1>7. CASE w = Reconcile(n)
  BY <1>2, <1>4, <1>6, <1>7 DEF Deletes, PlacementInv, ReconcileOK, Mine
<1>8. CASE w = Safety(n)
  <2>1. Listed(n, call[w].pid) /\ Stray(n, call[w].pid)
    BY <1>4, <1>8 DEF Deletes, PlacementInv, SafetyOK
  <2>2. n = m
    BY <1>3, <1>6, <2>1 DEF Listed
  <2>3. call[w].pid = pid[m]
    <3>1. call[w].pid \in ProviderID /\ Parses(call[w].pid)
      BY <1>1, <2>1 DEF Listed, Usable, TypeOK, Call
    <3>2. call[w].pid.parts[1] = servers[s].at.project /\ call[w].pid.parts[2] = s
      BY <1>6, <2>1 DEF Listed, Names, Named
    <3> QED BY <3>1, <3>2, OneProviderID
  <2> QED BY <1>2, <2>1, <2>2, <2>3 DEF Stray
<1> QED BY <1>5, <1>7, <1>8, WorkerFacts

(* The driver never deletes the server of a Machine nobody asked to        *)
(* delete, for any number of clusters in the same projects, unless they    *)
(* share names.                                                            *)
THEOREM NothingWantedIsDeleted == Spec => WantedSpared
<1>1. PlacementInv /\ [Next]_vars =>
        [\A s \in ServerId, m \in Machine :
          /\ Up(s) /\ servers'[s].status = "DELETED"
          /\ pid[m] = FormatProviderID(servers[s].at.project, s)
          /\ \A n \in Machine \ {m} :
                ident[n].name # ident[m].name /\ ident[n].class # ident[m].class
          => obj[m] # "present"]_vars
  BY SparedStep
<1> QED BY <1>1, PlacementCorrect, PTL DEF Spec, WantedSpared

----------------------------------------------------------------------------
(* While the region of the class stays as it is                            *)

Reaches(m, p) == Usable(p) => servers[Named(p)].at.region = cfg[m].region

(* The server that p names is not up. *)
Lost(p) == ~ Up(Named(p))

PinnedOK(m) ==
    LET c == call[Reconcile(m)]
    IN  /\ c.op # "none" => c.at \in Place /\ c.at.region = cfg[m].region
        /\ Reaches(m, pid[m]) /\ Reaches(m, c.pid) /\ Reaches(m, c.made)
        /\ Done(Reconcile(m), "delete", "OK") /\ Usable(c.pid) => Lost(c.pid)
        /\ Done(Reconcile(m), "status", "NotFound") /\ c.pid # None =>
              Parses(c.pid) /\ Lost(c.pid)
        /\ obj[m] = "absent" /\ Usable(pid[m]) => Lost(pid[m])

PinnedInv == \A m \in Machine : PinnedOK(m)

(* A ProviderID and the request name the place where the server is.        *)
LEMMA PlaceFacts ==
  ASSUME NEW p, Usable(p), Names(p), NEW at \in Place,
         servers[Named(p)].at \in Place, servers[Named(p)].at.region = at.region
  PROVE  PlaceOf(p, at) = servers[Named(p)].at
  BY DEF PlaceOf, Names, Place

LEMMA RegionStable ==
  ASSUME PlacementInv, [Next]_vars, "region" \notin Editable, NEW m \in Machine
  PROVE  cfg'[m].region = cfg[m].region
<1>1. TypeOK /\ cfg \in [Machine -> Place]
  BY DEF PlacementInv, TypeOK
<1>2. ASSUME NEW n \in Machine, UserEdits(n) PROVE cfg'[m].region = cfg[m].region
  <2> PICK at \in Place : at.region = cfg[n].region /\ cfg' = [cfg EXCEPT ![n] = at]
    BY <1>2 DEF UserEdits
  <2> QED BY <1>1
<1>3. (\A n \in Machine : ~ UserEdits(n)) => UNCHANGED cfg
  BY DriverShape DEF Next, vars, Vanish, EndCall, ClusterStep, StartStatus, StartCreate,
     RecordProviderID, StartDelete, ForgetMachine, StartList, StartOrphanDelete, UserDeletes,
     UserSpoils, Issue
<1> QED BY <1>2, <1>3

(* What the last three parts of the invariant say of call and Machine.     *)
LEMMA PinnedDriver ==
  ASSUME PlacementInv, [Next]_vars, "region" \notin Editable, NEW m \in Machine,
         PinnedOK(m), DriverStep(Reconcile(m))
  PROVE  \A r : r = call'[Reconcile(m)] =>
             /\ r.op = "delete" /\ r.code = "OK" /\ Usable(r.pid) => Lost(r.pid)'
             /\ r.op = "status" /\ r.code = "NotFound" /\ r.pid # None =>
                   Parses(r.pid) /\ Lost(r.pid)'
<1> DEFINE w == Reconcile(m)
<1>1. /\ TypeOK /\ w \in Worker /\ w[1] = m /\ call[w] \in Call
      /\ call[w].at \in Place /\ call[w].at.region = cfg[m].region
      /\ Mine(m, call[w].pid) /\ Reaches(m, call[w].pid)
  BY WorkerFacts, DriverShape DEF PlacementInv, ReconcileOK, PinnedOK, TypeOK
<1>2. PICK p \in ProviderID \cup {None} : p = call[w].pid
  BY <1>1 DEF Call
<1>3. call'[w].pid = p /\ call'[w].op = call[w].op
  BY <1>1, <1>2, DriverShape DEF Ended, TypeOK
<1>4. Usable(p) => /\ Named(p) \in ServerId
                   /\ (Exists(Named(p), PlaceOf(p, call[w].at)) <=> Up(Named(p)))
  <2> SUFFICES ASSUME Usable(p) PROVE /\ Named(p) \in ServerId
                   /\ (Exists(Named(p), PlaceOf(p, call[w].at)) <=> Up(Named(p)))
    OBVIOUS
  <2>1. Names(p) /\ servers[Named(p)].at \in Place
    BY <1>1, <1>2 DEF PlacementInv, Mine, Names
  <2>2. PlaceOf(p, call[w].at) = servers[Named(p)].at
    BY <1>1, <1>2, <2>1, PlaceFacts DEF Reaches
  <2> QED BY <2>1, <2>2 DEF Names, Exists
<1>5. ASSUME call[w].op = "delete", call'[w].code = "OK", Usable(p)
      PROVE  ~ Up(Named(p))'
  <2>1. DeleteAnswers(w)
    <3>1. ASSUME NEW code \in {"OK", "NotFound", "InvalidArgument", "Error"}, Return(w, code)
          PROVE  code = "OK"
      BY <1>1, <1>5, <3>1 DEF Return, TypeOK, Call
    <3> QED BY <1>5, <3>1 DEF DriverStep, CreateAnswers, CreateFails, DeleteRefuses, DeleteFails,
                StatusAnswers, StatusFails, ListAnswers, ListFails, Begun
  <2>2. DeleteTargets(w) = {Named(p)}
    BY <1>2, <1>5 DEF DeleteTargets, Named
  <2>3. IF Up(Named(p)) THEN Destroyed(Named(p)) ELSE UNCHANGED servers
    BY <1>2, <1>4, <1>5, <2>1, <2>2 DEF DeleteAnswers
  <2>4. CASE Up(Named(p))
    BY <1>1, <1>4, <1>5, <2>3, <2>4, StatusChange DEF Destroyed
  <2>5. CASE ~ Up(Named(p))
    BY <2>3, <2>5 DEF Up
  <2> QED BY <2>4, <2>5
<1>6. ASSUME call[w].op = "status", call'[w].code = "NotFound", p # None
      PROVE  Parses(p) /\ ~ Up(Named(p))'
  <2>1. StatusAnswers(w)
    <3>1. ASSUME NEW code \in {"OK", "NotFound", "InvalidArgument", "Error"}, Return(w, code)
          PROVE  code = "NotFound"
      BY <1>1, <1>6, <3>1 DEF Return, TypeOK, Call
    <3> QED BY <1>6, <3>1 DEF DriverStep, CreateAnswers, CreateFails, DeleteRefuses, DeleteAnswers,
                DeleteFails, StatusFails, ListAnswers, ListFails, Begun, DeleteBegun
  <2>2. ASSUME NEW code \in {"OK", "NotFound", "InvalidArgument", "Error"}, Return(w, code)
        PROVE  code = "NotFound"
    BY <1>1, <1>6, <2>2 DEF Return, TypeOK, Call
  <2>3. Usable(p) /\ ~ Exists(Named(p), PlaceOf(p, call[w].at)) /\ UNCHANGED servers
    BY <1>2, <1>6, <2>1, <2>2 DEF StatusAnswers, Named
  <2> QED BY <1>4, <2>3 DEF Usable, Up
<1> QED BY <1>3, <1>5, <1>6 DEF Lost

LEMMA PinnedStep ==
  ASSUME PlacementInv, [Next]_vars, "region" \notin Editable, NEW m \in Machine, PinnedOK(m)
  PROVE  PinnedOK(m)'
<1> USE DEF Done
<1>1. /\ TypeOK /\ Grow /\ ReconcileOK(m) /\ Mine(m, pid[m])
      /\ Reconcile(m) \in Worker /\ call[Reconcile(m)] \in Call
      /\ Reconcile(m)[1] = m /\ Safety(m) \in Worker /\ Reconcile(m) # Safety(m)
      /\ cfg'[m].region = cfg[m].region
  BY ServersGrow, WorkerFacts, RegionStable DEF PlacementInv, TypeOK
<1>2. \A p : Mine(m, p) /\ Usable(p) /\ Lost(p) => Lost(p)'
  BY <1>1 DEF Mine, Names, Lost, Grow
<1>3. \A p : Mine(m, p) /\ Reaches(m, p) => Reaches(m, p)'
  BY <1>1 DEF Mine, Names, Reaches, Grow
<1>4. CASE /\ obj'[m] = obj[m] /\ pid'[m] = pid[m] /\ call'[Reconcile(m)] = call[Reconcile(m)]
  <2> DEFINE c == call[Reconcile(m)]
  <2>1. PICK r \in Call : r = c /\ r = call'[Reconcile(m)]
    BY <1>1, <1>4
  <2>2. PICK p : p = pid[m] /\ p = pid'[m]
    BY <1>4
  <2>3. Mine(m, r.pid) /\ Mine(m, r.made) /\ Mine(m, p)
    BY <1>1, <2>1, <2>2 DEF ReconcileOK
  <2>4. Reaches(m, p)' /\ Reaches(m, r.pid)' /\ Reaches(m, r.made)'
    BY <1>3, <2>1, <2>2, <2>3 DEF PinnedOK
  <2>5. /\ r.op # "none" => r.at \in Place /\ r.at.region = cfg'[m].region
        /\ r.op = "delete" /\ r.pc = "done" /\ r.code = "OK" /\ Usable(r.pid) => Lost(r.pid)'
        /\ r.op = "status" /\ r.pc = "done" /\ r.code = "NotFound" /\ r.pid # None =>
              Parses(r.pid) /\ Lost(r.pid)'
        /\ obj[m] = "absent" /\ Usable(p) => Lost(p)'
    BY <1>1, <1>2, <2>1, <2>2, <2>3 DEF PinnedOK, Usable
  <2> QED BY <1>4, <2>1, <2>2, <2>4, <2>5 DEF PinnedOK
<1>5. ASSUME DriverStep(Safety(m)) PROVE PinnedOK(m)'
  <2>1. PICK r \in Call : Ended(Safety(m), r) /\ UNCHANGED <<obj, pid>>
    BY <1>1, <1>5, DriverShape
  <2> QED BY <1>1, <1>4, <2>1 DEF Ended, TypeOK
<1>6. ASSUME DriverStep(Reconcile(m)) PROVE PinnedOK(m)'
  <2> DEFINE c == call[Reconcile(m)]
  <2>1. PICK r \in Call : Ended(Reconcile(m), r) /\ UNCHANGED <<obj, pid, ident>>
                          /\ c.op # "none"
    BY <1>1, <1>6, DriverShape
  <2>2. /\ call'[Reconcile(m)] = r /\ r.op = c.op /\ r.pid = c.pid /\ r.at = c.at
        /\ r.made = c.made \/ CreateAnswers(Reconcile(m))
    BY <1>1, <2>1 DEF Ended, TypeOK
  <2>3. PICK p : p = pid[m] /\ p = pid'[m]
    BY <2>1
  <2>4. Reaches(m, p)' /\ Reaches(m, r.pid)'
    BY <1>1, <1>3, <2>2, <2>3 DEF PinnedOK, ReconcileOK
  <2>5. Reaches(m, r.made)'
    <3>1. CASE r.made = c.made
      BY <1>1, <1>3, <3>1 DEF PinnedOK, ReconcileOK
    <3>2. CASE CreateAnswers(Reconcile(m))
      <4>1. PICK s \in ServerId :
              /\ \/ s \in Fresh /\ Provisioned(s, c.at, ident[m])
                 \/ s \in ListByName(c.at, ident[m].name) /\ UNCHANGED servers
              /\ call' = [call EXCEPT ![Reconcile(m)] = [c EXCEPT !.pc = "done",
                             !.made = FormatProviderID(c.at.project, s)]]
        BY <1>1, <3>2 DEF CreateAnswers, Id
      <4>2. r.made = FormatProviderID(c.at.project, s) /\ c.at \in Place
        BY <1>1, <1>6, <2>2, <4>1, DriverShape DEF TypeOK, Call
      <4>3. Named(r.made) = s
        BY <4>2, FormatFacts DEF Place
      <4>4. servers'[s].at = c.at
        BY <1>1, <4>1, <4>2, ProvisionedFacts DEF ListByName, Exists
      <4> QED BY <1>1, <2>1, <4>3, <4>4 DEF Reaches, PinnedOK
    <3> QED BY <2>2, <3>1, <3>2
  <2>6. /\ r.op # "none" => r.at \in Place /\ r.at.region = cfg'[m].region
        /\ r.op = "delete" /\ r.code = "OK" /\ Usable(r.pid) => Lost(r.pid)'
        /\ r.op = "status" /\ r.code = "NotFound" /\ r.pid # None =>
              Parses(r.pid) /\ Lost(r.pid)'
        /\ obj[m] = "absent" /\ Usable(p) => Lost(p)'
    <3>1. /\ r.op = "delete" /\ r.code = "OK" /\ Usable(r.pid) => Lost(r.pid)'
          /\ r.op = "status" /\ r.code = "NotFound" /\ r.pid # None =>
                Parses(r.pid) /\ Lost(r.pid)'
      BY <1>6, <2>2, PinnedDriver
    <3>2. obj[m] = "absent" /\ Usable(p) => Lost(p)'
      BY <1>1, <1>2, <2>3 DEF PinnedOK
    <3> QED BY <1>1, <2>2, <3>1, <3>2 DEF PinnedOK
  <2> HIDE DEF c
  <2> QED BY <2>1, <2>2, <2>3, <2>4, <2>5, <2>6 DEF PinnedOK
<1>7. ASSUME NEW w \in {Reconcile(m), Safety(m)}, EndCall(w) PROVE PinnedOK(m)'
  <2>1. call'[Reconcile(m)] \in {call[Reconcile(m)], NoCall} /\ UNCHANGED <<obj, pid>>
    BY <1>1, <1>7 DEF EndCall, TypeOK
  <2>2. CASE call'[Reconcile(m)] = NoCall
    BY <1>1, <1>2, <1>3, <2>1, <2>2, NoCallFacts DEF PinnedOK, Reaches, Lost
  <2> QED BY <1>4, <2>1, <2>2
<1>8. ASSUME ClusterStep(m) PROVE PinnedOK(m)'
  <2>0. /\ cfg[m] \in Place /\ pid[m] \in ProviderID \cup {None} /\ Reaches(m, None)'
    BY <1>1, NoCallFacts DEF TypeOK, Reaches
  <2>1. ASSUME NEW op \in {"create", "delete", "status"}, NEW p \in ProviderID \cup {None},
               Issue(Reconcile(m), op, p, {}), Mine(m, p), Reaches(m, p)
        PROVE  PinnedOK(m)'
    <3>1. call'[Reconcile(m)] = Request(op, cfg[m], p, {}) /\ UNCHANGED <<obj, pid, cfg>>
      BY <1>1, <2>1 DEF Issue, TypeOK
    <3>2. PICK r \in Call : /\ call'[Reconcile(m)] = r /\ r.op = op /\ r.pid = p /\ r.at = cfg[m]
                            /\ r.made = None /\ r.pc = "begin"
      BY <2>0, <3>1, RequestFacts
    <3>3. PICK q : q = pid[m] /\ q = pid'[m]
      BY <3>1
    <3>4. Reaches(m, q)' /\ Reaches(m, p)' /\ (obj[m] = "absent" /\ Usable(q) => Lost(q)')
      BY <1>1, <1>2, <1>3, <2>1, <3>3 DEF PinnedOK
    <3> QED BY <1>1, <2>0, <3>1, <3>2, <3>3, <3>4 DEF PinnedOK
  <2>2. CASE StartStatus(m)
    BY <1>1, <2>0, <2>1, <2>2 DEF StartStatus, PinnedOK
  <2>3. CASE StartCreate(m)
    BY <1>1, <2>1, <2>3, NoCallFacts DEF StartCreate, Reaches, Mine
  <2>4. CASE StartDelete(m)
    BY <1>1, <2>0, <2>1, <2>4 DEF StartDelete, PinnedOK
  <2>5. CASE RecordProviderID(m)
    <3>1. PICK p : p = call[Reconcile(m)].made /\ Mine(m, p) /\ Reaches(m, p)
      BY <1>1 DEF ReconcileOK, PinnedOK
    <3>2. /\ pid'[m] = p /\ call'[Reconcile(m)] = NoCall /\ UNCHANGED obj /\ obj[m] # "absent"
      BY <1>1, <2>5, <3>1 DEF RecordProviderID, TypeOK, ReconcileOK
    <3>3. Reaches(m, p)'
      BY <1>3, <3>1
    <3> QED BY <2>0, <3>2, <3>3, NoCallFacts DEF PinnedOK
  <2>6. CASE ForgetMachine(m)
    <3>1. PICK p : p = pid[m] /\ Mine(m, p) /\ Reaches(m, p)
      BY <1>1 DEF PinnedOK
    <3>2. call'[Reconcile(m)] = NoCall /\ UNCHANGED pid /\ (Usable(p) => Lost(p))
      BY <1>1, <2>6, <3>1 DEF ForgetMachine, TypeOK, Current, PinnedOK
    <3>3. Reaches(m, p)' /\ (Usable(p) => Lost(p)')
      BY <1>2, <1>3, <3>1, <3>2
    <3> QED BY <2>0, <3>1, <3>2, <3>3, NoCallFacts DEF PinnedOK
  <2>7. CASE StartList(m) \/ StartOrphanDelete(m)
    <3>1. call'[Reconcile(m)] = call[Reconcile(m)] /\ UNCHANGED <<obj, pid>>
      BY <1>1, <2>7 DEF StartList, StartOrphanDelete, Issue, TypeOK
    <3> QED BY <1>4, <3>1
  <2>8. CASE UserEdits(m)
    BY <1>4, <2>8 DEF UserEdits
  <2>9. CASE UserDeletes(m)
    <3>1. UNCHANGED <<servers, call, pid, cfg>> /\ obj'[m] # "absent"
      BY <1>1, <2>9 DEF UserDeletes, TypeOK
    <3> QED BY <3>1 DEF PinnedOK, Reaches, Lost, Up
  <2>10. CASE UserSpoils(m)
    <3>1. UNCHANGED <<servers, call, obj, cfg>> /\ ~ Usable(pid'[m])
      BY <1>1, <2>10, PlacementAssumption DEF UserSpoils, TypeOK, Usable
    <3> QED BY <3>1 DEF PinnedOK, Reaches, Lost, Up
  <2> QED BY <1>8, <2>2, <2>3, <2>4, <2>5, <2>6, <2>7, <2>8, <2>9, <2>10 DEF ClusterStep
<1>9. CASE Same(m)
  BY <1>4, <1>9 DEF Same
<1> QED BY <1>5, <1>6, <1>7, <1>8, <1>9, Untouched

LEMMA PinnedInit ==
  ASSUME Init
  PROVE  PinnedInv
<1> SUFFICES ASSUME NEW m \in Machine PROVE PinnedOK(m)
  BY DEF PinnedInv
<1>1. call[Reconcile(m)] = NoCall /\ obj[m] = "present" /\ pid[m] = None
  BY WorkerFacts DEF Init
<1> QED BY <1>1, NoCallFacts DEF PinnedOK, Reaches, Done

LEMMA PinnedCorrect ==
  ASSUME "region" \notin Editable
  PROVE  Spec => []PinnedInv
<1>1. Init => PinnedInv
  BY PinnedInit
<1>2. PlacementInv /\ PinnedInv /\ [Next]_vars => PinnedInv'
  BY PinnedStep DEF PinnedInv
<1> QED BY <1>1, <1>2, PlacementCorrect, PTL DEF Spec

(* A Machine object goes away only when the server its ProviderID names is *)
(* gone, if nobody edits the region of a class: Secrets may be edited.     *)
THEOREM DeletionCorrect ==
  ASSUME "region" \notin Editable
  PROVE  Spec => []DeletedMeansGone
<1>1. PinnedInv => DeletedMeansGone
  BY DEF PinnedInv, PinnedOK, DeletedMeansGone, Lost, Named
<1> QED BY <1>1, PinnedCorrect, PTL

(* NotFound for a ProviderID says that its server is gone, if nobody edits *)
(* the region of a class.                                                  *)
THEOREM StatusCorrect ==
  ASSUME "region" \notin Editable
  PROVE  Spec => []NotFoundMeansGone
<1>1. PlacementInv /\ PinnedInv => NotFoundMeansGone
  <2> SUFFICES ASSUME PlacementInv, PinnedInv, NEW w \in Worker,
                      Done(w, "status", "NotFound"), call[w].pid # None
               PROVE  Parses(call[w].pid) /\ ~ Up(call[w].pid.parts[2])
    BY DEF NotFoundMeansGone
  <2>1. w = Reconcile(w[1]) /\ w[1] \in Machine
    BY WorkerFacts DEF PlacementInv, SafetyOK, Done
  <2> QED BY <2>1 DEF PinnedInv, PinnedOK, Lost, Named
<1> QED BY <1>1, PinnedCorrect, PlacementCorrect, PTL

----------------------------------------------------------------------------
(* While Secret and class stay as they are                                 *)

NoneUp(m) == \A s \in ServerId : ~ Namesake(m, s)

(* p names the only one. *)
NamesOnly(m, p) == Usable(p) => \A s \in ServerId : Namesake(m, s) => s = Named(p)

FixedOK(m) ==
    LET c == call[Reconcile(m)]
    IN  /\ \A s \in ServerId : Namesake(m, s) => servers[s].at = cfg[m]
        /\ c.op # "none" => c.at = cfg[m]
        /\ c.op # "none" /\ c.pid = None => ~ Usable(pid[m])
        /\ c.pc = "begin" => c.made = None
        /\ NamesOnly(m, pid[m]) /\ NamesOnly(m, c.pid) /\ NamesOnly(m, c.made)
        /\ Done(Reconcile(m), "delete", "OK") => NoneUp(m)
        /\ obj[m] = "absent" => NoneUp(m)

FixedInv == \A m \in Machine : OneName(m) => FixedOK(m)

LEMMA CfgStable ==
  ASSUME PlacementInv, [Next]_vars, Editable = {}
  PROVE  UNCHANGED cfg
<1>1. cfg \in [Machine -> Place]
  BY DEF PlacementInv, TypeOK
<1>2. ASSUME NEW n \in Machine, UserEdits(n) PROVE UNCHANGED cfg
  <2>1. PICK at \in Place : /\ at.region = cfg[n].region /\ at.project = cfg[n].project
                            /\ cfg' = [cfg EXCEPT ![n] = at]
    BY <1>2 DEF UserEdits
  <2>2. at = cfg[n]
    BY <1>1, <2>1 DEF Place
  <2> QED BY <1>1, <2>1, <2>2
<1> QED BY <1>2, DriverShape DEF Next, vars, Vanish, EndCall, ClusterStep, StartStatus, StartCreate,
     RecordProviderID, StartDelete, ForgetMachine, StartList, StartOrphanDelete, UserDeletes,
     UserSpoils, Issue

(* Only the handler of m creates servers with its name.                    *)
LEMMA NamesakeStep ==
  ASSUME PlacementInv, [Next]_vars, NEW m \in Machine, OneName(m),
         ~ DriverStep(Reconcile(m)) \/ call[Reconcile(m)].op # "create"
  PROVE  \A s \in ServerId :
            Namesake(m, s)' => Namesake(m, s) /\ servers'[s].at = servers[s].at
<1>1. Grow /\ UNCHANGED ident
  BY ServersGrow, IdentStable
<1> SUFFICES ASSUME NEW s \in ServerId, Namesake(m, s)'
             PROVE  Namesake(m, s) /\ servers'[s].at = servers[s].at
  OBVIOUS
<1>2. CASE Known(s)
  BY <1>1, <1>2 DEF Grow, Namesake
<1>3. CASE ~ Known(s)
  <2>1. PICK w \in Worker : /\ DriverStep(w) /\ call[w].op = "create"
                            /\ servers'[s].name = Id(w).name
    BY <1>3, ServersGrow DEF Namesake, Up, Known
  <2>2. w = Reconcile(w[1]) /\ w[1] \in Machine
    BY <2>1, WorkerFacts DEF PlacementInv, SafetyOK
  <2>3. w[1] = m
    BY <1>1, <2>1, <2>2 DEF Namesake, OneName, Id
  <2> QED BY <2>1, <2>2, <2>3
<1> QED BY <1>2, <1>3

LEMMA FixedCreate ==
  ASSUME PlacementInv, [Next]_vars, NEW m \in Machine, OneName(m), FixedOK(m),
         DriverStep(Reconcile(m)), call[Reconcile(m)].op = "create"
  PROVE  /\ \A s \in ServerId : Namesake(m, s)' => servers'[s].at = cfg[m]
         /\ \A r : r = call'[Reconcile(m)] => NamesOnly(m, r.made)'
<1> DEFINE w == Reconcile(m)
<1>1. /\ TypeOK /\ w \in Worker /\ w[1] = m /\ Id(w) = ident[m] /\ UNCHANGED ident
      /\ cfg[m] \in Place /\ call[w].at = cfg[m] /\ call[w].made = None /\ Grow
  BY WorkerFacts, IdentStable, DriverShape, ServersGrow DEF PlacementInv, FixedOK, TypeOK, Id
<1>2. ASSUME NEW s \in Fresh, Provisioned(s, cfg[m], ident[m]),
             ListByName(cfg[m], ident[m].name) = {}
      PROVE  /\ \A z \in ServerId : Namesake(m, z)' => z = s
             /\ servers'[s].at = cfg[m]
  <2>1. \A z \in ServerId : ~ Namesake(m, z)
    BY <1>2 DEF FixedOK, Namesake, ListByName, Exists
  <2>2. servers'[s].at = cfg[m] /\ \A z \in ServerId \ {s} : servers'[z] = servers[z]
    BY <1>1, <1>2, ProvisionedFacts
  <2> QED BY <1>1, <2>1, <2>2 DEF Namesake, Up
<1>3. CASE CreateAnswers(w)
  <2>1. PICK s \in ServerId :
          /\ \/ /\ ListByName(cfg[m], ident[m].name) = {} /\ s \in Fresh
                /\ Provisioned(s, cfg[m], ident[m])
             \/ ListByName(cfg[m], ident[m].name) = {s} /\ UNCHANGED servers
          /\ call' = [call EXCEPT ![w] = [call[w] EXCEPT !.pc = "done",
                         !.made = FormatProviderID(cfg[m].project, s)]]
    BY <1>1, <1>3 DEF CreateAnswers
  <2>2. \A z \in ServerId : Namesake(m, z)' => z = s /\ servers'[z].at = cfg[m]
    <3>1. CASE ListByName(cfg[m], ident[m].name) = {s} /\ UNCHANGED servers
      BY <1>1, <3>1 DEF FixedOK, Namesake, ListByName, Exists, Up
    <3> QED BY <1>2, <2>1, <3>1
  <2>3. call'[w].made = FormatProviderID(cfg[m].project, s)
    BY <1>1, <2>1 DEF TypeOK, Call
  <2>4. Named(call'[w].made) = s
    BY <1>1, <2>3, FormatFacts DEF Place
  <2> QED BY <2>2, <2>4 DEF NamesOnly
<1>4. CASE CreateFails(w)
  <2>1. call'[w].made = None
    BY <1>1, <1>4 DEF CreateFails, Return, TypeOK, Call
  <2>2. \A s \in ServerId : Namesake(m, s)' => servers'[s].at = cfg[m]
    <3>1. CASE UNCHANGED servers
      BY <1>1, <3>1 DEF FixedOK, Namesake, Up
    <3>2. ASSUME NEW s \in Fresh, Provisioned(s, cfg[m], ident[m]),
                 ListByName(cfg[m], ident[m].name) = {}
          PROVE  \A z \in ServerId : Namesake(m, z)' => servers'[z].at = cfg[m]
      BY <1>2, <3>2
    <3> QED BY <1>1, <1>4, <3>1, <3>2 DEF CreateFails
  <2> QED BY <2>1, <2>2, NoCallFacts DEF NamesOnly
<1> QED BY <1>3, <1>4 DEF DriverStep, DeleteRefuses, DeleteAnswers, DeleteFails, DeleteBegun,
            StatusAnswers, StatusFails, ListAnswers, ListFails, Begun

LEMMA FixedDelete ==
  ASSUME PlacementInv, [Next]_vars, Editable = {}, NEW m \in Machine, OneName(m), FixedOK(m),
         PinnedOK(m), DriverStep(Reconcile(m)),
         call[Reconcile(m)].op = "delete", call'[Reconcile(m)].code = "OK"
  PROVE  NoneUp(m)'
<1> DEFINE w == Reconcile(m)
<1>1. /\ TypeOK /\ w \in Worker /\ Id(w) = ident[m] /\ UNCHANGED ident
      /\ call[w].at = cfg[m] /\ NamesOnly(m, call[w].pid) /\ "region" \notin Editable
      /\ \A s \in ServerId : Namesake(m, s)' => Namesake(m, s)
  BY WorkerFacts, IdentStable, NamesakeStep DEF PlacementInv, FixedOK, Id
<1>2. CASE Usable(call[w].pid)
  <2>1. PICK p : p = call[w].pid /\ Usable(p)
    BY <1>2
  <2>2. p = call'[w].pid /\ call'[w].op = "delete"
    BY <1>1, <2>1, DriverShape DEF Ended, TypeOK
  <2>3. Lost(p)'
    BY <1>1, <2>1, <2>2, PinnedDriver
  <2> QED BY <1>1, <2>1, <2>3 DEF NoneUp, NamesOnly, Lost, Namesake
<1>3. CASE ~ Usable(call[w].pid)
  <2>1. ASSUME NEW code \in {"OK", "NotFound", "InvalidArgument", "Error"}, Return(w, code)
        PROVE  code = "OK"
    BY <1>1, <2>1 DEF Return, TypeOK, Call
  <2>2. DeleteAnswers(w)
    BY <2>1 DEF DriverStep, CreateAnswers, CreateFails, DeleteRefuses, DeleteFails,
       StatusAnswers, StatusFails, ListAnswers, ListFails, Begun
  <2>3. DeleteTargets(w) = ListByName(cfg[m], ident[m].name) /\ PlaceOf(call[w].pid, call[w].at) = cfg[m]
    BY <1>1, <1>3 DEF DeleteTargets, PlaceOf
  <2>4. \A s \in ServerId : Namesake(m, s) => s \in ListByName(cfg[m], ident[m].name)
    BY DEF FixedOK, Namesake, ListByName, Exists
  <2>5. CASE ListByName(cfg[m], ident[m].name) = {}
    BY <1>1, <2>4, <2>5 DEF NoneUp
  <2>6. ASSUME NEW s \in ServerId, ListByName(cfg[m], ident[m].name) = {s}, Destroyed(s)
        PROVE  NoneUp(m)'
    <3>1. Up(s)
      BY <2>6 DEF ListByName, Exists
    <3>2. ~ Up(s)'
      BY <1>1, <2>6, <3>1, StatusChange DEF Destroyed
    <3> QED BY <1>1, <2>4, <2>6, <3>2 DEF NoneUp, Namesake
  <2>7. ASSUME NEW s \in ServerId, ListByName(cfg[m], ident[m].name) = {s}
        PROVE  Exists(s, cfg[m])
    BY <2>7 DEF ListByName
  <2> QED BY <2>2, <2>3, <2>5, <2>6, <2>7 DEF DeleteAnswers
<1> QED BY <1>2, <1>3

LEMMA FixedStep ==
  ASSUME PlacementInv, [Next]_vars, Editable = {}, NEW m \in Machine, OneName(m), FixedOK(m),
         PinnedOK(m)
  PROVE  FixedOK(m)'
<1> USE DEF Done
<1>1. /\ TypeOK /\ Grow /\ ReconcileOK(m) /\ UNCHANGED <<cfg, ident>>
      /\ Reconcile(m) \in Worker /\ call[Reconcile(m)] \in Call
      /\ Reconcile(m)[1] = m /\ Safety(m) \in Worker /\ Reconcile(m) # Safety(m)
  BY ServersGrow, WorkerFacts, IdentStable, CfgStable DEF PlacementInv, TypeOK
<1>2. CASE DriverStep(Reconcile(m)) /\ call[Reconcile(m)].op = "create"
  <2>1. PICK r \in Call : Ended(Reconcile(m), r) /\ UNCHANGED <<obj, pid>>
    BY <1>1, <1>2, DriverShape
  <2>2. /\ call'[Reconcile(m)] = r /\ r.op = "create" /\ r.pid = None /\ r.at = cfg[m]
        /\ r.pc = "done" /\ obj[m] # "absent" /\ ~ Usable(pid[m])
    BY <1>1, <1>2, <2>1 DEF Ended, TypeOK, ReconcileOK, FixedOK
  <2>3. /\ \A s \in ServerId : Namesake(m, s)' => servers'[s].at = cfg[m]
        /\ NamesOnly(m, r.made)'
    BY <1>2, <2>2, FixedCreate
  <2> QED BY <1>1, <2>1, <2>2, <2>3, NoCallFacts DEF FixedOK, NamesOnly
<1> SUFFICES ASSUME ~ (DriverStep(Reconcile(m)) /\ call[Reconcile(m)].op = "create")
             PROVE  FixedOK(m)'
  BY <1>2
<1>3. \A s \in ServerId : Namesake(m, s)' => Namesake(m, s) /\ servers'[s].at = servers[s].at
  BY NamesakeStep
<1>4. /\ \A p : NamesOnly(m, p) => NamesOnly(m, p)'
      /\ NoneUp(m) => NoneUp(m)'
      /\ \A s \in ServerId : Namesake(m, s)' => servers'[s].at = cfg'[m]
  BY <1>1, <1>3 DEF NamesOnly, NoneUp, FixedOK
<1>5. CASE /\ obj'[m] = obj[m] /\ pid'[m] = pid[m] /\ call'[Reconcile(m)] = call[Reconcile(m)]
  <2>1. PICK r : r = call[Reconcile(m)] /\ r = call'[Reconcile(m)]
    BY <1>5
  <2>2. PICK p : p = pid[m] /\ p = pid'[m]
    BY <1>5
  <2>3. NamesOnly(m, p)' /\ NamesOnly(m, r.pid)' /\ NamesOnly(m, r.made)'
    BY <1>4, <2>1, <2>2 DEF FixedOK
  <2> QED BY <1>1, <1>4, <1>5, <2>1, <2>2, <2>3 DEF FixedOK
<1>6. ASSUME DriverStep(Safety(m)) PROVE FixedOK(m)'
  <2>1. PICK r \in Call : Ended(Safety(m), r) /\ UNCHANGED <<obj, pid>>
    BY <1>1, <1>6, DriverShape
  <2> QED BY <1>1, <1>5, <2>1 DEF Ended, TypeOK
<1>7. ASSUME DriverStep(Reconcile(m)) PROVE FixedOK(m)'
  <2>1. PICK r \in Call : Ended(Reconcile(m), r) /\ UNCHANGED <<obj, pid>>
    BY <1>1, <1>7, DriverShape
  <2>2. /\ call'[Reconcile(m)] = r /\ r.op = call[Reconcile(m)].op
        /\ r.pid = call[Reconcile(m)].pid /\ r.at = call[Reconcile(m)].at /\ r.pc = "done"
        /\ r.op # "none"
    BY <1>1, <1>7, <2>1, DriverShape DEF Ended, TypeOK
  <2>3. r.made = call[Reconcile(m)].made
    BY <1>7, <2>1 DEF Ended, CreateAnswers, Begun
  <2>4. PICK p : p = pid[m] /\ p = pid'[m]
    BY <2>1
  <2>5. NamesOnly(m, p)' /\ NamesOnly(m, r.pid)' /\ NamesOnly(m, r.made)'
    BY <1>4, <2>2, <2>3, <2>4 DEF FixedOK
  <2>6. r.op = "delete" /\ r.code = "OK" => NoneUp(m)'
    BY <1>7, <2>2, FixedDelete
  <2> QED BY <1>1, <1>4, <2>1, <2>2, <2>4, <2>5, <2>6 DEF FixedOK
<1>8. ASSUME NEW w \in {Reconcile(m), Safety(m)}, EndCall(w) PROVE FixedOK(m)'
  <2>1. call'[Reconcile(m)] \in {call[Reconcile(m)], NoCall} /\ UNCHANGED <<obj, pid>>
    BY <1>1, <1>8 DEF EndCall, TypeOK
  <2>2. CASE call'[Reconcile(m)] = NoCall
    <3>1. PICK p : p = pid[m] /\ p = pid'[m]
      BY <2>1
    <3>2. NamesOnly(m, p)'
      BY <1>4, <3>1 DEF FixedOK
    <3> QED BY <1>4, <2>1, <2>2, <3>1, <3>2, NoCallFacts DEF FixedOK, NamesOnly
  <2> QED BY <1>5, <2>1, <2>2
<1>9. ASSUME ClusterStep(m) PROVE FixedOK(m)'
  <2>0. /\ cfg[m] \in Place /\ pid[m] \in ProviderID \cup {None} /\ NamesOnly(m, None)'
    BY <1>1, NoCallFacts DEF TypeOK, NamesOnly
  <2>1. ASSUME NEW op \in {"create", "delete", "status"}, NEW p \in ProviderID \cup {None},
               Issue(Reconcile(m), op, p, {}), NamesOnly(m, p), p = None => ~ Usable(pid[m])
        PROVE  FixedOK(m)'
    <3>1. call'[Reconcile(m)] = Request(op, cfg[m], p, {}) /\ UNCHANGED <<obj, pid, cfg>>
      BY <1>1, <2>1 DEF Issue, TypeOK
    <3>2. PICK r \in Call : /\ call'[Reconcile(m)] = r /\ r.op = op /\ r.pid = p /\ r.at = cfg[m]
                            /\ r.made = None /\ r.pc = "begin"
      BY <2>0, <3>1, RequestFacts
    <3>3. PICK q : q = pid[m] /\ q = pid'[m]
      BY <3>1
    <3>4. NamesOnly(m, q)' /\ NamesOnly(m, p)'
      BY <1>4, <2>1, <3>3 DEF FixedOK
    <3> QED BY <1>1, <1>4, <2>0, <2>1, <3>1, <3>2, <3>3, <3>4 DEF FixedOK
  <2>2. CASE StartStatus(m)
    BY <1>1, <2>0, <2>1, <2>2, NoCallFacts DEF StartStatus, FixedOK
  <2>3. CASE StartCreate(m)
    BY <1>1, <2>1, <2>3, NoCallFacts DEF StartCreate, NamesOnly, FixedOK
  <2>4. CASE StartDelete(m)
    BY <1>1, <2>0, <2>1, <2>4, NoCallFacts DEF StartDelete, FixedOK
  <2>5. CASE RecordProviderID(m)
    <3>1. PICK p : p = call[Reconcile(m)].made /\ NamesOnly(m, p)
      BY <1>1 DEF FixedOK
    <3>2. /\ pid'[m] = p /\ call'[Reconcile(m)] = NoCall /\ UNCHANGED obj
      BY <1>1, <2>5, <3>1 DEF RecordProviderID, TypeOK
    <3>3. NamesOnly(m, p)'
      BY <1>4, <3>1
    <3> QED BY <1>4, <2>0, <3>2, <3>3, NoCallFacts DEF FixedOK
  <2>6. CASE ForgetMachine(m)
    <3>1. PICK p : p = pid[m] /\ NamesOnly(m, p) /\ NoneUp(m)
      BY <2>6 DEF FixedOK, ForgetMachine
    <3>2. call'[Reconcile(m)] = NoCall /\ UNCHANGED pid
      BY <1>1, <2>6 DEF ForgetMachine, TypeOK
    <3>3. NamesOnly(m, p)' /\ NoneUp(m)'
      BY <1>4, <3>1
    <3> QED BY <1>4, <2>0, <3>1, <3>2, <3>3, NoCallFacts DEF FixedOK
  <2>7. CASE StartList(m) \/ StartOrphanDelete(m)
    <3>1. call'[Reconcile(m)] = call[Reconcile(m)] /\ UNCHANGED <<obj, pid>>
      BY <1>1, <2>7 DEF StartList, StartOrphanDelete, Issue, TypeOK
    <3> QED BY <1>5, <3>1
  <2>8. CASE UserEdits(m)
    BY <1>5, <2>8 DEF UserEdits
  <2>9. CASE UserDeletes(m)
    <3>1. UNCHANGED <<servers, call, pid>> /\ obj'[m] # "absent"
      BY <1>1, <2>9 DEF UserDeletes, TypeOK
    <3> QED BY <1>1, <3>1 DEF FixedOK, NamesOnly, NoneUp, Namesake, Up
  <2>10. CASE UserSpoils(m)
    <3>1. UNCHANGED <<servers, call, obj>> /\ ~ Usable(pid'[m])
      BY <1>1, <2>10, PlacementAssumption DEF UserSpoils, TypeOK, Usable
    <3> QED BY <1>1, <3>1 DEF FixedOK, NamesOnly, NoneUp, Namesake, Up
  <2> QED BY <1>9, <2>2, <2>3, <2>4, <2>5, <2>6, <2>7, <2>8, <2>9, <2>10 DEF ClusterStep
<1>10. CASE Same(m)
  BY <1>5, <1>10 DEF Same
<1> QED BY <1>6, <1>7, <1>8, <1>9, <1>10, Untouched

LEMMA FixedInit ==
  ASSUME Init
  PROVE  FixedInv
<1> SUFFICES ASSUME NEW m \in Machine PROVE FixedOK(m)
  BY DEF FixedInv
<1>1. /\ call[Reconcile(m)] = NoCall /\ obj[m] = "present" /\ pid[m] = None
      /\ \A s \in ServerId : ~ Namesake(m, s)
  BY WorkerFacts DEF Init, Namesake, Up
<1> QED BY <1>1, NoCallFacts DEF FixedOK, NamesOnly, Done

LEMMA FixedCorrect ==
  ASSUME Editable = {}
  PROVE  Spec => []FixedInv
<1>1. Init => FixedInv
  BY FixedInit
<1>2. PlacementInv /\ PinnedInv /\ FixedInv /\ [Next]_vars => FixedInv'
  <2> SUFFICES ASSUME PlacementInv, PinnedInv, FixedInv, [Next]_vars,
                      NEW m \in Machine, OneName(m)'
               PROVE  FixedOK(m)'
    BY DEF FixedInv
  <2>1. OneName(m)
    BY IdentStable DEF OneName
  <2> QED BY <2>1, FixedStep DEF FixedInv, PinnedInv
<1>3. "region" \notin Editable
  OBVIOUS
<1>4. Spec => []PinnedInv
  BY <1>3, PinnedCorrect
<1> QED BY <1>1, <1>2, <1>4, PlacementCorrect, PTL DEF Spec

(* No server of a Machine is left when its object is gone, whatever became *)
(* of its ProviderID, if its name is used once and neither Secrets nor     *)
(* classes are edited.                                                     *)
THEOREM NothingLeaks ==
  ASSUME Editable = {}
  PROVE  Spec => []NoLeak
<1>1. FixedInv => NoLeak
  BY DEF FixedInv, FixedOK, NoLeak, OneName, NoneUp, Namesake, ListByName, Exists
<1> QED BY <1>1, FixedCorrect, PTL

----------------------------------------------------------------------------
(* Deletion by name, whatever is edited                                    *)

NameGone(m, at) == \A s \in ServerId : Namesake(m, s) => servers[s].at # at

ByNameOK(m) ==
    LET c == call[Reconcile(m)]
    IN  Done(Reconcile(m), "delete", "OK") /\ ~ Usable(c.pid) => NameGone(m, c.at)

(* The answer itself: the one server found by name is the one deleted.     *)
LEMMA ByNameAnswer ==
  ASSUME PlacementInv, [Next]_vars, NEW m \in Machine, OneName(m),
         DeleteAnswers(Reconcile(m)), ~ Usable(call[Reconcile(m)].pid),
         NEW at \in Place, at = call[Reconcile(m)].at
  PROVE  NameGone(m, at)'
<1> DEFINE w == Reconcile(m)
<1>1. /\ TypeOK /\ w \in Worker /\ Id(w) = ident[m] /\ UNCHANGED ident
      /\ \A s \in ServerId : Namesake(m, s)' =>
            Namesake(m, s) /\ servers'[s].at = servers[s].at
  BY WorkerFacts, IdentStable, NamesakeStep
     DEF PlacementInv, Id, DeleteAnswers, DeleteBegun, Begun
<1>2. /\ DeleteTargets(w) = ListByName(at, ident[m].name)
      /\ PlaceOf(call[w].pid, call[w].at) = at
  BY <1>1 DEF DeleteTargets, PlaceOf
<1>3. \A s \in ServerId :
          Namesake(m, s) /\ servers[s].at = at => s \in ListByName(at, ident[m].name)
  BY DEF Namesake, ListByName, Exists
<1>4. CASE ListByName(at, ident[m].name) = {}
  BY <1>1, <1>3, <1>4 DEF NameGone
<1>5. ASSUME NEW s \in ServerId, ListByName(at, ident[m].name) = {s}
      PROVE  Exists(s, at)
  BY <1>5 DEF ListByName
<1>6. ASSUME NEW s \in ServerId, ListByName(at, ident[m].name) = {s}, Destroyed(s)
      PROVE  NameGone(m, at)'
  <2>1. Up(s)
    BY <1>5, <1>6 DEF Exists
  <2>2. ~ Up(s)'
    BY <1>1, <1>6, <2>1, StatusChange DEF Destroyed
  <2> QED BY <1>1, <1>3, <1>6, <2>2 DEF NameGone, Namesake
<1> QED BY <1>2, <1>4, <1>5, <1>6 DEF DeleteAnswers

LEMMA ByNameStep ==
  ASSUME PlacementInv, [Next]_vars, NEW m \in Machine, OneName(m), ByNameOK(m)
  PROVE  ByNameOK(m)'
<1> DEFINE w == Reconcile(m)
<1> SUFFICES ASSUME call'[w].op = "delete", call'[w].pc = "done", call'[w].code = "OK",
                    ~ Usable(call'[w].pid)
             PROVE  NameGone(m, call[w].at)' /\ call'[w].at = call[w].at
  BY DEF ByNameOK, Done, NameGone, Namesake, Up
<1>1. /\ TypeOK /\ w \in Worker /\ w # Safety(m) /\ Safety(m) \in Worker
      /\ call[w] \in Call /\ UNCHANGED ident
  BY WorkerFacts, IdentStable DEF PlacementInv, TypeOK
<1>2. CASE DriverStep(w)
  <2>1. PICK r \in Call : Ended(w, r)
    BY <1>1, <1>2, DriverShape
  <2>2. /\ call[w].op = "delete" /\ call'[w].at = call[w].at /\ call[w].at \in Place
        /\ ~ Usable(call[w].pid)
    BY <1>1, <1>2, <2>1, DriverShape DEF Ended, TypeOK
  <2>3. ASSUME NEW code \in {"OK", "NotFound", "InvalidArgument", "Error"}, Return(w, code)
        PROVE  code = "OK"
    BY <1>1, <2>3 DEF Return, TypeOK, Call
  <2>4. DeleteAnswers(w)
    BY <1>2, <2>2, <2>3 DEF DriverStep, CreateAnswers, CreateFails, DeleteRefuses, DeleteFails,
       StatusAnswers, StatusFails, ListAnswers, ListFails, Begun
  <2>5. PICK at \in Place : at = call[w].at
    BY <2>2
  <2>6. NameGone(m, at)'
    BY <2>2, <2>4, <2>5, ByNameAnswer
  <2> QED BY <2>2, <2>5, <2>6 DEF NameGone
<1>3. CASE ~ DriverStep(w)
  <2>1. call'[w] = call[w]
    <3>1. ASSUME DriverStep(Safety(m)) PROVE call'[w] = call[w]
      <4>1. PICK r \in Call : Ended(Safety(m), r)
        BY <1>1, <3>1, DriverShape
      <4> QED BY <1>1, <4>1 DEF Ended, TypeOK
    <3>2. ASSUME NEW v \in {w, Safety(m)}, EndCall(v) PROVE call'[w] = call[w]
      BY <1>1, <3>2, NoCallFacts DEF EndCall, TypeOK
    <3>3. ASSUME ClusterStep(m) PROVE call'[w] = call[w]
      <4>1. ASSUME NEW op, NEW p, NEW seen, Issue(w, op, p, seen) PROVE FALSE
        BY <1>1, <4>1 DEF Issue, Request, TypeOK
      <4>2. ASSUME NEW op, NEW p, NEW seen, Issue(Safety(m), op, p, seen)
            PROVE  call'[w] = call[w]
        BY <1>1, <4>2 DEF Issue, TypeOK
      <4>3. call'[w] # NoCall
        BY NoCallFacts
      <4>4. CASE RecordProviderID(m) \/ ForgetMachine(m)
        BY <1>1, <4>3, <4>4 DEF RecordProviderID, ForgetMachine, TypeOK
      <4>5. CASE UserDeletes(m) \/ UserEdits(m) \/ UserSpoils(m)
        BY <4>5 DEF UserDeletes, UserEdits, UserSpoils
      <4> QED BY <3>3, <4>1, <4>2, <4>4, <4>5 DEF ClusterStep, StartStatus, StartCreate,
              StartDelete, StartList, StartOrphanDelete
    <3> QED BY <1>3, <3>1, <3>2, <3>3, Untouched DEF Same
  <2>2. NameGone(m, call[w].at)
    BY <2>1 DEF ByNameOK, Done
  <2>3. \A s \in ServerId : Namesake(m, s)' =>
            Namesake(m, s) /\ servers'[s].at = servers[s].at
    BY <1>3, NamesakeStep
  <2>4. PICK at : at = call[w].at
    OBVIOUS
  <2> QED BY <2>1, <2>2, <2>3, <2>4 DEF NameGone
<1> QED BY <1>2, <1>3

(* Deletion of a Machine without usable ProviderID is reported as done     *)
(* only if no server of its name is left in the place of the request,      *)
(* whatever users edit.                                                    *)
THEOREM DeletionByNameCorrect == Spec => []DeletedByNameMeansGone
<1> DEFINE ByName == \A m \in Machine : OneName(m) => ByNameOK(m)
<1>1. Init => ByName
  <2> SUFFICES ASSUME Init, NEW m \in Machine PROVE ByNameOK(m)
    OBVIOUS
  <2> QED BY WorkerFacts, NoCallFacts DEF Init, ByNameOK, Done
<1>2. PlacementInv /\ ByName /\ [Next]_vars => ByName'
  <2> SUFFICES ASSUME PlacementInv, ByName, [Next]_vars, NEW m \in Machine, OneName(m)'
               PROVE  ByNameOK(m)'
    OBVIOUS
  <2>1. OneName(m)
    BY IdentStable DEF OneName
  <2> QED BY <2>1, ByNameStep
<1>3. ByName => DeletedByNameMeansGone
  BY DEF ByNameOK, DeletedByNameMeansGone, OneName, NameGone, Namesake, ListByName, Exists
<1> HIDE DEF ByName
<1> QED BY <1>1, <1>2, <1>3, PlacementCorrect, PTL DEF Spec
----------------------------------------------------------------------------
(* The contract of one Machine                                             *)

(* An id that was not handed out bears no name. *)
Nameless == \A s \in ServerId : ~ Known(s) => servers[s].name = None

LEMMA NamelessCorrect == Spec => []Nameless
<1>1. Init => Nameless
  BY DEF Init, Nameless
<1>2. PlacementInv /\ Nameless /\ [Next]_vars => Nameless'
  <2> SUFFICES ASSUME PlacementInv, Nameless, [Next]_vars, NEW s \in ServerId, ~ Known(s)'
               PROVE  servers'[s].name = None
    BY DEF Nameless
  <2>1. TypeOK /\ servers[s].name = None
    BY ServersGrow DEF PlacementInv, Nameless, Grow
  <2>2. CASE UNCHANGED servers
    BY <2>1, <2>2
  <2>3. ASSUME NEW z \in ServerId, NEW st \in {"DELETED", "GONE"}, Up(z),
               servers' = [servers EXCEPT ![z].status = st]
        PROVE  servers'[s].name = None
    BY <2>1, <2>3, StatusChange DEF Known
  <2>4. ASSUME NEW w \in Worker, DriverStep(w) PROVE servers'[s].name = None
    <3>1. ASSUME NEW z \in Fresh, Creates(w, z) PROVE servers'[s].name = None
      BY <2>1, <2>4, <3>1, DriverShape, WorkerFacts, ProvisionedFacts
         DEF Creates, Id, Known, Up, Fresh
    <3>2. ASSUME NEW z \in ServerId, Deletes(w, z) PROVE servers'[s].name = None
      BY <2>3, <3>2 DEF Deletes, Destroyed, Exists
    <3> QED BY <2>2, <2>4, <3>1, <3>2, DriverOnServers
  <2>5. ASSUME NEW w \in Worker, EndCall(w) PROVE UNCHANGED servers
    BY <2>5 DEF EndCall
  <2>6. ASSUME NEW m \in Machine, ClusterStep(m) PROVE UNCHANGED servers
    BY <2>6 DEF ClusterStep, StartStatus, StartCreate, RecordProviderID, StartDelete,
                ForgetMachine, StartList, StartOrphanDelete, UserDeletes, UserEdits,
                UserSpoils, Issue
  <2> QED BY <2>2, <2>3, <2>4, <2>5, <2>6 DEF Next, Vanish, vars
<1> QED BY <1>1, <1>2, PlacementCorrect, PTL DEF Spec

(* What the contract of m does not see. *)
LEMMA Invisible ==
  ASSUME NEW m \in Machine, obj'[m] = obj[m], pid'[m] = pid[m], UNCHANGED ident,
         \A s \in ServerId :
            /\ servers'[s].name = ident[m].name <=> servers[s].name = ident[m].name
            /\ Namesake(m, s)' <=> Namesake(m, s)
  PROVE  UNCHANGED Contract(m)!contractVars
<1>1. /\ [n \in {m} |-> obj[n]]' = [n \in {m} |-> obj[n]]
      /\ [n \in {m} |-> IF Usable(pid[n]) THEN Named(pid[n]) ELSE None]'
            = [n \in {m} |-> IF Usable(pid[n]) THEN Named(pid[n]) ELSE None]
  BY DEF Usable
<1>2. /\ [s \in ServerId |-> IF servers[s].name = ident[m].name THEN m ELSE None]'
            = [s \in ServerId |-> IF servers[s].name = ident[m].name THEN m ELSE None]
      /\ {s \in ServerId : Namesake(m, s)}' = {s \in ServerId : Namesake(m, s)}
  OBVIOUS
<1> QED BY <1>1, <1>2 DEF Contract!contractVars

(* A server ceases to exist. *)
LEMMA EndRefines ==
  ASSUME TypeOK, NEW m \in Machine, NEW z \in ServerId, Up(z),
         NEW st \in {"DELETED", "GONE"}, servers' = [servers EXCEPT ![z].status = st],
         UNCHANGED <<ident, obj, pid>>
  PROVE  UNCHANGED Contract(m)!contractVars \/ Contract(m)!Next
<1>1. \A s \in ServerId : /\ servers'[s].name = servers[s].name
                          /\ Up(s)' <=> Up(s) /\ s # z
  <2>1. Grow /\ \A s \in ServerId : /\ Up(s)' <=> Up(s) /\ s # z
                                    /\ s # z => servers'[s] = servers[s]
    BY StatusChange
  <2>2. Known(z)
    BY DEF Known, Up
  <2> QED BY <2>1, <2>2 DEF Grow
<1>2. \A s \in ServerId : Namesake(m, s)' <=> Namesake(m, s) /\ s # z
  BY <1>1 DEF Namesake
<1>3. CASE Namesake(m, z)
  <2>1. {s \in ServerId : Namesake(m, s)}' = {s \in ServerId : Namesake(m, s)} \ {z}
    BY <1>2
  <2>2. Contract(m)!Vanish(z)
    BY <1>1, <1>3, <2>1 DEF Contract!Vanish
  <2> QED BY <2>2 DEF Contract!Next
<1>4. CASE ~ Namesake(m, z)
  BY <1>1, <1>2, <1>4, Invisible
<1> QED BY <1>3, <1>4

(* A server is created: for m, or with another name. *)
LEMMA CreationRefines ==
  ASSUME PlacementInv, Nameless, NEW m \in Machine, OneName(m), FixedOK(m),
         NEW w \in Worker, DriverStep(w), NEW z \in Fresh, Creates(w, z)
  PROVE  UNCHANGED Contract(m)!contractVars \/ Contract(m)!Next
<1>1. /\ TypeOK /\ w[1] \in Machine /\ call[w].at \in Place /\ call[w].op = "create"
      /\ UNCHANGED <<ident, obj, pid>> /\ z \in ServerId /\ w = Reconcile(w[1])
  BY DriverShape, WorkerFacts DEF PlacementInv, SafetyOK, Creates, Fresh
<1>2. /\ \A s \in ServerId \ {z} : servers'[s] = servers[s]
      /\ Up(z)' /\ servers'[z].name = ident[w[1]].name
      /\ servers[z].name # ident[m].name /\ ~ Up(z)
  <2>1. ident[m].name # None
    BY <1>1, PlacementAssumption DEF TypeOK, Identity
  <2> QED BY <1>1, <2>1, ProvisionedFacts DEF Creates, Id, Nameless, Known, Up
<1>3. CASE w[1] = m
  <2>1. ListByName(cfg[m], ident[m].name) = {} /\ obj[m] # "absent"
    BY <1>1, <1>3 DEF Creates, Id, FixedOK, PlacementInv, ReconcileOK
  <2>2. {s \in ServerId : Namesake(m, s)} = {}
    BY <2>1 DEF FixedOK, Namesake, ListByName, Exists
  <2>3. {s \in ServerId : Namesake(m, s)}' = {z}
    BY <1>1, <1>2, <1>3, <2>2 DEF Namesake, Up
  <2>4. [s \in ServerId |-> IF servers[s].name = ident[m].name THEN m ELSE None]'
          = [[s \in ServerId |-> IF servers[s].name = ident[m].name THEN m ELSE None]
               EXCEPT ![z] = m]
    BY <1>1, <1>2, <1>3
  <2>5. Contract(m)!Only(m, {})
    BY <2>2 DEF Contract!Only
  <2>6. Contract(m)!Gains(m, z)
    BY <1>1, <1>2, <2>2, <2>3, <2>4 DEF Contract!Gains
  <2>7. Contract(m)!Provision(m, z)
    BY <2>1, <2>5, <2>6 DEF Contract!Provision
  <2> QED BY <1>1, <2>7 DEF Contract!Next
<1>4. CASE w[1] # m
  <2>1. ident[w[1]].name # ident[m].name
    BY <1>1, <1>4 DEF OneName
  <2>2. \A s \in ServerId :
            /\ servers'[s].name = ident[m].name <=> servers[s].name = ident[m].name
            /\ Namesake(m, s)' <=> Namesake(m, s)
    BY <1>1, <1>2, <2>1 DEF Namesake, Up
  <2> QED BY <1>1, <2>2, Invisible
<1> QED BY <1>3, <1>4

LEMMA DriverRefines ==
  ASSUME PlacementInv, Nameless, NEW m \in Machine, OneName(m), FixedOK(m),
         NEW w \in Worker, DriverStep(w)
  PROVE  UNCHANGED Contract(m)!contractVars \/ Contract(m)!Next
<1>1. TypeOK /\ UNCHANGED <<ident, obj, pid>>
  BY DriverShape DEF PlacementInv
<1>2. CASE UNCHANGED servers
  BY <1>1, <1>2, Invisible DEF Namesake, Up
<1>3. ASSUME NEW z \in ServerId, Deletes(w, z)
      PROVE  UNCHANGED Contract(m)!contractVars \/ Contract(m)!Next
  BY <1>1, <1>3, EndRefines DEF Deletes, Destroyed, Exists
<1> QED BY <1>2, <1>3, CreationRefines, DriverOnServers

(* A step of a controller or a user: the object of m and its ProviderID. *)
LEMMA ClusterRefines ==
  ASSUME PlacementInv, Spoilt = {}, NEW m \in Machine, FixedOK(m),
         NEW n \in Machine, ClusterStep(n)
  PROVE  UNCHANGED Contract(m)!contractVars \/ Contract(m)!Next
<1> DEFINE w == Reconcile(m)
<1>1. /\ TypeOK /\ ReconcileOK(m) /\ obj[m] \in {"present", "deleting", "absent"}
      /\ UNCHANGED <<servers, ident>>
  BY DEF PlacementInv, TypeOK, ClusterStep, StartStatus, StartCreate, RecordProviderID,
         StartDelete, ForgetMachine, StartList, StartOrphanDelete, UserDeletes, UserEdits,
         UserSpoils, Issue
<1>2. /\ [s \in ServerId |-> IF servers[s].name = ident[m].name THEN m ELSE None]'
            = [s \in ServerId |-> IF servers[s].name = ident[m].name THEN m ELSE None]
      /\ {s \in ServerId : Namesake(m, s)}' = {s \in ServerId : Namesake(m, s)}
  BY <1>1 DEF Namesake, Up
<1>3. CASE obj'[m] = obj[m] /\ pid'[m] = pid[m]
  BY <1>1, <1>3, Invisible DEF Namesake, Up
<1>4. CASE n # m
  <2>1. obj'[m] = obj[m] /\ pid'[m] = pid[m]
    BY <1>1, <1>4 DEF ClusterStep, StartStatus, StartCreate, RecordProviderID, StartDelete,
       ForgetMachine, StartList, StartOrphanDelete, UserDeletes, UserEdits, UserSpoils, Issue,
       TypeOK
  <2> QED BY <1>3, <2>1
<1>5. CASE UserDeletes(m)
  <2>1. Contract(m)!RequestDeletion(m)
    BY <1>1, <1>2, <1>5 DEF UserDeletes, TypeOK, Usable, Contract!RequestDeletion
  <2> QED BY <2>1 DEF Contract!Next
<1>6. CASE ForgetMachine(m)
  <2>1. {s \in ServerId : Namesake(m, s)} = {}
    BY <1>6 DEF ForgetMachine, FixedOK, NoneUp
  <2>2. obj[m] = "deleting"
    BY <1>1, <1>6 DEF ForgetMachine, Done, ReconcileOK
  <2>3. Contract(m)!Only(m, {})
    BY <2>1 DEF Contract!Only
  <2>4. Contract(m)!Forget(m)
    BY <1>1, <1>2, <1>6, <2>1, <2>2, <2>3
       DEF ForgetMachine, TypeOK, Usable, Contract!Forget
  <2> QED BY <2>4 DEF Contract!Next
<1>7. CASE RecordProviderID(m)
  <2>1. PICK p : p = call[w].made /\ Mine(m, p) /\ NamesOnly(m, p)
    BY <1>1 DEF ReconcileOK, FixedOK
  <2>2. /\ obj[m] # "absent" /\ ~ Usable(pid[m])
        /\ pid' = [pid EXCEPT ![m] = p] /\ pid'[m] = p /\ UNCHANGED obj
    BY <1>1, <1>7, <2>1 DEF RecordProviderID, Done, ReconcileOK, FixedOK, TypeOK
  <2>3. CASE Usable(p)
    <3>1. PICK s \in ServerId : s = Named(p) /\ servers[s].name = ident[m].name
      BY <2>1, <2>3 DEF Mine, Names
    <3>2. Contract(m)!Only(m, {s})
      BY <2>1, <2>3, <3>1 DEF NamesOnly, Contract!Only
    <3>3. [x \in {m} |-> IF Usable(pid[x]) THEN Named(pid[x]) ELSE None]'
            = [[x \in {m} |-> IF Usable(pid[x]) THEN Named(pid[x]) ELSE None] EXCEPT ![m] = s]
      BY <2>2, <2>3, <3>1 DEF Usable
    <3>4. Contract(m)!Bind(m, s)
      BY <1>2, <2>2, <3>1, <3>2, <3>3 DEF Contract!Bind
    <3> QED BY <3>4 DEF Contract!Next
  <2>4. CASE ~ Usable(p)
    <3>1. [x \in {m} |-> IF Usable(pid[x]) THEN Named(pid[x]) ELSE None]'
            = [x \in {m} |-> IF Usable(pid[x]) THEN Named(pid[x]) ELSE None]
      BY <2>2, <2>4 DEF Usable
    <3> QED BY <1>2, <2>2, <3>1 DEF Contract!contractVars
  <2> QED BY <2>3, <2>4
<1>8. CASE \/ StartStatus(m) \/ StartCreate(m) \/ StartDelete(m) \/ StartList(m)
           \/ StartOrphanDelete(m) \/ UserEdits(m)
  BY <1>3, <1>8 DEF StartStatus, StartCreate, StartDelete, StartList, StartOrphanDelete,
     UserEdits, Issue
<1>9. ~ UserSpoils(m)
  BY DEF UserSpoils
<1> QED BY <1>4, <1>5, <1>6, <1>7, <1>8, <1>9 DEF ClusterStep

LEMMA ContractInit ==
  ASSUME Init, NEW m \in Machine
  PROVE  Contract(m)!Init
<1>1. \A s \in ServerId : servers[s].name # ident[m].name /\ ~ Up(s)
  BY PlacementAssumption DEF Init, Identity, Up
<1>2. obj[m] = "present" /\ ~ Usable(pid[m])
  BY DEF Init, Usable
<1> QED BY <1>1, <1>2 DEF Contract!Init, Namesake

(* A Machine whose name no other cluster uses has what the contract        *)
(* promises: one ProviderID for life, that names a server of its own, at   *)
(* most one server at a time, none once its object is gone.                *)
THEOREM PlacementImplementsContract ==
  ASSUME Editable = {}, Spoilt = {}
  PROVE  Spec => ImplementsContract
<1> DEFINE Start == \A m \in Machine : OneName(m) => Contract(m)!Init
           Step == \A m \in Machine : OneName(m) =>
                      UNCHANGED Contract(m)!contractVars \/ Contract(m)!Next
<1>1. Init => Start
  BY ContractInit
<1>2. PlacementInv /\ Nameless /\ FixedInv /\ [Next]_vars => [Step]_vars
  <2> SUFFICES ASSUME PlacementInv, Nameless, FixedInv, Next, NEW m \in Machine, OneName(m)
               PROVE  UNCHANGED Contract(m)!contractVars \/ Contract(m)!Next
    OBVIOUS
  <2>1. FixedOK(m) /\ TypeOK
    BY DEF FixedInv, PlacementInv
  <2>2. CASE \E s \in ServerId : Vanish(s)
    BY <2>1, <2>2, EndRefines DEF Vanish
  <2>3. ASSUME NEW w \in Worker, EndCall(w)
        PROVE  UNCHANGED Contract(m)!contractVars
    BY <2>3, Invisible DEF EndCall, Namesake, Up
  <2> QED BY <2>1, <2>2, <2>3, DriverRefines, ClusterRefines DEF Next
<1> HIDE DEF Start, Step
<1>3. Spec => [][Step]_vars
  BY <1>2, PlacementCorrect, NamelessCorrect, FixedCorrect, PTL DEF Spec
<1>4. Spec => Start /\ [][Step]_vars
  BY <1>1, <1>3, PTL DEF Spec
<1> QED BY <1>4 DEF Start, Step, ImplementsContract
=============================================================================
