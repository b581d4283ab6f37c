-------------------------- MODULE ServerSpecProofs --------------------------
(***************************************************************************)
(* Theorems about ServerSpec for every ProviderSpec and Secret: with any   *)
(* strings, and lists of any length.                                       *)
(***************************************************************************)
EXTENDS ServerSpec, SequenceTheorems, TLAPS

(* What CreateMachine has made sure of when it reaches a stage. *)
SpecInv ==
    /\ SpecTypeOK
    /\ stage \in {"validated", "built", "sent"} =>
          secret \in Secret /\ ValidationErrors(class.spec, secret) = {}
    /\ stage \in {"built", "sent"} => request = ServerRequest(class.spec, secret)
    /\ stage = "sent" => payload = ServerPayload(request)

(* No field of a valid ProviderSpec has an error of any kind. *)
LEMMA NoErrors ==
  ASSUME NEW spec \in ProviderSpec, NEW data \in Secret, ValidationErrors(spec, data) = {}
  PROVE  /\ ScalarErrors(spec) = {} /\ ListErrors(spec) = {} /\ LabelErrors(spec.labels) = {}
         /\ NetworkingErrors(spec.networking) = {} /\ BootVolumeErrors(spec.bootVolume) = {}
<1>1. data # Nil
  BY NilAssumption
<1>2. SecretErrors(data) \cup ScalarErrors(spec) \cup ListErrors(spec)
         \cup LabelErrors(spec.labels) \cup NetworkingErrors(spec.networking)
         \cup BootVolumeErrors(spec.bootVolume) = {}
  BY <1>1 DEF ValidationErrors
<1> QED BY <1>2

(* The labels of a request are a map from keys to strings, and the         *)
(* driver's two are in it.                                                 *)
LEMMA LabelFacts ==
  ASSUME NEW spec \in ProviderSpec
  PROVE  /\ DOMAIN UserLabels(spec) \in SUBSET Key
         /\ \A k \in DOMAIN UserLabels(spec) : UserLabels(spec)[k] \in String
         /\ DOMAIN MergedLabels(spec) = DOMAIN UserLabels(spec) \cup {MachineLabel, ClassLabel}
         /\ MergedLabels(spec)[MachineLabel] = MachineName
         /\ MergedLabels(spec)[ClassLabel] = ClassName
         /\ \A k \in DOMAIN UserLabels(spec) \ {MachineLabel, ClassLabel} :
               MergedLabels(spec)[k] = UserLabels(spec)[k]
<1>1. spec.labels \in LabelMap \cup {Nil}
  BY DEF ProviderSpec
<1>2. /\ DOMAIN UserLabels(spec) \in SUBSET Key
      /\ \A k \in DOMAIN UserLabels(spec) : UserLabels(spec)[k] \in String
  <2>1. CASE spec.labels = Nil
    BY <2>1 DEF UserLabels
  <2>2. CASE spec.labels # Nil
    <3>1. PICK K \in SUBSET Key : spec.labels \in [K -> String]
      BY <1>1, <2>2 DEF LabelMap
    <3> QED BY <2>2, <3>1 DEF UserLabels
  <2> QED BY <2>1, <2>2
<1>3. /\ DOMAIN DriverLabels = {MachineLabel, ClassLabel}
      /\ DriverLabels[MachineLabel] = MachineName
      /\ DriverLabels[ClassLabel] = ClassName
  BY SpecAssumption DEF DriverLabels
<1>4. MergedLabels(spec) =
         [k \in DOMAIN UserLabels(spec) \cup {MachineLabel, ClassLabel} |->
            IF k \in {MachineLabel, ClassLabel} THEN DriverLabels[k] ELSE UserLabels(spec)[k]]
  BY <1>3 DEF MergedLabels
<1> HIDE DEF UserLabels, MergedLabels, DriverLabels
<1> QED BY <1>2, <1>3, <1>4

LEMMA RequestTyped ==
  ASSUME NEW spec \in ProviderSpec, NEW data \in Secret
  PROVE  ServerRequest(spec, data) \in CreateServerRequest
<1>1. MergedLabels(spec) \in UNION {[K -> String \cup {MachineName, ClassName}] : K \in SUBSET Key}
  <2> DEFINE K == DOMAIN UserLabels(spec) \cup {MachineLabel, ClassLabel}
  <2>1. K \in SUBSET Key
    BY LabelFacts DEF Key
  <2>2. \A k \in K : MergedLabels(spec)[k] \in String \cup {MachineName, ClassName}
    BY LabelFacts
  <2>3. MergedLabels(spec) = [k \in K |-> MergedLabels(spec)[k]]
    BY LabelFacts DEF MergedLabels
  <2>4. MergedLabels(spec) \in [K -> String \cup {MachineName, ClassName}]
    BY <2>2, <2>3
  <2> QED BY <2>1, <2>4
<1>2. UserData(spec, data) \in {Blank} \cup [base64 : String]
  <2>1. spec.userData \in String
    BY DEF ProviderSpec
  <2>2. PICK S \in SUBSET SecretKey : data \in [S -> String]
    BY DEF Secret
  <2>3. "userData" \in DOMAIN data => data["userData"] \in String
    BY <2>2
  <2>4. Blank \in String
    BY DEF String
  <2>5. \A x \in String : Base64(x) \in {Blank} \cup [base64 : String]
    BY DEF Base64
  <2> QED BY <2>1, <2>3, <2>4, <2>5 DEF UserData
<1>3. BootVolumeRequest(spec) \in BootVolume \cup {Nil}
  <2>1. spec.bootVolume \in BootVolume \cup {Nil}
    BY DEF ProviderSpec
  <2>2. CASE spec.bootVolume = Nil
    BY <2>2 DEF BootVolumeRequest
  <2>3. CASE spec.bootVolume # Nil
    <3>1. PICK b \in BOOLEAN :
             BootVolumeRequest(spec) = [spec.bootVolume EXCEPT !.deleteOnTermination = b]
      BY <2>1, <2>3 DEF BootVolumeRequest, BootVolume
    <3> QED BY <2>1, <2>3, <3>1 DEF BootVolume
  <2> QED BY <2>2, <2>3
<1>4. (IF spec.metadata = "data" THEN "data" ELSE Nil) \in {Nil, "data"}
  OBVIOUS
<1> QED BY <1>1, <1>2, <1>3, <1>4 DEF ServerRequest, CreateServerRequest, ProviderSpec

----------------------------------------------------------------------------
LEMMA InitInv == Init => SpecInv
  BY DEF Init, Called, SpecInv, SpecTypeOK

LEMMA StepInv == SpecInv /\ [Next]_vars => SpecInv'
<1> SUFFICES ASSUME SpecInv, [Next]_vars PROVE SpecInv'
  OBVIOUS
<1> USE DEF SpecInv
<1>1. CASE Decode
  BY <1>1 DEF Decode, Return, SpecTypeOK
<1>2. CASE Validate
  <2>1. CASE ValidationErrors(class.spec, secret) = {}
    <3>1. secret # Nil
      BY <2>1 DEF ValidationErrors
    <3> QED BY <1>2, <2>1, <3>1 DEF Validate, SpecTypeOK
  <2>2. CASE ValidationErrors(class.spec, secret) # {}
    BY <1>2, <2>2 DEF Validate, Return, SpecTypeOK
  <2> QED BY <2>1, <2>2
<1>3. CASE BuildRequest
  <2>1. class.spec \in ProviderSpec /\ secret \in Secret
    BY <1>3 DEF BuildRequest, SpecTypeOK, MachineClass
  <2>2. request' \in CreateServerRequest /\ request' = ServerRequest(class.spec, secret)
    BY <1>3, <2>1, RequestTyped DEF BuildRequest
  <2>3. request' # Nil
    BY <2>2, NilAssumption
  <2> QED BY <1>3, <2>2, <2>3 DEF BuildRequest, SpecTypeOK
<1>4. CASE SendPayload
  BY <1>4 DEF SendPayload, SpecTypeOK
<1>5. CASE CallAgain
  BY <1>5 DEF CallAgain, SpecTypeOK
<1>6. CASE UNCHANGED vars
  BY <1>6 DEF vars, SpecTypeOK
<1> QED BY <1>1, <1>2, <1>3, <1>4, <1>5, <1>6 DEF Next

(* What each stage has made sure of stays true (create.go:44-79). *)
THEOREM StagesCorrect == Spec => []SpecInv
  BY InitInv, StepInv, PTL DEF Spec

(* Type correctness: the ProviderSpec is decoded before it is used, and    *)
(* the request is complete.                                                *)
THEOREM TypeCorrect == Spec => []SpecTypeOK
<1>1. SpecInv => SpecTypeOK
  BY DEF SpecInv
<1> QED BY StagesCorrect, <1>1, PTL

----------------------------------------------------------------------------
(* What was sent is the image of a valid ProviderSpec. *)
LEMMA Sent ==
  ASSUME SpecInv, stage = "sent"
  PROVE  /\ class.spec \in ProviderSpec /\ secret \in Secret
         /\ ValidationErrors(class.spec, secret) = {}
         /\ payload = ServerPayload(ServerRequest(class.spec, secret))
  BY DEF SpecInv, SpecTypeOK, MachineClass

LEMMA SentFields ==
  ASSUME SpecInv, stage = "sent"
  PROVE  /\ payload.name = MachineName /\ payload.machineType = class.spec.machineType
         /\ payload.labels = MergedLabels(class.spec)
         /\ payload.networking = NetworkingPayload(class.spec.networking)
         /\ payload.userData = SetIfAny(UserData(class.spec, secret))
         /\ payload.bootVolume = BootVolumePayload(BootVolumeRequest(class.spec))
         /\ payload.agent = class.spec.agent
         /\ payload.metadata = IF class.spec.metadata = "data" THEN "data" ELSE Nil
         /\ \A f \in {"imageID", "keypairName", "affinityGroup", "availabilityZone",
                      "securityGroups", "volumes", "serviceAccountMails"} :
               payload[f] = SetIfAny(class.spec[f])
<1>1. payload = ServerPayload(ServerRequest(class.spec, secret))
  BY Sent
<1> QED BY <1>1 DEF ServerPayload, ServerRequest

(* Exactly one of network and NICs is configured, in good form. *)
LEMMA NetworkingFacts ==
  ASSUME SpecInv, stage = "sent"
  PROVE  LET asked == class.spec.networking
         IN  /\ asked \in Networking
             /\ asked.networkID = Blank <=> asked.nicIDs # <<>>
             /\ asked.networkID \in Good \cup {Blank}
             /\ Entries(asked.nicIDs) \subseteq Good
<1>1. NetworkingErrors(class.spec.networking) = {}
  BY Sent, NoErrors
<1>2. class.spec.networking \in Networking
  BY <1>1, Sent DEF NetworkingErrors, ProviderSpec
<1>3. class.spec.networking.networkID \in String
  BY <1>2 DEF Networking
<1> QED BY <1>1, <1>2, <1>3 DEF NetworkingErrors, String

LEMMA NetworkingHolds == SpecInv => NetworkingAsAsked
<1> SUFFICES ASSUME SpecInv, stage = "sent" PROVE NetworkingAsAsked
  BY DEF NetworkingAsAsked
<1> DEFINE asked == class.spec.networking
<1>1. /\ asked \in Networking
      /\ asked.networkID = Blank <=> asked.nicIDs # <<>>
      /\ payload.networking = NetworkingPayload(asked)
  BY NetworkingFacts, SentFields
<1>2. asked # Nil /\ asked.networkID \in String /\ asked.nicIDs \in Seq(String)
  BY <1>1, NilAssumption DEF Networking
<1>3. asked.networkID # <<>> /\ asked.nicIDs # Blank
  <2>1. <<>> \in Seq(String) /\ Blank \in String
    BY DEF String
  <2> HIDE DEF asked
  <2> QED BY <1>2, <2>1, NilAssumption
<1> HIDE DEF asked
<1>4. payload.networking =
         [networkID |-> SetIfAny(asked.networkID),
          nicIDs |-> IF asked.networkID # Blank THEN Nil ELSE SetIfAny(asked.nicIDs)]
  BY <1>1, <1>2 DEF NetworkingPayload
<1>5. CASE asked.networkID # Blank
  <2>1. SetIfAny(asked.networkID) = asked.networkID
    BY <1>3, <1>5 DEF SetIfAny
  <2> QED BY <1>1, <1>4, <1>5, <2>1 DEF NetworkingAsAsked, asked
<1>6. CASE asked.networkID = Blank
  <2>1. SetIfAny(asked.networkID) = Nil /\ SetIfAny(asked.nicIDs) = asked.nicIDs
    BY <1>1, <1>3, <1>6 DEF SetIfAny
  <2> QED BY <1>1, <1>4, <1>6, <2>1 DEF NetworkingAsAsked, asked
<1> QED BY <1>5, <1>6

(* sdk.go:112-132 with validation.go:214-250: the networking asked for is  *)
(* the networking sent, whichever kind it is.                              *)
THEOREM NetworkingCorrect == Spec => []NetworkingAsAsked
  BY StagesCorrect, NetworkingHolds, PTL

LEMMA BootVolumeHolds == SpecInv => BootVolumeFollowsServer
<1> SUFFICES ASSUME SpecInv, stage = "sent", class.spec.bootVolume # Nil
             PROVE  BootVolumeFollowsServer
  BY DEF BootVolumeFollowsServer
<1> DEFINE v == class.spec.bootVolume
<1>1. v \in BootVolume
  BY Sent DEF ProviderSpec
<1>2. v.deleteOnTermination \in BOOLEAN \cup {Nil}
  BY <1>1 DEF BootVolume
<1>3. PICK b \in {v.deleteOnTermination, TRUE} :
         /\ BootVolumeRequest(class.spec) = [v EXCEPT !.deleteOnTermination = b]
         /\ b = IF v.deleteOnTermination = Nil THEN TRUE ELSE v.deleteOnTermination
  BY DEF BootVolumeRequest
<1>4. b \in BOOLEAN
  BY <1>2, <1>3
<1>5. /\ BootVolumeRequest(class.spec) \in BootVolume
      /\ BootVolumeRequest(class.spec).deleteOnTermination = b
  BY <1>1, <1>3, <1>4 DEF BootVolume
<1>6. BootVolumeRequest(class.spec) # Nil
  BY <1>5, NilAssumption
<1>7. payload.bootVolume.deleteOnTermination = b
  BY <1>5, <1>6, SentFields DEF BootVolumePayload
<1>8. b = (v.deleteOnTermination # FALSE)
  <2>1. CASE v.deleteOnTermination = FALSE
    BY <1>2, <1>3, <2>1, NilAssumption
  <2>2. CASE v.deleteOnTermination # FALSE
    BY <1>2, <1>3, <2>2
  <2> QED BY <2>1, <2>2
<1> QED BY <1>7, <1>8 DEF BootVolumeFollowsServer

(* create.go:164-181 and sdk.go:145-161: a boot volume in the ProviderSpec *)
(* goes with its server unless that is disabled.                           *)
THEOREM BootVolumeCorrect == Spec => []BootVolumeFollowsServer
  BY StagesCorrect, BootVolumeHolds, PTL

LEMMA FoundAgainHolds == SpecInv => ServerFoundAgain
<1> SUFFICES ASSUME SpecInv, stage = "sent" PROVE ServerFoundAgain
  BY DEF ServerFoundAgain
<1> DEFINE user == UserLabels(class.spec)
           sent == MergedLabels(class.spec)
           read == LabelsRead(Served(payload.labels))
           keys == DOMAIN user \cup {MachineLabel, ClassLabel}
<1>1. /\ DOMAIN user \subseteq Key /\ DOMAIN sent = keys
      /\ \A k \in DOMAIN user : user[k] \in String
      /\ sent[MachineLabel] = MachineName /\ sent[ClassLabel] = ClassName
      /\ \A k \in DOMAIN user \ {MachineLabel, ClassLabel} : sent[k] = user[k]
  BY Sent, LabelFacts
<1>2. /\ DOMAIN DriverLabels = {MachineLabel, ClassLabel}
      /\ DriverLabels[MachineLabel] = MachineName
      /\ DriverLabels[ClassLabel] = ClassName
  BY SpecAssumption DEF DriverLabels
<1>3. payload.labels = sent
  BY SentFields
<1> HIDE DEF user, sent
<1>4. ServiceKey \notin keys
  BY <1>1, SpecAssumption DEF Key
<1>5. /\ DOMAIN Served(sent) = keys \cup {ServiceKey}
      /\ \A k \in keys : Served(sent)[k] = sent[k]
  BY <1>1, <1>4 DEF Served
<1>6. \A k \in keys : sent[k] \in String \cup {MachineName, ClassName}
  BY <1>1
<1>7. \A k \in keys : k \in DOMAIN read /\ read[k] = sent[k]
  BY <1>3, <1>5, <1>6 DEF LabelsRead
<1> QED BY <1>1, <1>2, <1>7 DEF ServerFoundAgain, user

(* create.go:117-126 with helper.go: whatever labels the ProviderSpec has, *)
(* the server is found by machine and by class, and its machine's name is  *)
(* read back.                                                              *)
THEOREM LabelsCorrect == Spec => []ServerFoundAgain
  BY StagesCorrect, FoundAgainHolds, PTL

(* What validation leaves of the scalar fields and lists. *)
LEMMA ScalarFacts ==
  ASSUME SpecInv, stage = "sent"
  PROVE  LET spec == class.spec
         IN  /\ spec.machineType \in Good
             /\ \A f \in {"imageID", "keypairName", "affinityGroup"} : spec[f] \in Good \cup {Blank}
             /\ spec.availabilityZone \in Good \cup {Blank, Metro}
             /\ spec.imageID = Blank => HasBootVolumeSource(spec)
             /\ \A f \in {"volumes", "serviceAccountMails"} : Entries(spec[f]) \subseteq Good
             /\ ~ (Len(spec.serviceAccountMails) > 1)
             /\ Blank \notin Entries(spec.securityGroups)
<1>1. ScalarErrors(class.spec) = {} /\ ListErrors(class.spec) = {}
  BY Sent, NoErrors
<1> QED BY <1>1 DEF ScalarErrors, ListErrors

(* The boot volume arrives as it was asked for; a size of zero is no size. *)
LEMMA BootVolumeFacts ==
  ASSUME SpecInv, stage = "sent"
  PROVE  LET v == class.spec.bootVolume
         IN  /\ v = Nil <=> payload.bootVolume = Nil
             /\ v # Nil =>
                   /\ v \in BootVolume /\ v.size >= 0
                   /\ payload.bootVolume.source = v.source
                   /\ payload.bootVolume.performanceClass =
                         IF v.performanceClass = Blank THEN Nil ELSE v.performanceClass
                   /\ payload.bootVolume.size = IF v.size > 0 THEN v.size ELSE Nil
<1> DEFINE v == class.spec.bootVolume
<1>1. v \in BootVolume \cup {Nil} /\ BootVolumeErrors(v) = {}
  BY Sent, NoErrors DEF ProviderSpec
<1>2. payload.bootVolume = BootVolumePayload(BootVolumeRequest(class.spec))
  BY SentFields
<1>3. CASE v = Nil
  BY <1>2, <1>3 DEF BootVolumeRequest, BootVolumePayload
<1>4. CASE v # Nil
  <2>1. PICK b \in BOOLEAN : BootVolumeRequest(class.spec) = [v EXCEPT !.deleteOnTermination = b]
    BY <1>1, <1>4 DEF BootVolumeRequest, BootVolume
  <2> DEFINE r == BootVolumeRequest(class.spec)
  <2>2. /\ r \in BootVolume /\ r.source = v.source
        /\ r.performanceClass = v.performanceClass /\ r.size = v.size
    BY <1>1, <1>4, <2>1 DEF BootVolume
  <2>3. r # Nil
    BY <2>2, NilAssumption
  <2>4. v.size \in Int /\ v.size >= 0 /\ v.performanceClass \in String
    BY <1>1, <1>4 DEF BootVolume, BootVolumeErrors
  <2>5. v.performanceClass # <<>>
    <3>1. <<>> \in Seq(String)
      OBVIOUS
    <3> QED BY <2>4, <3>1, NilAssumption
  <2> HIDE DEF r
  <2>6. /\ BootVolumePayload(r).source = v.source
        /\ BootVolumePayload(r).performanceClass = SetIfAny(v.performanceClass)
        /\ BootVolumePayload(r).size = IF v.size > 0 THEN v.size ELSE Nil
        /\ BootVolumePayload(r) \in [size : Int \cup {Nil}, performanceClass : String \cup {Nil},
                   deleteOnTermination : BOOLEAN \cup {Nil}, source : BootVolumeSource \cup {Nil}]
    BY <2>2, <2>3 DEF BootVolumePayload, BootVolume, SetIfAny
  <2>7. BootVolumePayload(r) # Nil
    BY <2>6, NilAssumption
  <2>8. payload.bootVolume = BootVolumePayload(r)
    BY <1>2 DEF r
  <2> HIDE DEF v
  <2>9. SetIfAny(v.performanceClass) =
           IF v.performanceClass = Blank THEN Nil ELSE v.performanceClass
    BY <2>5 DEF SetIfAny
  <2> QED BY <1>1, <1>4, <2>4, <2>6, <2>7, <2>8, <2>9 DEF v
<1> QED BY <1>3, <1>4

LEMMA SourceFacts ==
  ASSUME SpecInv, stage = "sent"
  PROVE  /\ HasBootVolumeSource(class.spec) <=>
               payload.bootVolume # Nil /\ payload.bootVolume.source # Nil
         /\ HasBootVolumeSource(class.spec) =>
               payload.bootVolume.source \in [type : SourceType, id : Good]
<1> DEFINE v == class.spec.bootVolume
<1>1. BootVolumeErrors(v) = {}
  BY Sent, NoErrors
<1>2. ASSUME HasBootVolumeSource(class.spec)
      PROVE  v.source \in [type : SourceType, id : Good]
  <2>1. v # Nil /\ v.source # Nil
    BY <1>2 DEF HasBootVolumeSource
  <2>2. v.source \in BootVolumeSource
    BY <2>1, BootVolumeFacts DEF BootVolume
  <2>3. v.source.type \in SourceType /\ v.source.id \in Good
    BY <1>1, <2>1 DEF BootVolumeErrors
  <2> QED BY <2>2, <2>3 DEF BootVolumeSource
<1> QED BY <1>2, BootVolumeFacts DEF HasBootVolumeSource

LEMMA WellFormedHolds == SpecInv => PayloadIsWellFormed
<1> SUFFICES ASSUME SpecInv, stage = "sent" PROVE PayloadIsWellFormed
  BY DEF PayloadIsWellFormed
<1>1. payload.machineType \in Good
  BY ScalarFacts, SentFields
<1>2. \A f \in {"imageID", "keypairName", "affinityGroup"} : payload[f] \in Good \cup {Nil}
  BY ScalarFacts, SentFields DEF SetIfAny
<1>3. \/ payload.imageID \in Good
      \/ payload.bootVolume # Nil /\ payload.bootVolume.source # Nil
  <2>1. class.spec.imageID = Blank => HasBootVolumeSource(class.spec)
    BY ScalarFacts
  <2>2. class.spec.imageID # Blank => class.spec.imageID \in Good
    BY ScalarFacts
  <2>3. \A x \in Good : x # Blank /\ x # <<>>
    <3>1. \A x \in Good : x \in String /\ x # Blank
      BY SpecAssumption DEF String
    <3>2. <<>> \in Seq(String)
      OBVIOUS
    <3> QED BY <3>1, <3>2, NilAssumption
  <2>4. payload.imageID = SetIfAny(class.spec.imageID)
    BY SentFields
  <2>5. class.spec.imageID # Blank => payload.imageID \in Good
    BY <2>2, <2>3, <2>4 DEF SetIfAny
  <2> QED BY <2>1, <2>5, SourceFacts
<1>4. payload.bootVolume # Nil =>
         /\ payload.bootVolume.source # Nil =>
               payload.bootVolume.source \in [type : SourceType, id : Good]
         /\ payload.bootVolume.size # Nil => payload.bootVolume.size > 0
  BY SourceFacts, BootVolumeFacts
<1>5. /\ payload.networking # Nil
      /\ payload.networking.networkID \in Good <=> payload.networking.nicIDs = Nil
      /\ payload.networking.nicIDs # Nil => Entries(payload.networking.nicIDs) \subseteq Good
  <2> DEFINE asked == class.spec.networking
  <2>1. /\ asked \in Networking
        /\ asked.networkID = Blank <=> asked.nicIDs # <<>>
        /\ asked.networkID \in Good \cup {Blank}
        /\ Entries(asked.nicIDs) \subseteq Good
    BY NetworkingFacts
  <2>2. /\ asked.networkID # Blank =>
              payload.networking = [networkID |-> asked.networkID, nicIDs |-> Nil]
        /\ asked.nicIDs # <<>> =>
              payload.networking = [networkID |-> Nil, nicIDs |-> asked.nicIDs]
    BY NetworkingHolds DEF NetworkingAsAsked
  <2>3. asked.networkID \in String /\ asked.nicIDs \in Seq(String) /\ asked.nicIDs # Nil
    BY <2>1, NilAssumption DEF Networking
  <2>4. payload.networking \in
           [networkID : String \cup {Nil}, nicIDs : Seq(String) \cup {Nil}]
    BY <2>1, <2>2, <2>3
  <2>5. payload.networking # Nil
    BY <2>4, NilAssumption
  <2>6. Nil \notin Good
    BY SpecAssumption
  <2> QED BY <2>1, <2>2, <2>3, <2>5, <2>6
<1>6. /\ payload.availabilityZone \in Good \cup {Metro, Nil}
      /\ \A f \in {"volumes", "serviceAccountMails"} :
            payload[f] # Nil => Entries(payload[f]) \subseteq Good
      /\ payload.securityGroups # Nil => Blank \notin Entries(payload.securityGroups)
  BY ScalarFacts, SentFields DEF SetIfAny
<1>7. payload.serviceAccountMails # Nil => Len(payload.serviceAccountMails) = 1
  <2> DEFINE mails == class.spec.serviceAccountMails
  <2>1. mails \in Seq(String) /\ ~ (Len(mails) > 1)
    BY Sent, ScalarFacts DEF ProviderSpec
  <2>2. payload.serviceAccountMails = SetIfAny(mails)
    BY SentFields
  <2> HIDE DEF mails
  <2>3. mails # <<>> => Len(mails) = 1
    <3>1. mails # <<>> => Len(mails) \in Nat \ {0}
      BY <2>1, EmptySeq
    <3> QED BY <2>1, <3>1
  <2> QED BY <2>2, <2>3 DEF SetIfAny
<1>8. /\ JunkKey \notin DOMAIN payload.labels
      /\ \A k \in DOMAIN payload.labels \ DOMAIN DriverLabels :
            payload.labels[k] \in Good \cup {Blank}
  <2>1. LabelErrors(class.spec.labels) = {}
    BY Sent, NoErrors
  <2>2. \A k \in DOMAIN UserLabels(class.spec) : UserLabels(class.spec)[k] \in Good \cup {Blank}
    <3>1. \A k \in DOMAIN UserLabels(class.spec) : UserLabels(class.spec)[k] \in String
      BY Sent, LabelFacts
    <3>2. \A k \in DOMAIN UserLabels(class.spec) : UserLabels(class.spec)[k] # Junk
      BY <2>1 DEF LabelErrors, UserLabels
    <3> QED BY <3>1, <3>2 DEF String
  <2>3. /\ DOMAIN DriverLabels = {MachineLabel, ClassLabel}
        /\ JunkKey \notin {MachineLabel, ClassLabel}
        /\ JunkKey \notin DOMAIN UserLabels(class.spec)
    BY <2>1, SpecAssumption DEF DriverLabels, LabelErrors, UserLabels
  <2>4. payload.labels = MergedLabels(class.spec)
    BY SentFields
  <2> DEFINE user == UserLabels(class.spec)
             sent == MergedLabels(class.spec)
  <2>5. /\ DOMAIN sent = DOMAIN user \cup {MachineLabel, ClassLabel}
        /\ \A k \in DOMAIN user \ {MachineLabel, ClassLabel} : sent[k] = user[k]
    BY Sent, LabelFacts
  <2> HIDE DEF user, sent
  <2>6. \A k \in DOMAIN sent \ {MachineLabel, ClassLabel} : sent[k] \in Good \cup {Blank}
    BY <2>2, <2>5 DEF user
  <2> QED BY <2>3, <2>4, <2>5, <2>6 DEF sent, user
<1> HIDE DEF SpecInv
<1> QED BY <1>1, <1>2, <1>3, <1>4, <1>5, <1>6, <1>7, <1>8 DEF PayloadIsWellFormed

(* Validation and the two conversions together: what is sent is complete   *)
(* and well-formed, for ProviderSpecs of any size.                         *)
THEOREM PayloadCorrect == Spec => []PayloadIsWellFormed
  BY StagesCorrect, WellFormedHolds, PTL

LEMMA NothingLostHolds == SpecInv => NothingLost
<1> SUFFICES ASSUME SpecInv, stage = "sent" PROVE NothingLost
  BY DEF NothingLost
<1> DEFINE spec == class.spec
           given == "userData" \in DOMAIN secret /\ secret["userData"] # Blank
           plain == IF spec.userData # Blank THEN spec.userData
                    ELSE IF given THEN secret["userData"] ELSE Blank
<1>1. /\ payload.name = MachineName /\ payload.machineType = spec.machineType
      /\ \A f \in {"imageID", "keypairName", "affinityGroup", "availabilityZone",
                    "securityGroups", "volumes", "serviceAccountMails"} :
            payload[f] = IF spec[f] \in {Blank, <<>>} THEN Nil ELSE spec[f]
      /\ payload.agent = spec.agent
  BY SentFields DEF SetIfAny
<1>2. payload.metadata = IF spec.metadata = "empty" THEN Nil ELSE spec.metadata
  <2>1. spec.metadata \in {Nil, "empty", "data"}
    BY Sent DEF ProviderSpec
  <2> QED BY <2>1, SentFields, NilAssumption
<1>3. PICK S \in SUBSET SecretKey : secret \in [S -> String]
  BY Sent DEF Secret
<1>4. /\ plain \in String
      /\ payload.userData = SetIfAny(Base64(plain))
  <2>1. spec.userData \in String
    BY Sent DEF ProviderSpec
  <2>2. "userData" \in DOMAIN secret => secret["userData"] \in String
    BY <1>3
  <2>3. Blank \in String
    BY DEF String
  <2>4. UserData(spec, secret) = Base64(plain)
    BY DEF UserData
  <2>5. payload.userData = SetIfAny(UserData(spec, secret))
    BY SentFields
  <2> QED BY <2>1, <2>2, <2>3, <2>4, <2>5
<1> HIDE DEF plain
<1>5. payload.userData = IF plain = Blank THEN Nil ELSE [base64 |-> plain]
  <2>1. CASE plain = Blank
    BY <1>4, <2>1 DEF Base64, SetIfAny
  <2>2. CASE plain # Blank
    <3>1. [base64 |-> plain] \in [base64 : String]
      BY <1>4
    <3>2. [base64 |-> plain] \notin {Blank, <<>>}
      BY <3>1, NilAssumption
    <3> QED BY <1>4, <2>2, <3>2 DEF Base64, SetIfAny
  <2> QED BY <2>1, <2>2
<1>6. /\ spec.userData # Blank => payload.userData = [base64 |-> spec.userData]
      /\ spec.userData = Blank /\ given => payload.userData = [base64 |-> secret["userData"]]
      /\ spec.userData = Blank /\ ~ given => payload.userData = Nil
  BY <1>5 DEF plain
<1>7. /\ payload.bootVolume = Nil <=> spec.bootVolume = Nil
      /\ spec.bootVolume # Nil =>
            /\ payload.bootVolume.source = spec.bootVolume.source
            /\ payload.bootVolume.performanceClass =
                  IF spec.bootVolume.performanceClass = Blank THEN Nil
                  ELSE spec.bootVolume.performanceClass
            /\ payload.bootVolume.size =
                  IF spec.bootVolume.size = 0 THEN Nil ELSE spec.bootVolume.size
  <2>1. spec.bootVolume # Nil => spec.bootVolume.size \in Int /\ spec.bootVolume.size >= 0
    BY BootVolumeFacts DEF BootVolume
  <2> QED BY <2>1, BootVolumeFacts
<1> HIDE DEF SpecInv
<1> QED BY <1>1, <1>2, <1>6, <1>7 DEF NothingLost

(* create.go:115-221 and sdk.go:88-198: each field that was asked for      *)
(* reaches the service as it is, and none that was not.                    *)
THEOREM NothingGetsLost == Spec => []NothingLost
  BY StagesCorrect, NothingLostHolds, PTL
=============================================================================
