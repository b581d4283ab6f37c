----------------------------- MODULE ServerSpec -----------------------------
(***************************************************************************)
(* From a MachineClass and its Secret to the payload of CreateServer: what *)
(* CreateMachine does before and around its first call of the service.     *)
(* decodeProviderSpec, ValidateProviderSpecNSecret (apis/validation),      *)
(* createServerRequest (create.go), then CreateServer of pkg/client, which *)
(* turns the request into the payload of the SDK.                          *)
(*                                                                         *)
(* A string is Blank (""), Junk (not what the field's pattern wants, or    *)
(* too long) or a good value; the pattern of availability zones also takes *)
(* Metro ("eu01-m").  A nil pointer, map or unset payload field is Nil.    *)
(***************************************************************************)
EXTENDS Integers, Sequences

CONSTANTS
    Good, Junk, Metro, Blank, Nil,
    MachineLabel, ClassLabel,   \* the keys kubernetes.io/machine, .../machineclass
    UserKey, JunkKey,           \* other label keys, well and badly formed
    MachineName, ClassName,     \* metadata.name of the Machine and MachineClass
    OtherType,                  \* a boot volume source type that does not exist
    ServiceKey, Number          \* a label the service adds, with a value that is no string

ASSUME SpecAssumption ==
    /\ Blank \notin Good /\ Nil \notin Good /\ Junk \notin Good /\ Metro \notin Good
    /\ Blank # Nil /\ Blank # Junk /\ Junk # Nil
    /\ MachineLabel # ClassLabel
    /\ {MachineLabel, ClassLabel} \cap {UserKey, JunkKey, ServiceKey} = {}
    /\ ServiceKey \notin {UserKey, JunkKey}
    /\ Number \notin Good \cup {Junk, Blank, MachineName, ClassName}

VARIABLES
    class,      \* the MachineClass: provider, and ProviderSpec as decoded or broken
    secret,     \* Data of the Secret, or Nil
    stage,      \* what CreateMachine has done
    code,       \* its result, if it has returned
    request,    \* the CreateServerRequest
    payload     \* the CreateServerPayload

vars == <<class, secret, stage, code, request, payload>>

String == Good \cup {Junk, Blank}

Key == {MachineLabel, ClassLabel, UserKey, JunkKey}

LabelMap == UNION {[K -> String] : K \in SUBSET Key}

SourceType == {"image", "snapshot", "volume"}

Networking == [networkID : String, nicIDs : Seq(String)]

BootVolumeSource == [type : SourceType \cup {OtherType, Blank}, id : String]

BootVolume ==
    [deleteOnTermination : BOOLEAN \cup {Nil},
     performanceClass : String,
     size : Int,
     source : BootVolumeSource \cup {Nil}]

ProviderSpec ==
    [region : String,
     machineType : String,
     imageID : String,
     labels : LabelMap \cup {Nil},
     networking : Networking \cup {Nil},
     allowedAddresses : Seq(String),
     securityGroups : Seq(String),
     userData : String,
     bootVolume : BootVolume \cup {Nil},
     volumes : Seq(String),
     keypairName : String,
     availabilityZone : String \cup {Metro},
     affinityGroup : String,
     serviceAccountMails : Seq(String),
     agent : [provisioned : BOOLEAN \cup {Nil}] \cup {Nil},
     metadata : {Nil, "empty", "data"}]

SecretKey == {"project-id", "serviceaccount.json", "userData"}

Secret == UNION {[K -> String] : K \in SUBSET SecretKey}

(* provider: MachineClass.Provider is "stackit"; spec is Nil if the JSON   *)
(* does not decode.                                                        *)
MachineClass == [provider : {"stackit", "other"}, spec : ProviderSpec \cup {Nil}]

----------------------------------------------------------------------------
(* ValidateProviderSpecNSecret: the fields that get an error.              *)

Entries(list) == {list[i] : i \in DOMAIN list}

SecretErrors(data) ==
    {f \in {"project-id", "serviceaccount.json"} : f \notin DOMAIN data \/ data[f] \notin Good}

HasBootVolumeSource_AnyBootVolume(spec) == spec.bootVolume # Nil

HasBootVolumeSource(spec) == spec.bootVolume # Nil /\ spec.bootVolume.source # Nil

ScalarErrors(spec) ==
    {f \in {"region", "machineType"} : spec[f] \notin Good}
        \cup {f \in {"imageID", "keypairName", "affinityGroup"} : spec[f] \notin Good \cup {Blank}}
        \cup {f \in {"availabilityZone"} : spec[f] \notin Good \cup {Blank, Metro}}
        \cup {f \in {"imageID"} : spec[f] = Blank /\ ~ HasBootVolumeSource(spec)}

(* Elements of securityGroups need only not be empty. *)
ListErrors(spec) ==
    {f \in {"volumes", "allowedAddresses", "serviceAccountMails"} :
        ~ (Entries(spec[f]) \subseteq Good)}
        \cup {f \in {"serviceAccountMails"} : Len(spec[f]) > 1}
        \cup {f \in {"securityGroups"} : Blank \in Entries(spec[f])}

LabelErrors(labels) ==
    {f \in {"labels"} : labels # Nil /\
        \E k \in DOMAIN labels : k = JunkKey \/ labels[k] = Junk}

NetworkingErrors_NotExclusive(networking) ==
    {f \in {"networking"} :
        \/ networking = Nil
        \/ networking.networkID = Blank /\ networking.nicIDs = <<>>
        \/ networking.networkID = Junk
        \/ ~ (Entries(networking.nicIDs) \subseteq Good)}

(* validateNetworking: exactly one of the two, and that one well-formed. *)
NetworkingErrors(networking) ==
    {f \in {"networking"} :
        \/ networking = Nil
        \/ networking.networkID = Blank /\ networking.nicIDs = <<>>
        \/ networking.networkID # Blank /\ networking.nicIDs # <<>>
        \/ networking.networkID = Junk
        \/ ~ (Entries(networking.nicIDs) \subseteq Good)}

BootVolumeErrors(volume) ==
    {f \in {"bootVolume"} : volume # Nil /\
        \/ volume.size < 0
        \/ volume.source # Nil /\
              (volume.source.type \notin SourceType \/ volume.source.id \notin Good)}

ValidationErrors(spec, data) ==
    IF data = Nil THEN {"secret"}
    ELSE SecretErrors(data) \cup ScalarErrors(spec) \cup ListErrors(spec)
            \cup LabelErrors(spec.labels) \cup NetworkingErrors(spec.networking)
            \cup BootVolumeErrors(spec.bootVolume)

----------------------------------------------------------------------------
(* createServerRequest                                                     *)

DriverLabels ==
    [k \in {MachineLabel, ClassLabel} |-> IF k = MachineLabel THEN MachineName ELSE ClassName]

UserLabels(spec) == IF spec.labels = Nil THEN [k \in {} |-> Blank] ELSE spec.labels

MergedLabels_UserWins(spec) ==
    LET user == UserLabels(spec)
    IN  [k \in DOMAIN user \cup DOMAIN DriverLabels |->
            IF k \in DOMAIN user THEN user[k] ELSE DriverLabels[k]]

(* The driver's labels are written over the user's. *)
MergedLabels(spec) ==
    LET user == UserLabels(spec)
    IN  [k \in DOMAIN user \cup DOMAIN DriverLabels |->
            IF k \in DOMAIN DriverLabels THEN DriverLabels[k] ELSE user[k]]

Base64(text) == IF text = Blank THEN Blank ELSE [base64 |-> text]

UserData_SecretFirst(spec, data) ==
    Base64(IF "userData" \in DOMAIN data THEN data["userData"] ELSE spec.userData)

UserData(spec, data) ==
    Base64(IF spec.userData # Blank THEN spec.userData
           ELSE IF "userData" \in DOMAIN data THEN data["userData"]
           ELSE Blank)

BootVolumeRequest_ServiceDefault(spec) == spec.bootVolume

BootVolumeRequest_WithoutSize(spec) ==
    IF spec.bootVolume = Nil THEN Nil
    ELSE [spec.bootVolume EXCEPT
            !.size = 0, !.deleteOnTermination = IF @ = Nil THEN TRUE ELSE @]

(* Deleted with the server unless the spec says otherwise. *)
BootVolumeRequest(spec) ==
    IF spec.bootVolume = Nil THEN Nil
    ELSE [spec.bootVolume EXCEPT !.deleteOnTermination = IF @ = Nil THEN TRUE ELSE @]

ServerRequest(spec, data) ==
    [name |-> MachineName,
     machineType |-> spec.machineType,
     imageID |-> spec.imageID,
     labels |-> MergedLabels(spec),
     networking |-> spec.networking,
     securityGroups |-> spec.securityGroups,
     userData |-> UserData(spec, data),
     bootVolume |-> BootVolumeRequest(spec),
     volumes |-> spec.volumes,
     keypairName |-> spec.keypairName,
     availabilityZone |-> spec.availabilityZone,
     affinityGroup |-> spec.affinityGroup,
     serviceAccountMails |-> spec.serviceAccountMails,
     agent |-> spec.agent,
     metadata |-> IF spec.metadata = "data" THEN "data" ELSE Nil]

(* The request type of pkg/client. *)
CreateServerRequest ==
    [name : {MachineName},
     machineType : String,
     imageID : String,
     labels : UNION {[K -> String \cup {MachineName, ClassName}] : K \in SUBSET Key},
     networking : Networking \cup {Nil},
     securityGroups : Seq(String),
     userData : {Blank} \cup [base64 : String],
     bootVolume : BootVolume \cup {Nil},
     volumes : Seq(String),
     keypairName : String,
     availabilityZone : String \cup {Metro},
     affinityGroup : String,
     serviceAccountMails : Seq(String),
     agent : [provisioned : BOOLEAN \cup {Nil}] \cup {Nil},
     metadata : {Nil, "data"}]

----------------------------------------------------------------------------
(* CreateServer of pkg/client                                              *)

(* Empty strings and lists are not sent. *)
SetIfAny(x) == IF x \in {Blank, <<>>} THEN Nil ELSE x

(* The union type of the SDK: a network, else NICs, else an empty object. *)
NetworkingPayload(networking) ==
    IF networking = Nil THEN Nil
    ELSE [networkID |-> SetIfAny(networking.networkID),
          nicIDs |-> IF networking.networkID # Blank THEN Nil ELSE SetIfAny(networking.nicIDs)]

BootVolumePayload(volume) ==
    IF volume = Nil THEN Nil
    ELSE [size |-> IF volume.size > 0 THEN volume.size ELSE Nil,
          performanceClass |-> SetIfAny(volume.performanceClass),
          deleteOnTermination |-> volume.deleteOnTermination,
          source |-> volume.source]

ServerPayload(r) ==
    [name |-> r.name,
     machineType |-> r.machineType,
     imageID |-> SetIfAny(r.imageID),
     labels |-> r.labels,
     networking |-> NetworkingPayload(r.networking),
     securityGroups |-> SetIfAny(r.securityGroups),
     userData |-> SetIfAny(r.userData),
     bootVolume |-> BootVolumePayload(r.bootVolume),
     volumes |-> SetIfAny(r.volumes),
     keypairName |-> SetIfAny(r.keypairName),
     availabilityZone |-> SetIfAny(r.availabilityZone),
     affinityGroup |-> SetIfAny(r.affinityGroup),
     serviceAccountMails |-> SetIfAny(r.serviceAccountMails),
     agent |-> r.agent,
     metadata |-> r.metadata]

(* The labels of the created server as the service lists them. *)
Served(labels) ==
    [k \in DOMAIN labels \cup {ServiceKey} |-> IF k = ServiceKey THEN Number ELSE labels[k]]

(* convertLabelsFromSDK keeps the labels whose values are strings. *)
LabelsRead(labels) ==
    [k \in {l \in DOMAIN labels : labels[l] \in String \cup {MachineName, ClassName}} |->
        labels[k]]

(* A nil pointer differs from what it could point to, a string from a list. *)
ASSUME NilAssumption ==
    /\ Nil \notin ProviderSpec \cup CreateServerRequest \cup Secret
    /\ Nil \notin Networking \cup [networkID : String \cup {Nil}, nicIDs : Seq(String) \cup {Nil}]
    /\ Nil \notin BootVolume \cup BootVolumeSource
    /\ Nil \notin [size : Int \cup {Nil}, performanceClass : String \cup {Nil},
                   deleteOnTermination : BOOLEAN \cup {Nil},
                   source : BootVolumeSource \cup {Nil}]
    /\ Nil \notin BOOLEAN /\ Nil \notin {"empty", "data"}
    /\ \A text \in [base64 : String] : text \notin {Nil, Blank, <<>>}
    /\ \A x \in String \cup {Nil} : x \notin Seq(String)

----------------------------------------------------------------------------
(* CreateMachine up to its CreateServer call; ensureClient and the look-up *)
(* of an existing server, which come in between, are in EnsureClient and   *)
(* Provider.                                                               *)

SpecTypeOK ==
    /\ class \in MachineClass
    /\ secret \in Secret \cup {Nil}
    /\ stage \in {"begin", "decoded", "validated", "built", "sent", "returned"}
    /\ code \in {"OK", "InvalidArgument", "Internal"}
    /\ request \in CreateServerRequest \cup {Nil}
    /\ stage \in {"decoded", "validated", "built", "sent"} => class.spec # Nil
    /\ stage \in {"built", "sent"} => request # Nil

Called == stage = "begin" /\ code = "OK" /\ request = Nil /\ payload = Nil

Init ==
    /\ class \in MachineClass
    /\ secret \in Secret \cup {Nil}
    /\ Called

Return(c) == stage' = "returned" /\ code' = c

Decode_IgnoresError ==
    /\ stage = "begin"
    /\ \/ class.provider = "other" /\ Return("InvalidArgument")
       \/ class.provider = "stackit" /\ stage' = "decoded" /\ UNCHANGED code
    /\ UNCHANGED <<class, secret, request, payload>>

Decode ==
    /\ stage = "begin"
    /\ \/ class.provider = "other" /\ Return("InvalidArgument")
       \/ class.provider = "stackit" /\ class.spec = Nil /\ Return("Internal")
       \/ /\ class.provider = "stackit" /\ class.spec # Nil
          /\ stage' = "decoded"
          /\ UNCHANGED code
    /\ UNCHANGED <<class, secret, request, payload>>

Validate ==
    /\ stage = "decoded"
    /\ IF ValidationErrors(class.spec, secret) = {}
       THEN stage' = "validated" /\ UNCHANGED code
       ELSE Return("InvalidArgument")
    /\ UNCHANGED <<class, secret, request, payload>>

BuildRequest ==
    /\ stage = "validated"
    /\ request' = ServerRequest(class.spec, secret)
    /\ stage' = "built"
    /\ UNCHANGED <<class, secret, code, payload>>

SendPayload ==
    /\ stage = "built"
    /\ payload' = ServerPayload(request)
    /\ stage' = "sent"
    /\ UNCHANGED <<class, secret, code, request>>

(* The next call of CreateMachine. *)
CallAgain ==
    /\ stage \in {"sent", "returned"}
    /\ stage' = "begin" /\ code' = "OK" /\ request' = Nil /\ payload' = Nil
    /\ UNCHANGED <<class, secret>>

Next == Decode \/ Validate \/ BuildRequest \/ SendPayload \/ CallAgain

Spec == Init /\ [][Next]_vars

----------------------------------------------------------------------------
(* A payload the service can carry out, whatever ProviderSpec passed       *)
(* validation: something complete to boot from, exactly one kind of        *)
(* networking, and in it no malformed machine type, id, name, zone, size,  *)
(* e-mail address, label or label key, and no empty security group.        *)
PayloadIsWellFormed ==
    stage = "sent" =>
        /\ payload.machineType \in Good
        /\ \/ payload.imageID \in Good
           \/ payload.bootVolume # Nil /\ payload.bootVolume.source # Nil
        /\ payload.bootVolume # Nil =>
              /\ payload.bootVolume.source # Nil =>
                    payload.bootVolume.source \in [type : SourceType, id : Good]
              /\ payload.bootVolume.size # Nil => payload.bootVolume.size > 0
        /\ payload.networking # Nil
        /\ payload.networking.networkID \in Good <=> payload.networking.nicIDs = Nil
        /\ payload.networking.nicIDs # Nil => Entries(payload.networking.nicIDs) \subseteq Good
        /\ \A f \in {"imageID", "keypairName", "affinityGroup"} : payload[f] \in Good \cup {Nil}
        /\ payload.availabilityZone \in Good \cup {Metro, Nil}
        /\ \A f \in {"volumes", "serviceAccountMails"} :
              payload[f] # Nil => Entries(payload[f]) \subseteq Good
        /\ payload.serviceAccountMails # Nil => Len(payload.serviceAccountMails) = 1
        /\ payload.securityGroups # Nil => Blank \notin Entries(payload.securityGroups)
        /\ JunkKey \notin DOMAIN payload.labels
        /\ \A k \in DOMAIN payload.labels \ DOMAIN DriverLabels :
              payload.labels[k] \in Good \cup {Blank}

(* NICs or network: what the ProviderSpec names is what the server gets,   *)
(* and patchNetworkInterfaces finds only one of the two configured; the    *)
(* wrapper's precedence of networkId never drops NICs somebody asked for.  *)
NetworkingAsAsked ==
    stage = "sent" =>
        LET asked == class.spec.networking
        IN  /\ asked.networkID = Blank <=> asked.nicIDs # <<>>
            /\ asked.networkID # Blank =>
                  payload.networking = [networkID |-> asked.networkID, nicIDs |-> Nil]
            /\ asked.nicIDs # <<>> =>
                  payload.networking = [networkID |-> Nil, nicIDs |-> asked.nicIDs]

(* A boot volume that the ProviderSpec configures is deleted with its      *)
(* server unless the ProviderSpec disables that.                           *)
BootVolumeFollowsServer ==
    stage = "sent" /\ class.spec.bootVolume # Nil =>
        payload.bootVolume.deleteOnTermination
            = (class.spec.bootVolume.deleteOnTermination # FALSE)

(* Both selectors, of the look-up by machine and of ListMachines, find the *)
(* server again and the machine's name is read back from it, whatever      *)
(* labels the user chose, whose others are kept.                           *)
ServerFoundAgain ==
    stage = "sent" =>
        LET read == LabelsRead(Served(payload.labels))
            user == UserLabels(class.spec)
        IN  /\ \A k \in {MachineLabel, ClassLabel} : k \in DOMAIN read /\ read[k] = DriverLabels[k]
            /\ \A k \in DOMAIN user \ DOMAIN DriverLabels :
                  k \in DOMAIN read /\ read[k] = user[k]

(* Every field that the ProviderSpec sets and CreateServer knows arrives   *)
(* unchanged through the three representations, and what it leaves out is  *)
(* not sent.  User data are the ProviderSpec's, else the Secret's.  (Other *)
(* properties: networking, labels, deletion of the boot volume.)           *)
NothingLost ==
    stage = "sent" =>
        LET spec == class.spec
            given == "userData" \in DOMAIN secret /\ secret["userData"] # Blank
        IN  /\ payload.name = MachineName /\ payload.machineType = spec.machineType
            /\ \A f \in {"imageID", "keypairName", "affinityGroup", "availabilityZone",
                          "securityGroups", "volumes", "serviceAccountMails"} :
                  payload[f] = IF spec[f] \in {Blank, <<>>} THEN Nil ELSE spec[f]
            /\ payload.agent = spec.agent
            /\ payload.metadata = IF spec.metadata = "empty" THEN Nil ELSE spec.metadata
            /\ spec.userData # Blank => payload.userData = [base64 |-> spec.userData]
            /\ spec.userData = Blank /\ given =>
                  payload.userData = [base64 |-> secret["userData"]]
            /\ spec.userData = Blank /\ ~ given => payload.userData = Nil
            /\ payload.bootVolume = Nil <=> spec.bootVolume = Nil
            /\ spec.bootVolume # Nil =>
                  /\ payload.bootVolume.source = spec.bootVolume.source
                  /\ payload.bootVolume.performanceClass =
                        IF spec.bootVolume.performanceClass = Blank THEN Nil
                        ELSE spec.bootVolume.performanceClass
                  /\ payload.bootVolume.size =
                        IF spec.bootVolume.size = 0 THEN Nil ELSE spec.bootVolume.size
=============================================================================
