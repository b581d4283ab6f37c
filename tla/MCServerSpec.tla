---------------------------- MODULE MCServerSpec ----------------------------
(* ServerSpec on the ProviderSpecs and Secrets that differ from a minimal  *)
(* valid one in at most two fields.                                        *)
EXTENDS ServerSpec

CONSTANTS g1, g2

Minimal ==
    [region |-> g1, machineType |-> g1, imageID |-> g1, labels |-> Nil,
     networking |-> [networkID |-> g1, nicIDs |-> <<>>],
     allowedAddresses |-> <<>>, securityGroups |-> <<>>, userData |-> Blank,
     bootVolume |-> Nil, volumes |-> <<>>, keypairName |-> Blank,
     availabilityZone |-> Blank, affinityGroup |-> Blank,
     serviceAccountMails |-> <<>>, agent |-> Nil, metadata |-> Nil]

MinimalSecret == [k \in {"project-id", "serviceaccount.json"} |-> g1]

Lists == {<<>>, <<g1>>, <<g1, g2>>, <<Junk>>, <<g1, Blank>>}

Fields ==
    [Minimal EXCEPT
        !.region = {Blank, Junk},
        !.machineType = {Blank, Junk},
        !.imageID = {Blank, Junk},
        !.labels = UNION {[K -> {g1, Junk}] : K \in SUBSET Key},
        !.networking = [networkID : String, nicIDs : Lists] \cup {Nil},
        !.allowedAddresses = Lists,
        !.securityGroups = Lists,
        !.userData = {g1},
        !.bootVolume = [deleteOnTermination : BOOLEAN \cup {Nil},
                        performanceClass : {Blank, g1},
                        size : {-1, 0, 50},
                        source : [type : {"image", "volume", OtherType, Blank},
                                  id : {Blank, Junk, g1}] \cup {Nil}],
        !.volumes = Lists,
        !.keypairName = {g1, Junk},
        !.availabilityZone = {g1, Junk, Metro},
        !.affinityGroup = {g1, Junk},
        !.serviceAccountMails = Lists,
        !.agent = [provisioned : BOOLEAN \cup {Nil}],
        !.metadata = {"empty", "data"}]

(* Any two fields, with user data in the Secret or without; any Secret;    *)
(* classes that do not get as far as validation.                           *)
MCInit ==
    /\ Called
    /\ \/ /\ \E f, g \in DOMAIN Minimal : \E v \in Fields[f], w \in Fields[g] :
                class = [provider |-> "stackit", spec |-> [Minimal EXCEPT ![f] = v, ![g] = w]]
          /\ secret \in {MinimalSecret, [k \in SecretKey |-> IF k = "userData" THEN g2 ELSE g1]}
       \/ /\ class = [provider |-> "stackit", spec |-> Minimal]
          /\ secret \in Secret \cup {Nil}
       \/ /\ class \in [provider : {"stackit", "other"}, spec : {Nil, Minimal}]
          /\ secret = MinimalSecret

MCSpec == MCInit /\ [][Next]_vars
=============================================================================
