CONSTANTS
    g1 = g1
    g2 = g2
    Good = {g1, g2}
    Junk = Junk
    Metro = Metro
    Blank = Blank
    Nil = Nil
    MachineLabel = MachineLabel
    ClassLabel = ClassLabel
    UserKey = UserKey
    JunkKey = JunkKey
    MachineName = MachineName
    ClassName = ClassName
    OtherType = OtherType
    ServiceKey = ServiceKey
    Number = Number
SPECIFICATION MCSpec
INVARIANTS
    SpecTypeOK
    PayloadIsWellFormed
    NetworkingAsAsked
    BootVolumeFollowsServer
    ServerFoundAgain
    NothingLost
