SPECIFICATION FairSpec
CONSTANTS
    k1 = k1
    k2 = k2
    i1 = i1
    i2 = i2
    NoKey = NoKey
    NoId = NoId
    Nobody = Nobody
    Keys <- One
    Owners <- One
    Ids = {i1, i2}
    Names = {"alpha", "omega"}
    TeamOrder <- OneTeam
    DefaultTeam = "personal"
    Specs <- TwoNames
    Faults = {"err"}
    MaxFaults = 3
    MaxEdits = 2
PROPERTIES
    EventuallyReady
    DeletionCompletes
CHECK_DEADLOCK FALSE
