SPECIFICATION FairSpec
CONSTANTS
    k1 = k1
    i1 = i1
    i2 = i2
    NoKey = NoKey
    NoId = NoId
    Nobody = Nobody
    Keys <- One
    Owners <- One
    Ids = {i1, i2}
    Names = {"alpha"}
    TeamOrder <- OneTeam
    DefaultTeam = "personal"
    Specs <- OneName
    Faults = {"err"}
    MaxFaults = 1
    MaxEdits = 1
PROPERTIES
    EventuallyReady
CHECK_DEADLOCK FALSE
