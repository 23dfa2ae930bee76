SPECIFICATION Spec
CONSTANTS
    k1 = k1
    k2 = k2
    i1 = i1
    i2 = i2
    NoKey = NoKey
    NoId = NoId
    Nobody = Nobody
    Keys <- Both
    Owners <- Both
    Ids = {i1, i2}
    Names = {"alpha"}
    TeamOrder <- TwoTeams
    DefaultTeam = "personal"
    Specs <- NameInTwoTeams
    Faults = {}
    MaxFaults = 0
    MaxEdits = 2
SYMMETRY Symmetric
INVARIANTS
    Ownership
CHECK_DEADLOCK FALSE
