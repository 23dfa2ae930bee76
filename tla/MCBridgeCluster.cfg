SPECIFICATION Spec
CONSTANTS
    k1 = k1
    k2 = k2
    i1 = i1
    i2 = i2
    i3 = i3
    NoKey = NoKey
    NoId = NoId
    Nobody = Nobody
    Keys <- Both
    Owners <- Both
    Ids = {i1, i2, i3}
    Names = {"alpha", "omega"}
    TeamOrder <- OneTeam
    DefaultTeam = "personal"
    Specs <- TwoNames
    Faults = {"err", "lost", "kube", "restart", "touch"}
    MaxFaults = 2
    MaxEdits = 3
SYMMETRY Symmetric
INVARIANTS
    TypeOK
    Ownership
    PhaseMatchesCluster
CHECK_DEADLOCK FALSE
