SPECIFICATION Spec
CONSTANTS
    k1 = k1
    k2 = k2
    i1 = i1
    i2 = i2
    i3 = i3
    NoKey = NoKey
    NoId = NoId
    Nobody = Nobody
    Keys <- One
    Owners <- One
    Ids = {i1, i2, i3}
    Names = {"alpha"}
    TeamOrder <- TwoTeams
    DefaultTeam = "personal"
    Specs <- NameInTwoTeams
    Faults = {"err", "lost", "kube", "odd", "console", "restart", "touch", "edit"}
    MaxFaults = 3
    MaxEdits = 3
SYMMETRY Symmetric
INVARIANTS
    ClusterUnderFinalizer
PROPERTIES
    ImplementsLifecycle
    IdSticky
    PhaseOrder
    RecordedIdReleased
CHECK_DEADLOCK FALSE
