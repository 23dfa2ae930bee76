SPECIFICATION FairSpec
CONSTANTS
    k1 = k1
    i1 = i1
    i2 = i2
    NoKey = NoKey
    NoId = NoId
    Nobody = Nobody
    Keys <- One
    Owners <- One
    Ids = {i1, i2}
    Names = {"alpha"}
    TeamOrder <- OneTeam
    DefaultTeam = "personal"
    Specs <- OneName
    Faults = {"err", "lost", "kube", "restart", "touch", "account", "console"}
    MaxFaults = 2
    MaxEdits = 3
INVARIANTS
    TypeOK
    TrueMeansProvisioned
PROPERTIES
    ImplementsLifecycle
    DeletesOnlyOwn
    RecordedIdReleased
    DeletedClusterGoes
    LossReported
CHECK_DEADLOCK FALSE
