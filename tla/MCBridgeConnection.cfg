SPECIFICATION FairSpec
CONSTANTS
    i1 = i1
    i2 = i2
    NoName = NoName
    NoRef = NoRef
    Nobody = Nobody
    Keys = {"connection"}
    Inventories = {"inventory"}
    Targets <- TwoTargets
    Existing = {i1}
    Owners = {}
    Ids = {i1, i2}
    Names = {"alpha", "beta"}
    TeamOrder <- OneTeam
    DefaultTeam = "personal"
    Faults = {"err", "odd", "kube", "restart", "account", "console", "retarget"}
    MaxFaults = 1
    MaxEdits = 2
INVARIANTS
    TypeOK
    ReadyIsBound
PROPERTIES
    RefsAsSpecified
    InventoryConverges
    EventuallyBound
    LossReported
CHECK_DEADLOCK FALSE
