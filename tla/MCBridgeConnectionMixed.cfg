SPECIFICATION Spec
CONSTANTS
    i1 = i1
    i2 = i2
    NoName = NoName
    NoRef = NoRef
    Nobody = Nobody
    Keys = {"connection"}
    Inventories = {"inventory"}
    Targets <- TwoTargets
    Existing = {i1, i2}
    Owners = {}
    Ids = {i1, i2}
    Names = {"alpha", "beta"}
    TeamOrder <- OneTeam
    DefaultTeam = "personal"
    Faults = {"kube", "retarget"}
    MaxFaults = 1
    MaxEdits = 2
INVARIANTS
    RefsAgree
CHECK_DEADLOCK FALSE
