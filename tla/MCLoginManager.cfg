SPECIFICATION FairSpec
CONSTANTS
    c1 = c1
    r1 = r1
    r2 = r2
    ctor = ctor
    Clients = {c1}
    Runners = {r1, r2}
    Ctor = ctor
    Sources = {"err", "zero", "key", "pair"}
    MayHang = TRUE
INVARIANTS
    TypeOK
    ActiveHasToken
    FailedNeverSucceeded
    ActiveWillExpire
    RenewalPending
PROPERTIES
    StaysLoggedIn
CHECK_DEADLOCK FALSE
