SPECIFICATION FairSpec
CONSTANTS
    m = m
    s1 = s1
    A = A
    B = B
    w1 = w1
    w2 = w2
    main = main
    Workers = {w1, w2}
    Main = main
    MainSecret = m
    Secrets = {s1}
    Credentials = {A, B}
    MayHold <- MCMayHold
    MaxChanges = 1
INVARIANTS
    TypeOK
    OneSession
PROPERTIES
    CacheUnlocks
    TokenSettles
    Serves
CHECK_DEADLOCK FALSE
