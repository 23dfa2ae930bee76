SPECIFICATION FairSpec
CONSTANTS
    MaxVersion = 3
    MaxFaults = 2
    MaxEvents = 4
INVARIANTS
    TypeOK
    DoneMeansRegistered
PROPERTIES
    EventuallyRegistered
    CleanedUp
CHECK_DEADLOCK FALSE
