SPECIFICATION FairSpec
CONSTANTS
    r1 = r1
    r2 = r2
    k1 = k1
    k2 = k2
    None = None
    Runs = {r1, r2}
    Keys = {k1, k2}
    Wants <- MCWants
    MaxAttempt = 3
    MaxFaults = 2
INVARIANTS
    CatalogsNameTheirProducer
    VerifiedMeansAvailable
PROPERTIES
    OwnReceiptsNeverSuperseded
    ImplementsIndex
    EventuallyAvailable
CHECK_DEADLOCK FALSE
