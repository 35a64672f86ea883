CONSTANTS
    Modules <- MCModules
    Hints = {1, 3}
    WorkerCount = 2
    MaxInterrupts = 2
SPECIFICATION TestFairSpec
INVARIANTS PassedMeansComplete NoSurvivor
PROPERTY EventuallyWritten
CHECK_DEADLOCK FALSE
