CONSTANTS
    Rows <- ThreeRows
    Parallelism = 2
    MaxFaults = 1
SPECIFICATION SdkFairSpec
INVARIANTS IntegratedFromAllRows NoRowLeftRunning DiagnosticsSurvive ConsumedAlone
PROPERTY EventuallyEnded
CHECK_DEADLOCK FALSE
