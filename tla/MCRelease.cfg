SPECIFICATION ReleaseSpec
CONSTANTS
    Runs <- TwoRuns
    Stable = "v1.0.0"
    Strays = {"v1.0.0-rc"}
    MaxAttempts = 2
    MaxSetbacks = 2
    a = a
    v1 = v1
    h1 = h1
    sdk1 = sdk1
    src1 = src1
    Interventions = {"tag", "repair"}
    MaxFaults = 3
    Channel = Channel
    Incomplete = Incomplete
    None = None

    
PROPERTIES
    
    EventuallyReleased
CHECK_DEADLOCK FALSE
