SPECIFICATION BuildSpec
CONSTANTS
    Formats <- BothFormats
    PackageDirs <- MultiarchDirs
    SystemDirs <- TargetDirs
    Sysroot <- TargetLibraries
    DebugRoot <- DebugDir
    NoComponent = "none"
    Requests <- PlanRequests
    Builders <- OneCommand
    MaxEdits = 0
INVARIANT EveryInstallationLoads
CHECK_DEADLOCK FALSE
