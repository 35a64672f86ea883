SPECIFICATION BuildSpec
CONSTANTS
    Formats <- BothFormats
    PackageDirs <- MultiarchDirs
    SystemDirs <- TargetDirs
    Sysroot <- TargetLibraries
    DebugRoot <- DebugDir
    NoComponent = "none"
    Requests <- AllRequests
    Builders <- TwoCommands
    MaxEdits = 1
INVARIANTS
    LinksResolve
    LoaderFindsProvider
    PackagesMatchPlan
PROPERTY OutputAppearsOnce
CHECK_DEADLOCK FALSE
