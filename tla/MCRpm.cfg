SPECIFICATION FairSpec
CONSTANTS
    common = common
    delta = delta
    lib = lib
    make = make
    gcc = gcc
    Roles = {common, delta}
    Parent <- MCParent
    Packages = {lib, make, gcc}
    Images = {1, 2}
    Ground <- MCGround
    Snapshots = {1, 2}
    Offered <- MCOffered
    Selected <- MCSelected
    MaxEarly = 2
    None = None
INVARIANTS AcceptedInstalls InstalledAsLocked
PROPERTIES EventuallyRefreshed
CHECK_DEADLOCK FALSE
