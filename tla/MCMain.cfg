CONSTANTS
    MaxPushes = 2
    Changes <- MCChanges
    MaxSetbacks = 1
SPECIFICATION MainFairSpec
INVARIANTS GreenChainVerified
PROPERTY EventuallyRequired
CHECK_DEADLOCK FALSE
