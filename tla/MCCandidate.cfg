SPECIFICATION CandidateFairSpec
CONSTANTS
    Runs <- TwoRuns
    MaxFaults = 1
    MaxRepeats = 1
INVARIANTS
    SignedQualified
    LineageFromSuccess
    SignatureNamesLatest
    SuccessIsPromotable
PROPERTIES
    EventuallySigned
CHECK_DEADLOCK FALSE
