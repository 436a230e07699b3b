\* A pipeline stage that is not the last, where the merge asserts its inputs.
CONSTANTS
    L = 2
    Forwards = 1
    LastRank = FALSE
    MayFail = TRUE
SPECIFICATION FairSpec
CHECK_DEADLOCK FALSE
INVARIANT MergesBothStages
