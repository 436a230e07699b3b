\* Two forward passes of two layers; either thread may fail, after which the
\* other may wait for ever: that is a real stop of the system.
CONSTANTS
    L = 2
    Forwards = 2
    LastRank = TRUE
    MayFail = TRUE
SPECIFICATION FairSpec
CHECK_DEADLOCK FALSE
INVARIANTS TypeOK RunsAlone MergedInStageOrder
PROPERTIES CallsImplemented Completes
