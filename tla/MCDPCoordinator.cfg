CONSTANTS
    E = 2
    c1 = c1
    c2 = c2
    Clients <- FrontEnds
    Modes <- ModeSet
SPECIFICATION FairWaves
INVARIANTS
    WavesInStep
PROPERTIES
    Served
    FrontEndsAgree
CHECK_DEADLOCK FALSE
