CONSTANTS
    p1 = p1
    p2 = p2
    d1 = d1
    r1 = r1
    r2 = r2
    Keys = {p1, p2, d1}
    Prefillers <- OnePrefiller
    Decoders <- OneDecoder
    Requests = {r1, r2}
    Adjustable <- Instances
    Size <- Sizes
    MaxWaitingRetries = 2
    MaxRecomputes = 1
    MaxAdjusts = 2
SPECIFICATION FairSpec
INVARIANTS
    TypeOK
    LeastLoadedFirst
    InUseKept
PROPERTIES
    Settles
CHECK_DEADLOCK FALSE
