CONSTANTS
    Runners = {"gpu", "npu", "v2"}
    Skips = {TRUE, FALSE}
    MaxReplicas = 2
    Counts = {1, 2, 3, 4}
    CaptureSizes <- TwoSizes
    DecodeThreshold = 3
    PrefillThreshold = 2
    NumWarmups = 1
    MaxSteps = 2
SPECIFICATION Spec
INVARIANTS
    AnnouncedAsRun
    PayloadsAgree
    GraphsPrepared
