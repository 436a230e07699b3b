CONSTANTS
    Runners = {"npu"}
    Skips = {FALSE}
    MaxReplicas = 2
    Counts = {3, 4}
    CaptureSizes <- TwoSizes
    DecodeThreshold = 2
    PrefillThreshold = 4
    NumWarmups = 1
    MaxSteps = 2
SPECIFICATION Spec
INVARIANTS
    StagesAgree
