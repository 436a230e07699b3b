CONSTANTS
    A = 4
    F = 3
    D = 2
    L = 2
    Window = 1
    UseGraph = TRUE
    GateOnAttention = TRUE
    SendsInputIds = TRUE
    Scripts <- SmallScripts
SPECIFICATION FairSpec
INVARIANTS
    TypeOK
    RequestsAligned
    AnswersAligned
    SizesAreTheSteps
    OneCallPerStage
PROPERTIES
    CallsImplemented
    Completes
