SPECIFICATION Spec
CONSTANTS
    Batches <- SmallBatches
    TPSizes = {1, 2, 3}
    MoeLayers = 3
    Computed = 1
    MaxPadding = 2
INVARIANTS
    NeverRaises
    DispatchedOnce
    OwnContext
    RestoredInPlace
CHECK_DEADLOCK FALSE
