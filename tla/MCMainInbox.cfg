SPECIFICATION Spec
CONSTANTS
    Keys = {k1, k2, k3}
    NoKey = NoKey
    Bodies = {b1, b2}
    MainQueueCapacity = 2
    MainDeliveredHorizon = 2
    MaxSeq = 5
SYMMETRY Symmetry
CHECK_DEADLOCK FALSE
INVARIANTS
    NothingLostOrRepeated
    RepeatOnlyBeyondHorizon
