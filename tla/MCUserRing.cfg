SPECIFICATION RingSpec
CONSTANTS
    Keys = {k1, k2}
    NoKey = NoKey
    Bodies = {b1, b2}
    Capacity = 2
    Limits = {0, 1, 9}
    MaxCursor = 4
CHECK_DEADLOCK FALSE
INVARIANTS
    ReaderMissesNothing
PROPERTIES
    ReaderCatchesUp
