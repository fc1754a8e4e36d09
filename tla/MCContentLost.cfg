SPECIFICATION Spec
CONSTANTS
    Kinds = {"content", "config"}
    MaxEvents = 3
    MaxLost = 0
    MaxFailures = 0
    MaxBuffered = 4
    RingCapacity = 1
    SeenCapacity = 1
INVARIANTS NothingPassedOver
CHECK_DEADLOCK FALSE
