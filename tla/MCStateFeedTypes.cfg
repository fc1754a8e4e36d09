SPECIFICATION Spec
CONSTANTS
    Kinds = {"content", "delivered", "config", "commit", "reset", "note"}
    MaxEvents = 3
    MaxLost = 1
    MaxFailures = 1
    MaxBuffered = 1
    RingCapacity = 1
    SeenCapacity = 1
INVARIANTS TypeOK HeldIsOwed
CHECK_DEADLOCK FALSE
