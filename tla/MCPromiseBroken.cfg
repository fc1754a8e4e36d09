SPECIFICATION Spec
CONSTANTS
    Tasks = {t1}
    NoTask = NoTask
    Shells = {}
    MainOwner = TRUE
    Parks = FALSE
    MaxRetained = 1
    OutboxCapacity = 1
    InboxCapacity = 2
    Removable = {}
CHECK_DEADLOCK FALSE
INVARIANTS
    PromiseIsKept
