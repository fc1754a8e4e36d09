SPECIFICATION Spec
CONSTANTS
    Tasks = {t1, t2}
    NoTask = NoTask
    Shells = {}
    MainOwner = TRUE
    Parks = FALSE
    MaxRetained = 1
    OutboxCapacity = 1
    InboxCapacity = 1
    Removable = {}
CHECK_DEADLOCK FALSE
INVARIANTS
    SettledIsReported
