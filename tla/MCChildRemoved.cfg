SPECIFICATION Spec
CONSTANTS
    Tasks = {t1}
    NoTask = NoTask
    Shells = {}
    MainOwner = FALSE
    Parks = TRUE
    MaxRetained = 1
    OutboxCapacity = 1
    InboxCapacity = 0
    Removable = {t1}
CHECK_DEADLOCK FALSE
INVARIANTS
    NaturalEndKnowsAll
