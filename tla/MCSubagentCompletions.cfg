SPECIFICATION Spec
CONSTANTS
    Tasks = {t1, t2}
    NoTask = NoTask
    Shells = {t1}
    MainOwner = FALSE
    Parks = TRUE
    MaxRetained = 1
    OutboxCapacity = 1
    InboxCapacity = 0
    Removable = {}
CHECK_DEADLOCK FALSE
INVARIANTS
    ToldAtMostOnce
    SettledIsReported
    NaturalEndKnowsAll
    ParkedIsWoken
PROPERTIES
    RecallRepeatsOnlyForgotten
    ImplementsDelivery
