\* The main agent with a shell command and a subagent, which others may remove.
\* Nothing is pruned here (that is checked with a subagent as the owner), and
\* the inbox holds both completions: MCMainInboxFull is the case where it does
\* not.
SPECIFICATION Spec
CONSTANTS
    Tasks = {t1, t2}
    NoTask = NoTask
    Shells = {t1}
    MainOwner = TRUE
    Parks = FALSE
    MaxRetained = 2
    OutboxCapacity = 1
    InboxCapacity = 2
    Removable = {t2}
CHECK_DEADLOCK FALSE
PROPERTIES
    DueIsTold
