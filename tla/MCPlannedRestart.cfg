SPECIFICATION Spec
CONSTANTS
    p = p
    c = c
    s = s
    Main = Main
    NoFile = NoFile
    Subagents = {p, c}
    Tools = {}
    Owner <- OwnerOfTree
    MaxEngines = 3
    MaxFailures = 1
    MaxCommands = 1
    MaxEvents = 2
INVARIANTS RestoredOnce FileIsComplete OperatorSuspensionKept OwnerHears
PROPERTIES NobodyLeftBehind
CHECK_DEADLOCK FALSE
