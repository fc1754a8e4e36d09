SPECIFICATION Spec
CONSTANTS
    p = p
    c = c
    s = s
    Main = Main
    NoFile = NoFile
    Subagents = {p, c}
    Tools = {s}
    Owner <- OwnerOfTree
    MaxEngines = 2
    MaxFailures = 1
    MaxCommands = 0
    MaxEvents = 2
INVARIANTS TypeOK RestoredOnce FileIsComplete OperatorSuspensionKept OwnerHears
PROPERTIES NobodyLeftBehind
CHECK_DEADLOCK FALSE
