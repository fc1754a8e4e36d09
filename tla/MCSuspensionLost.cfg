SPECIFICATION Spec
CONSTANTS
    p = p
    c = c
    s = s
    Main = Main
    NoFile = NoFile
    Subagents = {p, c}
    Tools = {}
    Owner <- OwnerOfTree
    MaxEngines = 2
    MaxFailures = 1
    MaxCommands = 1
    MaxEvents = 3
INVARIANTS OperatorSuspensionAlwaysKept
CHECK_DEADLOCK FALSE
