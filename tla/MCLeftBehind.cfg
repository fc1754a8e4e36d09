SPECIFICATION Spec
CONSTANTS
    p = p
    c = c
    s = s
    Main = Main
    NoFile = NoFile
    Subagents = {p, c}
    Tools = {}
    Owner <- OwnerOfTree
    MaxEngines = 2
    MaxFailures = 0
    MaxCommands = 0
    MaxEvents = 1
PROPERTIES EachIsSeen
CHECK_DEADLOCK FALSE
