\* One prompt and one interrupt are enough.
SPECIFICATION Spec
CONSTANTS
    Messages = {}
    Interrupts = {i1}
    MaxTurns = 1
INVARIANTS InterruptReachesTurn
CHECK_DEADLOCK FALSE
