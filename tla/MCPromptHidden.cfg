SPECIFICATION Spec
CONSTANTS
    MaxRequests = 2
    MaxFaults = 0
    Says = {"granted"}
    Own = {}
INVARIANTS DecisionShown
CHECK_DEADLOCK FALSE
