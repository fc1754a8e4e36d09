SPECIFICATION FairSpec
CONSTANTS
    MaxRequests = 2
    MaxFaults = 1
    Says = {"granted"}
    Own = {1}
INVARIANTS AnswersAreDecisions OneOutcome NoDecisionForgotten
PROPERTIES NoLiveDecisionRetired WaiterIsReleased
CHECK_DEADLOCK FALSE
