\* Period 2 with deadline 5: a boundary can be met late or to the instant,
\* pass during a run, and the deadline can come before the next boundary.
\* Deadline 7 lies beyond MaxTime and stands for none; two runs are allowed.
SPECIFICATION Spec
CONSTANTS
    Nothing = Nothing
    Definitions = {job}
    Period = 2
    Budgets = {2}
    Deadlines = {5, 7}
    MaxTime = 5
CHECK_DEADLOCK FALSE
INVARIANTS
    NoOverlap
    RunsWithinBudget
PROPERTIES
    DueIsLaunched
    DeadlineRetires
