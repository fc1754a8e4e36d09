\* An interval whose boundary is met to the instant.
SPECIFICATION Spec
CONSTANTS
    Nothing = Nothing
    Definitions = {job}
    Period = 2
    Budgets = {2}
    Deadlines = {5, 7}
    MaxTime = 5
PROPERTY LaunchAdvances
