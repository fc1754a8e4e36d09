\* Work accepted, or a provider wired, while a failed attempt ran.
SPECIFICATION PumpSpec
CONSTANTS
    MaxAccepted = 2
    MaxWirings = 1
    MaxClaims = 2
INVARIANT NewWorkClearsBlock
CHECK_DEADLOCK FALSE
