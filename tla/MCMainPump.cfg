\* Two messages, one wiring, and two claims by others, of which one is the
\* initialization that starts the pump: an attempt can meet a busy slot, a
\* drained queue, a missing client and a failed turn, in every order.  The
\* system may stop: a shutdown ends everything.
SPECIFICATION PumpSpec
CONSTANTS
    MaxAccepted = 2
    MaxWirings = 1
    MaxClaims = 2
INVARIANTS NoLostWake NoSelfSpin JoinedPumpIsQuiet
PROPERTIES AcceptedIsDrained ProviderUnblocks ShutdownEnds
CHECK_DEADLOCK FALSE
