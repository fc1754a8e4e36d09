\* Three turns of any kind, with initializations between them, an interrupt,
\* a steering message, a restart and a shutdown: a stop can overtake each step
\* of a claim, and what is left of one turn meets the next.  The system may
\* stop: nothing is claimed after a shutdown.
SPECIFICATION FairSpec
CONSTANTS
    Messages = {m1}
    Interrupts = {i1}
    MaxTurns = 3
INVARIANTS LifecycleTruthful SteerLandsInItsTurn StoppedTurnIsTold OneStopOneTurn
PROPERTIES StoppedTurnEnds
CHECK_DEADLOCK FALSE
