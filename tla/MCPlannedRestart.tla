--------------------------- MODULE MCPlannedRestart ---------------------------
(* A subagent p of the main agent, its child c, and a tool s of the main   *)
(* agent.                                                                  *)
EXTENDS PlannedRestart

CONSTANTS p, c, s

OwnerOfTree == [t \in Tasks |-> IF t = c THEN p ELSE Main]
=============================================================================
