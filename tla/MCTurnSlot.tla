---------------------------- MODULE MCTurnSlot ----------------------------
(* The configurations of TurnSlot.                                        *)
EXTENDS TurnSlot
=============================================================================
