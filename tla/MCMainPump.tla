---------------------------- MODULE MCMainPump ----------------------------
(* The configurations of MainPump; its constants are three bounds.         *)
EXTENDS MainPump
=============================================================================
