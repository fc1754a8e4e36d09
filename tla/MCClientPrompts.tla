--------------------------- MODULE MCClientPrompts ---------------------------
(* The configurations of ClientPrompts.                                    *)
EXTENDS ClientPrompts
=============================================================================
