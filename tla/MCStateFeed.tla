---------------------------- MODULE MCStateFeed ----------------------------
(* The configurations of StateFeed.                                        *)
EXTENDS StateFeed
=============================================================================
