------------------------- MODULE MCScheduleRuntime -------------------------
(* One definition of any kind.                                             *)
EXTENDS ScheduleRuntime
=============================================================================
