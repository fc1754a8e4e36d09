-------------------------- MODULE CompletionDelivery --------------------------
(***************************************************************************)
(* What the task registry promises the agent that starts tasks (coda-agent *)
(* src/tasks/completion_push.rs and src/agent/park.rs): the agent hears of *)
(* the end of each task at most once, only after it ended and while the    *)
(* agent runs, and an agent that ends by itself has heard of every task it *)
(* started.  TaskCompletions implements it.                                *)
(***************************************************************************)
EXTENDS Naturals

CONSTANT Tasks

VARIABLES
    phase,      \* what became of each task
    told,       \* times its owner heard of its end
    over        \* how the owner ended

vars == <<phase, told, over>>

Init ==
    /\ phase = [t \in Tasks |-> "unknown"]
    /\ told = [t \in Tasks |-> 0]
    /\ over = "no"

Start(t) ==
    /\ over = "no"
    /\ phase[t] = "unknown"
    /\ phase' = [phase EXCEPT ![t] = "live"]
    /\ UNCHANGED <<told, over>>

End(t) ==
    /\ phase[t] = "live"
    /\ phase' = [phase EXCEPT ![t] = "ended"]
    /\ UNCHANGED <<told, over>>

(* The owner hears of the end of some tasks, each for the first time. *)
Tell(some) ==
    /\ over = "no"
    /\ \A t \in some : phase[t] = "ended" /\ told[t] = 0
    /\ told' = [t \in Tasks |-> IF t \in some THEN 1 ELSE told[t]]
    /\ UNCHANGED <<phase, over>>

(* By itself the owner ends only when it knows the end of all it started. *)
EndNaturally ==
    /\ over = "no"
    /\ \A t \in Tasks : phase[t] # "unknown" => told[t] = 1
    /\ over' = "natural"
    /\ UNCHANGED <<phase, told>>

EndEarly ==
    /\ over = "no"
    /\ over' = "early"
    /\ UNCHANGED <<phase, told>>

Next ==
    \/ \E t \in Tasks : Start(t) \/ End(t)
    \/ \E some \in SUBSET Tasks : Tell(some)
    \/ EndNaturally \/ EndEarly

Spec == Init /\ [][Next]_vars
=============================================================================
