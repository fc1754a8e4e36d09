---------------------------- MODULE TaskCompletions ----------------------------
(***************************************************************************)
(* How the end of a task reaches the agent that started it (coda-agent     *)
(* src/tasks/task_manager.rs, managed_task.rs, completion_push.rs and the  *)
(* owner's side in src/agent/tools.rs, park.rs, mod.rs).                   *)
(*                                                                         *)
(* Two kinds of thread meet.  Each task has a thread that runs it and      *)
(* then, after the transition to a terminal status, reports: outbox, claim *)
(* for an attached owner, push into the owner's inbox, settle, prune.  The *)
(* owner is one agent loop: it awaits a foreground task, attaches to a     *)
(* background one, drains its inbox at the top of every iteration, parks   *)
(* while tasks of its own are live, and ends.  One action is one critical  *)
(* section or one atomic flag operation.                                   *)
(*                                                                         *)
(* The owner is the main agent (completions go to the main message inbox,  *)
(* which is bounded) or a subagent (they go to its steering inbox, which   *)
(* is not).  The order of items in an inbox is the subject of MainInbox;   *)
(* here an inbox is the number of copies of each completion in it.         *)
(***************************************************************************)
EXTENDS Integers, Sequences, FiniteSets

CONSTANTS
    Tasks,              \* the tasks the owner may start, each at most once
    NoTask,             \* the owner waits for no task
    Shells,             \* shell commands and wrapped tool calls, the others are subagents
    MainOwner,          \* the owner is the main agent, not a subagent
    Parks,              \* the owner's loop has a ParkPolicy
    MaxRetained,        \* TaskManager::max_retained_terminal_tasks
    OutboxCapacity,     \* COMPLETION_OUTBOX_CAPACITY
    InboxCapacity,      \* MAIN_QUEUE_CAPACITY
    Removable           \* the tasks another agent may remove (task_remove)

ASSUME TaskAssumption ==
    /\ NoTask \notin Tasks
    /\ IsFiniteSet(Tasks)
    /\ Shells \subseteq Tasks
    /\ Removable \subseteq Tasks

ASSUME LimitAssumption ==
    /\ MaxRetained \in Nat
    /\ OutboxCapacity \in Nat \ {0}
    /\ InboxCapacity \in Nat

(* A subagent always runs under ParkPolicy::subagent. *)
ASSUME PolicyAssumption ==
    /\ MainOwner \in BOOLEAN
    /\ Parks \in BOOLEAN
    /\ ~MainOwner => Parks

VARIABLES
    status,         \* TaskState::status and terminal_flag
    mode,           \* TaskState::mode
    number,         \* the task's id; 0 before it is registered
    registry,       \* the tasks in ManagerState::order
    cancelled,      \* the tasks whose cancel token fired
    operatorStop,   \* ManagedTask::operator_stop
    attachedTo,     \* the tasks with owner_attach.0 > 0
    claimed,        \* the tasks with owner_attach.1
    pushed,         \* ManagedTask::completion_pushed
    settled,        \* ManagedTask::settled
    report,         \* the next step of the task's reporting thread
    outbox,         \* ManagerState::outbox of this owner
    queued,         \* copies of each completion in the owner's inbox
    owner,          \* where the owner's loop is
    focus,          \* the task it awaits or is attached to
    wake,           \* settle_signal fired since the parker registered for it
    finishing,      \* ParkState::finishing_since is set
    outcome,        \* how the owner's run ended
    told,           \* times the owner was given the completion of each task
    recalled,       \* times task_recall returned it
    promised        \* tasks whose completion "is delivered separately"

task == <<status, mode, number, registry, cancelled, operatorStop>>
delivery == <<attachedTo, claimed, pushed, settled, report, outbox, queued>>
loop == <<owner, focus, wake, finishing, outcome>>
ledger == <<told, recalled, promised>>
vars == <<task, delivery, loop, ledger>>

Terminal == {"completed", "stopped"}
Ended == {t \in Tasks : status[t] \in Terminal}
Registered == {t \in Tasks : number[t] > 0}

Init ==
    /\ status = [t \in Tasks |-> "none"]
    /\ mode = [t \in Tasks |-> "foreground"]
    /\ number = [t \in Tasks |-> 0]
    /\ registry = {}
    /\ cancelled = {}
    /\ operatorStop = {}
    /\ attachedTo = {}
    /\ claimed = {}
    /\ pushed = {}
    /\ settled = {}
    /\ report = [t \in Tasks |-> "none"]
    /\ outbox = <<>>
    /\ queued = [t \in Tasks |-> 0]
    /\ owner = "boundary"
    /\ focus = NoTask
    /\ wake = FALSE
    /\ finishing = FALSE
    /\ outcome = "none"
    /\ told = [t \in Tasks |-> 0]
    /\ recalled = [t \in Tasks |-> 0]
    /\ promised = {}

-----------------------------------------------------------------------------
(* The task's thread: the work, then the report of its end. *)

(* complete / fail / stop: the first transition wins.  A failure is        *)
(* reported like a completion; only a cancelled task is stopped.           *)
End(t) ==
    /\ status[t] = "running"
    /\ \E end \in (IF t \in cancelled THEN Terminal ELSE {"completed"}) :
          status' = [status EXCEPT ![t] = end]
    /\ report' = [report EXCEPT ![t] = "outbox"]
    /\ UNCHANGED <<mode, number, registry, cancelled, operatorStop, attachedTo, claimed,
                   pushed, settled, outbox, queued, loop, ledger>>

(* Slip: reports "settled" to the waiting owners before the push. *)
StepAfterSettlingFirst(step) ==
    CASE step = "outbox" -> "claim"
      [] step = "claim" -> "settle"
      [] step = "settle" -> "push"
      [] step = "push" -> "mark"
      [] step = "mark" -> "done"

(* complete and notify_terminal, in order: prune and outbox, claim, push   *)
(* and its mark (only after a push that was accepted), settle and prune.   *)
StepAfter(step) ==
    CASE step = "outbox" -> "claim"
      [] step = "claim" -> "push"
      [] step = "push" -> "mark"
      [] step = "mark" -> "settle"
      [] step = "settle" -> "done"

Reporting(t, step) ==
    /\ report[t] = step
    /\ report' = [report EXCEPT ![t] = StepAfter(step)]

(* Slip: a task that ended but has not reported yet may be pruned too. *)
PrunableUnsettled(done) == registry \cap Ended

(* Only settled tasks: an unreported one stays visible to live_children. *)
Prunable(done) == registry \cap Ended \cap done

(* prune_terminal_tasks: the oldest registrations beyond the limit go. *)
Kept(done) ==
    registry \ {t \in Prunable(done) :
        Cardinality({u \in Prunable(done) : number[u] >= number[t]}) > MaxRetained}

OutboxWith(t) ==
    Append(IF Len(outbox) >= OutboxCapacity THEN Tail(outbox) ELSE outbox, t)

(* on_task_terminal and enqueue_completion_if_background *)
Enqueue(t) ==
    /\ Reporting(t, "outbox")
    /\ registry' = Kept(settled)
    /\ outbox' = IF mode[t] = "background" THEN OutboxWith(t) ELSE outbox
    /\ UNCHANGED <<status, mode, number, cancelled, operatorStop, attachedTo, claimed,
                   pushed, settled, queued, loop, ledger>>

(* claim_delivery_for_attached_owner *)
Claim(t) ==
    /\ Reporting(t, "claim")
    /\ claimed' = claimed \cup ({t} \cap attachedTo)
    /\ UNCHANGED <<task, attachedTo, pushed, settled, outbox, queued, loop, ledger>>

(* Slip: a completion an attached owner claimed is pushed as well. *)
AppliesEvenClaimed(t) ==
    /\ mode[t] = "background"
    /\ ~(MainOwner /\ status[t] = "stopped" /\ t \in operatorStop)

(* A completion is pushed for a background task that no attached owner     *)
(* claimed; the main agent is not told of an operator's stop.              *)
Applies(t) ==
    /\ mode[t] = "background"
    /\ t \notin claimed
    /\ ~(MainOwner /\ status[t] = "stopped" /\ t \in operatorStop)

(* The main inbox refuses a publication when it is full; a subagent's      *)
(* inbox takes every item, unless the subagent's own task is terminal.     *)
Accepts(t) ==
    IF MainOwner THEN Cardinality({u \in Tasks : queued[u] > 0}) < InboxCapacity
                 ELSE owner # "gone"

(* push_to_owner_inbox and MainInboxCompletionPush::on_terminal. *)
Push(t) ==
    /\ report[t] = "push"
    /\ IF Applies(t) /\ Accepts(t)
       THEN /\ queued' = [queued EXCEPT ![t] = @ + 1]
            /\ Reporting(t, "push")
       ELSE /\ report' = [report EXCEPT ![t] = StepAfter("mark")]
            /\ UNCHANGED queued
    /\ UNCHANGED <<task, attachedTo, claimed, pushed, settled, outbox, loop, ledger>>

(* mark_completion_pushed, after the inbox accepted the item. *)
Mark(t) ==
    /\ Reporting(t, "mark")
    /\ pushed' = pushed \cup {t}
    /\ UNCHANGED <<task, attachedTo, claimed, settled, outbox, queued, loop, ledger>>

(* settle marks the task and wakes every parked owner registered by now;   *)
(* the task may then be pruned at once.                                    *)
Settle(t) ==
    /\ Reporting(t, "settle")
    /\ settled' = settled \cup {t}
    /\ wake' = TRUE
    /\ registry' = Kept(settled \cup {t})
    /\ UNCHANGED <<status, mode, number, cancelled, operatorStop, attachedTo, claimed,
                   pushed, outbox, queued, owner, focus, finishing, outcome, ledger>>

Report(t) == Enqueue(t) \/ Claim(t) \/ Push(t) \/ Mark(t) \/ Settle(t)

-----------------------------------------------------------------------------
(* Other agents and the operator. *)

(* stop_task: marked as the operator's before the token fires. *)
OperatorStop(t) ==
    /\ t \in registry
    /\ status[t] = "running"
    /\ operatorStop' = operatorStop \cup {t}
    /\ cancelled' = cancelled \cup {t}
    /\ UNCHANGED <<status, mode, number, registry, delivery, loop, ledger>>

(* remove: any terminal task, settled or not. *)
Remove(t) ==
    /\ t \in registry \cap Removable
    /\ t \in Ended
    /\ registry' = registry \ {t}
    /\ UNCHANGED <<status, mode, number, cancelled, operatorStop, delivery, loop, ledger>>

-----------------------------------------------------------------------------
(* The owner's loop. *)

LoopAt(from, to) == owner = from /\ owner' = to

Tell(t) == told' = [told EXCEPT ![t] = @ + 1]

(* register: a shell command or a detachable tool call starts in the       *)
(* foreground and is awaited, a subagent starts in the background.         *)
Start(t) ==
    /\ LoopAt("working", IF t \in Shells THEN "starting" ELSE "boundary")
    /\ number[t] = 0
    /\ number' = [number EXCEPT ![t] = Cardinality(Registered) + 1]
    /\ registry' = registry \cup {t}
    /\ status' = [status EXCEPT ![t] = "running"]
    /\ mode' = [mode EXCEPT ![t] = IF t \in Shells THEN "foreground" ELSE "background"]
    /\ focus' = IF t \in Shells THEN t ELSE NoTask
    /\ UNCHANGED <<cancelled, operatorStop, delivery, wake, finishing, outcome, ledger>>

(* await_running_task looks the task up first: one that is no longer       *)
(* registered has an unknown outcome.                                      *)
LookUp ==
    /\ IF focus \in registry
       THEN LoopAt("starting", "awaiting") /\ UNCHANGED focus
       ELSE LoopAt("starting", "boundary") /\ focus' = NoTask
    /\ UNCHANGED <<task, delivery, wake, finishing, outcome, ledger>>

(* It returns to the loop's next boundary with the result of a finished    *)
(* task ...                                                                *)
FinishInline ==
    /\ LoopAt("awaiting", "boundary")
    /\ status[focus] \in Terminal
    /\ Tell(focus)
    /\ focus' = NoTask
    /\ UNCHANGED <<task, delivery, wake, finishing, outcome, recalled, promised>>

(* ... or because the wait itself ended (its budget, "background now"):    *)
(* the select saw a live task, the promotion is decided afterwards.        *)
YieldWait ==
    /\ LoopAt("awaiting", "promoting")
    /\ status[focus] \notin Terminal
    /\ UNCHANGED <<task, delivery, focus, wake, finishing, outcome, ledger>>

(* Slip: the promotion does not check that the task is still live. *)
PromotesEvenEnded(t) == TRUE

(* try_promote_to_background succeeds for a live task. *)
Promotes(t) == status[t] \notin Terminal

Promote ==
    /\ LoopAt("promoting", "boundary")
    /\ IF Promotes(focus)
       THEN /\ mode' = [mode EXCEPT ![focus] = "background"]
            /\ UNCHANGED told
       ELSE Tell(focus) /\ UNCHANGED mode
    /\ focus' = NoTask
    /\ UNCHANGED <<status, number, registry, cancelled, operatorStop, delivery, wake,
                   finishing, outcome, recalled, promised>>

(* Where an interrupted turn leaves the loop: the conversation is idle, a  *)
(* subagent's (or headless) run ends.                                      *)
Interrupted == IF MainOwner /\ ~Parks THEN "idle" ELSE "ending"

Ends(how) == outcome' = IF owner' = "ending" THEN how ELSE outcome

(* The turn is cancelled while it awaits a task: the task is cancelled too.*)
InterruptWait ==
    /\ LoopAt("awaiting", Interrupted)
    /\ cancelled' = IF status[focus] \in Terminal THEN cancelled ELSE cancelled \cup {focus}
    /\ focus' = NoTask
    /\ Ends("aborted")
    /\ UNCHANGED <<status, mode, number, registry, operatorStop, delivery, wake,
                   finishing, ledger>>

(* task_wait on a task of one's own that still runs. *)
Wait(t) ==
    /\ LoopAt("working", "attaching")
    /\ t \in registry
    /\ status[t] = "running"
    /\ focus' = t
    /\ UNCHANGED <<task, delivery, wake, finishing, outcome, ledger>>

(* await_attached_task looks the task up again and attaches to it. *)
Attach ==
    /\ IF focus \in registry
       THEN /\ LoopAt("attaching", "attached")
            /\ attachedTo' = attachedTo \cup {focus}
            /\ UNCHANGED focus
       ELSE /\ LoopAt("attaching", "boundary")
            /\ focus' = NoTask
            /\ UNCHANGED attachedTo
    /\ UNCHANGED <<task, claimed, pushed, settled, report, outbox, queued, wake,
                   finishing, outcome, ledger>>

(* The wait ends: the task finished, its time is up, the turn is cancelled.*)
SeeEnd ==
    /\ LoopAt("attached", "settling")
    /\ status[focus] \in Terminal
    /\ UNCHANGED <<task, delivery, focus, wake, finishing, outcome, ledger>>

TimeOut ==
    /\ LoopAt("attached", "expired")
    /\ status[focus] \notin Terminal
    /\ UNCHANGED <<task, delivery, focus, wake, finishing, outcome, ledger>>

CancelWait ==
    /\ LoopAt("attached", "interrupted")
    /\ UNCHANGED <<task, delivery, focus, wake, finishing, outcome, ledger>>

(* end_owner_attach decides under the lock the claim was made under: a     *)
(* claimed completion is reported here whatever ended the wait.  A wait    *)
(* that saw the task finish does so only once the task has settled.        *)
Detach ==
    /\ \/ LoopAt("settling", "boundary") /\ focus \in settled
       \/ LoopAt("expired", "boundary")
       \/ /\ owner = "interrupted"
          /\ owner' = IF focus \in claimed THEN "boundary" ELSE Interrupted
    /\ attachedTo' = attachedTo \ {focus}
    /\ IF focus \in claimed THEN Tell(focus) ELSE UNCHANGED told
    /\ promised' = IF owner = "settling" /\ focus \notin claimed
                   THEN promised \cup {focus} ELSE promised
    /\ Ends("aborted")
    /\ focus' = NoTask
    /\ UNCHANGED <<task, claimed, pushed, settled, report, outbox, queued, wake,
                   finishing, recalled>>

(* task_stop: the agent cancels a task of its own. *)
StopTask(t) ==
    /\ LoopAt("working", "boundary")
    /\ t \in registry
    /\ status[t] = "running"
    /\ cancelled' = cancelled \cup {t}
    /\ UNCHANGED <<status, mode, number, registry, operatorStop, delivery, focus, wake,
                   finishing, outcome, ledger>>

(* Slip: only pushed completions are filtered, not those told inline. *)
RecallsUnpushed(t) == ~(t \in registry /\ t \in pushed)

(* What task_recall returns of the drained outbox: it asks the registry    *)
(* whether the completion was delivered already.                           *)
Recalls(t) == ~(t \in registry /\ (t \in pushed \/ t \in claimed))

(* task_recall: drains the outbox and filters the entries. *)
Recall ==
    LET returned == {t \in {outbox[i] : i \in DOMAIN outbox} : Recalls(t)}
    IN  /\ LoopAt("working", "boundary")
        /\ outbox' = <<>>
        /\ recalled' = [t \in Tasks |-> recalled[t] + (IF t \in returned THEN 1 ELSE 0)]
        /\ UNCHANGED <<task, attachedTo, claimed, pushed, settled, report, queued, focus,
                       wake, finishing, outcome, told, promised>>

(* Any other tool call, a refused registration, a failed lookup. *)
OtherCall ==
    /\ LoopAt("working", "boundary")
    /\ UNCHANGED <<task, delivery, focus, wake, finishing, outcome, ledger>>

(* The top of an iteration: everything in the inbox is delivered. *)
Drain ==
    /\ LoopAt("boundary", "working")
    /\ told' = [t \in Tasks |-> told[t] + queued[t]]
    /\ queued' = [t \in Tasks |-> 0]
    /\ UNCHANGED <<task, attachedTo, claimed, pushed, settled, report, outbox, focus,
                   wake, finishing, outcome, recalled, promised>>

-----------------------------------------------------------------------------
(* The natural stop and the parked state. *)

(* Slip: only messages count, as in has_pending. *)
InboxHasMessage == FALSE

(* inbox_has_any, has_pending_main *)
InboxHasAny == \E t \in Tasks : queued[t] > 0

(* live_children *)
LiveChildren == registry \ settled

ParkStep(from, to) ==
    /\ LoopAt(from, to)
    /\ UNCHANGED <<task, delivery, focus, outcome, ledger>>

(* A turn without a tool call: decide_stop continues with another          *)
(* iteration when the inbox is not empty; otherwise an agent that was      *)
(* given its deadline finishes, one with a policy looks whether to park    *)
(* and one without ends its turn.                                          *)
NaturalStop ==
    /\ \/ InboxHasAny /\ ParkStep("working", "boundary")
       \/ ~InboxHasAny /\ Parks /\ ~finishing /\ ParkStep("working", "checking")
       \/ ~InboxHasAny /\ ~Parks /\ ParkStep("working", "idle")
       \/ /\ ~InboxHasAny /\ Parks /\ finishing
          /\ LoopAt("working", "ending")
          /\ outcome' = "deadline"
          /\ UNCHANGED <<task, delivery, focus, ledger>>
    /\ UNCHANGED <<wake, finishing>>

(* The idle conversation: the main-inbox pump starts a turn for its inbox, *)
(* the user one at any time.                                               *)
StartTurn ==
    /\ InboxHasAny
    /\ ParkStep("idle", "boundary")
    /\ UNCHANGED <<wake, finishing>>

Prompt ==
    /\ ParkStep("idle", "boundary")
    /\ UNCHANGED <<wake, finishing>>

(* at_natural_stop: registers for the settle signal, then looks into the   *)
(* inbox.                                                                  *)
CheckInbox ==
    /\ ParkStep("checking", IF InboxHasAny THEN "boundary" ELSE "counting")
    /\ wake' = FALSE
    /\ UNCHANGED finishing

CountChildren ==
    /\ ParkStep("counting", IF LiveChildren = {} THEN "rechecking" ELSE "counted")
    /\ UNCHANGED <<wake, finishing>>

(* Slip: the parker registers for the signal only when it falls asleep. *)
WakeForgotten == FALSE

(* A settle since the registration ends the sleep at once. *)
WakeSinceCheck == wake

FallAsleep ==
    /\ ParkStep("counted", "parked")
    /\ wake' = WakeSinceCheck
    /\ UNCHANGED finishing

(* A child settles only after its completion is in the inbox, so without   *)
(* live children this look is final.                                       *)
Recheck ==
    /\ LoopAt("rechecking", IF InboxHasAny THEN "boundary" ELSE "ending")
    /\ outcome' = IF InboxHasAny THEN outcome ELSE "natural"
    /\ UNCHANGED <<task, delivery, focus, wake, finishing, ledger>>

(* Parked: an inbox item starts the next turn, a settled child makes the   *)
(* parker look again.                                                      *)
Unpark ==
    /\ \/ InboxHasAny /\ ParkStep("parked", "boundary")
       \/ wake /\ ParkStep("parked", "checking")
    /\ UNCHANGED <<wake, finishing>>

(* The longest park or life is over: one last turn for the report.  A      *)
(* message from the parent or the user starts a turn too.                  *)
Deadline ==
    /\ ParkStep("parked", "boundary")
    /\ finishing' \in {finishing, TRUE}
    /\ UNCHANGED wake

(* The turn ends without a report: iteration limit, provider failure,      *)
(* cancellation.                                                           *)
Abort ==
    /\ owner \in {"working", "parked"}
    /\ owner' = Interrupted
    /\ Ends("aborted")
    /\ UNCHANGED <<task, delivery, focus, wake, finishing, ledger>>

(* Nothing a subagent started may outlive it: stop_descendants, then its   *)
(* own task becomes terminal.                                              *)
StopDescendants ==
    /\ ~MainOwner
    /\ LoopAt("ending", "gone")
    /\ cancelled' = cancelled \cup {t \in registry : status[t] = "running"}
    /\ UNCHANGED <<status, mode, number, registry, operatorStop, delivery, focus, wake,
                   finishing, outcome, ledger>>

-----------------------------------------------------------------------------

Loop ==
    \/ LookUp \/ FinishInline \/ YieldWait \/ Promote
    \/ Attach \/ SeeEnd \/ TimeOut \/ Detach
    \/ Recall \/ OtherCall \/ Drain \/ NaturalStop \/ StartTurn
    \/ CheckInbox \/ CountChildren \/ FallAsleep \/ Recheck \/ Unpark
    \/ StopDescendants
    \/ \E t \in Tasks : Wait(t) \/ StopTask(t) \/ Start(t)

Next ==
    \/ \E t \in Tasks : End(t) \/ Report(t) \/ OperatorStop(t) \/ Remove(t)
    \/ Loop
    \/ InterruptWait \/ CancelWait \/ Deadline \/ Abort \/ Prompt

(* A task that ended reports, the loop goes on from wherever it is (a      *)
(* model call ends, a wait has a budget), a cancelled task ends.           *)
Fairness ==
    /\ \A t \in Tasks : WF_vars(Report(t)) /\ WF_vars(t \in cancelled /\ End(t))
    /\ WF_vars(Loop)

Spec == Init /\ [][Next]_vars /\ Fairness

-----------------------------------------------------------------------------
(* Properties *)

Waits == {"starting", "awaiting", "promoting"}
Attaches == {"attaching", "attached", "settling", "expired", "interrupted"}
Parking == {"checking", "counting", "counted", "rechecking", "parked", "idle"}
Steps == {"outbox", "claim", "push", "mark", "settle"}

TypeOK ==
    /\ status \in [Tasks -> {"none", "running"} \cup Terminal]
    /\ mode \in [Tasks -> {"foreground", "background"}]
    /\ number \in [Tasks -> Nat]
    /\ registry \subseteq Tasks
    /\ cancelled \subseteq Tasks
    /\ operatorStop \subseteq cancelled
    /\ attachedTo \subseteq Tasks
    /\ claimed \subseteq Tasks
    /\ pushed \subseteq Tasks
    /\ settled \subseteq Tasks
    /\ report \in [Tasks -> {"none", "done"} \cup Steps]
    /\ outbox \in Seq(Tasks) /\ Len(outbox) <= OutboxCapacity
    /\ queued \in [Tasks -> Nat]
    /\ owner \in {"boundary", "working", "ending", "gone"}
                     \cup Waits \cup Attaches \cup Parking
    /\ focus \in Tasks \cup {NoTask}
    /\ owner \in Waits \cup Attaches => focus \in Tasks
    /\ wake \in BOOLEAN
    /\ finishing \in BOOLEAN
    /\ outcome \in {"none", "natural", "deadline", "aborted"}
    /\ told \in [Tasks -> Nat]
    /\ recalled \in [Tasks -> Nat]
    /\ promised \subseteq Tasks

(* A completion is given to the owner at most once, by its inbox, inline   *)
(* or by task_wait: "exactly once per task".                               *)
ToldAtMostOnce == \A t \in Tasks : told[t] + queued[t] <= 1

(* A completion the owner must hear of: of a background task, and for the  *)
(* main agent not one the operator stopped.                                *)
Due(t) ==
    /\ mode[t] = "background"
    /\ t \in Ended
    /\ ~(MainOwner /\ status[t] = "stopped" /\ t \in operatorStop)

(* The owner still holds the completion it claimed by its task_wait. *)
Held(t) == t \in claimed /\ focus = t /\ owner \in {"attached", "settling", "expired", "interrupted"}

(* What live_children and task_wait rely on: once a task has settled, its  *)
(* report is in the owner's hands, unless the owner is gone.               *)
SettledIsReported ==
    \A t \in settled : Due(t) => \/ told[t] + queued[t] > 0
                                 \/ Held(t)
                                 \/ owner = "gone"

(* A subagent ends by itself only when it has been told of the end of      *)
(* every task it started: none is lost between its last look at its inbox  *)
(* and the count of its live tasks.                                        *)
NaturalEndKnowsAll ==
    outcome = "natural" => \A t \in Registered : told[t] > 0

(* task_recall returns a completion the owner was already told about only  *)
(* when the registry has forgotten the task, or in the instant between     *)
(* the push and its mark.                                                  *)
RecallRepeatsOnlyForgotten ==
    [][\A t \in Tasks : recalled'[t] > recalled[t] /\ told[t] > 0
            => t \notin registry \/ report[t] = "mark"]_vars

(* Told "its completion is delivered to you separately", a subagent is.    *)
PromiseIsKept ==
    \A t \in promised : told[t] + queued[t] > 0 \/ owner = "gone"

(* Every completion due to a live owner is eventually told: the push wakes *)
(* a parked or idle owner.                                                 *)
DueIsTold == \A t \in Tasks : Due(t) ~> told[t] > 0 \/ owner \in {"ending", "gone"}

(* A parking owner all of whose tasks have settled has its wake-up: no     *)
(* settle is lost between its count of them and its sleep, also when       *)
(* another agent removes a task meanwhile.                                 *)
ParkedIsWoken == owner \in {"counted", "parked"} /\ Registered \subseteq settled => wake

-----------------------------------------------------------------------------
(* What the protocol is for: CompletionDelivery, where a task's phase      *)
(* forgets how it ended and the owner's end why it ended early.            *)

Phase ==
    [t \in Tasks |-> CASE status[t] = "none" -> "unknown"
                       [] status[t] = "running" -> "live"
                       [] status[t] \in Terminal -> "ended"]

Over ==
    CASE outcome = "none" -> "no"
      [] outcome = "natural" -> "natural"
      [] outcome \in {"deadline", "aborted"} -> "early"

Delivery == INSTANCE CompletionDelivery WITH phase <- Phase, over <- Over

(* A subagent's claims, pushes and parking deliver every completion as     *)
(* CompletionDelivery says.                                                *)
ImplementsDelivery == Delivery!Spec
=============================================================================
