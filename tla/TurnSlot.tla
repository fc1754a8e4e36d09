-------------------------------- MODULE TurnSlot --------------------------------
(***************************************************************************)
(* The one turn slot of `coda serve` and what reaches a turn from outside: *)
(* claims, the cancel token, the remembered interrupt, operator steering,  *)
(* shutdown and the planned restart's cancellation                         *)
(* (coda-serve/src/host.rs, coda-serve/src/state/mod.rs,                    *)
(* coda-agent/src/steering.rs).                                            *)
(*                                                                         *)
(* Prompts, compactions, maintenance and initialization exclude each other *)
(* through the flag turn_active, under the lock TURN.  The public state    *)
(* (lifecycle, turn) is written under another lock, the cancel token and   *)
(* the pending interrupt each under their own: every request runs in its   *)
(* own task, so it can be overtaken between any two of these locks.        *)
(*                                                                         *)
(* Turn ids are the order of the claims.  The holder of the slot is one    *)
(* process, its place in `at`; it holds TURN where TurnLocked says so.     *)
(***************************************************************************)
EXTENDS Naturals, FiniteSets

CONSTANTS Messages,     \* steering messages an operator may send
          Interrupts,   \* session/interrupt requests
          MaxTurns      \* bound: claims of the slot

ASSUME BoundsAssumption ==
    /\ IsFiniteSet(Interrupts) /\ {"shutdown", "restart"} \cap Interrupts = {}
    /\ MaxTurns \in Nat

VARIABLES
    lifecycle,    \* StateInner: lifecycle
    initialized,  \* StateInner: initialized
    draining,     \* StateInner: drain.is_some()
    turn,         \* StateInner: id of the public turn, or NoTurn
    busy,         \* turn_active
    kind,         \* what the holder is: a TurnKind, or "init"
    at,           \* where the holder is; "none" when nobody holds the slot
    turns,        \* turn ids minted by claims so far; the holder's is the last
    observer,     \* SteeringStateObserver: current_turn_id
    sealed,       \* SteeringInbox: sealed_empty
    pending,      \* SteeringInbox: pending
    token,        \* current_cancel: the turn whose token it holds, or NoTurn
    pendingInterrupt,
    cancelled,    \* turns whose token was cancelled while they ran
    stop,         \* where each interrupt, the shutdown and the restart are
    aim,          \* history: the turn an interrupt found when it was checked
    sentIn,       \* history: the turn in which a message was accepted
    fate          \* history: what became of accepted messages, with the turn reported

stateVars == <<lifecycle, initialized, draining, turn>>
slotVars  == <<busy, kind, at, turns, observer>>
inboxVars == <<sealed, pending, sentIn, fate>>
stopVars  == <<token, pendingInterrupt, cancelled, stop, aim>>
vars == <<stateVars, slotVars, inboxVars, stopVars>>

NoTurn == 0
TurnIds == 0..MaxTurns
Stoppers == Interrupts \cup {"shutdown", "restart"}
Outcomes == [message : Messages, outcome : {"delivered", "recalled", "dropped"}, turn : TurnIds]

Init ==
    /\ lifecycle = "initializing" /\ initialized = FALSE /\ draining = FALSE
    /\ turn = NoTurn
    /\ busy = FALSE /\ kind = "none" /\ at = "none" /\ turns = 0
    /\ observer = NoTurn
    /\ sealed = FALSE /\ pending = {}
    /\ token = NoTurn /\ pendingInterrupt = FALSE /\ cancelled = {}
    /\ stop = [s \in Stoppers |-> "idle"]
    /\ aim = [i \in Interrupts |-> NoTurn]
    /\ sentIn = [m \in Messages |-> NoTurn]
    /\ fate = {}

Ended == lifecycle \in {"stopping", "stopped"}

\* The holder is inside a section under TURN: everyone else waits for it.
TurnLocked == at \in {"admitted", "unwinding", "freed"}

\* The holder has a turn of its own (an initialization has none).
Running == at # "none" /\ kind # "init"

-----------------------------------------------------------------------------
(* Claiming.  The public state is opened under STATE before the flag is    *)
(* set; TURN is held from the first check to the last assignment.          *)

(* Slip: the check is made before the claim, and a shutdown overtakes it. *)
AdmitsStale == ~draining

\* try_begin_turn's refusals.
Admits == ~Ended /\ ~draining

ClaimTurn(k) ==
    /\ at = "none" /\ ~busy
    /\ Admits
    /\ turns < MaxTurns
    /\ lifecycle' = "busy"
    /\ turns' = turns + 1
    /\ turn' = turns + 1
    /\ kind' = k
    /\ at' = "admitted"
    /\ UNCHANGED <<initialized, draining, busy, observer, inboxVars, stopVars>>

\* A prompt unseals the inbox; the others seal it, but only if it is empty.
OpenTurn ==
    /\ at = "admitted" /\ kind # "init"
    /\ busy' = TRUE
    /\ sealed' = IF kind = "prompt" THEN FALSE ELSE sealed \/ pending = {}
    /\ observer' = turns
    /\ at' = "preparing"
    /\ UNCHANGED <<stateVars, kind, turns, pending, sentIn, fate, stopVars>>

\* try_claim_initialization and begin_initialization.  A draining engine is
\* not taken back to initializing.
ClaimInitialization ==
    /\ at = "none" /\ ~busy
    /\ ~Ended
    /\ lifecycle' = IF lifecycle = "draining" THEN lifecycle ELSE "initializing"
    /\ kind' = "init"
    /\ at' = "admitted"
    /\ UNCHANGED <<initialized, draining, turn, busy, turns, observer, inboxVars, stopVars>>

OpenInitialization ==
    /\ at = "admitted" /\ kind = "init"
    /\ busy' = TRUE
    /\ at' = "preparing"
    /\ UNCHANGED <<stateVars, kind, turns, observer, inboxVars, stopVars>>

-----------------------------------------------------------------------------
(* The course of a turn.                                                   *)

Move(to) == at' = to /\ UNCHANGED <<busy, kind, turns>>

\* A prompt's token and a compaction's; the compaction goes straight to work.
PublishToken ==
    /\ at = "preparing" /\ kind \in {"prompt", "compaction"}
    /\ token' = turns
    /\ Move(IF kind = "prompt" THEN "published" ELSE "running")
    /\ UNCHANGED <<stateVars, observer, inboxVars, pendingInterrupt, cancelled, stop, aim>>

(* Slips: the flag is left for the next turn; the flag is cleared unread. *)
PendingStays == UNCHANGED pendingInterrupt
HeedNothing  == {}

PendingConsumed == pendingInterrupt' = FALSE

Heed == IF pendingInterrupt THEN {turns} ELSE {}

\* The look at the remembered interrupt, under its own lock; then the agent
\* is built and its run reopens the inbox.
CheckPending ==
    /\ at = "published"
    /\ cancelled' = cancelled \cup Heed
    /\ PendingConsumed
    /\ sealed' = FALSE
    /\ Move("running")
    /\ UNCHANGED <<stateVars, observer, pending, sentIn, fate, token, stop, aim>>

Report(ms, what, t) == {[message |-> m, outcome |-> what, turn |-> t] : m \in ms}

\* take_all_for_delivery, at the top of an iteration or before a tool.
Deliver ==
    /\ at = "running" /\ kind = "prompt"
    /\ pending # {}
    /\ fate' = fate \cup Report(pending, "delivered", observer)
    /\ pending' = {}
    /\ UNCHANGED <<stateVars, slotVars, sealed, sentIn, stopVars>>

\* try_seal_empty at a natural stop: a message that raced in means one more
\* iteration.
NaturalStop ==
    /\ at = "running" /\ kind = "prompt"
    /\ pending = {}
    /\ sealed' = TRUE
    /\ Move("ended")
    /\ UNCHANGED <<stateVars, observer, pending, sentIn, fate, stopVars>>

\* Cancelled, failed, out of budget: agent.run returns with the inbox open.
AbortRun ==
    /\ at = "running" /\ kind = "prompt"
    /\ Move("ended")
    /\ UNCHANGED <<stateVars, observer, inboxVars, stopVars>>

\* close_for_turn: what was never delivered is dropped, and reported.
CloseInbox ==
    /\ fate' = fate \cup Report(pending, "dropped", observer)
    /\ pending' = {}
    /\ sealed' = TRUE
    /\ UNCHANGED sentIn

CloseForTurn ==
    /\ at = "ended"
    /\ CloseInbox
    /\ Move("closed")
    /\ UNCHANGED <<stateVars, observer, stopVars>>

\* current_cancel = None, after the seal.
ClearToken ==
    /\ at = "closed"
    /\ token' = NoTurn
    /\ Move("cleared")
    /\ UNCHANGED <<stateVars, observer, inboxVars, pendingInterrupt, cancelled, stop, aim>>

\* The compaction's model call returned, or saw its token cancelled.
CompactionEnds ==
    /\ at = "running" /\ kind = "compaction"
    /\ token' = NoTurn
    /\ Move("cleared")
    /\ UNCHANGED <<stateVars, observer, inboxVars, pendingInterrupt, cancelled, stop, aim>>

(* Slip: the end of the turn announces the engine as ready. *)
EndTurnIsReady == turn' = NoTurn /\ lifecycle' = (IF lifecycle = "busy" THEN "ready" ELSE lifecycle)

EndTurn == turn' = NoTurn /\ UNCHANGED lifecycle

\* The transcript is saved, then the turn reaches its public outcome; only a
\* prompt that got this far also clears the steering observer.  A prompt
\* that fails before its token, an empty compaction and maintenance come
\* here straight from `preparing`.
Finish ==
    /\ at = "cleared" \/ (at = "preparing" /\ kind # "init")
    /\ EndTurn
    /\ observer' = IF at = "cleared" /\ kind = "prompt" THEN NoTurn ELSE observer
    /\ Move("finished")
    /\ UNCHANGED <<initialized, draining, inboxVars, stopVars>>

-----------------------------------------------------------------------------
(* Releasing.  The guard's drop runs at the end, and when the turn's       *)
(* future panics or is dropped, wherever it is.                            *)

(* Slip: the guard leaves the inbox to the turn. *)
GuardLeavesInbox == UNCHANGED inboxVars

GuardClosesInbox == CloseInbox

Unwind ==
    /\ kind # "init"
    /\ at \in {"preparing", "published", "running", "ended", "closed", "cleared", "finished"}
    /\ GuardClosesInbox
    /\ turn' = IF turn = turns THEN NoTurn ELSE turn
    /\ observer' = NoTurn
    /\ Move("unwinding")
    /\ UNCHANGED <<lifecycle, initialized, draining, stopVars>>

\* busy = false, in the guards of a turn and of an initialization.
FreeSlot ==
    /\ at = "unwinding" \/ (at = "preparing" /\ kind = "init")
    /\ busy' = FALSE
    /\ at' = "freed"
    /\ UNCHANGED <<stateVars, kind, turns, observer, inboxVars, stopVars>>

\* release_turn, still under TURN: never over a shutdown or a drain.
ReleaseTurn ==
    /\ at = "freed" /\ kind # "init"
    /\ lifecycle' = IF turn = NoTurn /\ lifecycle = "busy" THEN "ready" ELSE lifecycle
    /\ at' = "none" /\ kind' = "none"
    /\ UNCHANGED <<initialized, draining, turn, busy, turns, observer, inboxVars, stopVars>>

\* finish_initialization, for one that completed and for one that did not.
FinishInitialization ==
    /\ at = "freed" /\ kind = "init"
    /\ IF Ended
       THEN UNCHANGED <<lifecycle, initialized>>
       ELSE /\ initialized' \in {initialized, TRUE}
            /\ lifecycle' = IF initialized' /\ lifecycle = "initializing" THEN "ready" ELSE lifecycle
    /\ at' = "none" /\ kind' = "none"
    /\ UNCHANGED <<draining, turn, busy, turns, observer, inboxVars, stopVars>>

-----------------------------------------------------------------------------
(* Steering.                                                               *)

\* session/steer holds TURN across its check and the enqueue; a sealed inbox
\* answers turnEnding, which changes nothing.
Steer(m) ==
    /\ ~TurnLocked
    /\ sentIn[m] = NoTurn
    /\ busy /\ observer # NoTurn
    /\ ~sealed
    /\ pending' = pending \cup {m}
    /\ sentIn' = [sentIn EXCEPT ![m] = turns]
    /\ UNCHANGED <<stateVars, slotVars, sealed, fate, stopVars>>

\* recall_all: session/recallSteering, and a restart that saves the queue.
Recall ==
    /\ pending # {}
    /\ fate' = fate \cup Report(pending, "recalled", NoTurn)
    /\ pending' = {}
    /\ UNCHANGED <<stateVars, slotVars, sealed, sentIn, stopVars>>

-----------------------------------------------------------------------------
(* Stopping a turn from outside.                                           *)

Advance(s, from, to) == stop[s] = from /\ stop' = [stop EXCEPT ![s] = to]

\* A token outlives its turn only when a panic kept the turn from clearing
\* it; cancelling that one stops nobody.
Live == IF Running THEN {turns} ELSE {}

\* current_cancel.take() and, if there was a token, its cancellation.
TakeToken ==
    /\ cancelled' = cancelled \cup ({token} \cap Live)
    /\ token' = NoTurn

\* A holder without an observer is an initialization or a turn past its end:
\* the request fails.  TURN is let go before the token is looked at.
InterruptChecks(i) ==
    /\ ~TurnLocked
    /\ ~(busy /\ observer = NoTurn)
    /\ Advance(i, "idle", "checked")
    /\ aim' = [aim EXCEPT ![i] = IF busy THEN turns ELSE NoTurn]
    /\ UNCHANGED <<stateVars, slotVars, inboxVars, token, pendingInterrupt, cancelled>>

InterruptTakes(i) ==
    /\ Advance(i, "checked", IF token = NoTurn THEN "missed" ELSE "done")
    /\ TakeToken
    /\ UNCHANGED <<stateVars, slotVars, inboxVars, pendingInterrupt, aim>>

InterruptRemembers(i) ==
    /\ Advance(i, "missed", "done")
    /\ pendingInterrupt' = TRUE
    /\ UNCHANGED <<stateVars, slotVars, inboxVars, token, cancelled, aim>>

BeginDraining ==
    /\ ~draining /\ ~Ended
    /\ Advance("restart", "idle", "draining")
    /\ draining' = TRUE
    /\ lifecycle' = "draining"
    /\ UNCHANGED <<initialized, turn, slotVars, inboxVars, token, pendingInterrupt, cancelled, aim>>

\* cancel_current_turn, when the turn outlived the drain's deadline.
RestartTakes ==
    /\ Advance("restart", "draining", IF token = NoTurn THEN "missed" ELSE "done")
    /\ TakeToken
    /\ UNCHANGED <<stateVars, slotVars, inboxVars, pendingInterrupt, aim>>

RestartLooks ==
    /\ ~TurnLocked
    /\ Advance("restart", "missed", IF busy THEN "active" ELSE "done")
    /\ UNCHANGED <<stateVars, slotVars, inboxVars, token, pendingInterrupt, cancelled, aim>>

RestartRemembers ==
    /\ Advance("restart", "active", "done")
    /\ pendingInterrupt' = TRUE
    /\ UNCHANGED <<stateVars, slotVars, inboxVars, token, cancelled, aim>>

ShutdownStarts ==
    /\ Advance("shutdown", "idle", "started")
    /\ lifecycle' = "stopping"
    /\ UNCHANGED <<initialized, draining, turn, slotVars, inboxVars, token, pendingInterrupt, cancelled, aim>>

(* Slip: the flag is set only for a turn that has its token already. *)
ArmIfPublished == pendingInterrupt' = (pendingInterrupt \/ token # NoTurn)

\* The shutdown sets the flag before it takes the token.
Arm == pendingInterrupt' = TRUE

ShutdownArms ==
    /\ Advance("shutdown", "started", "armed")
    /\ Arm
    /\ UNCHANGED <<stateVars, slotVars, inboxVars, token, cancelled, aim>>

ShutdownTakes ==
    /\ Advance("shutdown", "armed", "taken")
    /\ TakeToken
    /\ UNCHANGED <<stateVars, slotVars, inboxVars, pendingInterrupt, aim>>

\* Services, tasks and the bus are stopped in between; the turn is not
\* waited for.
ShutdownCompletes ==
    /\ Advance("shutdown", "taken", "done")
    /\ lifecycle' = "stopped"
    /\ UNCHANGED <<initialized, draining, turn, slotVars, inboxVars, token, pendingInterrupt, cancelled, aim>>

-----------------------------------------------------------------------------
Claim == ClaimInitialization \/ \E k \in {"prompt", "compaction", "maintenance"} : ClaimTurn(k)

\* What the holder does next without being told to: everything but the end
\* of a model's work, which may take for ever.
Proceed ==
    \/ OpenTurn \/ OpenInitialization
    \/ PublishToken \/ CheckPending
    \/ CloseForTurn \/ ClearToken \/ Finish
    \/ (at = "finished" /\ Unwind)
    \/ FreeSlot \/ ReleaseTurn \/ FinishInitialization

Panic == at # "finished" /\ Unwind

Interrupt(i) == InterruptChecks(i) \/ InterruptTakes(i) \/ InterruptRemembers(i)
Restart == BeginDraining \/ RestartTakes \/ RestartLooks \/ RestartRemembers
Shutdown == ShutdownStarts \/ ShutdownArms \/ ShutdownTakes \/ ShutdownCompletes

Next ==
    \/ Claim \/ Proceed \/ Panic
    \/ Deliver \/ NaturalStop \/ AbortRun \/ CompactionEnds
    \/ Recall
    \/ \E m \in Messages : Steer(m)
    \/ \E i \in Interrupts : Interrupt(i)
    \/ Restart \/ Shutdown

Spec == Init /\ [][Next]_vars

(* Tasks are scheduled fairly, and an agent run or a compaction whose token *)
(* is cancelled ends: every wait of theirs selects on it.  Nothing makes a *)
(* run that was not cancelled end, nor anybody send a request.             *)
EndWhenCancelled == turns \in cancelled /\ (AbortRun \/ CompactionEnds)

FairSpec == Spec /\ WF_vars(Proceed) /\ WF_vars(EndWhenCancelled)

-----------------------------------------------------------------------------
(* Properties.                                                             *)

Places == {"none", "admitted", "preparing", "published", "running", "ended",
           "closed", "cleared", "finished", "unwinding", "freed"}
Stages == {"idle", "checked", "missed", "done", "draining", "active", "started", "armed", "taken"}

(* The variables stay within their ranges. *)
TypeOK ==
    /\ lifecycle \in {"initializing", "ready", "busy", "draining", "stopping", "stopped"}
    /\ initialized \in BOOLEAN /\ draining \in BOOLEAN
    /\ turn \in TurnIds /\ turns \in TurnIds /\ observer \in TurnIds
    /\ busy \in BOOLEAN
    /\ kind \in {"none", "init", "prompt", "compaction", "maintenance"}
    /\ at \in Places
    /\ sealed \in BOOLEAN /\ pending \subseteq Messages
    /\ token \in TurnIds /\ pendingInterrupt \in BOOLEAN
    /\ cancelled \subseteq TurnIds
    /\ stop \in [Stoppers -> Stages]
    /\ aim \in [Interrupts -> TurnIds]
    /\ sentIn \in [Messages -> TurnIds]
    /\ fate \subseteq Outcomes

(* What a client reads is what it gets: `ready` is public only while the   *)
(* slot is free, no turn is public and no drain has begun, so that a       *)
(* prompt sent then is not refused as busy; and `busy` is public only      *)
(* while something holds the slot, so that it cannot stay for ever         *)
(* (host.rs, I1 and C6 in Drop for TurnGuard and try_claim_turn).          *)
LifecycleTruthful ==
    /\ lifecycle = "ready" => ~busy /\ turn = NoTurn /\ ~draining
    /\ lifecycle = "busy" => Running
    /\ turn # NoTurn => Running /\ turn = turns

(* A steering message accepted in a turn is delivered to that turn, or     *)
(* recalled, or dropped at its end, exactly once, and reported with that   *)
(* turn; it never waits in the inbox without its turn, so it never leaks   *)
(* into the next one (steering.rs, close_for_turn; host.rs, I5 in          *)
(* session_steer).                                                         *)
SteerLandsInItsTurn ==
    /\ \A m \in pending : Running /\ kind = "prompt" /\ sentIn[m] = turns
    /\ \A o \in fate : /\ o.message \notin pending
                       /\ o.outcome # "recalled" => o.turn = sentIn[o.message]
                       /\ \A p \in fate : p.message = o.message => p = o
    /\ \A m \in Messages : sentIn[m] # NoTurn =>
           m \in pending \/ \E o \in fate : o.message = m

(* Once the shutdown has looked for the token, a prompt whose agent runs   *)
(* has been cancelled, wherever the shutdown overtook its claim, its token *)
(* and its look at the flag (host.rs, shutdown: "Cover the                 *)
(* token-publication race explicitly").                                    *)
StoppedTurnIsTold ==
    stop["shutdown"] \in {"taken", "done"} /\ kind = "prompt" /\ at = "running"
        => turns \in cancelled

Stopped(s) == stop[s] \in {"active", "armed", "taken", "done"}

(* One request stops one turn at most: turns are not cancelled more often  *)
(* than interrupts, shutdowns and restarts got to it, whatever is          *)
(* remembered from one turn to the next (host.rs, run_prompt_inner clears  *)
(* the flag it heeds).                                                     *)
OneStopOneTurn ==
    Cardinality(cancelled) <= Cardinality({s \in Stoppers : Stopped(s)})

(* A prompt that holds the slot when the shutdown has gone through gives   *)
(* it back: it is told to end at whatever point it is.                     *)
StoppedTurnEnds ==
    (stop["shutdown"] \in {"taken", "done"} /\ kind = "prompt") ~> (at = "none")

(* An interrupt that found a prompt in the slot, and was answered, has     *)
(* cancelled that prompt by the time its agent runs ("Record a pending     *)
(* interrupt so run_prompt_inner will cancel as soon as it publishes the   *)
(* token", host.rs, session_interrupt).  The code does not ensure it.      *)
InterruptReachesTurn ==
    \A i \in Interrupts :
        stop[i] = "done" /\ aim[i] = turns /\ kind = "prompt" /\ at = "running"
            => turns \in cancelled
=============================================================================
