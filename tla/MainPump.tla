-------------------------------- MODULE MainPump --------------------------------
(***************************************************************************)
(* The idle main-inbox pump of `coda serve`                                *)
(* (coda-serve/src/host.rs, main_inbox_pump and main_pump_step).           *)
(*                                                                         *)
(* A message accepted on the main inbox while no turn runs must start one. *)
(* One pump task does that: it parks on a tokio Notify, and every event    *)
(* that could let it make progress (an accepted message, a provider        *)
(* wired, the turn slot released) signals that Notify.  The pump's own     *)
(* failed turn releases the slot too, so it wakes itself: a recorded block *)
(* keeps that from becoming a spin.                                        *)
(*                                                                         *)
(* The queue's content is MainInbox's business; here it is two counters.   *)
(* Every wait and every lock release of the pump is a step boundary.       *)
(***************************************************************************)
EXTENDS Naturals

CONSTANTS MaxAccepted,   \* bound: messages accepted on the main inbox
          MaxWirings,    \* bound: provider clients installed
          MaxClaims      \* bound: claims of the turn slot by others than the pump

ASSUME BoundsAssumption ==
    MaxAccepted \in Nat /\ MaxWirings \in Nat /\ MaxClaims \in Nat

VARIABLES
    accepted,     \* main_seq: messages ever accepted
    deliveredSeq, \* main_delivered_seq: messages ever drained by a turn
    wired,       \* whether a provider client is in place
    generation,  \* provider_generation
    draining,    \* a planned restart has begun
    slot,        \* who holds turn_active: "free", "pump", "prompt", "admin", "init"
    claims,      \* claims made by others than the pump (bounded)
    unsignalled, \* guards that freed the slot and have not yet signalled the wake
    permit,      \* the permit stored in main_wake
    waiter,      \* the pump's Notified: "none", "waiting", "notified", "done"
    pump,        \* where the pump is
    block,       \* the pump's local MainPumpBlock
    locals,      \* main_pump_step: generation and delivered_before
    began,       \* history: what the last attempt started from
    fruitless,   \* history: attempts that ended in a block
    starter,     \* ensure_main_pump_started: "idle", "called", "checked"
    shutdown     \* "no", "stopping", "cancelled", "joined"

queueVars == <<accepted, deliveredSeq>>
hostVars  == <<wired, generation, draining>>
slotVars  == <<slot, claims, unsignalled>>
wakeVars  == <<permit, waiter>>
pumpVars  == <<pump, block, locals, began, fruitless>>
lifeVars  == <<starter, shutdown>>
mainPumpVars == <<queueVars, hostVars, slotVars, wakeVars, pumpVars, lifeVars>>

Pending   == accepted > deliveredSeq
Stopping  == shutdown # "no"
Cancelled == shutdown \in {"cancelled", "joined"}

NoBlock == [kind |-> "none", generation |-> 0, seq |-> 0]

PumpInit ==
    /\ accepted = 0 /\ deliveredSeq = 0
    /\ wired \in BOOLEAN /\ generation = 0
    /\ draining = FALSE
    /\ slot = "free" /\ claims = 0 /\ unsignalled = 0
    /\ permit = FALSE /\ waiter = "none"
    /\ pump = "off" /\ block = NoBlock
    /\ locals = [generation |-> 0, delivered |-> 0]
    /\ began = [generation |-> 0, seq |-> 0]
    /\ fruitless = 0
    /\ starter = "idle" /\ shutdown = "no"

-----------------------------------------------------------------------------
(* The Notify (tokio, external): notify_one hands the wake to a waiting   *)
(* Notified, or stores one permit; enabling a new Notified consumes the   *)
(* permit, and a Notified dropped after it was handed a wake it never     *)
(* polled gives it back.                                                  *)

NotifyOne ==
    IF waiter = "waiting"
    THEN waiter' = "notified" /\ UNCHANGED permit
    ELSE permit' = TRUE /\ UNCHANGED waiter

\* Dropping the previous Notified and enabling the next one.
Enable ==
    /\ waiter' = IF permit \/ waiter = "notified" THEN "done" ELSE "waiting"
    /\ permit' = FALSE

-----------------------------------------------------------------------------
(* What moves around the pump.                                             *)

\* publish_main and its observer: under the bus's gate, so the message and
\* its wake are one step.
AcceptMain ==
    /\ accepted < MaxAccepted /\ shutdown # "joined"
    /\ accepted' = accepted + 1
    /\ NotifyOne
    /\ UNCHANGED <<deliveredSeq, hostVars, slotVars, pumpVars, lifeVars>>

\* Installing a client, then note_provider_wired: the client mutex is held
\* across all three, and whoever reads the client takes that mutex.
InstallClient ==
    /\ generation < MaxWirings
    /\ ~Stopping                       \* commit_config refuses a stopping engine
    /\ wired' = TRUE
    /\ generation' = generation + 1
    /\ NotifyOne

\* initialize(apiKey) installs a client, whether or not one was there; a
\* prompt wires one from the saved credentials if it finds none.
WireProvider ==
    /\ \/ slot = "init"
       \/ slot = "prompt" /\ ~wired
    /\ InstallClient
    /\ UNCHANGED <<queueVars, draining, slotVars, pumpVars, lifeVars>>

BeginDraining ==
    /\ ~draining /\ ~Stopping
    /\ draining' = TRUE
    /\ UNCHANGED <<queueVars, wired, generation, slotVars, wakeVars, pumpVars, lifeVars>>

\* try_claim_turn and try_claim_initialization, for everyone but the pump.
\* Only an initialization is admitted while draining.
ClaimSlot(holder) ==
    /\ claims < MaxClaims
    /\ slot = "free" /\ ~Stopping
    /\ draining => holder = "init"
    /\ slot' = holder
    /\ claims' = claims + 1
    /\ UNCHANGED <<queueVars, hostVars, unsignalled, wakeVars, pumpVars, lifeVars>>

DeliveredThrough == accepted

\* Step 4c of the main agent loop: the turn drains the whole queue.
Deliver ==
    /\ slot = "prompt" \/ (slot = "pump" /\ pump = "running")
    /\ Pending
    /\ deliveredSeq' = DeliveredThrough
    /\ UNCHANGED <<accepted, hostVars, slotVars, wakeVars, pumpVars, lifeVars>>

(* Slip: the guard frees the slot and tells nobody. *)
GuardSignalsNothing == UNCHANGED wakeVars

GuardSignals == NotifyOne

\* The guard frees the slot under TURN and signals after unlocking it.  A
\* finished initialization goes on to start the pump.
ReleaseSlot ==
    /\ slot \in {"prompt", "admin", "init"}
    /\ slot' = "free"
    /\ unsignalled' = unsignalled + 1
    /\ \/ UNCHANGED starter
       \/ slot = "init" /\ ~Stopping /\ starter = "idle" /\ starter' = "called"
    /\ UNCHANGED <<queueVars, hostVars, claims, wakeVars, pumpVars, shutdown>>

SignalRelease ==
    /\ unsignalled > 0
    /\ unsignalled' = unsignalled - 1
    /\ GuardSignals
    /\ UNCHANGED <<queueVars, hostVars, slot, claims, pumpVars, lifeVars>>

\* ensure_main_pump_started: the cancellation is read before the handle's
\* lock is taken, so a shutdown may fall in between; it also takes the
\* handle, so that a start after it spawns a task again.
CheckStart ==
    /\ starter = "called"
    /\ starter' = IF Cancelled THEN "idle" ELSE "checked"
    /\ UNCHANGED <<queueVars, hostVars, slotVars, wakeVars, pumpVars, shutdown>>

SpawnPump ==
    /\ starter = "checked"
    /\ starter' = "idle"
    /\ pump' = IF pump = "off" \/ shutdown = "joined" THEN "arming" ELSE pump
    /\ UNCHANGED <<queueVars, hostVars, slotVars, wakeVars, block, locals, began, fruitless, shutdown>>

-----------------------------------------------------------------------------
(* The pump.                                                               *)

(* Slip: a fresh loop iteration does not look at the cancellation. *)
CancelUnseen == FALSE

CancelSeen == Cancelled

Arm ==
    /\ pump = "arming"
    /\ Enable
    /\ pump' = IF CancelSeen THEN "ended" ELSE "looking"
    /\ UNCHANGED <<queueVars, hostVars, slotVars, block, locals, began, fruitless, lifeVars>>

Look ==
    /\ pump = "looking"
    /\ IF Pending
       THEN pump' = "gating" /\ UNCHANGED block
       ELSE pump' = "parked" /\ block' = NoBlock
    /\ UNCHANGED <<queueVars, hostVars, slotVars, wakeVars, locals, began, fruitless, lifeVars>>

IsClearedBy(b) ==
    \/ b.generation # generation
    \/ b.kind = "no_progress" /\ b.seq # accepted

Suppressed == block.kind # "none" /\ ~IsClearedBy(block)

Gate ==
    /\ pump = "gating"
    /\ IF draining \/ Suppressed
       THEN pump' = "parked" /\ UNCHANGED <<block, began>>
       ELSE /\ pump' = "wiring"
            /\ block' = NoBlock
            /\ began' = [generation |-> generation, seq |-> accepted]
    /\ UNCHANGED <<queueVars, hostVars, slotVars, wakeVars, locals, fruitless, lifeVars>>

\* wire_client_from_env_if_missing: credentials may or may not be found.
Wire ==
    /\ pump = "wiring"
    /\ pump' = "reading"
    /\ \/ UNCHANGED <<wired, generation, wakeVars>>
       \/ ~wired /\ InstallClient
    /\ UNCHANGED <<queueVars, draining, slotVars, block, locals, began, fruitless, lifeVars>>

ReadGeneration ==
    /\ pump = "reading"
    /\ locals' = [locals EXCEPT !.generation = generation]
    /\ pump' = "checking"
    /\ UNCHANGED <<queueVars, hostVars, slotVars, wakeVars, block, began, fruitless, lifeVars>>

CheckClient ==
    /\ pump = "checking"
    /\ pump' = IF wired THEN "claiming" ELSE "clientless"
    /\ locals' = IF wired THEN [locals EXCEPT !.delivered = deliveredSeq] ELSE locals
    /\ UNCHANGED <<queueVars, hostVars, slotVars, wakeVars, block, began, fruitless, lifeVars>>

(* Slip: the generation is read when the block is recorded. *)
UnavailableSinceNow == [kind |-> "unavailable", generation |-> generation, seq |-> 0]

(* Slip: the attempt that achieved nothing leaves no trace. *)
NoProgressForgotten == NoBlock

UnavailableBlock == [kind |-> "unavailable", generation |-> locals.generation, seq |-> 0]
NoProgressBlock  == [kind |-> "no_progress", generation |-> generation, seq |-> accepted]

RecordUnavailable ==
    /\ pump = "clientless"
    /\ block' = UnavailableBlock
    /\ fruitless' = fruitless + 1
    /\ pump' = "parked"
    /\ UNCHANGED <<queueVars, hostVars, slotVars, wakeVars, locals, began, lifeVars>>

\* try_claim_turn_if: a draining engine answers before a busy one, and the
\* queue is looked at again under TURN.
ClaimIsRefused == draining \/ slot # "free" \/ ~Pending

ClaimRefused ==
    /\ pump = "claiming" /\ ClaimIsRefused
    /\ pump' = "parked"
    /\ UNCHANGED <<queueVars, hostVars, slotVars, wakeVars, block, locals, began, fruitless, lifeVars>>

ClaimStopped ==
    /\ pump = "claiming" /\ ~ClaimIsRefused /\ Stopping
    /\ pump' = "ended"
    /\ UNCHANGED <<queueVars, hostVars, slotVars, wakeVars, block, locals, began, fruitless, lifeVars>>

ClaimGranted ==
    /\ pump = "claiming" /\ ~ClaimIsRefused /\ ~Stopping
    /\ slot' = "pump"
    /\ pump' = "running"
    /\ UNCHANGED <<queueVars, hostVars, claims, unsignalled, wakeVars,
                   block, locals, began, fruitless, lifeVars>>

\* The pending startup effort cannot be applied: the attempt fails before
\* the slot is claimed, and no guard will signal.
ClaimFails ==
    /\ pump = "claiming"
    /\ pump' = "judging"
    /\ UNCHANGED <<queueVars, hostVars, slotVars, wakeVars, block, locals, began, fruitless, lifeVars>>

\* The pump's turn ends (completed, failed or interrupted, delivered or not).
EndRun ==
    /\ pump = "running"
    /\ slot' = "free"
    /\ pump' = "signalling"
    /\ UNCHANGED <<queueVars, hostVars, claims, unsignalled, wakeVars,
                   block, locals, began, fruitless, lifeVars>>

SignalOwnRelease ==
    /\ pump = "signalling"
    /\ GuardSignals
    /\ pump' = "judging"
    /\ UNCHANGED <<queueVars, hostVars, slotVars, block, locals, began, fruitless, lifeVars>>

\* Delivered anything since delivered_before: look again at once.
Judge ==
    /\ pump = "judging"
    /\ pump' = IF deliveredSeq > locals.delivered THEN "arming" ELSE "blocking"
    /\ UNCHANGED <<queueVars, hostVars, slotVars, wakeVars, block, locals, began, fruitless, lifeVars>>

RecordNoProgress ==
    /\ pump = "blocking"
    /\ block' = NoProgressBlock
    /\ fruitless' = fruitless + 1
    /\ pump' = "parked"
    /\ UNCHANGED <<queueVars, hostVars, slotVars, wakeVars, locals, began, lifeVars>>

\* The select of the parked pump: the wake, or the cancellation.
WakeUp ==
    /\ pump = "parked" /\ waiter \in {"notified", "done"}
    /\ waiter' = "none"
    /\ pump' = "arming"
    /\ UNCHANGED <<queueVars, hostVars, slotVars, permit, block, locals, began, fruitless, lifeVars>>

ParkCancelled ==
    /\ pump = "parked" /\ Cancelled
    /\ pump' = "ended"
    /\ UNCHANGED <<queueVars, hostVars, slotVars, wakeVars, block, locals, began, fruitless, lifeVars>>

-----------------------------------------------------------------------------
(* shutdown: publish stopping, cancel the pump, join it.                   *)

BeginShutdown ==
    /\ shutdown = "no"
    /\ shutdown' = "stopping"
    /\ UNCHANGED <<queueVars, hostVars, slotVars, wakeVars, pumpVars, starter>>

CancelPump ==
    /\ shutdown = "stopping"
    /\ shutdown' = "cancelled"
    /\ NotifyOne
    /\ UNCHANGED <<queueVars, hostVars, slotVars, pumpVars, starter>>

(* Slip: joining assumes a pump was started. *)
HandleIsThere == pump = "ended"

\* There is no handle to take, or the task has ended.
NothingToJoin == pump \in {"off", "ended"}

JoinPump ==
    /\ shutdown = "cancelled" /\ NothingToJoin
    /\ shutdown' = "joined"
    /\ UNCHANGED <<queueVars, hostVars, slotVars, wakeVars, pumpVars, starter>>

\* The grace period is over: the task is aborted at whatever await it is in,
\* and dropping its turn guard frees the slot.
AbortPump ==
    /\ shutdown = "cancelled" /\ pump \notin {"off", "ended"}
    /\ pump' = "ended"
    /\ IF pump = "running"
       THEN slot' = "free" /\ NotifyOne
       ELSE UNCHANGED <<slot, wakeVars>>
    /\ shutdown' = "joined"
    /\ UNCHANGED <<queueVars, hostVars, claims, unsignalled,
                   block, locals, began, fruitless, starter>>

-----------------------------------------------------------------------------
Refused == ClaimRefused \/ ClaimStopped \/ ClaimFails

PumpStep ==
    \/ Arm \/ Look \/ Gate \/ Wire \/ ReadGeneration \/ CheckClient
    \/ RecordUnavailable \/ Refused \/ ClaimGranted
    \/ EndRun \/ SignalOwnRelease \/ Judge \/ RecordNoProgress
    \/ WakeUp \/ ParkCancelled

PumpNext ==
    \/ AcceptMain \/ WireProvider \/ BeginDraining
    \/ \E holder \in {"prompt", "admin", "init"} : ClaimSlot(holder)
    \/ Deliver \/ ReleaseSlot \/ SignalRelease
    \/ CheckStart \/ SpawnPump
    \/ PumpStep
    \/ BeginShutdown \/ CancelPump \/ JoinPump \/ AbortPump

(***************************************************************************)
(* Fairness: the runtime polls every task that can run, a turn ends, and   *)
(* a shutdown that began goes on.  Nobody has to send, wire or shut down.  *)
(***************************************************************************)
PumpFairness ==
    /\ WF_mainPumpVars(PumpStep)
    /\ WF_mainPumpVars(ReleaseSlot) /\ WF_mainPumpVars(SignalRelease)
    /\ WF_mainPumpVars(CheckStart \/ SpawnPump)
    /\ WF_mainPumpVars(CancelPump \/ JoinPump \/ AbortPump)

PumpSpec == PumpInit /\ [][PumpNext]_mainPumpVars /\ PumpFairness

-----------------------------------------------------------------------------
(* Properties.                                                             *)

Blocks == [kind : {"none", "unavailable", "no_progress"}, generation : Nat, seq : Nat]

\* The type invariant of the pump and of what it watches (host.rs:3495-3587).
PumpTypeOK ==
    /\ accepted \in 0 .. MaxAccepted /\ deliveredSeq \in 0 .. accepted
    /\ wired \in BOOLEAN /\ generation \in 0 .. MaxWirings
    /\ draining \in BOOLEAN
    /\ slot \in {"free", "pump", "prompt", "admin", "init"}
    /\ claims \in 0 .. MaxClaims /\ unsignalled \in Nat
    /\ permit \in BOOLEAN /\ waiter \in {"none", "waiting", "notified", "done"}
    /\ pump \in {"off", "arming", "looking", "gating", "wiring", "reading", "checking",
                 "clientless", "claiming", "running", "signalling", "judging",
                 "blocking", "parked", "ended"}
    /\ block \in Blocks
    /\ locals \in [generation : Nat, delivered : Nat]
    /\ began \in [generation : Nat, seq : Nat]
    /\ fruitless \in Nat
    /\ starter \in {"idle", "called", "checked"}
    /\ shutdown \in {"no", "stopping", "cancelled", "joined"}

\* No lost wake (host.rs:3548-3553): a pump that sleeps with no wake on its way
\* while a message is queued does so for a reason that will itself produce a
\* wake, a held slot or a guard yet to signal, or because a block still holds,
\* the engine drains, or it is shutting down.
NoLostWake ==
    (pump = "parked" /\ waiter = "waiting" /\ Pending)
        => \/ Suppressed
           \/ slot # "free" \/ unsignalled > 0
           \/ draining \/ Stopping

\* The pump never spins on its own wake (host.rs:3482-3488): attempts that end
\* in a block are paid for, one each, by an accepted message or a wired
\* provider, however many turns and signals there were.
NoSelfSpin == fruitless <= accepted + generation

\* Once shutdown has joined the pump, the pump holds no turn, though a start
\* that had passed its check may still spawn the task afterwards
\* (host.rs:5649-5707).
JoinedPumpIsQuiet ==
    shutdown = "joined" => slot # "pump" /\ pump \in {"off", "arming", "ended"}

\* A message accepted while a pump exists is eventually drained, whoever holds
\* the slot in the meantime, unless an attempt failed and left a block, or
\* the engine stops taking turns (host.rs:3548-3553).
AcceptedIsDrained ==
    \A n \in 1 .. MaxAccepted :
        (accepted >= n /\ pump # "off")
            ~> (deliveredSeq >= n \/ block.kind # "none" \/ draining \/ Stopping)

\* A pump blocked for want of a provider goes on once one is wired, also when
\* the client was installed between its two reads (host.rs:5746-5759).
ProviderUnblocks ==
    (block.kind = "unavailable" /\ wired)
        ~> (block.kind # "unavailable" \/ draining \/ Stopping)

\* shutdown gets past the pump, whatever it was doing (host.rs:5678-5707).
ShutdownEnds == (shutdown = "stopping") ~> (shutdown = "joined")

\* What the documentation of the block says: no progress is "cleared by a
\* provider transition or by genuinely new accepted work" (host.rs:3501-3503).
\* Work accepted, or a provider wired, while the failed attempt ran does not
\* clear it: the block remembers the end of the attempt, not its beginning.
NewWorkClearsBlock ==
    (block.kind = "no_progress"
        /\ (began.seq # accepted \/ began.generation # generation))
        => IsClearedBy(block)
=============================================================================
