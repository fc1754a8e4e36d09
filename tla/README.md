# TLA+ models of coda

coda is an agentic coding assistant: an engine (`coda-engine`, `coda-serve`)
hosts an agent loop (`coda-agent`) that streams model output (`coda-llm`), runs
tools, background shell commands and subagents, and talks to a terminal
interface (`coda-tui`) or another client over JSON-RPC.  This directory holds
TLA+ models of the parts of it that decide whether something that happened is
heard of exactly once and in the end: messages, completions, wakes, scheduled
runs, interrupts and steering, what a client shows of its engine, the decisions
an engine asks of its operator, and the work that a planned restart carries over.
TLC checks every module on small instances; TLAPS proves the safety properties
of its passing runs for every value of the constants.

Paths below are relative to `rust/crates/`.  PROJECT.json maps each definition
to the lines it models.

## 1. The system

### Components, their state and their operations

| Component (crate) | State | Operations | Hard part | Correct means |
|---|---|---|---|---|
| Message bus (`coda-agent/src/message`) | bounded main queue, key tables, window of delivered keys; ring of user notifications | `publish_main`, `take_main_for_delivery`, `publish_user`, `user_since`, `close` | retries under reused keys, a full queue, eviction | an accepted message is drained once, in order; a reader is told exactly what it missed |
| Task registry (`coda-agent/src/tasks`) | tasks, their status, mode and reporting flags, outbox, settle signal | `register`, terminal transition, report, settle, prune, `remove`, `stop`, promote, shutdown | the report is five steps, the owner acts between any two | the owner hears of each end once, and of all of them before it ends by itself |
| Agent loop (`coda-agent/src/agent`) | iteration, waits, parking, stop decision | await and yield, `task_wait`, `task_recall`, drain, natural stop, park, deadline | a wait that expires as the task ends; count, then sleep | no lost wake, no premature end |
| Idle pump (`coda-serve/src/host.rs`) | `Notify`, block, turn slot, provider generation | pump step, start, cancel, join | events between look and sleep; its own failed turns wake it | an accepted message is drained, no spin, a quiet shutdown |
| Schedule runtime (`coda-agent/src/scheduling`) | store of definitions, the loop's entries, runs, channel of callbacks | add, delete, cancel, claim, launch, settle, retire, pause | the loop decides on copies while others change the store | no overlap, no run past a bound, a due boundary is answered, retired once |
| Turn slot (`coda-serve/src/host.rs`) | slot flag, public lifecycle and turn, cancel token, remembered interrupt | claim, open, publish token, interrupt, shutdown, release | four locks, a request overtaken between any two; panics | the public state is truthful, a shutdown ends the turn it finds, one request stops one turn |
| Steering inbox (`coda-agent/src/steering.rs`) | queue, sealed flag | enqueue, take, recall, `try_seal_empty`, `close_for_turn` | enqueue racing the end of a turn | a message is delivered to its turn, recalled, or reported dropped with it |
| Suspension, checkpoints, planned restart (`agent/suspend.rs`, `subagents/checkpoint.rs`, `coda-serve/src/restart.rs`) | suspend requests, files, draining | suspend, save, restore | a crash between two of its steps | nothing lost, nothing restored twice |
| Event bus and public state (`coda-serve/src/bus.rs`, `state/`) | numbered events, projected state | publish, snapshot, history | change and event under one lock | a read is fenced by the number it answers for |
| Client event fence and recovery (`coda-tui/src/api/view.rs`, `app/serve.rs`) | cursor of the state, cursor of the content, hold buffer, owed reads, backoffs | take a frame, read state, history or mailbox, wake | lost frames, a snapshot ahead of the frames in transit, a refused read | the transcript is the conversation at the cursor, no change unread, no notification unaccounted |
| Client prompts (`coda-serve/src/prompts.rs`, `state/requests.rs`, `coda-tui/src/api/requests.rs`) | registry of open requests; the client's queue and modal | issue, answer by response or by RPC, cancel, time out, sweep; discover, reconcile, retire | racing outcomes; each request told twice, once outside the fence | one outcome, announced once; a grant is the operator's; nobody waits for ever |
| Output ring, logs (`coda-agent/src/tasks`) | bounded text with cursors | append, read, subscribe | eviction against cursors | a reader knows what it missed |
| Engine client (`coda-client`) | table of waiters, closed flag | request, resolve, close | register against close | each waiter resolved once |
| Model clients (`coda-llm`) | retry state, stream | retry, pump, parse | retry after a partial answer | nothing replayed after output |
| MCP servers (`coda-mcp`), language servers | connections, tools | connect, call, reconnect | a reconnect during a call | a call ends |
| Credentials (`coda-auth`) | stored credentials, profiles, locks | refresh, login, commit, roll back | several processes; a crash between two files | no newer credential overwritten |
| Hooks, permissions, compaction, session store, autonomy, tools, diagnostics, protocol, rendering, terminal interface, start-up, C# client | | | mostly sequential, or text | see PROJECT.json |

### How they interact

A background task reports its end through the completion push: to a subagent's
steering inbox, or to the main inbox of the message bus.  An accepted main
message signals the pump, which claims the turn slot and runs a turn; the turn's
agent loop drains the inbox.  The same loop starts tasks, waits for them, and
parks until they settle.  The schedule runtime starts its runs as tasks of the
same registry and hears of their end by a callback.  Every change of the public
state is an event with a number, taken under the state's lock; the client's
fence applies events in the order of their numbers and reads a snapshot, the
history or the mailbox when one is missing.  A planned restart drains turns and tasks, saves
the suspended subagents and lists them in a file that a later engine consumes.  A prompt is announced twice, by such
an event and by the raw request frame, which no fence holds back.  Tokio tasks run in
parallel; what serializes them are mutexes held for a few lines each, so a step
of a model is one such section.

### Hazards

PROJECT.json lists each at its line, with the properties that would catch it.
Those that no property covers have a note: the module of the plan that is for
them, or the counterexample of section 5.

## 2. Modules

| Module | Models | Runs | Proofs |
|---|---|---|---|
| `MessageBus` | what the two halves of `message/mod.rs` share: keys and the closed flag | (by the next two) | `MessageBusProofs` |
| `MainInbox` | the durable inbox of `message/mod.rs` | `main_inbox` | `MessageBusProofs` |
| `UserRing` | the user notification ring of the same file, and a client that pages | `user_ring` | `MessageBusProofs` |
| `Ascending` | a filter of a sequence, as `retain` and `filter` keep it, without recursion | (by the modules that filter) | `AscendingProofs` |
| `CompletionDelivery` | abstract: what an owner is promised of its tasks | (property `ImplementsDelivery`) | |
| `TaskCompletions` | task registry, completion push, the owner's waits, drain, stop and parking | `subagent_completions`, `main_completions` | `TaskCompletionsProofs` |
| `MainPump` | the pump, its `Notify`, the slot as it meets it, start and shutdown | `main_pump` | `MessageBusProofs` |
| `ScheduleRuntime` | the loop of `scheduling/runtime.rs`, its store, `limits.rs`, recurrence | `schedule_runtime` | `ScheduleRuntimeProofs` |
| `TurnSlot` | claims of the turn slot, public lifecycle, cancel token, interrupt, restart's cancellation, shutdown, operator steering | `turn_slot` | `TurnSlotProofs` |
| `StateFeed` | the engine's numbered events, the client's fence, hold buffer, reads and retries | `state_feed`, `content_lost` | `StateFeedProofs` |
| `ClientPrompts` | `PromptChannel::issue`, the registry, both ways of an answer, the client's queue and screen | `client_prompts`, `prompt_hidden` | `ClientPromptsProofs` |
| `PlannedRestart` | suspension, `prepare_restart`, checkpoints, the restart file, restoration by later engines | `planned_restart` | `PlannedRestartProofs` |

The `MC...` modules add model values and symmetry; some cfgs beside those of the
runs each reproduce one counterexample of section 5.  Operators marked *Slip* in a
module are plausible mistakes in the definition beside them; nothing uses them,
and each property is seen to fail when the slip takes the definition's place.

**MainInbox.**  `publish_main` is `PublishMain` with its outcomes (replayed,
conflicting, full, closed, accepted), `take_main_for_delivery` is
`TakeMainForDelivery`, with the horizon of delivered keys moved in the same step: all of it happens under
the bus's one mutex.  A payload is a model value; the ledger of what was accepted
and drained is history.

Each half of the bus is a specification of its own; the fields are disjoint but for
the closed flag, which both close, so that `MessageBusProofs` can speak of both,
and of the pump that drains the inbox (`PumpSpec` of `MainPump`).

**UserRing.**  `publish_user` with its eviction, `user_since` with the dropped
range and the cursor it hands back, and a reader that pages with limits of zero,
one and more than the ring.

**TaskCompletions.**  One owner, the main agent or a subagent, and its tasks.
A terminal transition (`End`) is followed by `Enqueue` (outbox and prune),
`Claim`, `Push`, `Mark`, `Settle`, each one section of code in
`tasks/task_manager.rs` and `completion_push.rs`.  The owner's program counter is `owner`:
the foreground wait with its yield (`LookUp`, `FinishInline`, `YieldWait`,
`Promote`, `InterruptWait`), `task_wait` (`Wait`, `Attach`, `SeeEnd`, `TimeOut`,
`CancelWait`, `Detach`), `task_recall`, the drain, the inbox check of the stop
decision, and parking (count, recheck, sleep).  Merged where nothing can fall
between: the first prune with the outbox, the second with the settle; a
subagent's `stop_descendants` with its own terminal transition; the drain and
filter of a recall.  A `task_wait` on a task already terminal is a query.
Messages to a parked agent appear only as the wakes they are.

**MainPump.**  The queue is two counters, since its content is `MainInbox`'s
business.  `NotifyOne` and `Enable` are tokio's `Notify`, external to the
repository.  Installing a client, its generation and its wake are one step (the
client's mutex is held); releasing the slot and signalling the release are two,
as in the guard's `drop`.

**ScheduleRuntime.**  The program counter `loop` follows the five numbered steps
of `run_loop`.  Each store access is a step of its own, as are the launch (`StartRun`)
and its counting (`Commit`), so that an addition, deletion, cancellation, pause
or end of a run gets in between.  The due evaluation of a definition and its
claim are one step: nothing in between is read twice.  The two store accesses
of `process_terminal` are merged; only a deletion could fall between them, and
it ends as the one step does.  Interval and cron share one period; a past `at` equals
one due now.  What a restart restores, the published view and the live states are
left out.

**TurnSlot.**  Turns are numbered in the order of their claims; the holder of the
slot is one process whose place is `at`.  The turn lock (`TurnLocked`), the public
state, the token and the remembered interrupt have a lock each, so a claim
(`ClaimTurn`, `OpenTurn`, `PublishToken`, `CheckPending`, the work, `CloseForTurn`,
`ClearToken`, `Finish`, `FreeSlot`, `ReleaseTurn`) is overtaken anywhere by an interrupt
(`InterruptChecks`, `InterruptTakes`, `InterruptRemembers`), by the planned restart's
cancellation (`Restart...`, which has the order of the interrupt) or by a shutdown
(`Shutdown...`).  `Unwind` is a panic, which the transport catches, and the drops
of the guards.  A compaction never looks at the remembered flag.  An interrupt
of an idle engine is remembered on purpose (a test of `host.rs` asks for it).

**StateFeed.**  The engine is its log: a change and its event are made under one
lock, so its state, history and mailbox after n events are functions of the log.
`Receive` is the whole of `accept` with the dispatch of what the fence lets through;
`settle_with_engine_at` is the place `at`, going through the state, the history and
the mailbox, each due, in backoff, refused or failed.  A read is one step: the loop
blocks on it, and its answer follows every event it covers on the connection, so those frames
are then still in `inbound`.  `Wake` is the timer armed for an owed read when
nothing else comes.  A notification reported lost may still be shown later, when
its frame is in the queue at that time.

**ClientPrompts.**  A request is issued (`Issue` lists and announces it, `SendRaw`
writes its frame), answered by the response to the raw frame or by RPC, or given up
(`GiveUp`: cancellation, timeout or drop; `FailAll`: a restart's sweep), and the call
returns (`Return`).  A cancellation can win against an answer already announced as
granted: the call then returns a refusal.  The client's fence has no hold buffer here:
after a hole the cursor stays until a snapshot, which is the same for a loop that
blocks during the read.  The turn's end is the response of its request, which is
never lost, and is handled after the frames before it.  An answer goes by RPC only between a
request's announcement and its raw frame, or after a snapshot brought it.

**PlannedRestart.**  One engine at a time; `NextEngine` may end it between any two steps
and leaves only `files` and `restartFile`.  `prepare_restart` is the process `prep`:
`BeginDraining`, `PauseLaunches`, `Capture`, `SuspendAll`, the drain (`Drained`, or `Interrupt`, `Release`,
`Settle` when its time is over), `LockServices`, a `Save` per suspended subagent, a
`SaveDeferred` per subagent still to be re-created, `WriteRestartFile`; between two of them
are its awaits, where it may fail or be dropped (`PrepareFails`) and be called
again.  `initialize` consumes the file and reads the checkpoints (`InitializeRestoring`,
`Apply`); the services, built then or by the first turn, take what is pending and
re-create it under their lock (`BuildServices`, `Register`, `Launch`, `Unlink`,
`Restored`).  Tasks start, suspend, park, end and report as coarsely as the restart can
tell; the reports to the main agent are `TaskCompletions`'.  A checkpoint carries,
beside what the code saves, what the properties compare it with: who wished the
suspension, which tasks the subagent ever had and of which it had the report, and which
engine saved it.  Four more ghosts name what the promises leave out, each the step where
the code goes wrong (section 5): `late`, the subagents re-created only after a drain had
captured the operator's suspensions; `lost`, the tasks that neither came back with their
owner nor had their report saved with it; `overrun` and `belated`, a turn that outlived
its cancellation and the tasks started or re-created from then on.

## 3. Runs, bounds and what they show

| Run | Instance | Shows |
|---|---|---|
| `main_inbox` | capacity 2, horizon 2, three keys, five acceptances | the queue fills, the horizon passes a key and the key is reused |
| `user_ring` | capacity 2, two keys, four notifications | the ring evicts twice over, cursors fall behind; a reader misses nothing and catches up |
| `subagent_completions` | one shell command and one subagent, one retained terminal task, outbox of one | every interleaving of two reports with every wait; pruning and outbox overflow happen; a parked agent never sleeps through what should wake it; implements `CompletionDelivery` |
| `main_completions` | main agent, shell command and subagent, operator stops, interrupts, a subagent that others may remove | every completion due is told in the end, whether busy, waiting or idle |
| `main_pump` | two messages, one wiring, two claims by others | no event slept through, no spin, drained in the end, shutdown ends |
| `schedule_runtime` | one definition of any kind, period 2, budget 2 or none, deadline 5 or none, time to 5 | no overlap, bounds kept, due boundaries answered, deadline retires |
| `turn_slot` | three claims of any kind, one message, one interrupt, a restart, a shutdown, panics | what is left of one turn meets the next two; each stop overtakes each step of a claim |
| `state_feed` | three events of any of six kinds, one lost frame, one failed read; hold buffer, mailbox ring and out-of-order set of one | a gap, an overflow, an eviction and a refused read, alone and together |
| `client_prompts` | two requests, one of the foreground turn and one of a background task, one lost event or unacknowledged answer | each request ends once, by the operator's decision or a refusal, and is waited for by nobody for ever |
| `planned_restart` | a subagent and its child, three engines; of restarts, failures and commands two in all | two restores in a row, a repeated call, a deferred restore carried over, an engine ended anywhere: nothing re-created twice, nothing left out of a restart file unless a turn outlived its cancellation, every owner told of the children that came back with it and of the reports saved with it |
| `content_lost`, `prompt_hidden` | the instances of `state_feed` and `client_prompts` | a counterexample each: section 5 |

The code's constants are larger (256 retained terminal tasks, an outbox of 64, a main
queue of 32, a horizon of 128 keys, 2 s to join the pump, a wait of at most 60 s
in the schedule loop, intervals of at least 60 s, 2048 frames in the hold buffer).  The instances take the
smallest values at which the limit is met and passed; the theorems cover the
others.  `client_prompts` lets the operator only grant, since a refusal is what every
other end is; a variant with both a lost event and an unacknowledged
answer (1.2 million states) was checked for safety.  `planned_restart` was also checked with a failure and a command
in the same restart (4.2 million states), with a restart file that one engine leaves where
it is and a later one applies (9 million), and, by `MCPlannedRestartTools`, with a tool of the
main agent beside both subagents (5.5 million): the drain then has something to record and stop at its
timeout.  Definitions share only the clock, the loop and the channel, so one at
a time is checked with liveness; two at once, an interval and a one-shot, were
checked for safety to time 3.

**Fairness.**  The tokio runtime polls every task that can run, so each step of a
report, of the owner's loop, of the pump and of the schedule loop is weakly
fair; a turn that holds the slot ends; a cancelled task ends; a run that ended
calls back or has been removed; a client of `user_since` that asks for notifications
keeps asking.  In `TurnSlot` the holder goes on (`Proceed`), and a run whose token is
cancelled ends, because each of its waits selects on the token; an uncancelled
model call may take for ever.  In `StateFeed` the client's loop takes frames,
its timer goes off, its reads are answered or time out, and backoffs end.  In
`ClientPrompts` both sides work off what they have and the operator answers
what is shown; no request times out, since by default none does.  Nothing obliges anyone to send, wire, stop, add
or shut down, or a task that nobody cancelled to end.  The schedule loop's wait
is fair because it never exceeds a minute.

Deadlock checking is off where the system may stop: an agent ended, a queue
closed, a shutdown done, a counter at its bound.

Definitions that no run names are proved (`TypeOK` of `MainInbox`, `RingTypeOK`, `TypeOK` of
`TaskCompletions`, `ScheduleRuntime`, `TurnSlot`, `StateFeed` and `PlannedRestart`, `PumpTypeOK`, `PendingMirrorsQueue`,
`ReceiptTruthful`, `RingContiguous`, `RecordsMirrorRing`, `OneShotRunsOnce`,
`RetiredIsQuiet`, `StartsAreAdmitted`, `HeldIsOwed`) or violated (section 5).
`MCStateFeedTypes` checks the types of `StateFeed` and `HeldIsOwed` beside its run.

## 4. Proofs

Assumptions on constants are the `ASSUME`s of each module: naturals, a finite set
of tasks, positive capacities, a missing file told apart from every checkpoint.

- **MainInbox.**  `TypeOK /\ NothingLostOrRepeated /\ PendingMirrorsQueue` is
  inductive.  `DeliveredRecorded` (a record of the horizon is of a drained
  message) gives `ReceiptTruthful`: a position is the message's present
  one, and a replay names a message with the caller's own key and content.
- **MainInbox, horizon.**  `WindowInv`: the window lists recorded keys once each, and the key of
  a drained message stands as far from its end as there were keyed deliveries
  after it, unless these fill the horizon (`WindowIsRecent`).  So a key that is
  accepted again has the horizon's number of keyed messages behind it:
  `RepeatOnlyBeyondHorizon`.  It rests on the order in which one drain moves
  its keys into the window, and on counting (`RankFromTheEnd`).
- **UserRing.**  `RingTypeOK /\ RingContiguous /\ RecordsMirrorRing` is inductive:
  eviction drops a record with its message because cursors in the ring are
  consecutive.  With `ReaderBehind` (what the reader was told lies behind its
  cursor) a page continues exactly where the last one or the gap ended, whatever
  the limit: `ReaderMissesNothing`.
- **Ascending.**  `AtKeeps`: a filter keeps exactly the chosen elements, in their order.  That
  every finite set of positions can be listed in order needs induction; the library's
  theorem takes an operator, so `SetInduction` derives it from the well-foundedness
  of `<` on the naturals, for a set.
- **TaskCompletions.**  `DeliveryInv` says of each task where its one completion is
  (queued, told, claimed, not yet pushed), which makes the at-most-once property
  inductive, for both kinds of owner.  `AccountInv` adds that a registered task
  of a subagent is running, unsettled, or accounted for by an inbox item or a
  telling; with it the natural end, the settled report and the refinement of
  `CompletionDelivery` follow.  `ParkedIsWoken` needs only that what a parking agent counted
  it has not yet been woken for.  The first three assume a subagent, that nobody
  removes its tasks, and `MaxRetained > 0` (the code's is 256): with
  removals they are false, as `child_removed` shows.
- **TaskCompletions, recall.**  `RecallInv`: the outbox holds background tasks whose report has
  begun, and a background completion that was told or queued is marked or was
  claimed.  So what `task_recall` takes from the outbox and the owner already knew was
  forgotten by the registry, or is between its push and its mark:
  `RecallRepeatsOnlyForgotten`, an action property.
- **MainPump.**  The invariant conjoins the types, `TurnIsPumps` (a turn of the pump
  holds the slot), `JoinedPumpIsQuiet`, `WaitingSeesAll` (a pump about to sleep
  has enabled its `Notified` before it looked), `NoLostWake`, and `BlockIsPaid`
  and `AttemptIsPaid`, which count each fruitless attempt against an accepted
  message or a wired provider.
- **ScheduleRuntime.**  `OverlapInv`: what is being launched is at rest, a running run
  is the last one and the one its entry awaits (or is being committed), and a
  callback belongs to a run that is over.  `NoOverlap` follows.
- **ScheduleRuntime, bounds.**  `BoundsInv` adds, of each
  definition: an id not yet added is unknown everywhere, a deleted one never
  comes back, the stored counter tallies with the runs, a one-shot that ran and
  is still stored has its run awaited or is retired, an announced retirement is
  quiet; and that the definition about to be launched has room: a run left, no
  earlier run if it is a one-shot, no retirement.  The last part ties the
  loop's decision on a copy to the store at the time of the launch.  The budget, the
  one-shot, the retirement and `StartsAreAdmitted` follow.

- **TurnSlot.**  `PlaceInv` says of each place of the holder what the flags are
  there, `PublicInv` what the public state is: together `SlotInv`, from which the truthful
  lifecycle follows.  `WaitInv` and `OutcomeInv` (`SteerInv`) add that messages wait
  only for the prompt in the slot, before its end, and that the outcomes are of
  messages gone from the inbox.  `TokenInv` and `ArmedInv` (`StopInv`) add that a prompt not
  yet cancelled has its token in place from its publication on, and that a
  shutdown that has set the flag finds it set for every prompt still to look at
  it, so that the shutdown or the prompt's own look cancels it.
- **TurnSlot, counting.**  `CountInv`: until the shutdown arms the flag, the cancelled turns and the
  cancellations still owed (a remembered interrupt, a restart about to leave one)
  are paid for by the requests that got to a turn; from then on no turn is
  claimed, and only the last can still be added.  `OneStopOneTurn` follows.
- **ClientPrompts.**  `EngineInv` is the types of the engine's side and, of each request,
  `Settled`: while it is listed its call has no outcome, its end is announced when
  it leaves and not before, and what the call was given agrees with what was announced.
  `OneOutcome` follows whatever the client does, since no step of the client
  touches the engine but by an answer on its way.
- **ClientPrompts, client.**  `ListsInv`: a pending request that one announcement names is named
  by every later one (`ListingInv`), a queued request learned at an engine time is
  named by the lists from then on (`QueueOk`), each request is queued once, and
  the screen shows the head.  So a list retires nothing the engine waits for:
  `NoLiveDecisionRetired`, an action property.  `ClientInv` adds that an answer that may still meet its
  request was decided (`AnswerInv`), and that no decision is forgotten; `AnswersAreDecisions`
  and `NoDecisionForgotten` follow.  The operations on the queue (`OpenCurrent`, `OnServerRequest`,
  `Discovered`, `Reconcile`, `Take`) each have a lemma of what they do to it.
- **StateFeed.**  `Follows(c, i)` says of a client that has taken in the events up to i what the
  three properties need of it: its epoch is the engine's and its transcript the
  conversation (`Shows`), its configuration is read or owed (`ReadsConfig`), its
  notifications are told or owed (`Accounts`).  `Owes` adds that what is held back waits for a snapshot that is
  owed: `HeldIsOwed`, the safety half of `CatchesUp`.  `Follows` speaks of i and not of the
  cursor because in a replay the cursor is already at the end.  One event keeps
  it (`DispatchFollows`), so a replay of any length does (`Replayed`, an
  induction), and with it the drain of the held frames.  `FeedInv` adds that held
  frames and those on their way are in order, the held ones first (`FrameInv`),
  and that no cursor is past the engine's (`Holds`), so that a snapshot leaves
  nothing to replay.  `PastStays` carries it over an event published:
  what the engine was after n events does not change.
- **PlannedRestart.**  `RestoreInv`: a saved subagent is in one place at a time (the files
  the restart file lists, the list being applied, the pending checkpoints, those being
  registered), because each step takes it from one place before the next holds it
  (`PlaceInv`, with who holds the services lock, `LockInv`); none of these places
  holds a state that was re-created (`UnusedInv`); and what is re-created is of an
  earlier engine (`AgeInv`), so a checkpoint saved now is new.  `RestoredOnce` and
  `FileIsComplete` follow for any number of engines, failures and commands, any
  subagents, tools and owners.
- **PlannedRestart, suspension.**  `SuspensionInv`: before the first capture a live
  subagent carries a request exactly when the operator wants it suspended, after it the
  capture lists it exactly then, and every checkpoint, wherever it is, says so
  (`KeptInv`); `CaptureInv` says how far the calls of `prepare_restart` came.
  `OperatorSuspensionKept` follows; the exemption of `late` cannot be dropped (`MCSuspensionLost`).
- **PlannedRestart, owners.**  `HearInv`: a settled task was sent to its live owner and what was sent is
  in the inbox or told (`SentInv`), in each checkpoint too (`CarriedInv`); while
  subagents are registered nothing runs and no turn works (`QuietInv`), which is why an
  owner cannot finish before its child is back; what a live owner ever had is in this
  engine, sent or lost (`HadInv`).  `OwnerHears` follows; without `lost` it is false
  (`MCReportLost`).
- **PlannedRestart, drain.**  `DrainInv` and `CountInv`: once the drain is over, no suspended
  subagent goes on (its request stays) and each live task is suspended or recorded, by
  itself or by an agent above it; a task started meanwhile has a recorded owner, or is
  `belated`, which needs a turn that outlived its cancellation.  `NobodyLeftBehind`
  follows; the exemption of `belated` cannot be dropped (`MCLeftBehind`).

Model-checked only are the liveness properties (`ReaderCatchesUp`, `DueIsTold`, `AcceptedIsDrained`, `ProviderUnblocks`, `ShutdownEnds`,
`DueIsLaunched`, `DeadlineRetires`, `StoppedTurnEnds`, `CatchesUp`,
`WaiterIsReleased`): liveness under fairness is beyond the proof system.

## 5. Findings

Shown by a run:

- **content_lost.**  A configuration or steering frame makes the client read the
  state alone (`coda-tui/src/app/serve.rs:433`).  The snapshot moves the cursor past content frames still in
  the queue; they are dropped as duplicates and no history read is owed, so a
  tool result can stay out of the transcript.  `view.rs:22` and `serve.rs:212` say
  that this must not happen.
- **prompt_hidden.**  The end of the foreground turn clears the prompt
  (`coda-tui/src/state.rs:1240`) and takes the modal down, whichever request it showed.  A decision of a
  background subagent stays queued with nothing on screen, although `engine.rs:314`
  says it "takes the screen next rather than being forgotten".

Reproduced by a cfg kept beside the runs, each with its one property:

| cfg, property | The code | The words |
|---|---|---|
| `MCMainInboxFull`, `SettledIsReported` | a full main inbox turns a completion into a warning (`completion_push.rs:82`) | "Exactly once per task" (`completion_push.rs:17`) |
| `MCChildRemoved`, `NaturalEndKnowsAll` | `remove` (`task_manager.rs:907`) accepts a task that has ended and not reported; its parent may then end without it | "cannot miss a report that raced in" (`park.rs:238`) |
| `MCPromiseBroken`, `PromiseIsKept` | `task_wait` announces a delivery that an operator's stop suppresses (`completion_push.rs:66`) | "its completion is delivered to you separately" (`agent/tools.rs:773`) |
| `MCPumpNewWork`, `NewWorkClearsBlock` | work that arrives during a failed attempt is in the baseline read after it (`host.rs:3508`) | "or by genuinely new accepted work" (`host.rs:3502`) |
| `MCScheduleTick`, `LaunchAdvances` | a boundary met to the instant is not advanced (`schedule_recurrence.rs:88`): one tick, two runs | "strictly after" (`schedule_recurrence.rs:25`) |
| `MCLeftBehind`, `EachIsSeen` | a turn that outlives its cancellation builds the services between the settle time and the save: a deferred subagent is re-created, its file removed, and it is neither pending nor suspended when the tasks are listed (`coda-serve/src/host.rs:2633`) | "each is seen either as a task below or as still pending" (`host.rs:2628`) |
| `MCSuspensionLost`, `OperatorSuspensionAlwaysKept` | a subagent that was to stay suspended is deferred, and re-created by an admitted turn after the next drain captured the operator's suspensions (`host.rs:2555`): it was no task then, is saved without the mark, and runs after the restore | "always when the operator had suspended them before the drain" (`docs/serve-protocol.md:1145`) |
| `MCReportLost`, `OwnerLearnsOfAll` | a task that ended and has not reported counts as settled (`is_terminal`, `host.rs:2442`), and one stopped at the end of the settle time is not awaited: its owner is saved without the report, and the next engine, where the task does not exist, lets it finish untold | an owner "must learn that the work it is waiting for will never report" (`task_manager.rs:245`) |
| `MCInterruptLost`, `InterruptReachesTurn` | an interrupt that looks for the token just before it is published, and sets the flag just after the turn read it, is answered and stops the next turn instead (`host.rs:4005`) | "will cancel as soon as it publishes the token" (`host.rs:4001`) |

Not findings, but seen: `task_recall` repeats a completion already told when
the registry has forgotten its task; a scheduled run whose task is removed before
its callback leaves its definition running; a raw request frame taken after a
snapshot that no longer lists its request opens a modal nobody waits for, which
does no harm to the engine and stays until it is answered or retired; of the planned restart,
a parked subagent whose cancellation falls just before its safe point may be both saved and
recorded as interrupted; and `keep_suspended` is not carried over for subagents that stay deferred.

## 6. Not modelled

The wording of results, prompts and logs; model output; permissions and hooks;
rendering.  Of the modelled parts:

- of the turn slot, the configuration a turn captures, and what it does inside;
- of the event feed, the ring behind `session/getEvents` (no client in the
  repository pages it), unfenced frames of older engines, the marker for events
  the engine itself dropped, and an engine replaced behind a kept connection;
- of the planned restart, what the file carries by value (schedules, messages, steering,
  settings, requests), its validation, `task/suspendAll` and `task/resumeAll`, scheduled
  runs, and a second `initialize` of one engine;
- of prompts, a disconnection, the live declines at shutdown, answers by other
  controllers, and the phase `awaitingUserInput`.

PROJECT.json gives each remaining component with its reason.

## 7. Plan

1. Done: `MainInbox`, `UserRing`, `TaskCompletions` with `CompletionDelivery`,
   `MainPump`, `ScheduleRuntime`, `TurnSlot` with the steering inbox, `StateFeed`,
   `ClientPrompts`, `PlannedRestart` with suspension.
2. `PlannedRestart` composed with the launch pause of `ScheduleRuntime` and the sweep of
   `ClientPrompts`.
3. An engine replaced behind a kept connection: the reset of the fence and of the
   queue of prompts, over `StateFeed` and `ClientPrompts` together.
4. `Credentials`: refresh, commit section, login transaction and rollback over two
   processes and a crash.
5. `EngineClient`, `OutputRing`, `McpManager`, and the pure rules of retry and
   autonomy against reference definitions.
6. Proofs next: that `TurnSlot` implements the slot `MainPump` assumes.

Room is made by replacing checked counterexamples and narrower runs, not by
shortening the ones above.
