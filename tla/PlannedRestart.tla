----------------------------- MODULE PlannedRestart -----------------------------
(***************************************************************************)
(* How running subagents survive a planned restart (coda-serve             *)
(* src/host.rs: prepare_restart, initialize, apply_restart_file,           *)
(* services_restoring, restore_subagents; coda-agent src/agent/suspend.rs, *)
(* src/subagents/host.rs and checkpoint.rs, src/tasks/task_manager.rs).    *)
(*                                                                         *)
(* One engine runs at a time.  session/prepareRestart drains it: every     *)
(* subagent is asked to suspend, the rest must finish or is interrupted;   *)
(* then each suspended subagent's checkpoint is written and, last, the     *)
(* restart file that lists them.  initialize of a later engine consumes    *)
(* that file and re-creates the listed subagents, at once or, without a    *)
(* provider, when a turn first builds the session services.  An engine     *)
(* may stop between any two steps; only what is on disk is left of it.     *)
(*                                                                         *)
(* One action is the code between two awaits, or under one lock.  How a    *)
(* report reaches a live owner is the subject of TaskCompletions, the      *)
(* turn slot that of TurnSlot; here they are as coarse as the restart can  *)
(* tell.  Schedules, messages, steering and settings, which the restart    *)
(* file carries by value, are left out.                                    *)
(***************************************************************************)
EXTENDS Integers, FiniteSets

CONSTANTS
    Subagents,          \* the subagents of the session, each with its task id
    Tools,              \* shell commands and tool calls
    Main,               \* the main agent
    Owner,              \* who starts each task
    NoFile,             \* no such file, no checkpoint
    MaxEngines,         \* engines started one after the other (bound)
    MaxFailures,        \* failed writes, reads and deletions, dropped calls and
                        \* restart files left where they are (bound)
    MaxCommands,        \* task/suspend, task/resume and task/stop calls (bound)
    MaxEvents           \* restarts, failures and commands together (bound)

Tasks == Subagents \cup Tools

ASSUME TaskAssumption ==
    /\ IsFiniteSet(Tasks)
    /\ Subagents \cap Tools = {}
    /\ Main \notin Tasks
    /\ Owner \in [Tasks -> Subagents \cup {Main}]

ASSUME BoundAssumption ==
    /\ MaxEngines \in Nat
    /\ MaxFailures \in Nat
    /\ MaxCommands \in Nat
    /\ MaxEvents \in Nat

(* What is saved of a subagent, and the ghosts its properties speak of:    *)
(* the tasks it ever had, those its inbox ever took, which engine saved    *)
(* it, whether the operator wants it suspended, and whether it was         *)
(* re-created too late for the capture to tell.                            *)
Checkpoints ==
    [explicit : BOOLEAN, parked : BOOLEAN, inbox : SUBSET Tasks, told : SUBSET Tasks,
     had : SUBSET Tasks, sent : SUBSET Tasks, engine : Nat, wish : BOOLEAN, late : BOOLEAN]

Slots == [Subagents -> Checkpoints \cup {NoFile}]

ASSUME NoFileAssumption == NoFile \notin Checkpoints

Closed(t, s) == \A u \in {t} \cup s : Owner[u] \in s \cup {Main}

(* The agents whose end stops t, and whose suspension t inherits: the      *)
(* least set that holds the owner of t and of each of its members.         *)
Above ==
    [t \in Tasks |->
        {u \in Subagents : \A s \in SUBSET Subagents : Closed(t, s) => u \in s}]

Children(o) == {t \in Tasks : Owner[t] = o}

VARIABLES
    status,             \* of each task of this engine: TaskState::status
    flagged,            \* ManagedTask::suspend_explicit
    cancelled,          \* the live tasks whose cancel token fired
    parked,             \* the subagents in their parked state
    inbox,              \* the tasks whose completion is in their owner's inbox
    told,               \* the tasks whose completion is in their owner's conversation
    settled,            \* ManagedTask::settled
    held,               \* re-created tasks that are registered but not launched
    stage,              \* of initialize: "fresh", "applying", "building", "ready"
    turn,               \* the turn slot: "none", "claimed", "working"
    built,              \* the session services exist
    lock,               \* who holds the session_services lock
    draining,           \* EngineState::drain is set
    suspendNew,         \* TaskManager::suspend_new
    pending,            \* PendingSubagentRestore::checkpoints
    keep,               \* PendingSubagentRestore::keep_suspended
    listed,             \* RestartFile::tasks of the file being applied
    restoring,          \* the step of restore_subagents
    todo,               \* the checkpoints it has not registered yet
    unlink,             \* the re-created subagents whose files it still removes
    prep,               \* the step of prepare_restart
    captured,           \* ServeHost::restart_capture is set
    operatorSuspended,  \* RestartCapture::operator_suspended
    interrupted,        \* RestartCapture::interrupted
    work,               \* the suspended subagents prepare_restart has not saved yet
    saved,              \* those it has
    files,              \* <session>.tasks/<task>.json
    restartFile,        \* <session>.restart.json
    wish,               \* the subagents the operator wants suspended
    had,                \* the tasks ever started, by their owner or before it was saved
    sent,               \* the tasks whose completion their owner's inbox took
    lost,               \* the tasks of which a restored owner has neither state nor report
    recreated,          \* the saved states that were re-created, task and engine
    twice,              \* the subagents re-created twice from one saved state
    late,               \* the subagents re-created after the capture of a drain
    drainStopped,       \* the tasks the drain stopped
    overrun,            \* a turn outlived RESTART_TURN_RELEASE
    belated,            \* the tasks started or re-created since then
    engine, failures, commands

tasks == <<status, flagged, cancelled, parked, inbox, told, settled, held>>
host == <<stage, turn, built, lock, draining, suspendNew, pending, keep, listed>>
restore == <<restoring, todo, unlink>>
prepare == <<prep, captured, operatorSuspended, interrupted, work, saved>>
disk == <<files, restartFile>>
ledger == <<wish, had, sent, lost, recreated, twice, late, drainStopped, overrun, belated>>
bounds == <<engine, failures, commands>>
vars == <<tasks, host, restore, prepare, disk, ledger, bounds>>

Nothing == [t \in Subagents |-> NoFile]

Init ==
    /\ status = [t \in Tasks |-> "absent"]
    /\ flagged = {} /\ cancelled = {} /\ parked = {}
    /\ inbox = {} /\ told = {} /\ settled = {} /\ held = {}
    /\ stage = "fresh" /\ turn = "none" /\ built = FALSE /\ lock = "free"
    /\ draining = FALSE /\ suspendNew = FALSE
    /\ pending = Nothing /\ keep = FALSE /\ listed = {}
    /\ restoring = "no" /\ todo = Nothing /\ unlink = {}
    /\ prep = "idle" /\ captured = FALSE /\ operatorSuspended = {}
    /\ interrupted = {} /\ work = {} /\ saved = {}
    /\ files = Nothing /\ restartFile = NoFile
    /\ wish = {} /\ had = {} /\ sent = {} /\ lost = {} /\ recreated = {} /\ twice = {}
    /\ late = {} /\ drainStopped = {} /\ overrun = FALSE /\ belated = {}
    /\ engine = 1 /\ failures = 0 /\ commands = 0

(* The bounds on what may go wrong. *)
Room(n) == engine - 1 + failures + commands + n <= MaxEvents

MayFail(n) == n = 0 \/ (failures + n <= MaxFailures /\ Room(n))

-----------------------------------------------------------------------------
(* Tasks. *)

Live(t) == status[t] \in {"running", "suspended"}

LiveTasks == {t \in Tasks : Live(t)}

(* is_suspension_requested: its own explicit flag or an ancestor's. *)
Requested(t) == ({t} \cup Above[t]) \cap flagged # {}

(* Slip: a restored subagent runs as soon as it is registered. *)
RunsOnceRegistered(t) == status[t] = "running"

(* Every restored task is registered before any of them runs. *)
Runs(t) == status[t] = "running" /\ t \notin held

InboxOf(o) == inbox \cap Children(o)

(* live_children *)
LiveChildren(o) == {t \in Children(o) : status[t] # "absent" /\ t \notin settled}

Belated(t) == IF overrun THEN belated \cup {t} ELSE belated

(* register, by a turn or by a subagent: while the engine drains, a        *)
(* subagent starts with a suspension request.  An id is used once in the   *)
(* life of an owner.                                                       *)
Start(t) ==
    /\ status[t] = "absent"
    /\ t \notin had
    /\ IF Owner[t] = Main THEN turn = "working"
                          ELSE Runs(Owner[t]) /\ Owner[t] \notin parked
    /\ status' = [status EXCEPT ![t] = "running"]
    /\ flagged' = IF suspendNew THEN flagged \cup ({t} \cap Subagents) ELSE flagged
    /\ wish' = wish \ {t}
    /\ had' = had \cup {t}
    /\ belated' = Belated(t)
    /\ UNCHANGED <<cancelled, parked, inbox, told, settled, held, host, restore, prepare,
                   disk, sent, lost, recreated, twice, late, drainStopped, overrun, bounds>>

(* safe_point, at the top of an iteration, which a cancelled run does not  *)
(* reach, or while parked, where the cancellation is seen only afterwards. *)
SafePoint(t) ==
    /\ Runs(t)
    /\ Requested(t)
    /\ t \in cancelled => t \in parked
    /\ status' = [status EXCEPT ![t] = "suspended"]
    /\ UNCHANGED <<flagged, cancelled, parked, inbox, told, settled, held, host, restore,
                   prepare, disk, ledger, bounds>>

(* mark_resumed, once the request is withdrawn. *)
Continue(t) ==
    /\ status[t] = "suspended"
    /\ ~Requested(t)
    /\ t \notin cancelled
    /\ status' = [status EXCEPT ![t] = "running"]
    /\ UNCHANGED <<flagged, cancelled, parked, inbox, told, settled, held, host, restore,
                   prepare, disk, ledger, bounds>>

(* An iteration starts with what is in the inbox; a parked agent wakes.    *)
Deliver(o) ==
    /\ Runs(o)
    /\ InboxOf(o) # {}
    /\ told' = told \cup InboxOf(o)
    /\ inbox' = inbox \ InboxOf(o)
    /\ parked' = parked \ {o}
    /\ UNCHANGED <<status, flagged, cancelled, settled, held, host, restore, prepare, disk,
                   ledger, bounds>>

(* at_natural_stop: an agent that has live tasks parks ... *)
Park(o) ==
    /\ Runs(o)
    /\ o \notin parked
    /\ InboxOf(o) = {}
    /\ LiveChildren(o) # {}
    /\ parked' = parked \cup {o}
    /\ UNCHANGED <<status, flagged, cancelled, inbox, told, settled, held, host, restore,
                   prepare, disk, ledger, bounds>>

(* The end of a run: stop_descendants, then the terminal status. *)
End(t, how) ==
    /\ status' = [status EXCEPT ![t] = how]
    /\ cancelled' = (cancelled \cup {u \in LiveTasks : t \in Above[u]}) \ {t}
    /\ parked' = parked \ {t}
    /\ UNCHANGED <<flagged, inbox, told, settled, held, host, restore, prepare, disk, ledger,
                   bounds>>

(* ... and one that has none, parked or not, finishes. *)
Finish(o) ==
    /\ Runs(o)
    /\ InboxOf(o) = {}
    /\ LiveChildren(o) = {}
    /\ End(o, "finished")

(* A failed, a cancelled or an overdue run; a tool's end, whatever it is.  *)
Abort(t) ==
    /\ Runs(t) \/ (status[t] = "suspended" /\ t \in cancelled)
    /\ End(t, "ended")

Over(t) == status[t] \in {"finished", "ended"}

(* The completion is pushed into the owner's inbox, then the task settles. *)
(* What the main agent is told is left to TaskCompletions.                 *)
Report(t) ==
    LET owed == {u \in {t} : Live(Owner[u])}
    IN  /\ Over(t)
        /\ Owner[t] # Main
        /\ t \notin settled
        /\ settled' = settled \cup {t}
        /\ inbox' = inbox \cup owed
        /\ sent' = sent \cup owed
        /\ UNCHANGED <<status, flagged, cancelled, parked, told, held, host, restore, prepare,
                       disk, wish, had, lost, recreated, twice, late, drainStopped, overrun,
                       belated, bounds>>

-----------------------------------------------------------------------------
(* The operator.  These methods are refused before initialize. *)

Command ==
    /\ stage = "ready"
    /\ commands < MaxCommands /\ Room(1)
    /\ commands' = commands + 1

(* task/suspend; what counts as the operator's is what the drain found. *)
Suspend(t) ==
    /\ Command
    /\ Live(t)
    /\ flagged' = flagged \cup {t}
    /\ wish' = IF captured THEN wish ELSE wish \cup {t}
    /\ UNCHANGED <<status, cancelled, parked, inbox, told, settled, held, host, restore,
                   prepare, disk, had, sent, lost, recreated, twice, late, drainStopped,
                   overrun, belated, engine, failures>>

(* task/resume: refused while draining, and without a request of its own. *)
Resume(t) ==
    /\ Command
    /\ ~draining
    /\ Live(t)
    /\ t \in flagged
    /\ flagged' = flagged \ {t}
    /\ wish' = wish \ {t}
    /\ UNCHANGED <<status, cancelled, parked, inbox, told, settled, held, host, restore,
                   prepare, disk, had, sent, lost, recreated, twice, late, drainStopped,
                   overrun, belated, engine, failures>>

(* task/stop *)
StopTask(t) ==
    /\ Command
    /\ Live(t)
    /\ cancelled' = cancelled \cup {t}
    /\ UNCHANGED <<status, flagged, parked, inbox, told, settled, held, host, restore,
                   prepare, disk, ledger, engine, failures>>

-----------------------------------------------------------------------------
(* Turns of the main agent, and the session services the first one builds. *)

ClaimTurn ==
    /\ stage = "ready"
    /\ turn = "none"
    /\ ~draining
    /\ turn' = "claimed"
    /\ UNCHANGED <<tasks, stage, built, lock, draining, suspendNew, pending, keep, listed,
                   restore, prepare, disk, ledger, bounds>>

UseServices ==
    /\ turn = "claimed"
    /\ built
    /\ lock = "free"
    /\ turn' = "working"
    /\ UNCHANGED <<tasks, stage, built, lock, draining, suspendNew, pending, keep, listed,
                   restore, prepare, disk, ledger, bounds>>

(* services_restoring: builds the services and takes what is pending, for  *)
(* the turn or for initialize.                                             *)
BuildServices ==
    /\ turn = "claimed" \/ stage = "building"
    /\ ~built
    /\ lock = "free"
    /\ built' = TRUE
    /\ lock' = "restore"
    /\ restoring' = "register"
    /\ todo' = pending
    /\ pending' = Nothing
    /\ UNCHANGED <<tasks, stage, turn, draining, suspendNew, keep, listed, unlink, prepare,
                   disk, ledger, bounds>>

(* A turn that failed before it ran, or one that is over. *)
EndTurn ==
    /\ turn # "none"
    /\ restoring = "no"
    /\ turn' = "none"
    /\ UNCHANGED <<tasks, stage, built, lock, draining, suspendNew, pending, keep, listed,
                   restore, prepare, disk, ledger, bounds>>

-----------------------------------------------------------------------------
(* restore_subagents and restore_all, under the services lock. *)

(* A saved task that is still to be registered. *)
Returns(t) == t \in Subagents /\ todo[t] # NoFile

(* prepare_restore and register_restored, owners before their children: a  *)
(* child whose owner was not re-created is left out.                       *)
Register(t) ==
    LET cp == todo[t]
        kept == keep \/ cp.explicit
    IN  /\ restoring = "register"
        /\ cp # NoFile
        /\ Owner[t] # Main => todo[Owner[t]] = NoFile
        /\ todo' = [todo EXCEPT ![t] = NoFile]
        /\ IF status[t] = "absent" /\ (Owner[t] # Main => status[Owner[t]] # "absent")
           THEN /\ status' = [status EXCEPT ![t] = "running"]
                /\ had' = had \cup {t} \cup cp.had
                /\ lost' = lost \cup {u \in cp.had \ cp.sent : ~Returns(u)}
                /\ belated' = Belated(t)
                /\ flagged' = IF kept \/ suspendNew THEN flagged \cup {t} ELSE flagged
                /\ parked' = IF cp.parked THEN parked \cup {t} ELSE parked
                /\ inbox' = inbox \cup cp.inbox
                /\ told' = told \cup cp.told
                /\ held' = held \cup {t}
                /\ unlink' = unlink \cup {t}
                /\ wish' = IF keep \/ cp.wish THEN wish \cup {t} ELSE wish \ {t}
                /\ sent' = sent \cup cp.sent
                /\ recreated' = recreated \cup {<<t, cp.engine>>}
                /\ twice' = IF <<t, cp.engine>> \in recreated THEN twice \cup {t} ELSE twice
                /\ late' = IF captured \/ suspendNew \/ cp.late THEN late \cup {t} ELSE late
           ELSE UNCHANGED <<status, flagged, parked, inbox, told, held, unlink, wish, had,
                            sent, lost, recreated, twice, late, belated>>
        /\ UNCHANGED <<cancelled, settled, host, restoring, prepare, disk, drainStopped,
                       overrun, bounds>>

(* start_restored for each of them. *)
Launch ==
    /\ restoring = "register"
    /\ todo = Nothing
    /\ held' = {}
    /\ restoring' = "unlink"
    /\ UNCHANGED <<status, flagged, cancelled, parked, inbox, told, settled, host, todo,
                   unlink, prepare, disk, ledger, bounds>>

(* The file of each re-created subagent is removed, or left if that fails. *)
Unlink(t) ==
    /\ restoring = "unlink"
    /\ t \in unlink
    /\ unlink' = unlink \ {t}
    /\ \/ files' = [files EXCEPT ![t] = NoFile] /\ UNCHANGED failures
       \/ MayFail(1) /\ failures' = failures + 1 /\ UNCHANGED files
    /\ UNCHANGED <<tasks, host, restoring, todo, prepare, restartFile, ledger, engine,
                   commands>>

Restored ==
    /\ restoring = "unlink"
    /\ unlink = {}
    /\ restoring' = "no"
    /\ lock' = "free"
    /\ IF stage = "building" THEN stage' = "ready" /\ UNCHANGED turn
                             ELSE turn' = "working" /\ UNCHANGED stage
    /\ UNCHANGED <<tasks, built, draining, suspendNew, pending, keep, listed, todo, unlink,
                   prepare, disk, ledger, bounds>>

-----------------------------------------------------------------------------
(* initialize, the first call of every client. *)

(* Without a restart file, or leaving it where it is: no restore was asked *)
(* for, or the file cannot be deleted.                                     *)
InitializePlainly ==
    LET left == IF restartFile = NoFile THEN 0 ELSE 1
    IN  /\ stage = "fresh"
        /\ stage' = "ready"
        /\ MayFail(left)
        /\ failures' = failures + left
        /\ UNCHANGED <<tasks, turn, built, lock, draining, suspendNew, pending, keep, listed,
                       restore, prepare, disk, ledger, engine, commands>>

(* Slip: the file is removed once the restore is over. *)
ConsumedLater == restartFile

(* The restart file is deleted before anything is applied. *)
Consumed == NoFile

InitializeRestoring ==
    /\ stage = "fresh"
    /\ restartFile # NoFile
    /\ restartFile' = Consumed
    /\ listed' = restartFile.tasks
    /\ keep' \in BOOLEAN
    /\ stage' = "applying"
    /\ UNCHANGED <<tasks, turn, built, lock, draining, suspendNew, pending, restore, prepare,
                   files, ledger, bounds>>

(* apply_restart_file: reads the listed checkpoints, of which one may be   *)
(* unreadable, then builds the services if a provider is wired.            *)
Apply ==
    /\ stage = "applying"
    /\ \E unreadable \in SUBSET listed :
          /\ MayFail(Cardinality(unreadable))
          /\ failures' = failures + Cardinality(unreadable)
          /\ pending' = [t \in Subagents |->
                            IF t \in listed \ unreadable THEN files[t] ELSE NoFile]
    /\ stage' \in {"building", "ready"}
    /\ listed' = {}
    /\ UNCHANGED <<tasks, turn, built, lock, draining, suspendNew, keep, restore, prepare,
                   disk, ledger, engine, commands>>

-----------------------------------------------------------------------------
(* session/prepareRestart. *)

Prepares(from, to) == prep = from /\ prep' = to

BeginDraining ==
    /\ stage = "ready"
    /\ Prepares("idle", "pause")
    /\ draining' = TRUE
    /\ UNCHANGED <<tasks, stage, turn, built, lock, suspendNew, pending, keep, listed,
                   restore, captured, operatorSuspended, interrupted, work, saved, disk,
                   ledger, bounds>>

(* pause_schedule_launches takes the services lock and lets it go.  What   *)
(* it pauses is not modelled, that it waits for a restore under way is.    *)
PauseLaunches ==
    /\ Prepares("pause", "capture")
    /\ lock = "free"
    /\ UNCHANGED <<tasks, host, restore, captured, operatorSuspended, interrupted, work,
                   saved, disk, ledger, bounds>>

FlaggedNow == {t \in Subagents : Live(t) /\ t \in flagged}

(* Only a first attempt can tell the operator's suspensions from its own:  *)
(* a later one goes on with what that one captured.                        *)
FirstCapture == IF captured THEN operatorSuspended ELSE FlaggedNow

(* Without the lock: a first build of the services may have begun again.   *)
Capture ==
    /\ Prepares("capture", "suspend")
    /\ operatorSuspended' = FirstCapture
    /\ captured' = TRUE
    /\ UNCHANGED <<tasks, host, restore, interrupted, work, saved, disk, ledger, bounds>>

(* set_suspend_new and suspend_all *)
SuspendAll ==
    /\ Prepares("suspend", "drain")
    /\ suspendNew' = TRUE
    /\ flagged' = flagged \cup (LiveTasks \cap Subagents)
    /\ UNCHANGED <<status, cancelled, parked, inbox, told, settled, held, stage, turn, built,
                   lock, draining, pending, keep, listed, restore, captured,
                   operatorSuspended, interrupted, work, saved, disk, ledger, bounds>>

(* restart_tasks_settled: finished, or a suspended subagent. *)
Unsettled == {t \in LiveTasks : status[t] # "suspended"}

DrainComplete == turn = "none" /\ Unsettled = {}

Drained ==
    /\ Prepares("drain", "lock")
    /\ DrainComplete
    /\ UNCHANGED <<tasks, host, restore, captured, operatorSuspended, interrupted, work,
                   saved, disk, ledger, bounds>>

StopAndRecord(ts) ==
    /\ interrupted' = interrupted \cup ts
    /\ cancelled' = cancelled \cup ((interrupted \cup ts) \cap LiveTasks)
    /\ drainStopped' = drainStopped \cup ts
    /\ UNCHANGED <<status, flagged, parked, inbox, told, settled, held, host, restore,
                   captured, operatorSuspended, work, saved, disk, wish, had, sent, lost,
                   recreated, twice, late, belated, bounds>>

(* The drain timeout: all but the subagents is recorded and stopped; the   *)
(* running turn is cancelled and may end at any time.                      *)
Interrupt ==
    /\ Prepares("drain", "release")
    /\ ~DrainComplete
    /\ StopAndRecord(LiveTasks \cap Tools)
    /\ UNCHANGED overrun

(* The turn released its slot, or RESTART_TURN_RELEASE is over. *)
Release ==
    /\ Prepares("release", "settle")
    /\ overrun' = (overrun \/ turn # "none")
    /\ UNCHANGED <<tasks, host, restore, captured, operatorSuspended, interrupted, work,
                   saved, disk, wish, had, sent, lost, recreated, twice, late, drainStopped,
                   belated, bounds>>

(* Everything settled, or RESTART_SETTLE is over and the rest is stopped   *)
(* and recorded too.                                                       *)
Settle ==
    /\ Prepares("settle", "lock")
    /\ StopAndRecord(Unsettled \ interrupted)
    /\ UNCHANGED overrun

(* The services lock is held until the restart file is written. *)
LockServices ==
    /\ Prepares("lock", "save")
    /\ lock = "free"
    /\ lock' = "prepare"
    /\ work' = {t \in Subagents : status[t] = "suspended"}
    /\ saved' = {}
    /\ UNCHANGED <<tasks, stage, turn, built, draining, suspendNew, pending, keep, listed,
                   restore, captured, operatorSuspended, interrupted, disk, ledger, bounds>>

(* SubagentCheckpoint::from_task *)
Checkpoint(t) ==
    [explicit |-> t \in operatorSuspended,
     parked |-> t \in parked,
     inbox |-> InboxOf(t),
     told |-> told \cap Children(t),
     had |-> had \cap Children(t),
     sent |-> sent \cap Children(t),
     engine |-> engine,
     wish |-> t \in wish,
     late |-> t \in late]

(* In the order of registration; one that is no longer suspended has no    *)
(* checkpoint.                                                             *)
Save(t) ==
    /\ prep = "save"
    /\ t \in work
    /\ Above[t] \cap work = {}
    /\ work' = work \ {t}
    /\ IF status[t] = "suspended"
       THEN /\ files' = [files EXCEPT ![t] = Checkpoint(t)]
            /\ saved' = saved \cup {t}
       ELSE UNCHANGED <<files, saved>>
    /\ UNCHANGED <<tasks, host, restore, prep, captured, operatorSuspended, interrupted,
                   restartFile, ledger, bounds>>

(* Subagents still to be re-created are carried over as they were saved. *)
SaveDeferred(t) ==
    /\ prep = "save"
    /\ work = {}
    /\ pending[t] # NoFile
    /\ t \notin saved
    /\ files' = [files EXCEPT ![t] = pending[t]]
    /\ saved' = saved \cup {t}
    /\ UNCHANGED <<tasks, host, restore, prep, captured, operatorSuspended, interrupted, work,
                   restartFile, ledger, bounds>>

(* Slip: the carried-over subagents stay pending in this engine. *)
StillPending == pending

(* They belong to the restart file now. *)
PendingAfterWrite == Nothing

(* The restart file comes last; the result is kept, the capture is not. *)
WriteRestartFile ==
    /\ Prepares("save", "done")
    /\ work = {}
    /\ \A t \in Subagents : pending[t] # NoFile => t \in saved
    /\ restartFile' = [tasks |-> saved, interrupted |-> interrupted]
    /\ pending' = PendingAfterWrite
    /\ lock' = "free"
    /\ captured' = FALSE
    /\ operatorSuspended' = {}
    /\ interrupted' = {}
    /\ saved' = {}
    /\ UNCHANGED <<tasks, stage, turn, built, draining, suspendNew, keep, listed, restore,
                   work, files, ledger, bounds>>

(* Slip: a failed attempt leaves no record of what it stopped. *)
Forgotten == {}

(* RestartCapture: what only this attempt could observe is kept. *)
KeptForRetry == interrupted

(* A write fails or the call is dropped while it waits: the engine stays   *)
(* draining, a later call may try again.  A failed write leaves no file,   *)
(* since its rename comes last; and a write under way is not abandoned but *)
(* with the engine: each request is a task of its own that nothing aborts. *)
PrepareFails ==
    /\ prep \notin {"idle", "capture", "suspend", "done"}
    /\ MayFail(1)
    /\ failures' = failures + 1
    /\ prep' = "idle"
    /\ lock' = IF prep = "save" THEN "free" ELSE lock
    /\ interrupted' = KeptForRetry
    /\ work' = {}
    /\ saved' = {}
    /\ UNCHANGED <<tasks, stage, turn, built, draining, suspendNew, pending, keep, listed,
                   restore, captured, operatorSuspended, disk, ledger, engine, commands>>

-----------------------------------------------------------------------------

(* shutdown, or a crash: the next engine finds what is on disk. *)
NextEngine ==
    /\ engine < MaxEngines /\ Room(1)
    /\ engine' = engine + 1
    /\ status' = [t \in Tasks |-> "absent"]
    /\ flagged' = {} /\ cancelled' = {} /\ parked' = {}
    /\ inbox' = {} /\ told' = {} /\ settled' = {} /\ held' = {}
    /\ stage' = "fresh" /\ turn' = "none" /\ built' = FALSE /\ lock' = "free"
    /\ draining' = FALSE /\ suspendNew' = FALSE
    /\ pending' = Nothing /\ keep' = FALSE /\ listed' = {}
    /\ restoring' = "no" /\ todo' = Nothing /\ unlink' = {}
    /\ prep' = "idle" /\ captured' = FALSE /\ operatorSuspended' = {}
    /\ interrupted' = {} /\ work' = {} /\ saved' = {}
    /\ wish' = {} /\ had' = {} /\ sent' = {} /\ lost' = {} /\ late' = {}
    /\ drainStopped' = {} /\ overrun' = FALSE /\ belated' = {}
    /\ UNCHANGED <<disk, recreated, twice, failures, commands>>

TaskStep(t) == Start(t) \/ Abort(t) \/ Report(t) \/ StopTask(t)

SubagentStep(t) ==
    \/ SafePoint(t) \/ Continue(t) \/ Deliver(t) \/ Park(t) \/ Finish(t)
    \/ Suspend(t) \/ Resume(t)
    \/ Register(t) \/ Unlink(t) \/ Save(t) \/ SaveDeferred(t)

HostStep ==
    \/ ClaimTurn \/ UseServices \/ BuildServices \/ EndTurn
    \/ Launch \/ Restored
    \/ InitializePlainly \/ InitializeRestoring \/ Apply

PrepareStep ==
    \/ BeginDraining \/ PauseLaunches \/ Capture \/ SuspendAll
    \/ Drained \/ Interrupt \/ Release \/ Settle \/ LockServices \/ WriteRestartFile \/ PrepareFails

Next ==
    \/ \E t \in Tasks : TaskStep(t)
    \/ \E t \in Subagents : SubagentStep(t)
    \/ HostStep
    \/ PrepareStep
    \/ NextEngine

Spec == Init /\ [][Next]_vars

-----------------------------------------------------------------------------
(* Properties *)

TypeOK ==
    /\ status \in [Tasks -> {"absent", "running", "suspended", "finished", "ended"}]
    /\ flagged \subseteq Subagents /\ parked \subseteq Subagents /\ held \subseteq Subagents
    /\ cancelled \subseteq Tasks /\ settled \subseteq Tasks
    /\ inbox \subseteq Tasks /\ told \subseteq Tasks
    /\ stage \in {"fresh", "applying", "building", "ready"}
    /\ turn \in {"none", "claimed", "working"}
    /\ lock \in {"free", "restore", "prepare"}
    /\ built \in BOOLEAN /\ draining \in BOOLEAN /\ suspendNew \in BOOLEAN
    /\ keep \in BOOLEAN /\ captured \in BOOLEAN /\ overrun \in BOOLEAN
    /\ pending \in Slots /\ todo \in Slots /\ files \in Slots
    /\ restoring \in {"no", "register", "unlink"}
    /\ prep \in {"idle", "pause", "capture", "suspend", "drain", "release", "settle", "lock",
                 "save", "done"}
    /\ listed \subseteq Subagents /\ unlink \subseteq Subagents
    /\ operatorSuspended \subseteq Subagents
    /\ work \subseteq Subagents /\ saved \subseteq Subagents
    /\ interrupted \subseteq Tasks /\ drainStopped \subseteq Tasks
    /\ restartFile \in [tasks : SUBSET Subagents, interrupted : SUBSET Tasks] \cup {NoFile}
    /\ wish \subseteq Subagents
    /\ had \subseteq Tasks /\ sent \subseteq Tasks /\ lost \subseteq Tasks
    /\ belated \subseteq Tasks
    /\ recreated \subseteq Subagents \X Nat
    /\ twice \subseteq Subagents /\ late \subseteq Subagents
    /\ engine \in Nat /\ failures \in Nat /\ commands \in Nat

(* "A restore can never happen twice": whatever fails and wherever an      *)
(* engine stops, no saved state of a subagent is re-created more than once.*)
RestoredOnce == twice = {}

(* A restart file on disk is complete: the checkpoint of every subagent it *)
(* lists is there, also after an engine that carried deferred subagents    *)
(* over goes on and builds its services.                                   *)
FileIsComplete ==
    restartFile # NoFile => \A t \in restartFile.tasks : files[t] # NoFile

(* When the restart file is written, every task that is live, still to be  *)
(* re-created or was stopped by the drain, in this attempt or an earlier   *)
(* one, is saved or recorded as interrupted; a task that an interrupted    *)
(* agent starts in its last moments is covered by that agent's record.     *)
(* Only a task started or re-created after a turn outlived its             *)
(* cancellation may be left out.                                           *)
Accounted(t) ==
    \/ t \in restartFile'.tasks
    \/ ({t} \cup Above[t]) \cap restartFile'.interrupted # {}

AccountsForAll ==
    /\ \A t \in (LiveTasks \ belated) \cup drainStopped : Accounted(t)
    /\ \A t \in Subagents : pending[t] # NoFile => Accounted(t)

Writes == restartFile' # restartFile /\ restartFile' # NoFile

NobodyLeftBehind == [][Writes => AccountsForAll]_vars

(* "Each is seen either as a task below or as still pending": a subagent   *)
(* that an earlier restart left to be re-created is in the new file, also  *)
(* if the services are built while the file is prepared.                   *)
EachIsSeen ==
    [][Writes => \A t \in Subagents :
           pending[t] # NoFile \/ (t \in late /\ Live(t)) => Accounted(t)]_vars

(* A saved subagent stays suspended after the restore exactly when the     *)
(* operator had suspended it, in this engine or before an earlier restart, *)
(* unless it was only re-created after an engine captured those.           *)
OperatorSuspensionKept ==
    restartFile # NoFile =>
        \A t \in restartFile.tasks :
            files[t].late \/ (files[t].explicit <=> files[t].wish)

(* "Always when the operator had suspended them before the drain."         *)
OperatorSuspensionAlwaysKept ==
    restartFile # NoFile =>
        \A t \in restartFile.tasks : files[t].wish => files[t].explicit

(* A subagent that finishes by itself has been told of the end of every    *)
(* task it ever had, in this engine or before it was saved, except those   *)
(* that are lost: the state it was restored from held no report of them,   *)
(* and they were not restored with it.  So a restored parked owner neither *)
(* misses a child that is still to be registered nor a saved report.       *)
OwnerHears ==
    \A o \in Subagents : status[o] = "finished" => had \cap Children(o) \subseteq told \cup lost

(* An owner "must learn that the work it is waiting for will never report" *)
(* (task_manager.rs, push_to_owner_inbox), also across a restart.          *)
OwnerLearnsOfAll ==
    \A o \in Subagents : status[o] = "finished" => had \cap Children(o) \subseteq told
=============================================================================
