-------------------------- MODULE ScheduleRuntime --------------------------
(***************************************************************************)
(* The schedule runtime of coda-agent/src/scheduling: one background loop  *)
(* that reads the store of scheduled definitions, launches the due ones as *)
(* background runs, and settles a run when its terminal callback arrives.  *)
(* Around it the main agent and the clients add and delete definitions, a  *)
(* run cancels its own definition, the host pauses launches for a planned  *)
(* restart, and another agent removes terminal tasks from the registry.    *)
(*                                                                         *)
(* The loop owns its entries, each with a copy of its definition; the      *)
(* store is shared, and every store access is one step under its lock.     *)
(* What the loop does between two store accesses, or between a launch      *)
(* decision and the launch, is where the others get in.                    *)
(***************************************************************************)
EXTENDS Naturals, Sequences

CONSTANTS
    Definitions,   \* ids, fresh for each definition ever added
    Period,        \* of every interval, and of every cron expression
    Budgets,       \* the values maxRuns of a recurring definition may have
    Deadlines,     \* the instants expiresAt may be; one beyond MaxTime never comes
    MaxTime,       \* bound on the clock
    Nothing        \* no launch under way

ASSUME BoundsAssumption ==
    /\ Period \in Nat \ {0} /\ MaxTime \in Nat
    /\ Budgets \subseteq Nat /\ Deadlines \subseteq Nat

VARIABLES
    clock,       \* what ScheduleClock::now answers
    stored,      \* the ids in the ScheduledTaskStore
    def,         \* the definitions: kind, bounds, next due time, runs, retirement
    entry,       \* the loop's entries, with their copy of the definition
    run,         \* the runs of each definition, in the order they started
    commands,    \* the channel of terminal callbacks, as <<definition, run>>
    loop,        \* where the loop is
    todo,        \* definitions this pass has yet to evaluate
    launching,   \* the definition being launched and where the loop goes on then
    paused,      \* launches_paused
    seenPaused,  \* its value when this pass was begun
    cancelled,   \* the runtime's cancellation
    retirements  \* "retired" lifecycle events of each definition

storeVars == <<stored, def>>
loopVars  == <<entry, loop, todo, launching, seenPaused>>
hostVars  == <<paused, cancelled>>
vars == <<clock, storeVars, run, commands, loopVars, hostVars, retirements>>

NoEntry == [there |-> FALSE, status |-> "idle", active |-> 0, deleted |-> FALSE,
            faulted |-> FALSE, announced |-> FALSE,
            def |-> [kind |-> "none", budget |-> 0, expires |-> 0, next |-> 0,
                     started |-> 0, retired |-> "no"]]

Init ==
    /\ clock = 0
    /\ stored = {} /\ def = [d \in Definitions |-> NoEntry.def]
    /\ entry = [d \in Definitions |-> NoEntry]
    /\ run = [d \in Definitions |-> <<>>]
    /\ commands = <<>>
    /\ loop = "reconciling" /\ todo = {} /\ launching = Nothing
    /\ paused \in BOOLEAN /\ seenPaused = FALSE /\ cancelled = FALSE
    /\ retirements = [d \in Definitions |-> 0]

-----------------------------------------------------------------------------
(* limits::admit and ScheduleRecurrence::advance_recurring_past *)

NoLimit == 0       \* the budget of a definition without maxRuns

Spent(r) == r.budget # NoLimit /\ r.started >= r.budget

\* "no", or why the definition r may never launch again.
Admission(r) ==
    CASE r.retired # "no" -> r.retired
      [] r.retired = "no" /\ r.expires <= clock -> "expired"
      [] r.retired = "no" /\ r.expires > clock /\ Spent(r) -> "run_limit"
      [] OTHER -> "no"

PeriodsUntil(next) == (clock - next + Period - 1) \div Period

NextInterval(next) ==
    IF next > clock THEN next ELSE next + Period * PeriodsUntil(next)

NextCron == Period * (clock \div Period + 1)

Advanced(r) == IF r.kind = "cron" THEN NextCron ELSE NextInterval(r.next)

OneShot(r) == r.kind = "at"

-----------------------------------------------------------------------------
(* The loop: reconcile, and the settling of what the loop decided.         *)

Reconciled(d) ==
    CASE d \in stored /\ ~entry[d].there ->
            [NoEntry EXCEPT !.there = TRUE, !.def = def[d],
                            !.announced = def[d].retired # "no"]
      [] d \in stored /\ entry[d].there /\ entry[d].def # def[d] ->
            [entry[d] EXCEPT !.def = def[d], !.faulted = entry[d].faulted /\ def[d].retired # "no"]
      [] d \notin stored /\ entry[d].there /\ entry[d].status # "idle" ->
            [entry[d] EXCEPT !.deleted = TRUE]
      [] d \notin stored /\ entry[d].status = "idle" -> NoEntry
      [] OTHER -> entry[d]

\* Steps 1 and 4 of the loop, one snapshot of the store each.
Reconcile ==
    /\ \/ loop = "reconciling" /\ loop' = IF cancelled THEN "stopped" ELSE "terminals"
       \/ loop = "settling" /\ loop' = IF cancelled THEN "stopped" ELSE "waiting"
    /\ entry' = IF cancelled THEN entry ELSE [d \in Definitions |-> Reconciled(d)]
    /\ UNCHANGED <<clock, storeVars, run, commands, todo, launching, seenPaused,
                   hostVars, retirements>>

\* retire: the first recorded reason wins, the event is sent once.
Retire(d, reason) ==
    IF d \notin stored
    THEN /\ entry' = [entry EXCEPT ![d] = NoEntry]
         /\ UNCHANGED <<storeVars, retirements>>
    ELSE LET why == IF def[d].retired = "no" THEN reason ELSE def[d].retired
         IN  /\ def' = [def EXCEPT ![d].retired = why]
             /\ entry' = [entry EXCEPT ![d] =
                            [@ EXCEPT !.def = def'[d], !.status = "idle", !.active = 0,
                                      !.announced = TRUE]]
             /\ retirements' =
                    [retirements EXCEPT ![d] = IF entry[d].announced THEN @ ELSE @ + 1]
             /\ UNCHANGED stored

Launch(d, from) ==
    /\ loop' = "launching"
    /\ launching' = [def |-> d, back |-> from]

-----------------------------------------------------------------------------
(* Step 2: terminal callbacks. *)

StopLoop ==
    /\ cancelled
    /\ loop \in {"terminals", "evaluating", "waiting"}
    /\ loop' = "stopped"
    /\ UNCHANGED <<clock, storeVars, run, commands, entry, todo, launching, seenPaused,
                   hostVars, retirements>>

Take(d, n) ==
    /\ loop = "terminals" /\ ~cancelled
    /\ commands # <<>> /\ Head(commands) = <<d, n>>
    /\ commands' = Tail(commands)
    /\ UNCHANGED <<clock, run, todo, seenPaused, hostVars>>

Awaited(d, n) == entry[d].there /\ entry[d].active = n

\* A definition deleted meanwhile is forgotten; a callback nobody waits for
\* is dropped.
DropCommand(d, n) ==
    /\ Take(d, n)
    /\ \/ ~Awaited(d, n) /\ UNCHANGED entry
       \/ /\ Awaited(d, n) /\ (entry[d].deleted \/ d \notin stored)
          /\ entry' = [entry EXCEPT ![d] = NoEntry]
    /\ UNCHANGED <<storeVars, loop, launching, retirements>>

Settling(d, n) ==
    /\ Take(d, n)
    /\ Awaited(d, n) /\ ~entry[d].deleted /\ d \in stored

Without(d) == stored \ {d}

\* A one-shot that nobody cancelled has done its work.
FinishOneShot(d, n) ==
    /\ Settling(d, n)
    /\ OneShot(def[d]) /\ def[d].retired = "no"
    /\ stored' = Without(d)
    /\ entry' = [entry EXCEPT ![d] = NoEntry]
    /\ UNCHANGED <<def, loop, launching, retirements>>

JudgedBy(d) == def[d]

(* Slip: asked after the entry was set to idle. *)
PendingAfterReset(d) == [entry[d] EXCEPT !.status = "idle"].status = "pending"

WasPending(d) == entry[d].status = "pending"

\* The definition is judged as the store has it now; a queued replacement is
\* launched at once, its boundary having been advanced when it was queued.
FinishRun(d, n) ==
    /\ Settling(d, n)
    /\ ~OneShot(def[d]) \/ def[d].retired # "no"
    /\ LET verdict == Admission(JudgedBy(d)) IN
       IF verdict # "no"
       THEN Retire(d, verdict) /\ UNCHANGED <<loop, launching>>
       ELSE /\ entry' = [entry EXCEPT ![d] =
                              [@ EXCEPT !.def = def[d], !.status = "idle", !.active = 0]]
            /\ IF WasPending(d) /\ ~paused
               THEN Launch(d, "terminals")
               ELSE UNCHANGED <<loop, launching>>
            /\ UNCHANGED <<storeVars, retirements>>

NoMoreCommands ==
    /\ loop = "terminals" /\ ~cancelled
    /\ commands = <<>>
    /\ loop' = "evaluating"
    /\ todo' = {d \in Definitions : entry[d].there}
    /\ seenPaused' = paused
    /\ UNCHANGED <<clock, storeVars, run, commands, entry, launching, hostVars, retirements>>

-----------------------------------------------------------------------------
(* Step 3: what is due.  Retirement goes by the deadline, not by the next  *)
(* boundary.                                                               *)

Evaluating(d) ==
    /\ loop = "evaluating" /\ ~cancelled
    /\ d \in todo
    /\ todo' = todo \ {d}
    /\ UNCHANGED <<clock, run, commands, seenPaused, hostVars>>

(* Slip: only a run without a queued replacement keeps a second one out. *)
IdleOrPending(d) == entry[d].status # "running"

Idle(d) == entry[d].status = "idle"

Fit(d)  == entry[d].there /\ ~entry[d].deleted /\ ~entry[d].faulted
Due(d)  == entry[d].def.next <= clock

(* Slip: the bounds are looked at when a boundary comes. *)
VerdictWhenDue(d) == IF Due(d) THEN Admission(entry[d].def) ELSE "no"

Verdict(d) == Admission(entry[d].def)

PassOver(d) ==
    /\ Evaluating(d)
    /\ \/ ~Fit(d)
       \/ /\ Verdict(d) = "no"
          /\ ~Due(d) \/ (IF Idle(d) THEN seenPaused ELSE OneShot(entry[d].def))
    /\ UNCHANGED <<storeVars, entry, loop, launching, retirements>>

RetireIdle(d) ==
    /\ Evaluating(d)
    /\ Fit(d) /\ Verdict(d) # "no" /\ Idle(d)
    /\ Retire(d, Verdict(d))
    /\ UNCHANGED <<loop, launching>>

\* The run in flight may finish, a queued replacement may not start.
Unqueue(d) ==
    /\ Evaluating(d)
    /\ Fit(d) /\ Verdict(d) # "no" /\ ~Idle(d)
    /\ entry' = [entry EXCEPT ![d].status = "running"]
    /\ UNCHANGED <<storeVars, loop, launching, retirements>>

NextBoundary(d) == Advanced(entry[d].def)

\* One store access: admission is checked again and the boundary advanced.
Claim(d) ==
    /\ Evaluating(d)
    /\ Fit(d) /\ Verdict(d) = "no" /\ Idle(d) /\ Due(d) /\ ~seenPaused
    /\ IF d \in stored /\ Admission(def[d]) = "no"
       THEN /\ def' = [def EXCEPT ![d].next = IF OneShot(def[d]) THEN @ ELSE NextBoundary(d)]
            /\ entry' = [entry EXCEPT ![d].def = def'[d]]
            /\ Launch(d, "evaluating")
            /\ UNCHANGED <<stored, retirements>>
       ELSE Retire(d, Admission(def[d])) /\ UNCHANGED <<loop, launching>>

\* A boundary that passes during a run queues one replacement.
AdvanceWhileActive(d) ==
    /\ Evaluating(d)
    /\ Fit(d) /\ Verdict(d) = "no" /\ ~Idle(d) /\ Due(d) /\ ~OneShot(entry[d].def)
    /\ IF d \notin stored
       THEN /\ entry' = [entry EXCEPT ![d].deleted = TRUE]
            /\ UNCHANGED storeVars
       ELSE /\ def' = [def EXCEPT ![d].next = NextBoundary(d)]
            /\ entry' = [entry EXCEPT ![d] =
                    [@ EXCEPT !.def = def'[d],
                              !.status = IF Admission(def'[d]) = "no"
                                         THEN "pending" ELSE entry[d].status]]
            /\ UNCHANGED stored
    /\ UNCHANGED <<loop, launching, retirements>>

NothingMoreDue ==
    /\ loop = "evaluating" /\ ~cancelled
    /\ todo = {}
    /\ loop' = "settling"
    /\ seenPaused' = FALSE                          \* out of scope from here on
    /\ UNCHANGED <<clock, storeVars, run, commands, entry, todo, launching, hostVars,
                   retirements>>

-----------------------------------------------------------------------------
(* The launch: the runner registers a task, then the attempt is counted.   *)

StartRun ==
    /\ loop = "launching"
    /\ run' = [run EXCEPT ![launching.def] = Append(@, "running")]
    /\ loop' = "committing"
    /\ UNCHANGED <<clock, storeVars, commands, entry, todo, launching, seenPaused,
                   hostVars, retirements>>

\* The loop goes on where it launched from.
Launched ==
    /\ loop' = launching.back
    /\ launching' = Nothing

\* The task manager refuses: it is shutting down, or out of task ids.
StartRefused ==
    /\ loop = "launching"
    /\ Launched
    /\ LET d == launching.def IN
       IF OneShot(entry[d].def)
       THEN Retire(d, "launch_failed")
       ELSE /\ entry' = [entry EXCEPT ![d] =
                         [@ EXCEPT !.faulted = TRUE, !.status = "idle", !.active = 0]]
            /\ UNCHANGED <<storeVars, retirements>>
    /\ UNCHANGED <<clock, run, commands, todo, seenPaused, hostVars>>

(* Slip: a launch is not counted when the run has already ended. *)
CountedIfRunning(d) ==
    def[d].started + (IF run[d][Len(run[d])] = "running" THEN 1 ELSE 0)

Counted(d) == def[d].started + 1

Commit ==
    /\ loop = "committing"
    /\ Launched
    /\ LET d == launching.def
           busy == [entry[d] EXCEPT !.status = "running", !.active = Len(run[d])]
       IN IF d \in stored
          THEN /\ def' = [def EXCEPT ![d].started = Counted(d)]
               /\ entry' = [entry EXCEPT ![d] = [busy EXCEPT !.def = def'[d]]]
          ELSE /\ entry' = [entry EXCEPT ![d] = [busy EXCEPT !.deleted = TRUE]]
               /\ UNCHANGED def
    /\ UNCHANGED <<clock, stored, run, commands, todo, seenPaused, hostVars, retirements>>

\* Step 5: a due time, a changed store, a resumption, or a minute at most.  A
\* callback ends the wait as well; it goes back to the end of the channel.
Wait ==
    /\ loop = "waiting" /\ ~cancelled
    /\ loop' = "reconciling"
    /\ \/ UNCHANGED commands
       \/ commands # <<>> /\ commands' = Append(Tail(commands), Head(commands))
    /\ UNCHANGED <<clock, storeVars, run, entry, todo, launching, seenPaused,
                   hostVars, retirements>>

-----------------------------------------------------------------------------
(* Around the loop. *)

Tick ==
    /\ clock < MaxTime
    /\ clock' = clock + 1
    /\ UNCHANGED <<storeVars, run, commands, loopVars, hostVars, retirements>>

FirstRun(kind) ==
    CASE kind = "at"       -> {clock, clock + 1}      \* one long past is due like one now
      [] kind = "cron"     -> {NextCron}
      [] kind = "interval" -> {clock + Period}

\* limits::build_draft and ScheduledTaskStore::add: the deadline must allow
\* the first occurrence, maxRuns of a one-shot is brought down to 1, and a
\* recurrence that cannot be computed is refused here, once and for all.
Add(d) ==
    /\ d \notin stored /\ def[d].kind = "none"     \* a fresh id
    /\ \E kind \in {"at", "interval", "cron"}, e \in Deadlines :
       \E next \in FirstRun(kind), b \in IF kind = "at" THEN {NoLimit, 1} ELSE Budgets :
          /\ clock < e /\ next < e
          /\ def' = [def EXCEPT ![d] = [@ EXCEPT !.kind = kind, !.budget = b,
                                                 !.expires = e, !.next = next]]
    /\ stored' = stored \cup {d}
    /\ UNCHANGED <<clock, run, commands, loopVars, hostVars, retirements>>

Delete(d) ==
    /\ d \in stored
    /\ stored' = stored \ {d}
    /\ UNCHANGED <<clock, def, run, commands, loopVars, hostVars, retirements>>

\* schedule_cancel_self, by the run itself.
CancelSelf(d) ==
    /\ d \in stored /\ def[d].retired = "no"
    /\ \E n \in DOMAIN run[d] : run[d][n] = "running"
    /\ def' = [def EXCEPT ![d].retired = "cancelled"]
    /\ UNCHANGED <<clock, stored, run, commands, loopVars, hostVars, retirements>>

\* The run's task becomes terminal: completed, failed or stopped.
EndRun(d, n) ==
    /\ run[d][n] = "running"
    /\ run' = [run EXCEPT ![d][n] = "ended"]
    /\ UNCHANGED <<clock, storeVars, commands, loopVars, hostVars, retirements>>

\* The runner looks its task up for the callback.
CallBack(d, n) ==
    /\ run[d][n] = "ended"
    /\ run' = [run EXCEPT ![d][n] = "over"]
    /\ commands' = Append(commands, <<d, n>>)
    /\ UNCHANGED <<clock, storeVars, loopVars, hostVars, retirements>>

\* A task removed before that look is not found, and nobody calls back.
RemoveTask(d, n) ==
    /\ run[d][n] = "ended"
    /\ run' = [run EXCEPT ![d][n] = "lost"]
    /\ UNCHANGED <<clock, storeVars, commands, loopVars, hostVars, retirements>>

PauseLaunches ==
    /\ paused' = ~paused
    /\ UNCHANGED <<clock, storeVars, run, commands, loopVars, cancelled, retirements>>

Shutdown ==
    /\ ~cancelled
    /\ cancelled' = TRUE
    /\ UNCHANGED <<clock, storeVars, run, commands, loopVars, paused, retirements>>

-----------------------------------------------------------------------------

Handle(d, n) == DropCommand(d, n) \/ FinishOneShot(d, n) \/ FinishRun(d, n)
Evaluate(d) ==
    PassOver(d) \/ RetireIdle(d) \/ Unqueue(d) \/ Claim(d) \/ AdvanceWhileActive(d)

Loop ==
    \/ Reconcile \/ StopLoop \/ NoMoreCommands \/ NothingMoreDue
    \/ \E d \in Definitions : Evaluate(d) \/ \E n \in DOMAIN run[d] : Handle(d, n)
    \/ StartRun \/ StartRefused \/ Commit \/ Wait

Next ==
    \/ Loop
    \/ Tick \/ PauseLaunches \/ Shutdown
    \/ \E d \in Definitions : Add(d) \/ Delete(d) \/ CancelSelf(d)
    \/ \E d \in Definitions : \E n \in DOMAIN run[d] :
          EndRun(d, n) \/ CallBack(d, n) \/ RemoveTask(d, n)

\* The loop goes on, and a run that ended calls back or has been removed.
Fairness ==
    /\ WF_vars(Loop)
    /\ \A d \in Definitions :
          WF_vars(\E n \in DOMAIN run[d] : CallBack(d, n) \/ RemoveTask(d, n))

Spec == Init /\ [][Next]_vars /\ Fairness

-----------------------------------------------------------------------------
(* Properties *)

Reasons == {"cancelled", "expired", "run_limit", "launch_failed"}
DefinitionCopy ==
    [kind : {"none", "at", "interval", "cron"}, budget : Nat, expires : Nat, next : Nat,
     started : Nat, retired : {"no"} \cup Reasons]
Steps == {"reconciling", "terminals", "evaluating", "launching", "committing", "settling",
          "waiting", "stopped"}

TypeOK ==
    /\ clock \in Nat
    /\ stored \subseteq Definitions
    /\ def \in [Definitions -> DefinitionCopy]
    /\ entry \in [Definitions ->
            [there : BOOLEAN, status : {"idle", "running", "pending"}, active : Nat,
             deleted : BOOLEAN, faulted : BOOLEAN, announced : BOOLEAN,
             def : DefinitionCopy]]
    /\ run \in [Definitions -> Seq({"running", "ended", "over", "lost"})]
    /\ commands \in Seq(Definitions \X Nat)
    /\ loop \in Steps
    /\ todo \subseteq Definitions
    /\ launching \in {Nothing} \cup [def : Definitions, back : {"terminals", "evaluating"}]
    /\ paused \in BOOLEAN /\ seenPaused \in BOOLEAN /\ cancelled \in BOOLEAN
    /\ retirements \in [Definitions -> Nat]

\* "A definition never runs concurrently with itself" (runtime.rs:23).
NoOverlap ==
    \A d \in Definitions : \A m, n \in DOMAIN run[d] :
        run[d][m] = "running" /\ run[d][n] = "running" => m = n

\* maxRuns bounds accepted launch attempts, and the stored counter is that
\* number, but for the attempt being committed (limits.rs:14, runtime.rs:805).
RunsWithinBudget ==
    \A d \in Definitions :
        /\ def[d].budget # NoLimit => Len(run[d]) <= def[d].budget
        /\ d \in stored =>
              def[d].started + (IF loop = "committing" /\ launching.def = d THEN 1 ELSE 0)
                  = Len(run[d])

\* A one-shot is launched once: its definition outlives the launch, but not
\* the run (runtime.rs:21).
OneShotRunsOnce == \A d \in Definitions : OneShot(def[d]) => Len(run[d]) <= 1

\* "retired" is announced once, when no run is in flight, and none starts
\* after it (runtime.rs:628).
RetiredIsQuiet ==
    \A d \in Definitions :
        /\ retirements[d] <= 1
        /\ retirements[d] = 1 => \A n \in DOMAIN run[d] : run[d][n] # "running"

\* No run starts of a definition the store holds as retired, though the loop
\* works on copies (runtime.rs:694).
StartsAreAdmitted ==
    [][\A d \in stored : run'[d] # run[d] /\ Len(run'[d]) > Len(run[d])
            => def[d].retired = "no"]_vars

\* A boundary that came is answered by a run: at once, or by the one queued
\* replacement after the run in flight, unless the definition is retired,
\* faulted or deleted, launches pause, or the run's callback was lost.
DueIsLaunched ==
    \A d \in Definitions : \A k \in 0 .. 2 :
        (d \in stored /\ def[d].next <= clock /\ def[d].started = k) ~>
            \/ d \notin stored \/ def[d].started > k \/ def[d].retired # "no"
            \/ \E n \in DOMAIN run[d] : run[d][n] # "over"
            \/ entry[d].faulted \/ paused \/ cancelled

\* A definition expires at its deadline, not at its next boundary, once no run
\* is in flight (limits.rs:24, runtime.rs:575).
DeadlineRetires ==
    \A d \in Definitions :
        (d \in stored /\ def[d].expires <= clock) ~>
            \/ d \notin stored \/ def[d].retired # "no"
            \/ \E n \in DOMAIN run[d] : run[d][n] \in {"running", "lost"}
            \/ entry[d].faulted \/ cancelled

\* What the documentation says of recurrence: the next due time is "strictly
\* after now" (schedule_recurrence.rs:25), and advanced before launching.
LaunchAdvances ==
    [][\A d \in Definitions :
          Claim(d) /\ loop' = "launching" /\ ~OneShot(def[d]) => def'[d].next > clock]_vars
=============================================================================
