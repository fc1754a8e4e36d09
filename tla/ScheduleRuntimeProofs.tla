----------------------- MODULE ScheduleRuntimeProofs -----------------------
(***************************************************************************)
(* Proofs about ScheduleRuntime for any set of definitions, any period,    *)
(* budgets and deadlines: types, no overlap, and the budget.               *)
(***************************************************************************)
EXTENDS ScheduleRuntime, TLAPS

Records == [there : BOOLEAN, status : {"idle", "running", "pending"}, active : Nat,
            deleted : BOOLEAN, faulted : BOOLEAN, announced : BOOLEAN,
            def : DefinitionCopy]

Launches == [def : Definitions, back : {"terminals", "evaluating"}]

\* What is being launched is a definition the loop has at rest.
LaunchIsOfIdle ==
    loop \in {"launching", "committing"} =>
        /\ launching \in Launches
        /\ entry[launching.def].there /\ entry[launching.def].status = "idle"

\* The launch of d is being committed.
Busy(d) == loop = "committing" /\ launching.def = d

AbsentIsIdle == \A d \in Definitions : entry[d].there \/ entry[d].status = "idle"

\* A running run is the last, and the one the loop awaits or is committing.
RunInFlight ==
    \A d \in Definitions : \A n \in DOMAIN run[d] :
        run[d][n] = "running" =>
            /\ n = Len(run[d])
            /\ Busy(d) \/ (entry[d].status # "idle" /\ entry[d].active = n)

\* A callback is that of a run that is over.
CallsAreOver ==
    \A i \in DOMAIN commands :
        /\ commands[i][2] \in DOMAIN run[commands[i][1]]
        /\ run[commands[i][1]][commands[i][2]] = "over"

OverlapInv == TypeOK /\ LaunchIsOfIdle /\ AbsentIsIdle /\ RunInFlight /\ CallsAreOver

NoneRuns(d) == \A n \in DOMAIN run[d] : run[d][n] # "running"

(* Whole periods are natural numbers. *)
LEMMA DivType == \A a \in Nat, b \in Nat \ {0} : a \div b \in Nat
  OBVIOUS

LEMMA TimesType == \A a \in Nat, b \in Nat : a * b \in Nat
  OBVIOUS

(* The next boundary is an instant. *)
LEMMA NextBoundaryType ==
    ASSUME TypeOK, NEW d \in Definitions PROVE NextBoundary(d) \in Nat
<1>1. NextCron \in Nat
  <2>1. clock \div Period \in Nat
    BY DivType, BoundsAssumption DEF TypeOK
  <2> QED
    BY <2>1, TimesType, BoundsAssumption DEF NextCron
<1>2. ASSUME NEW next \in Nat PROVE NextInterval(next) \in Nat
  <2>1. CASE next > clock
    BY <2>1, <1>2 DEF NextInterval
  <2>2. CASE ~(next > clock)
    <3>1. clock - next + Period - 1 \in Nat
      BY <2>2, <1>2, BoundsAssumption DEF TypeOK
    <3>2. PeriodsUntil(next) \in Nat
      BY <3>1, DivType, BoundsAssumption DEF PeriodsUntil
    <3> QED
      BY <2>2, <3>2, <1>2, TimesType, BoundsAssumption DEF NextInterval
  <2> QED
    BY <2>1, <2>2
<1>3. entry[d].def.next \in Nat
  BY DEF TypeOK, DefinitionCopy
<1> QED
  BY <1>1, <1>2, <1>3 DEF NextBoundary, Advanced

(* An entry or a definition replaced by a well-typed one. *)
LEMMA SetEntry ==
    ASSUME entry \in [Definitions -> Records], NEW d \in Definitions, NEW e \in Records
    PROVE  [entry EXCEPT ![d] = e] \in [Definitions -> Records]
OBVIOUS

LEMMA SetDef ==
    ASSUME def \in [Definitions -> DefinitionCopy], NEW d \in Definitions,
           NEW r \in DefinitionCopy
    PROVE  [def EXCEPT ![d] = r] \in [Definitions -> DefinitionCopy]
OBVIOUS

LEMMA Updates ==
    ASSUME NEW e \in Records, NEW r \in DefinitionCopy, NEW a \in Nat,
           NEW s \in {"idle", "running", "pending"}
    PROVE  /\ [e EXCEPT !.status = s] \in Records
           /\ [e EXCEPT !.status = s, !.active = a] \in Records
           /\ [e EXCEPT !.def = r] \in Records
           /\ [e EXCEPT !.def = r, !.status = s] \in Records
           /\ [e EXCEPT !.def = r, !.status = s, !.active = a] \in Records
           /\ [e EXCEPT !.faulted = TRUE, !.status = s, !.active = a] \in Records
           /\ [e EXCEPT !.deleted = TRUE] \in Records
           /\ [r EXCEPT !.next = a] \in DefinitionCopy
           /\ [r EXCEPT !.started = a] \in DefinitionCopy
BY DEF Records, DefinitionCopy

(* limits::admit gives "no" or a reason. *)
LEMMA AdmissionType ==
    ASSUME NEW r \in DefinitionCopy PROVE Admission(r) \in {"no"} \cup Reasons
BY DEF Admission, DefinitionCopy, Reasons

(* What retire leaves behind. *)
LEMMA RetireType ==
    ASSUME TypeOK, NEW d \in Definitions, NEW reason \in {"no"} \cup Reasons,
           Retire(d, reason)
    PROVE  /\ entry' \in [Definitions -> Records]
           /\ def' \in [Definitions -> DefinitionCopy]
           /\ stored' = stored
           /\ retirements' \in [Definitions -> Nat]
<1>0. NoEntry \in Records
  BY DEF NoEntry, Records, DefinitionCopy
<1>t. /\ entry \in [Definitions -> Records] /\ def \in [Definitions -> DefinitionCopy]
      /\ retirements \in [Definitions -> Nat]
  BY DEF TypeOK, Records
<1>1. CASE d \notin stored
  BY <1>0, <1>1, <1>t DEF Retire, storeVars
<1>2. CASE d \in stored
  <2> DEFINE why == IF def[d].retired = "no" THEN reason ELSE def[d].retired
  <2>1. why \in {"no"} \cup Reasons
    BY <1>t DEF DefinitionCopy
  <2>2. def' = [def EXCEPT ![d].retired = why]
    BY <1>2 DEF Retire
  <2>3. def' \in [Definitions -> DefinitionCopy]
    BY <2>1, <2>2, <1>t DEF DefinitionCopy
  <2>4. entry' = [entry EXCEPT ![d] = [@ EXCEPT !.def = def'[d], !.status = "idle",
                                            !.active = 0, !.announced = TRUE]]
    BY <1>2 DEF Retire
  <2>5. entry' \in [Definitions -> Records]
    BY <2>3, <2>4, <1>t DEF Records
  <2>6. retirements' \in [Definitions -> Nat] /\ stored' = stored
    BY <1>2, <1>t DEF Retire
  <2> QED
    BY <2>3, <2>5, <2>6
<1> QED
  BY <1>1, <1>2

(* Every step keeps the types. *)
LEMMA StepType == TypeOK /\ LaunchIsOfIdle /\ [Next]_vars => TypeOK'
<1> SUFFICES ASSUME TypeOK, LaunchIsOfIdle, [Next]_vars PROVE TypeOK'
  OBVIOUS
<1> USE DEF loopVars, hostVars, storeVars
<1>t. /\ clock \in Nat /\ stored \subseteq Definitions
      /\ def \in [Definitions -> DefinitionCopy] /\ entry \in [Definitions -> Records]
      /\ run \in [Definitions -> Seq({"running", "ended", "over", "lost"})]
      /\ commands \in Seq(Definitions \X Nat)
      /\ launching \in {Nothing} \cup [def : Definitions, back : {"terminals", "evaluating"}]
      /\ retirements \in [Definitions -> Nat]
  BY DEF TypeOK, Records
<1>n. NoEntry \in Records
  BY DEF NoEntry, Records, DefinitionCopy
<1>1. CASE Reconcile
  <2>1. ASSUME NEW d \in Definitions PROVE Reconciled(d) \in Records
    BY <1>t, <1>n DEF Reconciled, Records, NoEntry
  <2>2. entry' \in [Definitions -> Records]
    BY <1>1, <1>t, <2>1 DEF Reconcile
  <2> QED
    BY <1>1, <2>2 DEF Reconcile, TypeOK, Records, Steps
<1>2. CASE StopLoop
  BY <1>2 DEF StopLoop, TypeOK, Steps
<1>3. CASE NoMoreCommands
  BY <1>3 DEF NoMoreCommands, TypeOK, Steps
<1>4. CASE NothingMoreDue
  BY <1>4 DEF NothingMoreDue, TypeOK, Steps
<1>5. ASSUME NEW d \in Definitions, NEW n \in DOMAIN run[d], Handle(d, n) PROVE TypeOK'
  <2>1. Tail(commands) \in Seq(Definitions \X Nat)
    BY <1>5, <1>t DEF Handle, DropCommand, FinishOneShot, FinishRun, Settling, Take
  <2>2. CASE DropCommand(d, n)
    <3>1. entry' \in [Definitions -> Records]
      BY <2>2, <1>t, <1>n DEF DropCommand
    <3> QED
      BY <2>1, <2>2, <3>1 DEF DropCommand, Take, TypeOK, Records
  <2>3. CASE FinishOneShot(d, n)
    <3>1. entry' \in [Definitions -> Records]
      BY <2>3, <1>t, <1>n DEF FinishOneShot
    <3> QED
      BY <2>1, <2>3, <3>1 DEF FinishOneShot, Settling, Take, Without, TypeOK, Records
  <2>4. CASE FinishRun(d, n)
    <3> DEFINE verdict == Admission(JudgedBy(d))
    <3>1. verdict \in {"no"} \cup Reasons
      BY <1>t, AdmissionType DEF JudgedBy
    <3>2. CASE verdict # "no"
      <4>1. Retire(d, verdict) /\ UNCHANGED <<loop, launching>>
        BY <2>4, <3>2 DEF FinishRun
      <4>2. /\ entry' \in [Definitions -> Records] /\ def' \in [Definitions -> DefinitionCopy]
            /\ stored' = stored /\ retirements' \in [Definitions -> Nat]
        BY <3>1, <4>1, RetireType
      <4> QED
        BY <2>1, <2>4, <4>1, <4>2 DEF FinishRun, Settling, Take, TypeOK, Records
    <3>3. CASE verdict = "no"
      <4>0. entry' = [entry EXCEPT ![d] =
                        [entry[d] EXCEPT !.def = def[d], !.status = "idle", !.active = 0]]
        BY <2>4, <3>3 DEF FinishRun
      <4>1. entry' \in [Definitions -> Records]
        BY <4>0, <1>t, SetEntry, Updates
      <4>2. loop' \in Steps
        BY <2>4, <3>3 DEF FinishRun, Launch, TypeOK, Steps
      <4>3. launching' \in {Nothing} \cup [def : Definitions, back : {"terminals", "evaluating"}]
        BY <2>4, <3>3, <1>t DEF FinishRun, Launch
      <4>4. UNCHANGED <<storeVars, retirements>>
        BY <2>4, <3>3 DEF FinishRun
      <4> QED
        BY <2>1, <2>4, <4>1, <4>2, <4>3, <4>4 DEF FinishRun, Settling, Take, TypeOK, Records
    <3> QED
      BY <3>2, <3>3
  <2> QED
    BY <1>5, <2>2, <2>3, <2>4 DEF Handle
<1>6. ASSUME NEW d \in Definitions, Evaluate(d) PROVE TypeOK'
  <2>1. CASE PassOver(d)
    BY <2>1 DEF PassOver, Evaluating, TypeOK
  <2>2. CASE RetireIdle(d)
    <3>1. Verdict(d) \in {"no"} \cup Reasons
      BY <1>t, AdmissionType DEF Verdict, Records
    <3>2. /\ entry' \in [Definitions -> Records] /\ def' \in [Definitions -> DefinitionCopy]
          /\ stored' = stored /\ retirements' \in [Definitions -> Nat]
      BY <2>2, <3>1, RetireType DEF RetireIdle
    <3> QED
      BY <2>2, <3>2 DEF RetireIdle, Evaluating, TypeOK, Records
  <2>3. CASE Unqueue(d)
    <3>0. entry' = [entry EXCEPT ![d] = [entry[d] EXCEPT !.status = "running"]]
      BY <2>3 DEF Unqueue
    <3>1. entry' \in [Definitions -> Records]
      BY <3>0, <1>t, SetEntry, Updates
    <3> QED
      BY <2>3, <3>1 DEF Unqueue, Evaluating, TypeOK, Records
  <2>4. CASE Claim(d)
    <3>1. CASE d \in stored /\ Admission(def[d]) = "no"
      <4> DEFINE next == IF OneShot(def[d]) THEN def[d].next ELSE NextBoundary(d)
      <4>1. next \in Nat
        BY <1>t, NextBoundaryType DEF DefinitionCopy
      <4>2. def' = [def EXCEPT ![d] = [def[d] EXCEPT !.next = next]]
        BY <2>4, <3>1 DEF Claim
      <4>3. def' \in [Definitions -> DefinitionCopy]
        BY <4>1, <4>2, <1>t, SetDef, Updates
      <4>4. entry' = [entry EXCEPT ![d] = [entry[d] EXCEPT !.def = def'[d]]]
        BY <2>4, <3>1 DEF Claim
      <4>5. entry' \in [Definitions -> Records]
        BY <4>3, <4>4, <1>t, SetEntry, Updates
      <4>6. launching' \in [def : Definitions, back : {"terminals", "evaluating"}] /\ loop' \in Steps
        BY <2>4, <3>1 DEF Claim, Launch, Steps
      <4>7. UNCHANGED <<stored, retirements>>
        BY <2>4, <3>1 DEF Claim
      <4> QED
        BY <2>4, <4>3, <4>5, <4>6, <4>7 DEF Claim, Evaluating, TypeOK, Records
    <3>2. CASE ~(d \in stored /\ Admission(def[d]) = "no")
      <4>1. Retire(d, Admission(def[d])) /\ UNCHANGED <<loop, launching>>
        BY <2>4, <3>2 DEF Claim
      <4>2. /\ entry' \in [Definitions -> Records] /\ def' \in [Definitions -> DefinitionCopy]
            /\ stored' = stored /\ retirements' \in [Definitions -> Nat]
        BY <4>1, <1>t, AdmissionType, RetireType
      <4> QED
        BY <2>4, <4>1, <4>2 DEF Claim, Evaluating, TypeOK, Records
    <3> QED
      BY <3>1, <3>2
  <2>5. CASE AdvanceWhileActive(d)
    <3>1. CASE d \notin stored
      <4>0. entry' = [entry EXCEPT ![d] = [entry[d] EXCEPT !.deleted = TRUE]]
        BY <2>5, <3>1 DEF AdvanceWhileActive
      <4>1. entry' \in [Definitions -> Records] /\ UNCHANGED storeVars
        BY <2>5, <3>1, <4>0, <1>t, SetEntry, Updates DEF AdvanceWhileActive
      <4> QED
        BY <2>5, <4>1 DEF AdvanceWhileActive, Evaluating, TypeOK, Records
    <3>2. CASE d \in stored
      <4>1. /\ def' = [def EXCEPT ![d] = [def[d] EXCEPT !.next = NextBoundary(d)]]
            /\ stored' = stored
        BY <2>5, <3>2 DEF AdvanceWhileActive
      <4>2. def' \in [Definitions -> DefinitionCopy]
        BY <4>1, <1>t, NextBoundaryType, SetDef, Updates
      <4> DEFINE status == IF Admission(def'[d]) = "no" THEN "pending" ELSE entry[d].status
      <4>4. entry' = [entry EXCEPT ![d] = [entry[d] EXCEPT !.def = def'[d], !.status = status]]
        BY <2>5, <3>2 DEF AdvanceWhileActive
      <4>5. status \in {"idle", "running", "pending"} /\ def'[d] \in DefinitionCopy
        BY <4>2, <1>t DEF Records
      <4> HIDE DEF status
      <4>6. [entry[d] EXCEPT !.def = def'[d], !.status = status] \in Records
        BY <4>5, <1>t, Updates
      <4>3. entry' \in [Definitions -> Records]
        BY <4>4, <4>6, <1>t, SetEntry
      <4> QED
        BY <2>5, <4>1, <4>2, <4>3 DEF AdvanceWhileActive, Evaluating, TypeOK, Records
    <3> QED
      BY <3>1, <3>2
  <2> QED
    BY <1>6, <2>1, <2>2, <2>3, <2>4, <2>5 DEF Evaluate
<1>7. CASE StartRun
  <2>1. launching.def \in Definitions
    BY <1>7 DEF StartRun, LaunchIsOfIdle, Launches
  <2>2. run' \in [Definitions -> Seq({"running", "ended", "over", "lost"})]
    BY <1>7, <2>1, <1>t DEF StartRun
  <2> QED
    BY <1>7, <2>2 DEF StartRun, TypeOK, Steps
<1>8. CASE StartRefused
  <2>1. launching.def \in Definitions /\ loop' \in Steps /\ launching' = Nothing
    BY <1>8 DEF StartRefused, LaunchIsOfIdle, Launches, Launched, Steps
  <2>2. CASE OneShot(entry[launching.def].def)
    <3>1. Retire(launching.def, "launch_failed")
      BY <1>8, <2>2 DEF StartRefused
    <3>2. /\ entry' \in [Definitions -> Records] /\ def' \in [Definitions -> DefinitionCopy]
          /\ stored' = stored /\ retirements' \in [Definitions -> Nat]
      BY <2>1, <3>1, RetireType DEF Reasons
    <3> QED
      BY <1>8, <2>1, <3>2 DEF StartRefused, TypeOK, Records
  <2>3. CASE ~OneShot(entry[launching.def].def)
    <3>0. entry' = [entry EXCEPT ![launching.def] =
                      [entry[launching.def] EXCEPT !.faulted = TRUE, !.status = "idle",
                                                   !.active = 0]]
      BY <1>8, <2>3 DEF StartRefused
    <3>1. entry' \in [Definitions -> Records] /\ UNCHANGED <<storeVars, retirements>>
      BY <1>8, <2>1, <2>3, <3>0, <1>t, SetEntry, Updates DEF StartRefused
    <3> QED
      BY <1>8, <2>1, <3>1 DEF StartRefused, TypeOK, Records
  <2> QED
    BY <2>2, <2>3
<1>9. CASE Commit
  <2>1. /\ launching.def \in Definitions /\ loop' \in Steps /\ launching' = Nothing
    BY <1>9 DEF Commit, LaunchIsOfIdle, Launches, Launched, Steps
  <2> DEFINE d == launching.def
             busy == [entry[d] EXCEPT !.status = "running", !.active = Len(run[d])]
  <2>2. Len(run[d]) \in Nat
    BY <2>1, <1>t
  <2>3. busy \in Records
    BY <2>1, <2>2, <1>t, Updates
  <2>. HIDE DEF busy
  <2>4. CASE d \in stored
    <3>1. /\ def' = [def EXCEPT ![d] = [def[d] EXCEPT !.started = Counted(d)]]
          /\ entry' = [entry EXCEPT ![d] = [busy EXCEPT !.def = def'[d]]]
      BY <1>9, <2>4 DEF Commit, busy
    <3>4. Counted(d) \in Nat
      BY <2>1, <1>t DEF Counted, DefinitionCopy
    <3>2. def' \in [Definitions -> DefinitionCopy]
      BY <3>1, <3>4, <2>1, <1>t, SetDef, Updates
    <3>3. entry' \in [Definitions -> Records]
      BY <2>1, <2>3, <3>1, <3>2, <1>t, SetEntry, Updates
    <3> QED
      BY <1>9, <2>1, <3>2, <3>3 DEF Commit, TypeOK, Records
  <2>5. CASE d \notin stored
    <3>1. /\ entry' = [entry EXCEPT ![d] = [busy EXCEPT !.deleted = TRUE]] /\ UNCHANGED def
      BY <1>9, <2>5 DEF Commit, busy
    <3>2. entry' \in [Definitions -> Records]
      BY <2>1, <2>3, <3>1, <1>t, SetEntry, Updates
    <3> QED
      BY <1>9, <2>1, <3>1, <3>2 DEF Commit, TypeOK, Records
  <2> QED
    BY <2>4, <2>5
<1>10. CASE Wait
  <2> DEFINE C == Definitions \X Nat
  <2>2. commands \in Seq(C)
    BY <1>t
  <2> HIDE DEF C
  <2>3. \/ commands' = commands
        \/ commands # <<>> /\ commands' = Append(Tail(commands), Head(commands))
    BY <1>10 DEF Wait
  <2>4. commands' \in Seq(C)
    BY <2>2, <2>3
  <2>1. commands' \in Seq(Definitions \X Nat)
    BY <2>4 DEF C
  <2> QED
    BY <1>10, <2>1 DEF Wait, TypeOK, Steps
<1>11. CASE Tick
  BY <1>11 DEF Tick, TypeOK
<1>12. CASE PauseLaunches
  BY <1>12 DEF PauseLaunches, TypeOK
<1>13. CASE Shutdown
  BY <1>13 DEF Shutdown, TypeOK
<1>14. ASSUME NEW d \in Definitions, Add(d) PROVE TypeOK'
  <2>1. PICK kind \in {"at", "interval", "cron"}, e \in Deadlines :
            \E next \in FirstRun(kind), b \in IF kind = "at" THEN {NoLimit, 1} ELSE Budgets :
                def' = [def EXCEPT ![d] = [@ EXCEPT !.kind = kind, !.budget = b,
                                                   !.expires = e, !.next = next]]
    BY <1>14 DEF Add
  <2>2. PICK next \in FirstRun(kind), b \in IF kind = "at" THEN {NoLimit, 1} ELSE Budgets :
            def' = [def EXCEPT ![d] = [@ EXCEPT !.kind = kind, !.budget = b,
                                               !.expires = e, !.next = next]]
    BY <2>1
  <2>3. NextCron \in Nat
    <3>1. clock \div Period \in Nat
      BY DivType, BoundsAssumption, <1>t
    <3> QED
      BY <3>1, TimesType, BoundsAssumption DEF NextCron
  <2>4. next \in Nat /\ b \in Nat /\ e \in Nat
    BY <2>3, <1>t, BoundsAssumption DEF FirstRun, NoLimit
  <2>5. def' \in [Definitions -> DefinitionCopy]
    BY <2>2, <2>4, <1>t, ZenonT(60) DEF DefinitionCopy
  <2> QED
    BY <1>14, <2>5 DEF Add, TypeOK
<1>15. ASSUME NEW d \in Definitions, Delete(d) PROVE TypeOK'
  BY <1>15 DEF Delete, TypeOK
<1>16. ASSUME NEW d \in Definitions, CancelSelf(d) PROVE TypeOK'
  <2>1. def' \in [Definitions -> DefinitionCopy]
    BY <1>16, <1>t, ZenonT(60) DEF CancelSelf, DefinitionCopy, Reasons
  <2> QED
    BY <1>16, <2>1 DEF CancelSelf, TypeOK
<1>17. ASSUME NEW d \in Definitions, NEW n \in DOMAIN run[d],
              EndRun(d, n) \/ CallBack(d, n) \/ RemoveTask(d, n)
       PROVE TypeOK'
  <2>1. PICK s \in {"ended", "over", "lost"} : run' = [run EXCEPT ![d][n] = s]
    BY <1>17 DEF EndRun, CallBack, RemoveTask
  <2>2. run' \in [Definitions -> Seq({"running", "ended", "over", "lost"})]
    BY <1>17, <2>1, <1>t
  <2>4. n \in Nat
    BY <1>t
  <2>5. commands' = commands \/ commands' = Append(commands, <<d, n>>)
    BY <1>17 DEF EndRun, CallBack, RemoveTask
  <2>6. <<d, n>> \in Definitions \X Nat
    BY <2>4
  <2> DEFINE C == Definitions \X Nat
  <2>7. commands \in Seq(C) /\ <<d, n>> \in C
    BY <2>6, <1>t
  <2> HIDE DEF C
  <2>8. commands' \in Seq(C)
    BY <2>5, <2>7
  <2>3. commands' \in Seq(Definitions \X Nat)
    BY <2>8 DEF C
  <2> QED
    BY <1>17, <2>2, <2>3 DEF EndRun, CallBack, RemoveTask, TypeOK
<1>18. CASE UNCHANGED vars
  BY <1>18 DEF vars, TypeOK
<1> QED
  BY <1>1, <1>2, <1>3, <1>4, <1>5, <1>6, <1>7, <1>8, <1>9, <1>10, <1>11, <1>12, <1>13,
     <1>14, <1>15, <1>16, <1>17, <1>18 DEF Next, Loop

-----------------------------------------------------------------------------
(* No overlap. *)

(* A definition at rest, not being committed, has no running run. *)
LEMMA IdleIsQuiet ==
    ASSUME OverlapInv, NEW d \in Definitions, entry[d].status = "idle", ~Busy(d)
    PROVE  NoneRuns(d)
BY DEF OverlapInv, RunInFlight, NoneRuns

(* What the loop does to the channel keeps its content. *)
LEMMA CallsKept ==
    ASSUME OverlapInv, run' = run,
           \/ commands' = commands
           \/ commands # <<>> /\ commands' = Tail(commands)
           \/ commands # <<>> /\ commands' = Append(Tail(commands), Head(commands))
    PROVE  CallsAreOver'
<1> DEFINE C == Definitions \X Nat
           Over(c) == c[2] \in DOMAIN run[c[1]] /\ run[c[1]][c[2]] = "over"
<1>1. commands \in Seq(C)
  BY DEF OverlapInv, TypeOK
<1>2. \A i \in DOMAIN commands : Over(commands[i])
  BY DEF OverlapInv, CallsAreOver
<1> HIDE DEF C, Over
<1>3. \A i \in DOMAIN commands' : \E j \in DOMAIN commands : commands'[i] = commands[j]
  BY <1>1
<1>4. \A i \in DOMAIN commands' : Over(commands'[i])
  BY <1>2, <1>3
<1> QED
  BY <1>4 DEF Over, CallsAreOver

(* One entry changes, of a definition without a running run or in flight   *)
(* before and after; no launch is committed.                               *)
LEMMA EntryStep ==
    ASSUME OverlapInv, NEW d \in Definitions, NEW e \in Records,
           entry' = [entry EXCEPT ![d] = e], run' = run, loop # "committing",
           e.there \/ e.status = "idle",
           \/ NoneRuns(d)
           \/ e.status # "idle" /\ e.active = entry[d].active
    PROVE  AbsentIsIdle' /\ RunInFlight'
<1>1. entry \in [Definitions -> Records]
  BY DEF OverlapInv, TypeOK, Records
<1>2. AbsentIsIdle'
  BY <1>1 DEF OverlapInv, AbsentIsIdle
<1>3. ASSUME NEW c \in Definitions, NEW n \in DOMAIN run[c], run[c][n] = "running"
      PROVE  n = Len(run[c]) /\ entry'[c].status # "idle" /\ entry'[c].active = n
  BY <1>1, <1>3 DEF OverlapInv, RunInFlight, Busy, NoneRuns
<1>4. RunInFlight'
  BY <1>3 DEF RunInFlight
<1> QED
  BY <1>2, <1>4

(* The entry retire leaves is at rest. *)
LEMMA RetireShape ==
    ASSUME TypeOK, NEW d \in Definitions, NEW reason \in {"no"} \cup Reasons,
           Retire(d, reason)
    PROVE  \E e \in Records : entry' = [entry EXCEPT ![d] = e] /\ e.status = "idle"
<1>1. entry \in [Definitions -> Records] /\ entry' \in [Definitions -> Records]
  BY RetireType DEF TypeOK, Records
<1>2. entry'[d] \in Records /\ entry'[d].status = "idle"
  <2>1. CASE d \notin stored
    BY <1>1, <2>1 DEF Retire, NoEntry
  <2>2. CASE d \in stored
    <3>1. entry'[d] = [entry[d] EXCEPT !.def = def'[d], !.status = "idle", !.active = 0,
                                       !.announced = TRUE]
      BY <1>1, <2>2 DEF Retire
    <3>2. entry[d] \in Records
      BY <1>1
    <3>3. entry'[d].status = "idle"
      BY <3>1, <3>2 DEF Records
    <3> QED
      BY <1>1, <3>3
  <2> QED
    BY <2>1, <2>2
<1>3. entry' = [entry EXCEPT ![d] = entry'[d]]
  BY <1>1 DEF Retire
<1> QED
  BY <1>2, <1>3

(* Every step keeps the invariant. *)
LEMMA OverlapStep == OverlapInv /\ [Next]_vars => OverlapInv'
<1> SUFFICES ASSUME OverlapInv, [Next]_vars PROVE OverlapInv'
  OBVIOUS
<1> USE DEF loopVars, hostVars, storeVars
<1>t. TypeOK /\ TypeOK' /\ LaunchIsOfIdle /\ AbsentIsIdle /\ RunInFlight /\ CallsAreOver
  BY StepType DEF OverlapInv
<1>e. entry \in [Definitions -> Records] /\ entry' \in [Definitions -> Records]
  BY <1>t DEF TypeOK, Records
<1>r. run \in [Definitions -> Seq({"running", "ended", "over", "lost"})]
  BY <1>t DEF TypeOK
<1> SUFFICES LaunchIsOfIdle' /\ AbsentIsIdle' /\ RunInFlight' /\ CallsAreOver'
  BY <1>t DEF OverlapInv
<1>1. CASE Reconcile
  <2>1. loop' \notin {"launching", "committing"} /\ loop # "committing"
    BY <1>1 DEF Reconcile
  <2>2. ASSUME NEW d \in Definitions
        PROVE  /\ entry'[d].there \/ entry'[d].status = "idle"
               /\ entry[d].status # "idle" =>
                     entry'[d].status = entry[d].status /\ entry'[d].active = entry[d].active
    <3>1. CASE cancelled
      BY <1>1, <1>t, <3>1 DEF Reconcile, AbsentIsIdle
    <3>2. CASE ~cancelled
      <4>1. entry'[d] = Reconciled(d)
        BY <1>1, <3>2 DEF Reconcile
      <4> QED
        BY <4>1, <1>t, <1>e DEF Reconciled, AbsentIsIdle, NoEntry, Records
    <3> QED
      BY <3>1, <3>2
  <2>3. AbsentIsIdle' /\ LaunchIsOfIdle'
    BY <2>1, <2>2 DEF AbsentIsIdle, LaunchIsOfIdle
  <2>4. RunInFlight'
    BY <1>1, <1>t, <2>1, <2>2 DEF RunInFlight, Busy, Reconcile
  <2> QED
    BY <1>1, <2>3, <2>4, CallsKept DEF Reconcile
<1>2. CASE StopLoop
  BY <1>2, <1>t DEF StopLoop, LaunchIsOfIdle, AbsentIsIdle, RunInFlight, Busy, CallsAreOver
<1>3. CASE NoMoreCommands
  BY <1>3, <1>t DEF NoMoreCommands, LaunchIsOfIdle, AbsentIsIdle, RunInFlight, Busy, CallsAreOver
<1>4. CASE NothingMoreDue
  BY <1>4, <1>t DEF NothingMoreDue, LaunchIsOfIdle, AbsentIsIdle, RunInFlight, Busy, CallsAreOver
<1>5. ASSUME NEW d \in Definitions, NEW n \in DOMAIN run[d], Handle(d, n)
      PROVE  LaunchIsOfIdle' /\ AbsentIsIdle' /\ RunInFlight' /\ CallsAreOver'
  <2>1. Take(d, n)
    BY <1>5 DEF Handle, DropCommand, FinishOneShot, FinishRun, Settling
  <2>2. CallsAreOver' /\ run' = run /\ loop = "terminals"
    BY <2>1, CallsKept DEF Take
  <2>3. Awaited(d, n) => NoneRuns(d)
    <3>1. run[d][n] = "over"
      <4> DEFINE C == Definitions \X Nat
      <4>1. commands \in Seq(C)
        BY <1>t DEF TypeOK
      <4>2. commands # <<>> /\ Head(commands) = <<d, n>>
        BY <2>1 DEF Take
      <4> HIDE DEF C
      <4>3. 1 \in DOMAIN commands /\ commands[1] = <<d, n>>
        BY <4>1, <4>2
      <4> QED
        BY <4>3, <1>t DEF CallsAreOver
    <3> QED
      BY <2>2, <3>1, <1>t DEF RunInFlight, NoneRuns, Busy, Awaited
  <2>4. CASE DropCommand(d, n)
    <3>1. loop' = loop /\ launching' = launching
      BY <2>4 DEF DropCommand
    <3>2. CASE UNCHANGED entry
      BY <2>2, <3>1, <3>2, <1>t DEF LaunchIsOfIdle, AbsentIsIdle, RunInFlight, Busy
    <3>3. CASE Awaited(d, n) /\ entry' = [entry EXCEPT ![d] = NoEntry]
      <4>1. NoEntry \in Records /\ NoEntry.status = "idle"
        BY DEF NoEntry, Records, DefinitionCopy
      <4>2. AbsentIsIdle' /\ RunInFlight'
        BY <2>2, <2>3, <3>3, <4>1, EntryStep
      <4> QED
        BY <2>2, <3>1, <4>2 DEF LaunchIsOfIdle
    <3> QED
      BY <2>4, <3>2, <3>3, <2>2 DEF DropCommand
  <2>5. CASE FinishOneShot(d, n)
    <3>1. NoEntry \in Records /\ NoEntry.status = "idle"
      BY DEF NoEntry, Records, DefinitionCopy
    <3>2. AbsentIsIdle' /\ RunInFlight'
      BY <2>2, <2>3, <2>5, <3>1, EntryStep DEF FinishOneShot, Settling
    <3> QED
      BY <2>2, <2>5, <3>2 DEF LaunchIsOfIdle, FinishOneShot
  <2>6. CASE FinishRun(d, n)
    <3> DEFINE verdict == Admission(JudgedBy(d))
    <3>1. verdict \in {"no"} \cup Reasons
      BY <1>t, AdmissionType DEF JudgedBy, TypeOK
    <3>2. Awaited(d, n)
      BY <2>6 DEF FinishRun, Settling
    <3>3. CASE verdict # "no"
      <4>1. Retire(d, verdict) /\ UNCHANGED <<loop, launching>>
        BY <2>6, <3>3 DEF FinishRun
      <4>2. PICK e \in Records : entry' = [entry EXCEPT ![d] = e] /\ e.status = "idle"
        BY <3>1, <4>1, <1>t, RetireShape
      <4>3. AbsentIsIdle' /\ RunInFlight'
        BY <2>2, <2>3, <3>2, <4>2, EntryStep
      <4> QED
        BY <2>2, <4>1, <4>3 DEF LaunchIsOfIdle
    <3>4. CASE verdict = "no"
      <4> DEFINE e == [entry[d] EXCEPT !.def = def[d], !.status = "idle", !.active = 0]
      <4>1. entry' = [entry EXCEPT ![d] = e]
        BY <2>6, <3>4 DEF FinishRun
      <4>2. entry[d] \in Records /\ def[d] \in DefinitionCopy
        BY <1>e, <1>t DEF TypeOK
      <4>3. e \in Records /\ e.status = "idle" /\ e.there = entry[d].there
        BY <4>2 DEF Records
      <4> HIDE DEF e
      <4>4. AbsentIsIdle' /\ RunInFlight'
        BY <2>2, <2>3, <3>2, <4>1, <4>3, EntryStep
      <4>5. \/ UNCHANGED <<loop, launching>>
            \/ loop' = "launching" /\ launching' = [def |-> d, back |-> "terminals"]
        BY <2>6, <3>4 DEF FinishRun, Launch
      <4>6. entry'[d].there /\ entry'[d].status = "idle"
        BY <3>2, <4>1, <4>3, <1>e DEF Awaited
      <4>9. LaunchIsOfIdle'
        <5>1. CASE UNCHANGED <<loop, launching>>
          BY <2>2, <5>1 DEF LaunchIsOfIdle
        <5>2. CASE loop' = "launching" /\ launching' = [def |-> d, back |-> "terminals"]
          <6>1. launching' \in Launches /\ launching'.def = d
            BY <5>2 DEF Launches
          <6> QED
            BY <4>6, <6>1 DEF LaunchIsOfIdle
        <5> QED
          BY <4>5, <5>1, <5>2
      <4> QED
        BY <2>2, <4>4, <4>9
    <3> QED
      BY <3>3, <3>4
  <2> QED
    BY <1>5, <2>2, <2>4, <2>5, <2>6 DEF Handle
<1>6. ASSUME NEW d \in Definitions, Evaluate(d)
      PROVE  LaunchIsOfIdle' /\ AbsentIsIdle' /\ RunInFlight' /\ CallsAreOver'
  <2>1. run' = run /\ commands' = commands /\ loop = "evaluating"
    BY <1>6 DEF Evaluate, PassOver, RetireIdle, Unqueue, Claim, AdvanceWhileActive, Evaluating
  <2>2. CallsAreOver'
    BY <2>1, CallsKept
  <2>3. Idle(d) => NoneRuns(d)
    BY <2>1, IdleIsQuiet DEF Idle, Busy
  <2>4. entry[d] \in Records /\ def[d] \in DefinitionCopy
    BY <1>e, <1>t DEF TypeOK
  <2>5. CASE PassOver(d)
    BY <2>1, <2>2, <2>5, <1>t DEF PassOver, LaunchIsOfIdle, AbsentIsIdle, RunInFlight, Busy
  <2>6. CASE RetireIdle(d)
    <3>1. Verdict(d) \in {"no"} \cup Reasons
      BY <2>4, AdmissionType DEF Verdict, Records
    <3>2. PICK e \in Records : entry' = [entry EXCEPT ![d] = e] /\ e.status = "idle"
      BY <2>6, <3>1, <1>t, RetireShape DEF RetireIdle
    <3>3. AbsentIsIdle' /\ RunInFlight'
      BY <2>1, <2>3, <2>6, <3>2, EntryStep DEF RetireIdle
    <3> QED
      BY <2>1, <2>2, <2>6, <3>3 DEF RetireIdle, LaunchIsOfIdle
  <2>7. CASE Unqueue(d)
    <3> DEFINE e == [entry[d] EXCEPT !.status = "running"]
    <3>1. entry' = [entry EXCEPT ![d] = e]
      BY <2>7 DEF Unqueue
    <3>2. /\ e \in Records /\ e.there /\ e.status # "idle" /\ e.active = entry[d].active
      BY <2>4, <2>7 DEF Unqueue, Fit, Records
    <3> HIDE DEF e
    <3>3. AbsentIsIdle' /\ RunInFlight'
      BY <2>1, <3>1, <3>2, EntryStep
    <3> QED
      BY <2>1, <2>2, <2>7, <3>3 DEF Unqueue, LaunchIsOfIdle
  <2>8. CASE Claim(d)
    <3>1. CASE d \in stored /\ Admission(def[d]) = "no"
      <4> DEFINE e == [entry[d] EXCEPT !.def = def'[d]]
      <4>1. entry' = [entry EXCEPT ![d] = e]
        BY <2>8, <3>1 DEF Claim
      <4>2. def'[d] \in DefinitionCopy
        BY <1>t DEF TypeOK
      <4>3. e \in Records /\ e.there /\ e.status = "idle"
        BY <2>4, <2>8, <4>2 DEF Claim, Fit, Idle, Records
      <4> HIDE DEF e
      <4>4. AbsentIsIdle' /\ RunInFlight'
        BY <2>1, <2>3, <2>8, <4>1, <4>3, EntryStep DEF Claim
      <4>5. loop' = "launching" /\ launching' = [def |-> d, back |-> "evaluating"]
        BY <2>8, <3>1 DEF Claim, Launch
      <4>6. LaunchIsOfIdle'
        BY <4>1, <4>3, <4>5, <1>e DEF LaunchIsOfIdle, Launches
      <4> QED
        BY <2>2, <4>4, <4>6
    <3>2. CASE ~(d \in stored /\ Admission(def[d]) = "no")
      <4>1. Retire(d, Admission(def[d])) /\ UNCHANGED <<loop, launching>>
        BY <2>8, <3>2 DEF Claim
      <4>2. PICK e \in Records : entry' = [entry EXCEPT ![d] = e] /\ e.status = "idle"
        BY <2>4, <4>1, <1>t, AdmissionType, RetireShape
      <4>3. AbsentIsIdle' /\ RunInFlight'
        BY <2>1, <2>3, <2>8, <4>2, EntryStep DEF Claim
      <4> QED
        BY <2>1, <2>2, <4>1, <4>3 DEF LaunchIsOfIdle
    <3> QED
      BY <3>1, <3>2
  <2>9. CASE AdvanceWhileActive(d)
    <3>1. /\ entry' = [entry EXCEPT ![d] = entry'[d]]
          /\ entry'[d].there /\ entry'[d].active = entry[d].active
          /\ entry'[d].status # "idle"
      <4>1. CASE d \notin stored
        <5>1. entry' = [entry EXCEPT ![d] = [entry[d] EXCEPT !.deleted = TRUE]]
          BY <2>9, <4>1 DEF AdvanceWhileActive
        <5> QED
          BY <2>4, <2>9, <5>1, <1>e DEF AdvanceWhileActive, Fit, Idle, Records
      <4>2. CASE d \in stored
        <5> DEFINE status == IF Admission(def'[d]) = "no" THEN "pending" ELSE entry[d].status
        <5>1. entry' = [entry EXCEPT ![d] =
                          [entry[d] EXCEPT !.def = def'[d], !.status = status]]
          BY <2>9, <4>2 DEF AdvanceWhileActive
        <5>2. status # "idle" /\ entry[d].there
          BY <2>9 DEF AdvanceWhileActive, Fit, Idle
        <5> HIDE DEF status
        <5> QED
          BY <2>4, <5>1, <5>2, <1>e DEF Records
      <4> QED
        BY <4>1, <4>2
    <3>2. entry'[d] \in Records
      BY <1>e
    <3>3. AbsentIsIdle' /\ RunInFlight'
      BY <2>1, <3>1, <3>2, EntryStep
    <3> QED
      BY <2>1, <2>2, <2>9, <3>3 DEF AdvanceWhileActive, LaunchIsOfIdle
  <2> QED
    BY <1>6, <2>5, <2>6, <2>7, <2>8, <2>9 DEF Evaluate
<1>7. CASE StartRun
  <2> DEFINE d == launching.def
  <2>1. d \in Definitions /\ entry[d].status = "idle"
    BY <1>7, <1>t DEF StartRun, LaunchIsOfIdle, Launches
  <2>2. NoneRuns(d)
    BY <1>7, <2>1, IdleIsQuiet DEF StartRun, Busy
  <2>3. run' = [run EXCEPT ![d] = Append(run[d], "running")] /\ loop' = "committing"
        /\ UNCHANGED <<entry, launching, commands>>
    BY <1>7 DEF StartRun
  <2>4. run[d] \in Seq({"running", "ended", "over", "lost"})
    BY <2>1, <1>r
  <2>5. /\ run'[d] = Append(run[d], "running") /\ Len(run'[d]) = Len(run[d]) + 1
        /\ DOMAIN run[d] \subseteq DOMAIN run'[d]
        /\ \A n \in DOMAIN run[d] : run'[d][n] = run[d][n]
        /\ \A n \in DOMAIN run'[d] : n \in DOMAIN run[d] \/ n = Len(run'[d])
    BY <2>1, <2>3, <2>4, <1>r
  <2>6. \A c \in Definitions : c # d => run'[c] = run[c]
    BY <2>1, <2>3, <1>r
  <2>7. RunInFlight'
    <3> SUFFICES ASSUME NEW c \in Definitions, NEW n \in DOMAIN run'[c], run'[c][n] = "running"
                 PROVE  /\ n = Len(run'[c])
                        /\ Busy(c)' \/ (entry'[c].status # "idle" /\ entry'[c].active = n)
      BY DEF RunInFlight
    <3>1. CASE c = d
      BY <2>2, <2>3, <2>5, <3>1 DEF NoneRuns, Busy
    <3>2. CASE c # d
      BY <1>7, <1>t, <2>3, <2>6, <3>2 DEF RunInFlight, Busy, StartRun
    <3> QED
      BY <3>1, <3>2
  <2>8. CallsAreOver'
    <3> SUFFICES ASSUME NEW i \in DOMAIN commands
                 PROVE  /\ commands[i][2] \in DOMAIN run'[commands[i][1]]
                        /\ run'[commands[i][1]][commands[i][2]] = "over"
      BY <2>3 DEF CallsAreOver
    <3>1. commands[i][1] \in Definitions
      BY <1>t DEF TypeOK
    <3>2. CASE commands[i][1] = d
      BY <1>t, <2>5, <3>2 DEF CallsAreOver
    <3>3. CASE commands[i][1] # d
      BY <1>t, <2>6, <3>1, <3>3 DEF CallsAreOver
    <3> QED
      BY <3>2, <3>3
  <2> QED
    BY <1>t, <1>7, <2>3, <2>7, <2>8 DEF LaunchIsOfIdle, AbsentIsIdle, StartRun
<1>8. CASE StartRefused
  <2> DEFINE d == launching.def
  <2>1. d \in Definitions /\ entry[d].status = "idle" /\ loop # "committing"
    BY <1>8, <1>t DEF StartRefused, LaunchIsOfIdle, Launches
  <2>2. NoneRuns(d)
    BY <2>1, IdleIsQuiet DEF Busy
  <2>3. run' = run /\ commands' = commands
    BY <1>8 DEF StartRefused
  <2>4. loop' \notin {"launching", "committing"}
    BY <1>8, <1>t DEF StartRefused, Launched, LaunchIsOfIdle, Launches
  <2>5. \E e \in Records : entry' = [entry EXCEPT ![d] = e] /\ e.status = "idle"
    <3>1. CASE OneShot(entry[d].def)
      <4>1. Retire(d, "launch_failed")
        BY <1>8, <3>1 DEF StartRefused
      <4> QED
        BY <1>t, <2>1, <4>1, RetireShape DEF Reasons
    <3>2. CASE ~OneShot(entry[d].def)
      <4>1. entry' = [entry EXCEPT ![d] = [entry[d] EXCEPT !.faulted = TRUE, !.status = "idle",
                                                           !.active = 0]]
        BY <1>8, <3>2 DEF StartRefused
      <4>2. entry[d] \in Records
        BY <2>1, <1>e
      <4> DEFINE e == [entry[d] EXCEPT !.faulted = TRUE, !.status = "idle", !.active = 0]
      <4>3. e \in Records
        BY <4>2 DEF Records
      <4>4. e.status = "idle"
        BY <4>2 DEF Records
      <4> HIDE DEF e
      <4> QED
        BY <4>1, <4>3, <4>4 DEF e
    <3> QED
      BY <3>1, <3>2
  <2>6. AbsentIsIdle' /\ RunInFlight'
    BY <2>1, <2>2, <2>3, <2>5, EntryStep
  <2> QED
    BY <2>3, <2>4, <2>6, CallsKept DEF LaunchIsOfIdle
<1>9. CASE Commit
  <2> DEFINE d == launching.def
             busy == [entry[d] EXCEPT !.status = "running", !.active = Len(run[d])]
  <2>1. d \in Definitions /\ entry[d].there /\ loop = "committing"
    BY <1>9, <1>t DEF Commit, LaunchIsOfIdle, Launches
  <2>2. run' = run /\ commands' = commands
    BY <1>9 DEF Commit
  <2>3. loop' \notin {"launching", "committing"}
    BY <1>9, <1>t DEF Commit, Launched, LaunchIsOfIdle, Launches
  <2>4. /\ entry' = [entry EXCEPT ![d] = entry'[d]]
        /\ entry'[d].there /\ entry'[d].status = "running" /\ entry'[d].active = Len(run[d])
    <3>1. busy.there /\ busy.status = "running" /\ busy.active = Len(run[d]) /\ busy \in Records
      <4>1. Len(run[d]) \in Nat
        BY <2>1, <1>r
      <4>2. entry[d] \in Records
        BY <2>1, <1>e
      <4>3. busy \in Records
        BY <4>1, <4>2 DEF Records
      <4>4. busy.there /\ busy.status = "running" /\ busy.active = Len(run[d])
        BY <2>1, <4>2 DEF Records
      <4> QED
        BY <4>3, <4>4
    <3>2. \/ entry' = [entry EXCEPT ![d] = [busy EXCEPT !.def = def'[d]]]
          \/ entry' = [entry EXCEPT ![d] = [busy EXCEPT !.deleted = TRUE]]
      BY <1>9 DEF Commit
    <3> HIDE DEF busy
    <3> QED
      BY <2>1, <3>1, <3>2, <1>e DEF Records
  <2>5. AbsentIsIdle'
    BY <2>4, <1>e, <1>t, <2>1 DEF AbsentIsIdle
  <2>6. ASSUME NEW c \in Definitions, NEW n \in DOMAIN run[c], run[c][n] = "running"
        PROVE  n = Len(run[c]) /\ entry'[c].status # "idle" /\ entry'[c].active = n
    <3>1. CASE c = d
      BY <2>4, <2>6, <3>1, <1>t DEF RunInFlight
    <3>2. CASE c # d
      BY <2>1, <2>4, <2>6, <3>2, <1>t, <1>e DEF RunInFlight, Busy
    <3> QED
      BY <3>1, <3>2
  <2>7. RunInFlight'
    BY <2>2, <2>6 DEF RunInFlight
  <2> QED
    BY <2>2, <2>3, <2>5, <2>7, CallsKept DEF LaunchIsOfIdle
<1>10. CASE Wait
  <2>1. /\ UNCHANGED <<entry, run, launching>> /\ loop = "waiting" /\ loop' = "reconciling"
        /\ \/ commands' = commands
           \/ commands # <<>> /\ commands' = Append(Tail(commands), Head(commands))
    BY <1>10 DEF Wait
  <2>2. CallsAreOver'
    BY <2>1, CallsKept
  <2> QED
    BY <2>1, <2>2, <1>t DEF LaunchIsOfIdle, AbsentIsIdle, RunInFlight, Busy
<1>11. CASE \/ Tick \/ PauseLaunches \/ Shutdown \/ UNCHANGED vars
            \/ \E d \in Definitions : Add(d) \/ Delete(d) \/ CancelSelf(d)
  <2>1. UNCHANGED <<entry, run, launching, loop, commands>>
    BY <1>11 DEF Tick, PauseLaunches, Shutdown, vars, Add, Delete, CancelSelf
  <2> QED
    BY <2>1, <1>t DEF LaunchIsOfIdle, AbsentIsIdle, RunInFlight, Busy, CallsAreOver
<1>12. ASSUME NEW d \in Definitions, NEW n \in DOMAIN run[d],
              EndRun(d, n) \/ CallBack(d, n) \/ RemoveTask(d, n)
       PROVE  LaunchIsOfIdle' /\ AbsentIsIdle' /\ RunInFlight' /\ CallsAreOver'
  <2>1. UNCHANGED <<entry, launching, loop>>
    BY <1>12 DEF EndRun, CallBack, RemoveTask
  <2>2. PICK s \in {"ended", "over", "lost"} : run' = [run EXCEPT ![d][n] = s]
    BY <1>12 DEF EndRun, CallBack, RemoveTask
  <2>3. \A c \in Definitions : DOMAIN run'[c] = DOMAIN run[c] /\ Len(run'[c]) = Len(run[c])
    BY <2>2, <1>r
  <2>4. \A c \in Definitions : \A m \in DOMAIN run[c] :
            run'[c][m] = IF c = d /\ m = n THEN s ELSE run[c][m]
    BY <2>2, <1>r
  <2>5. RunInFlight'
    BY <2>1, <2>3, <2>4, <1>t DEF RunInFlight, Busy
  <2>6. run[d][n] # "over"
    BY <1>12 DEF EndRun, CallBack, RemoveTask
  <2> DEFINE C == Definitions \X Nat
             Over(c) == c[2] \in DOMAIN run'[c[1]] /\ run'[c[1]][c[2]] = "over"
  <2>7. commands \in Seq(C) /\ <<d, n>> \in C
    BY <1>t, <1>r DEF TypeOK
  <2>8. \A i \in DOMAIN commands : Over(commands[i])
    <3> SUFFICES ASSUME NEW i \in DOMAIN commands PROVE Over(commands[i])
      OBVIOUS
    <3>1. commands[i][1] \in Definitions
      BY <2>7
    <3> QED
      BY <2>3, <2>4, <2>6, <3>1, <1>t DEF CallsAreOver
  <2>9. \/ commands' = commands
        \/ commands' = Append(commands, <<d, n>>) /\ Over(<<d, n>>)
    <3>1. CASE CallBack(d, n)
      <4>1. run' = [run EXCEPT ![d][n] = "over"] /\ commands' = Append(commands, <<d, n>>)
        BY <3>1 DEF CallBack
      <4>2. run'[d][n] = "over" /\ n \in DOMAIN run'[d]
        BY <4>1, <1>r, <2>3
      <4> QED
        BY <4>1, <4>2
    <3>2. CASE EndRun(d, n) \/ RemoveTask(d, n)
      BY <3>2 DEF EndRun, RemoveTask
    <3> QED
      BY <1>12, <3>1, <3>2
  <2> HIDE DEF C, Over
  <2>10. \A i \in DOMAIN commands' : Over(commands'[i])
    BY <2>7, <2>8, <2>9
  <2>11. CallsAreOver'
    BY <2>10 DEF Over, CallsAreOver
  <2> QED
    BY <2>1, <2>5, <2>11, <1>t DEF LaunchIsOfIdle, AbsentIsIdle
<1> QED
  BY <1>1, <1>2, <1>3, <1>4, <1>5, <1>6, <1>7, <1>8, <1>9, <1>10, <1>11, <1>12 DEF Next, Loop

(* The invariant holds when the runtime starts. *)
LEMMA OverlapInit == Init => OverlapInv
<1> SUFFICES ASSUME Init PROVE OverlapInv
  OBVIOUS
<1>1. NoEntry \in Records /\ NoEntry.def \in DefinitionCopy /\ NoEntry.status = "idle"
  BY DEF NoEntry, Records, DefinitionCopy
<1>2. TypeOK
  <2>1. entry \in [Definitions -> Records] /\ def \in [Definitions -> DefinitionCopy]
    BY <1>1 DEF Init
  <2>2. run \in [Definitions -> Seq({"running", "ended", "over", "lost"})]
    BY DEF Init
  <2>3. retirements \in [Definitions -> Nat]
    BY DEF Init
  <2>4. commands \in Seq(Definitions \X Nat)
    BY DEF Init
  <2> QED
    BY <2>1, <2>2, <2>3, <2>4 DEF Init, TypeOK, Records, Steps
<1>3. LaunchIsOfIdle /\ AbsentIsIdle
  BY <1>1 DEF Init, LaunchIsOfIdle, AbsentIsIdle
<1>4. RunInFlight /\ CallsAreOver
  BY DEF Init, RunInFlight, CallsAreOver
<1> QED
  BY <1>2, <1>3, <1>4 DEF OverlapInv

(* The overlap invariant holds throughout. *)
LEMMA OverlapAlways == Spec => []OverlapInv
<1>1. Init => OverlapInv
  BY OverlapInit
<1>2. OverlapInv /\ [Next]_vars => OverlapInv'
  BY OverlapStep
<1> QED
  BY <1>1, <1>2, PTL DEF Spec

(* The schedule runtime keeps the types of its state. *)
THEOREM Typed == Spec => []TypeOK
<1>1. OverlapInv => TypeOK
  BY DEF OverlapInv
<1> QED
  BY <1>1, OverlapAlways, PTL

(* A definition never runs concurrently with itself (runtime.rs:23): two   *)
(* running runs would both be the last one.                                *)
THEOREM NeverOverlaps == Spec => []NoOverlap
<1>1. OverlapInv => NoOverlap
  BY DEF OverlapInv, RunInFlight, NoOverlap
<1> QED
  BY <1>1, OverlapAlways, PTL

-----------------------------------------------------------------------------
(* What rests on the overlap invariant: the budget, the one-shot, the      *)
(* retirement and the admission of launches.                               *)

\* An id nobody added yet is unknown everywhere.
Fresh(d) ==
    def[d].kind = "none" =>
        /\ d \notin stored /\ ~entry[d].there /\ run[d] = <<>>
        /\ def[d].started = 0 /\ retirements[d] = 0

\* An entry marked deleted is of a definition that left the store for good.
Gone(d) == entry[d].deleted => entry[d].there /\ d \notin stored

\* The stored counter is the number of runs, but for the one being committed.
Tallied(d) ==
    d \in stored => def[d].started + (IF Busy(d) THEN 1 ELSE 0) = Len(run[d])

Bounded(d) ==
    /\ def[d].budget # NoLimit => Len(run[d]) <= def[d].budget
    /\ OneShot(def[d]) => Len(run[d]) <= 1

\* A one-shot that ran and is still stored has its run awaited, or is retired.
Spoken(d) ==
    d \in stored /\ OneShot(def[d]) /\ def[d].retired = "no" /\ run[d] # <<>> /\ ~Busy(d)
        => entry[d].there /\ entry[d].status # "idle"

\* What was announced as retired is quiet, and the loop and the store know.
Announced(d) ==
    /\ retirements[d] <= 1
    /\ retirements[d] = 1 =>
          /\ NoneRuns(d)
          /\ d \in stored => def[d].retired # "no"
          /\ entry[d].there => entry[d].announced

Facts(d) == Fresh(d) /\ Gone(d) /\ Tallied(d) /\ Bounded(d) /\ Spoken(d) /\ Announced(d)

\* There is room for the run about to start, and nothing against it.
Room(d) ==
    /\ def[d].budget # NoLimit => Len(run[d]) < def[d].budget
    /\ OneShot(def[d]) => run[d] = <<>>
    /\ d \in stored => def[d].retired = "no"
    /\ retirements[d] = 0

LaunchHasRoom == loop = "launching" => Room(launching.def)

BoundsInv == OverlapInv /\ (\A d \in Definitions : Facts(d)) /\ LaunchHasRoom

\* What most steps do to c: its runs may end, it may leave the store, be
\* retired or lose its entry, and the loop does not announce or start anything.
Calm(c) ==
    /\ def'[c].kind = def[c].kind /\ def'[c].budget = def[c].budget
    /\ def'[c].started = def[c].started
    /\ def[c].retired # "no" => def'[c].retired # "no"
    /\ c \in stored' => c \in stored
    /\ Len(run'[c]) = Len(run[c]) /\ (run[c] = <<>> <=> run'[c] = <<>>)
    /\ NoneRuns(c) => NoneRuns(c)'
    /\ retirements'[c] = retirements[c]
    /\ Busy(c)' <=> Busy(c)
    /\ entry'[c].there => entry[c].there /\ (entry[c].announced => entry'[c].announced)
    /\ entry'[c].deleted => entry'[c].there /\ c \notin stored'
    /\ c \in stored' /\ OneShot(def[c]) /\ def'[c].retired = "no" /\ entry[c].there
          /\ entry[c].status # "idle"
       => entry'[c].there /\ entry'[c].status # "idle"

(* A calm step keeps the facts. *)
LEMMA CalmKeeps ==
    ASSUME NEW c \in Definitions, Facts(c), Calm(c) PROVE Facts(c)'
<1>1. Fresh(c)' /\ Gone(c)' /\ Bounded(c)'
  BY DEF Facts, Calm, Fresh, Gone, Bounded, OneShot
<1>2. Tallied(c)'
  BY DEF Facts, Calm, Tallied
<1>3. Spoken(c)'
  BY DEF Facts, Calm, Spoken, OneShot
<1>4. Announced(c)'
  BY DEF Facts, Calm, Announced
<1> QED
  BY <1>1, <1>2, <1>3, <1>4 DEF Facts

(* A step that leaves all of c alone, its place in the loop included, is   *)
(* calm.                                                                   *)
LEMMA AloneIsCalm ==
    ASSUME NEW c \in Definitions, Facts(c),
           def'[c] = def[c], entry'[c] = entry[c], run'[c] = run[c],
           retirements'[c] = retirements[c], c \in stored' => c \in stored,
           Busy(c)' <=> Busy(c)
    PROVE  Calm(c)
BY DEF Calm, Facts, Gone, NoneRuns

(* The launch goes ahead while its definition is left alone. *)
LEMMA RoomStays ==
    ASSUME NEW d \in Definitions, Room(d), Calm(d),
           d \in stored' => def'[d].retired = def[d].retired
    PROVE  Room(d)'
BY DEF Room, Calm, OneShot

(* A definition limits::admit lets pass is unretired and has runs left. *)
LEMMA Admitted ==
    ASSUME TypeOK, NEW r \in DefinitionCopy, Admission(r) = "no"
    PROVE  r.retired = "no" /\ ~Spent(r)
BY DEF Admission, DefinitionCopy, TypeOK

(* A step that touches d only, outside the commit. *)
LEMMA Others ==
    ASSUME NEW d \in Definitions, \A c \in Definitions : Facts(c),
           \A c \in Definitions : c # d =>
               /\ def'[c] = def[c] /\ entry'[c] = entry[c]
               /\ retirements'[c] = retirements[c] /\ (c \in stored' => c \in stored),
           run' = run, loop # "committing", loop' # "committing", Facts(d)'
    PROVE  \A c \in Definitions : Facts(c)'
<1> SUFFICES ASSUME NEW c \in Definitions, c # d PROVE Facts(c)'
  OBVIOUS
<1>1. Calm(c)
  BY AloneIsCalm DEF Busy
<1> QED
  BY <1>1, CalmKeeps

(* retire, of a definition at rest that the loop still has. *)
LEMMA RetireKeeps ==
    ASSUME TypeOK, NEW d \in Definitions, NEW reason \in {"no"} \cup Reasons,
           \A c \in Definitions : Facts(c), Retire(d, reason),
           d \in stored => reason # "no", entry[d].there, NoneRuns(d), run' = run,
           loop # "committing", loop' # "committing"
    PROVE  \A c \in Definitions : Facts(c)'
<1>t. /\ entry \in [Definitions -> Records] /\ def \in [Definitions -> DefinitionCopy]
      /\ retirements \in [Definitions -> Nat]
  BY DEF TypeOK, Records
<1>f. Facts(d)
  OBVIOUS
<1>b. ~Busy(d) /\ ~Busy(d)'
  BY DEF Busy
<1>o. \A c \in Definitions : c # d =>
         /\ def'[c] = def[c] /\ entry'[c] = entry[c]
         /\ retirements'[c] = retirements[c] /\ (c \in stored' => c \in stored)
  BY <1>t DEF Retire, storeVars
<1>1. CASE d \notin stored
  <2>1. /\ entry'[d] = NoEntry /\ def' = def /\ stored' = stored /\ retirements' = retirements
    BY <1>1, <1>t DEF Retire, storeVars
  <2>2. ~NoEntry.there /\ ~NoEntry.deleted
    BY DEF NoEntry
  <2>3. Calm(d)
    BY <1>1, <1>b, <2>1, <2>2 DEF Calm, NoneRuns
  <2> QED
    BY <1>f, <1>o, <2>3, CalmKeeps, Others
<1>2. CASE d \in stored
  <2> DEFINE why == IF def[d].retired = "no" THEN reason ELSE def[d].retired
  <2>0. why # "no"
    BY <1>2
  <2>1. def' = [def EXCEPT ![d] = [def[d] EXCEPT !.retired = why]] /\ stored' = stored
    BY <1>2 DEF Retire
  <2>2. entry'[d] = [entry[d] EXCEPT !.def = def'[d], !.status = "idle", !.active = 0,
                                     !.announced = TRUE]
    BY <1>2, <1>t DEF Retire
  <2>3. retirements'[d] = IF entry[d].announced THEN retirements[d] ELSE retirements[d] + 1
    BY <1>2, <1>t DEF Retire
  <2>4. entry[d] \in Records /\ def[d] \in DefinitionCopy /\ retirements[d] \in Nat
    BY <1>t
  <2> HIDE DEF why
  <2>5. /\ def'[d].kind = def[d].kind /\ def'[d].budget = def[d].budget
        /\ def'[d].started = def[d].started /\ def'[d].retired = why
    BY <1>t, <2>1, <2>4 DEF DefinitionCopy
  <2>6. /\ entry'[d].there = entry[d].there /\ entry'[d].deleted = entry[d].deleted
        /\ entry'[d].announced
    BY <2>2, <2>4 DEF Records
  <2>7. retirements'[d] <= 1
    BY <1>f, <2>3, <2>4 DEF Facts, Announced
  <2>8. def[d].kind # "none" /\ ~entry[d].deleted
    BY <1>f, <1>2 DEF Facts, Fresh, Gone
  <2>9. Fresh(d)' /\ Gone(d)' /\ Bounded(d)' /\ Tallied(d)' /\ Spoken(d)' /\ Announced(d)'
    BY <1>f, <1>b, <2>0, <2>1, <2>5, <2>6, <2>7, <2>8
       DEF Facts, Fresh, Gone, Bounded, Tallied, Spoken, Announced, OneShot, NoneRuns
  <2> QED
    BY <1>o, <2>9, Others DEF Facts
<1> QED
  BY <1>1, <1>2

-----------------------------------------------------------------------------
(* The steps. *)

(* A definition admitted at rest, outside the commit, has room.            *)
LEMMA AdmittedHasRoom ==
    ASSUME TypeOK, NEW d \in Definitions, Facts(d), d \in stored, ~Busy(d),
           Admission(def[d]) = "no", ~OneShot(def[d]) \/ entry[d].status = "idle"
    PROVE  Room(d)
<1>t. def[d] \in DefinitionCopy /\ retirements[d] \in Nat /\ Len(run[d]) \in Nat
  BY DEF TypeOK
<1>1. def[d].retired = "no" /\ ~Spent(def[d])
  BY <1>t, Admitted
<1>2. def[d].started = Len(run[d])
  BY <1>t DEF Facts, Tallied, DefinitionCopy
<1>3. def[d].budget # NoLimit => Len(run[d]) < def[d].budget
  BY <1>1, <1>2, <1>t DEF Spent, DefinitionCopy
<1>4. OneShot(def[d]) => run[d] = <<>>
  BY <1>1 DEF Facts, Spoken
<1>5. retirements[d] = 0
  BY <1>1, <1>t DEF Facts, Announced
<1> QED
  BY <1>1, <1>3, <1>4, <1>5 DEF Room

(* The definition whose end is taken has no running run. *)
LEMMA TakenIsQuiet ==
    ASSUME OverlapInv, NEW d \in Definitions, NEW n \in DOMAIN run[d], Handle(d, n)
    PROVE  NoneRuns(d) \/ ~Awaited(d, n)
<1> DEFINE C == Definitions \X Nat
<1>1. commands # <<>> /\ Head(commands) = <<d, n>> /\ loop = "terminals"
  BY DEF Handle, DropCommand, FinishOneShot, FinishRun, Settling, Take
<1>2. commands \in Seq(C)
  BY DEF OverlapInv, TypeOK
<1> HIDE DEF C
<1>3. 1 \in DOMAIN commands /\ commands[1] = <<d, n>>
  BY <1>1, <1>2
<1>4. run[d][n] = "over"
  BY <1>3 DEF OverlapInv, CallsAreOver
<1> QED
  BY <1>1, <1>4 DEF OverlapInv, RunInFlight, NoneRuns, Busy, Awaited

(* The end of a run is taken. *)
LEMMA HandleKeeps ==
    ASSUME BoundsInv, TypeOK', NEW d \in Definitions, NEW n \in DOMAIN run[d],
           NoneRuns(d) \/ ~Awaited(d, n), Handle(d, n)
    PROVE  (\A c \in Definitions : Facts(c)') /\ LaunchHasRoom'
<1>t. /\ TypeOK /\ entry \in [Definitions -> Records]
      /\ def \in [Definitions -> DefinitionCopy]
      /\ \A c \in Definitions : Facts(c)
  BY DEF BoundsInv, OverlapInv, TypeOK, Records
<1>f. Facts(d) /\ entry[d] \in Records /\ def[d] \in DefinitionCopy
  BY <1>t
<1>k. Take(d, n)
  BY DEF Handle, DropCommand, FinishOneShot, FinishRun, Settling
<1>r. run' = run /\ loop = "terminals" /\ ~Busy(d)
  BY <1>k DEF Take, Busy
<1>n. NoEntry \in Records /\ ~NoEntry.there /\ ~NoEntry.deleted
  BY DEF NoEntry, Records, DefinitionCopy
<1>1. CASE DropCommand(d, n)
  <2>1. loop' = loop /\ UNCHANGED <<stored, def, retirements>>
    BY <1>1 DEF DropCommand, storeVars
  <2>2. CASE UNCHANGED entry
    <3>1. Calm(d)
      BY <1>f, <1>r, <2>1, <2>2, AloneIsCalm DEF Busy
    <3> QED
      BY <1>f, <1>r, <1>t, <2>1, <2>2, <3>1, CalmKeeps, Others DEF LaunchHasRoom
  <2>3. CASE entry' = [entry EXCEPT ![d] = NoEntry] /\ (entry[d].deleted \/ d \notin stored)
    <3>1. d \notin stored
      BY <1>f, <2>3 DEF Facts, Gone
    <3>2. Calm(d)
      BY <1>n, <1>r, <1>t, <2>1, <2>3, <3>1 DEF Calm, NoneRuns, Busy
    <3> QED
      BY <1>f, <1>r, <1>t, <2>1, <2>3, <3>2, CalmKeeps, Others DEF LaunchHasRoom
  <2> QED
    BY <1>1, <2>2, <2>3 DEF DropCommand
<1>2. CASE FinishOneShot(d, n)
  <2>1. /\ loop' = loop /\ UNCHANGED <<def, retirements>> /\ stored' = stored \ {d}
        /\ entry' = [entry EXCEPT ![d] = NoEntry]
    BY <1>2 DEF FinishOneShot, Without
  <2>2. Calm(d)
    BY <1>n, <1>r, <1>t, <2>1 DEF Calm, NoneRuns, Busy
  <2> QED
    BY <1>f, <1>r, <1>t, <2>1, <2>2, CalmKeeps, Others DEF LaunchHasRoom
<1>3. CASE FinishRun(d, n)
  <2>1. /\ Awaited(d, n) /\ d \in stored /\ ~entry[d].deleted
        /\ ~OneShot(def[d]) \/ def[d].retired # "no"
    BY <1>3 DEF FinishRun, Settling
  <2>2. NoneRuns(d) /\ entry[d].there
    BY <2>1 DEF Awaited
  <2> DEFINE verdict == Admission(def[d])
  <2>3. verdict \in {"no"} \cup Reasons
    BY <1>f, AdmissionType
  <2>4. CASE verdict # "no"
    <3>1. Retire(d, verdict) /\ loop' = loop
      BY <1>3, <2>4 DEF FinishRun, JudgedBy
    <3>2. \A c \in Definitions : Facts(c)'
      BY <1>r, <1>t, <2>2, <2>3, <2>4, <3>1, RetireKeeps
    <3> QED
      BY <1>r, <3>1, <3>2 DEF LaunchHasRoom
  <2>5. CASE verdict = "no"
    <3>1. ~OneShot(def[d])
      BY <1>f, <1>t, <2>1, <2>5, Admitted
    <3>2. UNCHANGED <<stored, def, retirements>>
      BY <1>3, <2>5 DEF FinishRun, JudgedBy, storeVars
    <3>3. entry' = [entry EXCEPT ![d] =
                      [entry[d] EXCEPT !.def = def[d], !.status = "idle", !.active = 0]]
      BY <1>3, <2>5 DEF FinishRun, JudgedBy
    <3>4. \/ UNCHANGED <<loop, launching>>
          \/ loop' = "launching" /\ launching'.def = d
      BY <1>3, <2>5 DEF FinishRun, JudgedBy, Launch
    <3>5. entry'[d] = [entry[d] EXCEPT !.def = def[d], !.status = "idle", !.active = 0]
      BY <1>t, <3>3
    <3>6. /\ entry'[d].there = entry[d].there /\ entry'[d].deleted = entry[d].deleted
          /\ entry'[d].announced = entry[d].announced
      BY <1>f, <3>5 DEF Records
    <3>7. loop' # "committing"
      BY <1>r, <3>4
    <3>8. Calm(d)
      BY <1>r, <2>1, <3>1, <3>2, <3>6, <3>7 DEF Calm, NoneRuns, Busy
    <3>9. \A c \in Definitions : Facts(c)'
      BY <1>f, <1>r, <1>t, <3>2, <3>3, <3>7, <3>8, CalmKeeps, Others
    <3>10. Room(d)
      BY <1>f, <1>r, <1>t, <2>1, <2>5, <3>1, AdmittedHasRoom
    <3>11. Room(d)'
      BY <3>2, <3>8, <3>10, RoomStays
    <3>12. LaunchHasRoom'
      <4>1. CASE UNCHANGED <<loop, launching>>
        BY <1>r, <4>1 DEF LaunchHasRoom
      <4>2. CASE loop' = "launching" /\ launching'.def = d
        BY <3>11, <4>2 DEF LaunchHasRoom, Room, OneShot
      <4> QED
        BY <3>4, <4>1, <4>2
    <3> QED
      BY <3>9, <3>12
  <2> QED
    BY <2>4, <2>5
<1> QED
  BY <1>1, <1>2, <1>3 DEF Handle

(* A definition is evaluated. *)
LEMMA EvaluateKeeps ==
    ASSUME BoundsInv, TypeOK', NEW d \in Definitions, Evaluate(d)
    PROVE  (\A c \in Definitions : Facts(c)') /\ LaunchHasRoom'
<1>t. /\ TypeOK /\ entry \in [Definitions -> Records]
      /\ def \in [Definitions -> DefinitionCopy] /\ def' \in [Definitions -> DefinitionCopy]
      /\ \A c \in Definitions : Facts(c)
  BY DEF BoundsInv, OverlapInv, TypeOK, Records
<1>f. Facts(d) /\ entry[d] \in Records /\ def[d] \in DefinitionCopy
  BY <1>t
<1>r. run' = run /\ loop = "evaluating" /\ ~Busy(d)
  BY DEF Evaluate, PassOver, RetireIdle, Unqueue, Claim, AdvanceWhileActive, Evaluating, Busy
<1>i. Idle(d) => NoneRuns(d)
  BY <1>r, IdleIsQuiet DEF BoundsInv, Idle
<1>1. CASE PassOver(d)
  <2>1. UNCHANGED <<stored, def, entry, loop, launching, retirements>>
    BY <1>1 DEF PassOver, storeVars
  <2>2. Facts(d)'
    BY <1>f, <1>r, <2>1, AloneIsCalm, CalmKeeps DEF Busy
  <2> QED
    BY <1>r, <1>t, <2>1, <2>2, Others DEF LaunchHasRoom
<1>2. CASE RetireIdle(d)
  <2>1. /\ Verdict(d) # "no" /\ entry[d].there /\ Idle(d) /\ Retire(d, Verdict(d))
        /\ loop' = loop
    BY <1>2 DEF RetireIdle, Fit
  <2>2. Verdict(d) \in {"no"} \cup Reasons
    BY <1>f, AdmissionType DEF Verdict, Records
  <2>3. \A c \in Definitions : Facts(c)'
    BY <1>i, <1>r, <1>t, <2>1, <2>2, RetireKeeps
  <2> QED
    BY <1>r, <2>1, <2>3 DEF LaunchHasRoom
<1>3. CASE Unqueue(d)
  <2>1. /\ UNCHANGED <<stored, def, loop, launching, retirements>>
        /\ entry' = [entry EXCEPT ![d] = [entry[d] EXCEPT !.status = "running"]]
    BY <1>3 DEF Unqueue, storeVars
  <2>2. entry'[d] = [entry[d] EXCEPT !.status = "running"]
    BY <1>t, <2>1
  <2>3. /\ entry'[d].there = entry[d].there /\ entry'[d].deleted = entry[d].deleted
        /\ entry'[d].announced = entry[d].announced /\ entry'[d].status # "idle"
    BY <1>f, <2>2 DEF Records
  <2>4. Calm(d)
    BY <1>f, <1>r, <2>1, <2>3 DEF Calm, Facts, Gone, NoneRuns, Busy
  <2> QED
    BY <1>f, <1>r, <1>t, <2>1, <2>4, CalmKeeps, Others DEF LaunchHasRoom
<1>4. CASE Claim(d)
  <2>1. entry[d].there /\ Idle(d)
    BY <1>4 DEF Claim, Fit
  <2>2. CASE d \in stored /\ Admission(def[d]) = "no"
    <3> DEFINE next == IF OneShot(def[d]) THEN def[d].next ELSE NextBoundary(d)
    <3>1. /\ def' = [def EXCEPT ![d] = [def[d] EXCEPT !.next = next]]
          /\ entry' = [entry EXCEPT ![d] = [entry[d] EXCEPT !.def = def'[d]]]
          /\ loop' = "launching" /\ launching'.def = d
          /\ UNCHANGED <<stored, retirements>>
      BY <1>4, <2>2 DEF Claim, Launch
    <3> HIDE DEF next
    <3>2. /\ def'[d].kind = def[d].kind /\ def'[d].budget = def[d].budget
          /\ def'[d].started = def[d].started /\ def'[d].retired = def[d].retired
      BY <1>f, <1>t, <3>1 DEF DefinitionCopy
    <3>3. entry'[d] = [entry[d] EXCEPT !.def = def'[d]]
      BY <1>t, <3>1
    <3>4. /\ entry'[d].there = entry[d].there /\ entry'[d].deleted = entry[d].deleted
          /\ entry'[d].announced = entry[d].announced /\ entry'[d].status = entry[d].status
      BY <1>f, <3>3 DEF Records
    <3>5. Calm(d)
      BY <1>f, <1>r, <3>1, <3>2, <3>4 DEF Calm, Facts, Gone, NoneRuns, Busy
    <3>6. \A c \in Definitions : Facts(c)'
      BY <1>f, <1>r, <1>t, <3>1, <3>5, CalmKeeps, Others
    <3>7. Room(d)
      BY <1>f, <1>r, <1>t, <2>1, <2>2, AdmittedHasRoom DEF Idle
    <3>8. Room(d)'
      BY <3>2, <3>5, <3>7, RoomStays
    <3> QED
      BY <3>1, <3>6, <3>8 DEF LaunchHasRoom, Room, OneShot
  <2>3. CASE ~(d \in stored /\ Admission(def[d]) = "no")
    <3>1. Retire(d, Admission(def[d])) /\ loop' = loop
      BY <1>4, <2>3 DEF Claim
    <3>2. Admission(def[d]) \in {"no"} \cup Reasons
      BY <1>f, AdmissionType
    <3>3. \A c \in Definitions : Facts(c)'
      BY <1>i, <1>r, <1>t, <2>1, <2>3, <3>1, <3>2, RetireKeeps
    <3> QED
      BY <1>r, <3>1, <3>3 DEF LaunchHasRoom
  <2> QED
    BY <2>2, <2>3
<1>5. CASE AdvanceWhileActive(d)
  <2>1. entry[d].there /\ ~Idle(d) /\ UNCHANGED <<loop, launching, retirements>>
    BY <1>5 DEF AdvanceWhileActive, Fit
  <2>2. CASE d \notin stored
    <3>1. /\ entry' = [entry EXCEPT ![d] = [entry[d] EXCEPT !.deleted = TRUE]]
          /\ UNCHANGED <<stored, def>>
      BY <1>5, <2>2 DEF AdvanceWhileActive, storeVars
    <3>2. entry'[d] = [entry[d] EXCEPT !.deleted = TRUE]
      BY <1>t, <3>1
    <3>3. /\ entry'[d].there = entry[d].there /\ entry'[d].announced = entry[d].announced
          /\ entry'[d].status = entry[d].status
      BY <1>f, <3>2 DEF Records
    <3>4. Calm(d)
      BY <1>r, <2>1, <2>2, <3>1, <3>3 DEF Calm, NoneRuns, Busy
    <3> QED
      BY <1>f, <1>r, <1>t, <2>1, <3>1, <3>4, CalmKeeps, Others DEF LaunchHasRoom
  <2>3. CASE d \in stored
    <3> DEFINE status == IF Admission(def'[d]) = "no" THEN "pending" ELSE entry[d].status
    <3>1. /\ def' = [def EXCEPT ![d] = [def[d] EXCEPT !.next = NextBoundary(d)]]
          /\ entry' = [entry EXCEPT ![d] =
                         [entry[d] EXCEPT !.def = def'[d], !.status = status]]
          /\ stored' = stored
      BY <1>5, <2>3 DEF AdvanceWhileActive
    <3>2. status # "idle"
      BY <2>1 DEF Idle
    <3> HIDE DEF status
    <3>3. entry'[d] = [entry[d] EXCEPT !.def = def'[d], !.status = status]
      BY <1>t, <3>1
    <3>4. /\ entry'[d].there = entry[d].there /\ entry'[d].deleted = entry[d].deleted
          /\ entry'[d].announced = entry[d].announced /\ entry'[d].status # "idle"
      BY <1>f, <3>2, <3>3 DEF Records
    <3>5. /\ def'[d].kind = def[d].kind /\ def'[d].budget = def[d].budget
          /\ def'[d].started = def[d].started /\ def'[d].retired = def[d].retired
      BY <1>f, <1>t, <3>1 DEF DefinitionCopy
    <3>6. Calm(d)
      BY <1>f, <1>r, <2>1, <3>1, <3>4, <3>5 DEF Calm, Facts, Gone, NoneRuns, Busy
    <3> QED
      BY <1>f, <1>r, <1>t, <2>1, <3>1, <3>6, CalmKeeps, Others DEF LaunchHasRoom
  <2> QED
    BY <2>2, <2>3
<1> QED
  BY <1>1, <1>2, <1>3, <1>4, <1>5 DEF Evaluate

(* A run starts: there was room for it. *)
LEMMA StartKeeps ==
    ASSUME BoundsInv, StartRun
    PROVE  (\A c \in Definitions : Facts(c)') /\ LaunchHasRoom'
<1>t. /\ TypeOK /\ LaunchIsOfIdle /\ \A c \in Definitions : Facts(c)
      /\ run \in [Definitions -> Seq({"running", "ended", "over", "lost"})]
  BY DEF BoundsInv, OverlapInv, TypeOK
<1>d. PICK d \in Definitions : d = launching.def
  BY <1>t DEF StartRun, LaunchIsOfIdle, Launches
<1>1. /\ d = launching.def /\ entry[d].there /\ loop = "launching" /\ loop' = "committing"
      /\ run' = [run EXCEPT ![d] = Append(run[d], "running")]
      /\ UNCHANGED <<stored, def, entry, retirements, launching>>
  BY <1>d, <1>t DEF StartRun, LaunchIsOfIdle, Launches, storeVars
<1>2. Room(d) /\ Facts(d)
  BY <1>1, <1>t DEF BoundsInv, LaunchHasRoom, Room, OneShot
<1>3. run[d] \in Seq({"running", "ended", "over", "lost"}) /\ Len(run[d]) \in Nat
  BY <1>1, <1>t
<1>4. run'[d] = Append(run[d], "running")
  BY <1>1, <1>t
<1>5. Len(run'[d]) = Len(run[d]) + 1 /\ run'[d] # <<>>
  BY <1>3, <1>4
<1>6. ~Busy(d) /\ Busy(d)'
  BY <1>1 DEF Busy
<1>7. def[d] \in DefinitionCopy /\ def'[d] = def[d]
  BY <1>1, <1>t DEF TypeOK
<1>8. Fresh(d)' /\ Gone(d)' /\ Spoken(d)'
  BY <1>1, <1>2, <1>6, <1>7 DEF Facts, Fresh, Gone, Spoken
<1>9. Tallied(d)'
  BY <1>1, <1>2, <1>3, <1>5, <1>6, <1>7 DEF Facts, Tallied, DefinitionCopy
<1>10. Bounded(d)'
  <2>1. OneShot(def[d]) => Len(run[d]) = 0
    BY <1>2, <1>3 DEF Room
  <2>2. def[d].budget # NoLimit => Len(run'[d]) <= def[d].budget
    BY <1>2, <1>3, <1>5, <1>7 DEF Room, DefinitionCopy
  <2> QED
    BY <1>5, <1>7, <2>1, <2>2 DEF Bounded, OneShot
<1>11. Announced(d)'
  BY <1>1, <1>2 DEF Room, Announced
<1>12. ASSUME NEW c \in Definitions, c # d PROVE Facts(c)'
  <2>1. run'[c] = run[c] /\ ~Busy(c) /\ ~Busy(c)'
    BY <1>1, <1>12, <1>t DEF Busy
  <2>2. Calm(c)
    BY <1>1, <1>t, <2>1, AloneIsCalm
  <2> QED
    BY <1>t, <2>2, CalmKeeps
<1> QED
  BY <1>1, <1>8, <1>9, <1>10, <1>11, <1>12 DEF Facts, LaunchHasRoom

(* A launch is refused. *)
LEMMA RefusalKeeps ==
    ASSUME BoundsInv, TypeOK', StartRefused
    PROVE  (\A c \in Definitions : Facts(c)') /\ LaunchHasRoom'
<1>t. /\ TypeOK /\ LaunchIsOfIdle /\ \A c \in Definitions : Facts(c)
      /\ entry \in [Definitions -> Records]
  BY DEF BoundsInv, OverlapInv, TypeOK, Records
<1>d. PICK d \in Definitions : d = launching.def
  BY <1>t DEF StartRefused, LaunchIsOfIdle, Launches
<1>1. /\ d = launching.def /\ entry[d].there /\ entry[d].status = "idle"
      /\ launching \in Launches /\ loop = "launching" /\ run' = run
  BY <1>d, <1>t DEF StartRefused, LaunchIsOfIdle, Launches
<1>2. loop' \notin {"launching", "committing"}
  BY <1>1 DEF StartRefused, Launched, Launches
<1>3. Room(d) /\ Facts(d) /\ ~Busy(d)
  BY <1>1, <1>t DEF BoundsInv, LaunchHasRoom, Room, OneShot, Busy
<1>4. NoneRuns(d)
  BY <1>1, <1>3, IdleIsQuiet DEF BoundsInv
<1>5. CASE OneShot(entry[d].def)
  <2>1. Retire(d, "launch_failed")
    BY <1>1, <1>5 DEF StartRefused
  <2>2. \A c \in Definitions : Facts(c)'
    BY <1>1, <1>2, <1>4, <1>t, <2>1, RetireKeeps DEF Reasons
  <2> QED
    BY <1>2, <2>2 DEF LaunchHasRoom
<1>6. CASE ~OneShot(entry[d].def)
  <2>1. /\ UNCHANGED <<stored, def, retirements>>
        /\ entry' = [entry EXCEPT ![d] =
                       [entry[d] EXCEPT !.faulted = TRUE, !.status = "idle", !.active = 0]]
    BY <1>1, <1>6 DEF StartRefused, storeVars
  <2>2. entry'[d] = [entry[d] EXCEPT !.faulted = TRUE, !.status = "idle", !.active = 0]
    BY <1>1, <1>t, <2>1
  <2>3. entry[d] \in Records
    BY <1>1, <1>t
  <2>4. /\ entry'[d].there = entry[d].there /\ entry'[d].deleted = entry[d].deleted
        /\ entry'[d].announced = entry[d].announced
    BY <2>2, <2>3 DEF Records
  <2>5. Calm(d)
    BY <1>1, <1>2, <1>3, <2>1, <2>4 DEF Calm, Facts, Gone, NoneRuns, Busy
  <2>6. Facts(d)'
    BY <1>1, <1>3, <2>5, CalmKeeps
  <2>7. \A c \in Definitions : Facts(c)'
    BY <1>1, <1>2, <1>t, <2>1, <2>6, Others
  <2> QED
    BY <1>2, <2>7 DEF LaunchHasRoom
<1> QED
  BY <1>5, <1>6

(* A launch is counted. *)
LEMMA CommitKeeps ==
    ASSUME BoundsInv, TypeOK', Commit
    PROVE  (\A c \in Definitions : Facts(c)') /\ LaunchHasRoom'
<1>t. /\ TypeOK /\ LaunchIsOfIdle /\ \A c \in Definitions : Facts(c)
      /\ entry \in [Definitions -> Records] /\ def \in [Definitions -> DefinitionCopy]
  BY DEF BoundsInv, OverlapInv, TypeOK, Records
<1>d. PICK d \in Definitions : d = launching.def
  BY <1>t DEF Commit, LaunchIsOfIdle, Launches
<1>1. /\ d = launching.def /\ entry[d].there /\ launching \in Launches
      /\ loop = "committing" /\ UNCHANGED <<run, stored, retirements>>
  BY <1>d, <1>t DEF Commit, LaunchIsOfIdle, Launches
<1>2. loop' \notin {"launching", "committing"}
  BY <1>1 DEF Commit, Launched, Launches
<1>3. Busy(d) /\ ~Busy(d)' /\ Facts(d) /\ entry[d] \in Records /\ def[d] \in DefinitionCopy
  BY <1>1, <1>2, <1>t DEF Busy
<1> DEFINE busy == [entry[d] EXCEPT !.status = "running", !.active = Len(run[d])]
<1>4. /\ busy.there = entry[d].there /\ busy.status = "running"
      /\ busy.announced = entry[d].announced /\ busy.deleted = entry[d].deleted
      /\ busy \in Records
  <2>1. Len(run[d]) \in Nat
    BY <1>1, <1>t DEF TypeOK
  <2> QED
    BY <1>3, <2>1 DEF Records
<1>5. /\ d \in stored => /\ def' = [def EXCEPT ![d] = [def[d] EXCEPT !.started = Counted(d)]]
                         /\ entry' = [entry EXCEPT ![d] = [busy EXCEPT !.def = def'[d]]]
      /\ d \notin stored => /\ def' = def
                            /\ entry' = [entry EXCEPT ![d] = [busy EXCEPT !.deleted = TRUE]]
  BY <1>1 DEF Commit
<1> HIDE DEF busy
<1>6. /\ entry'[d].there = entry[d].there /\ entry'[d].status # "idle"
      /\ entry'[d].announced = entry[d].announced
      /\ d \in stored => entry'[d].deleted = entry[d].deleted
  <2>1. entry'[d] = [busy EXCEPT !.def = def'[d]] \/ entry'[d] = [busy EXCEPT !.deleted = TRUE]
    BY <1>1, <1>5, <1>t
  <2>2. d \in stored => entry'[d] = [busy EXCEPT !.def = def'[d]]
    BY <1>1, <1>5, <1>t
  <2> QED
    BY <1>4, <2>1, <2>2 DEF Records
<1>7. /\ def'[d].kind = def[d].kind /\ def'[d].budget = def[d].budget
      /\ d \in stored => def'[d].started = def[d].started + 1
      /\ def'[d].retired = def[d].retired
  BY <1>1, <1>3, <1>5, <1>t DEF DefinitionCopy, Counted
<1>8. Fresh(d)' /\ Gone(d)' /\ Spoken(d)' /\ Bounded(d)' /\ Announced(d)'
  BY <1>1, <1>3, <1>6, <1>7
     DEF Facts, Fresh, Gone, Spoken, Bounded, Announced, OneShot, NoneRuns
<1>9. Tallied(d)'
  BY <1>1, <1>3, <1>7 DEF Facts, Tallied, DefinitionCopy
<1>10. ASSUME NEW c \in Definitions, c # d PROVE Facts(c)'
  <2>1. entry'[c] = entry[c] /\ def'[c] = def[c] /\ ~Busy(c) /\ ~Busy(c)'
    BY <1>1, <1>2, <1>5, <1>10, <1>t DEF Busy
  <2>2. Calm(c)
    BY <1>1, <1>t, <2>1, AloneIsCalm
  <2> QED
    BY <1>t, <2>2, CalmKeeps
<1> QED
  BY <1>2, <1>8, <1>9, <1>10 DEF Facts, LaunchHasRoom

(* A snapshot of the store is reconciled with the entries. *)
LEMMA ReconcileKeeps ==
    ASSUME BoundsInv, TypeOK', Reconcile
    PROVE  (\A c \in Definitions : Facts(c)') /\ LaunchHasRoom'
<1>t. /\ TypeOK /\ entry \in [Definitions -> Records] /\ \A c \in Definitions : Facts(c)
  BY DEF BoundsInv, OverlapInv, TypeOK, Records
<1>1. /\ loop \notin {"launching", "committing"} /\ loop' \notin {"launching", "committing"}
      /\ UNCHANGED <<stored, def, run, retirements>>
  BY DEF Reconcile, storeVars
<1>2. ASSUME NEW c \in Definitions PROVE Facts(c)'
  <2>1. Facts(c) /\ entry[c] \in Records /\ ~Busy(c) /\ ~Busy(c)'
    BY <1>1, <1>t DEF Busy
  <2>2. CASE entry'[c] = entry[c]
    BY <1>1, <2>1, <2>2, AloneIsCalm, CalmKeeps
  <2>3. CASE entry'[c] # entry[c]
    <3>1. entry'[c] = Reconciled(c)
      BY <2>3 DEF Reconcile
    <3>2. /\ entry'[c].deleted => entry'[c].there /\ c \notin stored
          /\ entry'[c].there => entry[c].there \/ c \in stored
          /\ entry'[c].there =>
                entry'[c].announced =
                    IF entry[c].there THEN entry[c].announced ELSE def[c].retired # "no"
          /\ c \in stored /\ entry[c].there =>
                entry'[c].there /\ entry'[c].status = entry[c].status
      <4>1. CASE c \in stored /\ ~entry[c].there
        BY <3>1, <4>1 DEF Reconciled, NoEntry
      <4>2. CASE c \in stored /\ entry[c].there
        BY <2>1, <2>3, <3>1, <4>2 DEF Reconciled, Records, Facts, Gone
      <4>3. CASE c \notin stored /\ entry[c].there /\ entry[c].status # "idle"
        BY <2>1, <3>1, <4>3 DEF Reconciled, Records
      <4>4. CASE c \notin stored /\ entry[c].status = "idle"
        BY <3>1, <4>4 DEF Reconciled, NoEntry
      <4>5. CASE c \notin stored /\ ~entry[c].there /\ entry[c].status # "idle"
        BY <4>5 DEF BoundsInv, OverlapInv, AbsentIsIdle
      <4> QED
        BY <2>1, <4>1, <4>2, <4>3, <4>4, <4>5 DEF Records
    <3>3. Fresh(c)' /\ Gone(c)' /\ Bounded(c)' /\ Tallied(c)'
      BY <1>1, <2>1, <3>2 DEF Facts, Fresh, Gone, Bounded, Tallied, OneShot
    <3>4. Spoken(c)' /\ Announced(c)'
      BY <1>1, <2>1, <3>2 DEF Facts, Spoken, Announced, OneShot, NoneRuns
    <3> QED
      BY <3>3, <3>4 DEF Facts
  <2> QED
    BY <2>2, <2>3
<1> QED
  BY <1>1, <1>2 DEF LaunchHasRoom

(* A definition is added under a fresh id. *)
LEMMA AddKeeps ==
    ASSUME BoundsInv, NEW d \in Definitions, Add(d)
    PROVE  (\A c \in Definitions : Facts(c)') /\ LaunchHasRoom'
<1>t. /\ TypeOK /\ LaunchIsOfIdle /\ def \in [Definitions -> DefinitionCopy]
      /\ \A c \in Definitions : Facts(c)
  BY DEF BoundsInv, OverlapInv, TypeOK
<1>1. /\ UNCHANGED <<entry, run, retirements, loop, launching>> /\ stored' = stored \cup {d}
      /\ def[d].kind = "none"
  BY DEF Add, loopVars
<1>2. PICK kind \in {"at", "interval", "cron"}, e \in Deadlines :
          \E next \in FirstRun(kind), b \in IF kind = "at" THEN {NoLimit, 1} ELSE Budgets :
              def' = [def EXCEPT ![d] = [def[d] EXCEPT !.kind = kind, !.budget = b,
                                                     !.expires = e, !.next = next]]
  BY DEF Add
<1>3. PICK next \in FirstRun(kind), b \in IF kind = "at" THEN {NoLimit, 1} ELSE Budgets :
          def' = [def EXCEPT ![d] = [def[d] EXCEPT !.kind = kind, !.budget = b,
                                                 !.expires = e, !.next = next]]
  BY <1>2
<1>4. b \in Nat
  BY BoundsAssumption DEF NoLimit
<1>5. def[d] \in DefinitionCopy /\ Facts(d)
  BY <1>t
<1>6. /\ def'[d].kind = kind /\ def'[d].budget = b /\ def'[d].started = def[d].started
  BY <1>3, <1>5, <1>t DEF DefinitionCopy
<1>7. /\ ~entry[d].there /\ run[d] = <<>> /\ def[d].started = 0 /\ retirements[d] = 0
  BY <1>1, <1>5 DEF Facts, Fresh
<1>8. ~Busy(d)' /\ (loop \in {"launching", "committing"} => launching.def # d)
  BY <1>1, <1>7, <1>t DEF Busy, LaunchIsOfIdle
<1>9. Len(run'[d]) = 0
  BY <1>1, <1>7
<1>10. Facts(d)'
  BY <1>1, <1>4, <1>5, <1>6, <1>7, <1>8, <1>9
     DEF Facts, Fresh, Gone, Tallied, Bounded, Spoken, Announced
<1>11. ASSUME NEW c \in Definitions, c # d PROVE Facts(c)'
  <2>1. Calm(c)
    BY <1>1, <1>3, <1>11, <1>t, AloneIsCalm DEF Busy
  <2> QED
    BY <1>t, <2>1, CalmKeeps
<1>12. LaunchHasRoom'
  <2> SUFFICES ASSUME loop = "launching" PROVE Room(launching.def)'
    BY <1>1 DEF LaunchHasRoom
  <2>1. PICK c \in Definitions : c = launching.def
    BY <1>t DEF LaunchIsOfIdle, Launches
  <2>2. c # d /\ Room(c)
    BY <1>8, <2>1 DEF BoundsInv, LaunchHasRoom, Room, OneShot
  <2>3. def'[c] = def[c] /\ (c \in stored' <=> c \in stored)
    BY <1>1, <1>3, <1>t, <2>2
  <2> QED
    BY <1>1, <2>1, <2>2, <2>3 DEF Room, OneShot
<1> QED
  BY <1>10, <1>11, <1>12

(* What moves around the loop: deletions, cancellations, and runs that end. *)
LEMMA AroundKeeps ==
    ASSUME BoundsInv, NEW d \in Definitions,
           \/ Delete(d) \/ CancelSelf(d)
           \/ \E n \in DOMAIN run[d] : EndRun(d, n) \/ CallBack(d, n) \/ RemoveTask(d, n)
    PROVE  (\A c \in Definitions : Facts(c)') /\ LaunchHasRoom'
<1>t. /\ TypeOK /\ LaunchIsOfIdle /\ def \in [Definitions -> DefinitionCopy]
      /\ run \in [Definitions -> Seq({"running", "ended", "over", "lost"})]
      /\ \A c \in Definitions : Facts(c)
  BY DEF BoundsInv, OverlapInv, TypeOK
<1>1. UNCHANGED <<entry, retirements, loop, launching>> /\ stored' \subseteq stored
  BY DEF Delete, CancelSelf, EndRun, CallBack, RemoveTask, loopVars, storeVars
<1>2. \/ run' = run
      \/ \E n \in DOMAIN run[d], s \in {"ended", "over", "lost"} :
             run' = [run EXCEPT ![d][n] = s]
  BY DEF Delete, CancelSelf, EndRun, CallBack, RemoveTask
<1>3. \A c \in Definitions :
         /\ Len(run'[c]) = Len(run[c]) /\ (run[c] = <<>> <=> run'[c] = <<>>)
         /\ NoneRuns(c) => NoneRuns(c)'
  <2>1. CASE run' = run
    BY <2>1 DEF NoneRuns
  <2>2. ASSUME NEW n \in DOMAIN run[d], NEW s \in {"ended", "over", "lost"},
               run' = [run EXCEPT ![d][n] = s], NEW c \in Definitions
        PROVE  /\ Len(run'[c]) = Len(run[c]) /\ (run[c] = <<>> <=> run'[c] = <<>>)
               /\ NoneRuns(c) => NoneRuns(c)'
    <3>1. /\ run[c] \in Seq({"running", "ended", "over", "lost"})
          /\ run'[c] \in Seq({"running", "ended", "over", "lost"})
          /\ Len(run'[c]) = Len(run[c]) /\ DOMAIN run'[c] = DOMAIN run[c]
      <4>1. run'[c] = IF c = d THEN [run[d] EXCEPT ![n] = s] ELSE run[c]
        BY <1>t, <2>2
      <4>2. [run[d] EXCEPT ![n] = s] \in Seq({"running", "ended", "over", "lost"})
        BY <1>t, <2>2
      <4>3. Len([run[d] EXCEPT ![n] = s]) = Len(run[d])
        BY <1>t, <2>2
      <4> QED
        BY <1>t, <4>1, <4>2, <4>3
    <3>2. \A m \in DOMAIN run[c] : run'[c][m] = run[c][m] \/ run'[c][m] = s
      BY <1>t, <2>2
    <3>3. run[c] = <<>> <=> run'[c] = <<>>
      BY <3>1
    <3>4. NoneRuns(c) => NoneRuns(c)'
      BY <3>1, <3>2 DEF NoneRuns
    <3> QED
      BY <3>1, <3>3, <3>4
  <2> QED
    BY <1>2, <2>1, <2>2
<1>4. \A c \in Definitions :
         /\ def'[c].kind = def[c].kind /\ def'[c].budget = def[c].budget
         /\ def'[c].started = def[c].started
         /\ def[c].retired # "no" => def'[c].retired # "no"
         /\ def'[c].retired = def[c].retired \/ CancelSelf(c)
  <2>1. CASE def' = def
    BY <2>1
  <2>2. CASE CancelSelf(d)
    <3>1. def' = [def EXCEPT ![d] = [def[d] EXCEPT !.retired = "cancelled"]]
      BY <2>2 DEF CancelSelf
    <3> QED
      BY <1>t, <2>2, <3>1 DEF DefinitionCopy
  <2> QED
    BY <2>1, <2>2 DEF Delete, EndRun, CallBack, RemoveTask, storeVars
<1>5. ASSUME NEW c \in Definitions PROVE Calm(c)
  BY <1>1, <1>3, <1>4, <1>t DEF Calm, Busy, Facts, Gone
<1>6. LaunchHasRoom'
  <2> SUFFICES ASSUME loop = "launching" PROVE Room(launching.def)'
    BY <1>1 DEF LaunchHasRoom
  <2>1. PICK c \in Definitions : c = launching.def /\ entry[c].status = "idle"
    BY <1>t DEF LaunchIsOfIdle, Launches
  <2>2. Room(c)
    BY <2>1 DEF BoundsInv, LaunchHasRoom, Room, OneShot
  <2>3. NoneRuns(c)
    BY <2>1, IdleIsQuiet DEF BoundsInv, Busy
  <2>4. ~CancelSelf(c)
    BY <2>3 DEF CancelSelf, NoneRuns
  <2>5. Room(c)'
    BY <1>4, <1>5, <2>2, <2>4, RoomStays
  <2> QED
    BY <1>1, <2>1, <2>5 DEF Room, OneShot
<1> QED
  BY <1>5, <1>6, <1>t, CalmKeeps

(* Every step keeps the invariant. *)
LEMMA BoundsStep == BoundsInv /\ [Next]_vars => BoundsInv'
<1> SUFFICES ASSUME BoundsInv, [Next]_vars PROVE BoundsInv'
  OBVIOUS
<1>o. OverlapInv'
  BY OverlapStep DEF BoundsInv
<1>t. TypeOK' /\ \A c \in Definitions : Facts(c)
  BY <1>o DEF OverlapInv, BoundsInv
<1> SUFFICES (\A c \in Definitions : Facts(c)') /\ LaunchHasRoom'
  BY <1>o DEF BoundsInv
<1>1. CASE Reconcile
  BY <1>1, <1>t, ReconcileKeeps
<1>2. CASE StopLoop \/ NoMoreCommands \/ NothingMoreDue \/ Wait \/ Tick \/ PauseLaunches
           \/ Shutdown \/ UNCHANGED vars
  <2>1. /\ UNCHANGED <<stored, def, entry, run, retirements, launching>>
        /\ loop' = loop \/ (loop' \notin {"launching", "committing"}
                              /\ loop \notin {"launching", "committing"})
    BY <1>2 DEF StopLoop, NoMoreCommands, NothingMoreDue, Wait, Tick, PauseLaunches, Shutdown,
                vars, loopVars, storeVars
  <2>2. \A c \in Definitions : Facts(c)'
    BY <1>t, <2>1, AloneIsCalm, CalmKeeps DEF Busy
  <2> QED
    BY <2>1, <2>2 DEF BoundsInv, LaunchHasRoom, Room, OneShot
<1>3. ASSUME NEW d \in Definitions, NEW n \in DOMAIN run[d], Handle(d, n)
      PROVE  (\A c \in Definitions : Facts(c)') /\ LaunchHasRoom'
  <2>1. NoneRuns(d) \/ ~Awaited(d, n)
    BY <1>3, TakenIsQuiet DEF BoundsInv
  <2> QED
    BY <1>3, <1>t, <2>1, HandleKeeps
<1>4. ASSUME NEW d \in Definitions, Evaluate(d)
      PROVE  (\A c \in Definitions : Facts(c)') /\ LaunchHasRoom'
  BY <1>4, <1>t, EvaluateKeeps
<1>5. CASE StartRun
  BY <1>5, StartKeeps
<1>6. CASE StartRefused
  BY <1>6, <1>t, RefusalKeeps
<1>7. CASE Commit
  BY <1>7, <1>t, CommitKeeps
<1>8. ASSUME NEW d \in Definitions, Add(d)
      PROVE  (\A c \in Definitions : Facts(c)') /\ LaunchHasRoom'
  BY <1>8, AddKeeps
<1>9. ASSUME NEW d \in Definitions,
             \/ Delete(d) \/ CancelSelf(d)
             \/ \E n \in DOMAIN run[d] : EndRun(d, n) \/ CallBack(d, n) \/ RemoveTask(d, n)
      PROVE  (\A c \in Definitions : Facts(c)') /\ LaunchHasRoom'
  BY <1>9, AroundKeeps
<1> QED
  BY <1>1, <1>2, <1>3, <1>4, <1>5, <1>6, <1>7, <1>8, <1>9 DEF Next, Loop

(* The invariant holds when the runtime starts. *)
LEMMA BoundsInit == Init => BoundsInv
<1> SUFFICES ASSUME Init PROVE BoundsInv
  OBVIOUS
<1>1. OverlapInv
  BY OverlapInit
<1>2. ASSUME NEW d \in Definitions PROVE Facts(d)
  <2>1. /\ def[d].started = 0 /\ def[d].budget = 0 /\ def[d].kind = "none"
        /\ ~entry[d].there /\ ~entry[d].deleted /\ run[d] = <<>> /\ retirements[d] = 0
        /\ d \notin stored
    BY DEF Init, NoEntry
  <2> QED
    BY <2>1 DEF Facts, Fresh, Gone, Tallied, Bounded, Spoken, Announced, OneShot, NoLimit
<1>3. LaunchHasRoom
  BY DEF Init, LaunchHasRoom
<1> QED
  BY <1>1, <1>2, <1>3 DEF BoundsInv

(* The bounds invariant holds throughout. *)
LEMMA BoundsAlways == Spec => []BoundsInv
<1>1. Init => BoundsInv
  BY BoundsInit
<1>2. BoundsInv /\ [Next]_vars => BoundsInv'
  BY BoundsStep
<1> QED
  BY <1>1, <1>2, PTL DEF Spec

(* maxRuns bounds the runs of a definition, and the stored counter is       *)
(* their number (limits.rs:14, runtime.rs:805).                            *)
THEOREM StaysWithinBudget == Spec => []RunsWithinBudget
<1>1. BoundsInv => RunsWithinBudget
  BY DEF BoundsInv, Facts, Bounded, Tallied, Busy, RunsWithinBudget
<1> QED
  BY <1>1, BoundsAlways, PTL

(* A one-shot is launched at most once (runtime.rs:21). *)
THEOREM LaunchesOnce == Spec => []OneShotRunsOnce
<1>1. BoundsInv => OneShotRunsOnce
  BY DEF BoundsInv, Facts, Bounded, OneShotRunsOnce
<1> QED
  BY <1>1, BoundsAlways, PTL

(* A retirement is announced once, and nothing of the definition runs after *)
(* it (runtime.rs:628).                                                    *)
THEOREM RetiresQuietly == Spec => []RetiredIsQuiet
<1>1. BoundsInv => RetiredIsQuiet
  BY DEF BoundsInv, Facts, Announced, NoneRuns, RetiredIsQuiet
<1> QED
  BY <1>1, BoundsAlways, PTL

(* Only a launch makes the runs of a definition more. *)
LEMMA OnlyLaunchesAdd ==
    ASSUME TypeOK, [Next]_vars, ~StartRun, NEW d \in Definitions
    PROVE  Len(run'[d]) = Len(run[d])
<1>t. run \in [Definitions -> Seq({"running", "ended", "over", "lost"})]
  BY DEF TypeOK
<1>1. \/ run' = run
      \/ \E c \in Definitions : \E n \in DOMAIN run[c], s \in {"ended", "over", "lost"} :
             run' = [run EXCEPT ![c][n] = s]
  BY DEF Next, Loop, vars, Reconcile, StopLoop, NoMoreCommands, NothingMoreDue, Evaluate,
         PassOver, RetireIdle, Unqueue, Claim, AdvanceWhileActive, Evaluating, Handle,
         DropCommand, FinishOneShot, FinishRun, Settling, Take, StartRefused, Commit, Wait,
         Tick, PauseLaunches, Shutdown, Add, Delete, CancelSelf, EndRun, CallBack, RemoveTask
<1>2. ASSUME NEW c \in Definitions, NEW n \in DOMAIN run[c], NEW s \in {"ended", "over", "lost"},
             run' = [run EXCEPT ![c][n] = s]
      PROVE  Len(run'[d]) = Len(run[d])
  BY <1>t, <1>2
<1> QED
  BY <1>1, <1>2

(* No run starts of a definition the store holds as retired, though the    *)
(* loop decides on copies (runtime.rs:694).                                *)
THEOREM LaunchesAdmitted == Spec => StartsAreAdmitted
<1>1. ASSUME BoundsInv, [Next]_vars, NEW d \in stored,
             run'[d] # run[d] /\ Len(run'[d]) > Len(run[d])
      PROVE  def[d].retired = "no"
  <2>t. TypeOK /\ LaunchIsOfIdle
    BY <1>1 DEF BoundsInv, OverlapInv
  <2>d. d \in Definitions /\ Len(run[d]) \in Nat
    BY <1>1, <2>t DEF TypeOK
  <2>1. StartRun
    BY <1>1, <2>t, <2>d, OnlyLaunchesAdd
  <2>2. d = launching.def
    BY <1>1, <2>1, <2>t, <2>d DEF StartRun, TypeOK
  <2> QED
    BY <1>1, <2>1, <2>2 DEF BoundsInv, LaunchHasRoom, Room, StartRun
<1>2. BoundsInv /\ [Next]_vars =>
        (\A d \in stored : run'[d] # run[d] /\ Len(run'[d]) > Len(run[d])
            => def[d].retired = "no")
  BY <1>1
<1> QED
  BY <1>2, BoundsAlways, PTL DEF Spec, StartsAreAdmitted
=============================================================================
