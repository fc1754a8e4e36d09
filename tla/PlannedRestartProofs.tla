-------------------------- MODULE PlannedRestartProofs --------------------------
(***************************************************************************)
(* Proofs about PlannedRestart, for any subagents, tools and owners, any   *)
(* number of engines, failures and commands: a restart file on disk is     *)
(* complete, and no saved state is re-created twice.                       *)
(*                                                                         *)
(* A saved state passes through the listed files, the list being applied,  *)
(* the pending checkpoints and those being registered.  RestoreInv says    *)
(* that it is in one of these places at a time, that none of them holds a  *)
(* state already re-created, and that what an engine re-creates is from an *)
(* earlier one.                                                            *)
(***************************************************************************)
EXTENDS PlannedRestart, FiniteSetTheorems, TLAPS

(* The services lock, and what its holder is at. *)
LockInv ==
    /\ (restoring # "no") <=> (lock = "restore")
    /\ (prep = "save") <=> (lock = "prepare")
    /\ restoring # "register" => todo = Nothing
    /\ restoring = "no" => unlink = {}
    /\ stage \in {"fresh", "applying"} => ~built /\ turn = "none" /\ prep = "idle"
    /\ ~built => restoring = "no"
    /\ stage = "building" => prep = "idle"

(* One place at a time: whoever has a saved state has taken it from where  *)
(* it was.                                                                 *)
PlaceInv ==
    /\ stage # "applying" => listed = {}
    /\ stage \in {"fresh", "applying"} \/ built => pending = Nothing
    /\ restartFile # NoFile => pending = Nothing /\ todo = Nothing /\ unlink = {}
    /\ stage = "applying" => restartFile = NoFile

(* What is re-created was saved by an earlier engine. *)
AgeInv ==
    /\ \A r \in recreated : r[2] < engine
    /\ \A t \in Subagents :
          /\ files[t] # NoFile => /\ files[t].engine <= engine
                                  /\ stage \in {"fresh", "applying"} => files[t].engine < engine
          /\ pending[t] # NoFile => pending[t].engine < engine
          /\ todo[t] # NoFile => todo[t].engine < engine

(* A saved state that has not been re-created. *)
Unused(t, cp) == cp # NoFile => <<t, cp.engine>> \notin recreated

Held(ts) == \A t \in ts : files[t] # NoFile /\ Unused(t, files[t])

UnusedInv ==
    /\ restartFile # NoFile => Held(restartFile.tasks)
    /\ Held(listed)
    /\ \A t \in Subagents : Unused(t, pending[t]) /\ Unused(t, todo[t])
    /\ Held(saved)
    /\ prep # "save" => saved = {}

RestoreInv == LockInv /\ PlaceInv /\ AgeInv /\ UnusedInv /\ RestoredOnce
-----------------------------------------------------------------------------
USE TaskAssumption, BoundAssumption

LEMMA CheckpointTyped ==
    ASSUME TypeOK, NEW t \in Subagents
    PROVE  Checkpoint(t) \in Checkpoints
  BY DEF TypeOK, Checkpoint, Checkpoints, InboxOf, Children, Tasks

LEMMA NothingTyped == Nothing \in Slots
  BY DEF Nothing, Slots

LEMMA SubsetsFinite ==
    ASSUME NEW ts \in SUBSET Subagents
    PROVE  Cardinality(ts) \in Nat
<1>1. IsFiniteSet(ts)
  BY FS_Subset DEF Tasks
<1> QED
  BY <1>1, FS_CardinalityType

(* Every variable stays within its range. *)
LEMMA TypeStep == TypeOK /\ [Next]_vars => TypeOK'
<1> SUFFICES ASSUME TypeOK, [Next]_vars PROVE TypeOK'
  OBVIOUS
<1> USE DEF TypeOK, tasks, host, restore, prepare, disk, ledger, bounds, Slots
<1>1. ASSUME NEW t \in Tasks, Start(t) PROVE TypeOK'
  BY <1>1 DEF Start, Belated, Tasks
<1>2. ASSUME NEW t \in Tasks, Abort(t) PROVE TypeOK'
  BY <1>2 DEF Abort, Runs, End, LiveTasks
<1>3. ASSUME NEW t \in Tasks, Report(t) PROVE TypeOK'
  BY <1>3 DEF Report
<1>4. ASSUME NEW t \in Tasks, StopTask(t) PROVE TypeOK'
  BY <1>4 DEF StopTask, Command
<1>5. ASSUME NEW t \in Subagents, SafePoint(t) PROVE TypeOK'
  BY <1>5 DEF SafePoint, Tasks
<1>6. ASSUME NEW t \in Subagents, Continue(t) PROVE TypeOK'
  BY <1>6 DEF Continue, Tasks
<1>7. ASSUME NEW t \in Subagents, Deliver(t) PROVE TypeOK'
  BY <1>7 DEF Deliver, InboxOf, Children, Tasks
<1>8. ASSUME NEW t \in Subagents, Park(t) PROVE TypeOK'
  BY <1>8 DEF Park, Tasks
<1>9. ASSUME NEW t \in Subagents, Finish(t) PROVE TypeOK'
  BY <1>9 DEF Finish, End, LiveTasks, Tasks
<1>10. ASSUME NEW t \in Subagents, Suspend(t) PROVE TypeOK'
  BY <1>10 DEF Suspend, Command, Tasks
<1>11. ASSUME NEW t \in Subagents, Resume(t) PROVE TypeOK'
  BY <1>11 DEF Resume, Command, Tasks
<1>12. ASSUME NEW t \in Subagents, Register(t) PROVE TypeOK'
  <2> DEFINE cp == todo[t]
  <2>1. todo' \in Slots
    BY <1>12 DEF Register
  <2>2. cp \in Checkpoints
    BY <1>12 DEF Register
  <2>3. /\ cp.inbox \subseteq Tasks /\ cp.told \subseteq Tasks /\ cp.sent \subseteq Tasks
        /\ cp.had \subseteq Tasks /\ cp.engine \in Nat
    BY <2>2 DEF Checkpoints
  <2>4. /\ status' \in [Tasks -> {"absent", "running", "suspended", "finished", "ended"}]
        /\ flagged' \subseteq Subagents /\ parked' \subseteq Subagents
        /\ held' \subseteq Subagents /\ unlink' \subseteq Subagents
        /\ wish' \subseteq Subagents /\ late' \subseteq Subagents
        /\ twice' \subseteq Subagents /\ belated' \subseteq Tasks
    BY <1>12 DEF Register, Belated, Tasks
  <2>5. /\ inbox' \subseteq Tasks /\ told' \subseteq Tasks /\ sent' \subseteq Tasks
        /\ had' \subseteq Tasks /\ lost' \subseteq Tasks
        /\ recreated' \subseteq Subagents \X Nat
    <3> HIDE DEF cp
    <3>1. /\ inbox' \in {inbox, inbox \cup cp.inbox} /\ told' \in {told, told \cup cp.told}
          /\ sent' \in {sent, sent \cup cp.sent} /\ had' \in {had, had \cup {t} \cup cp.had}
          /\ lost' \subseteq lost \cup cp.had
          /\ recreated' \in {recreated, recreated \cup {<<t, cp.engine>>}}
      BY <1>12 DEF Register, cp
    <3> QED
      BY <3>1, <2>3 DEF Tasks
  <2> QED
    BY <1>12, <2>1, <2>4, <2>5 DEF Register
<1>13. ASSUME NEW t \in Subagents, Unlink(t) PROVE TypeOK'
  BY <1>13 DEF Unlink, Tasks
<1>14. ASSUME NEW t \in Subagents, Save(t) PROVE TypeOK'
  BY <1>14, CheckpointTyped DEF Save
<1>15. ASSUME NEW t \in Subagents, SaveDeferred(t) PROVE TypeOK'
  BY <1>15 DEF SaveDeferred, Tasks
<1>16. CASE ClaimTurn
  BY <1>16 DEF ClaimTurn
<1>17. CASE UseServices
  BY <1>17 DEF UseServices
<1>18. CASE BuildServices
  BY <1>18 DEF BuildServices, Nothing
<1>19. CASE EndTurn
  BY <1>19 DEF EndTurn
<1>20. CASE Launch
  BY <1>20 DEF Launch
<1>21. CASE Restored
  BY <1>21 DEF Restored
<1>22. CASE InitializePlainly
  BY <1>22 DEF InitializePlainly
<1>23. CASE InitializeRestoring
  BY <1>23 DEF InitializeRestoring, Consumed
<1>24. CASE Apply
  <2>1. PICK unreadable \in SUBSET listed :
            /\ failures' = failures + Cardinality(unreadable)
            /\ pending' = [t \in Subagents |->
                              IF t \in listed \ unreadable THEN files[t] ELSE NoFile]
    BY <1>24 DEF Apply
  <2>2. Cardinality(unreadable) \in Nat
    BY SubsetsFinite
  <2>3. pending' \in Slots
    BY <2>1
  <2> QED
    BY <1>24, <2>1, <2>2, <2>3 DEF Apply
<1>25. CASE BeginDraining
  BY <1>25 DEF BeginDraining, Prepares
<1>26. CASE Capture
  BY <1>26 DEF Capture, Prepares, FirstCapture, FlaggedNow
<1>27. CASE SuspendAll
  BY <1>27 DEF SuspendAll, Prepares, LiveTasks
<1>28. CASE Drained
  BY <1>28 DEF Drained, Prepares
<1>29. CASE Interrupt
  BY <1>29 DEF Interrupt, Prepares, StopAndRecord, LiveTasks
<1>30. CASE Release
  BY <1>30 DEF Release, Prepares
<1>31. CASE Settle
  BY <1>31 DEF Settle, Prepares, StopAndRecord, LiveTasks, Unsettled
<1>32. CASE LockServices
  BY <1>32 DEF LockServices, Prepares
<1>33. CASE WriteRestartFile
  <2>1. /\ restartFile' \in [tasks : SUBSET Subagents, interrupted : SUBSET Tasks]
        /\ pending' \in Slots
    BY <1>33, NothingTyped DEF WriteRestartFile, PendingAfterWrite
  <2> QED
    BY <1>33, <2>1, ZenonT(60) DEF WriteRestartFile, Prepares
<1>34. CASE PrepareFails
  BY <1>34 DEF PrepareFails, KeptForRetry
<1>35. CASE NextEngine
  <2>1. status' \in [Tasks -> {"absent", "running", "suspended", "finished", "ended"}]
    BY <1>35 DEF NextEngine
  <2>2. pending' \in Slots /\ todo' \in Slots
    BY <1>35, NothingTyped DEF NextEngine
  <2>3. /\ flagged' = {} /\ cancelled' = {} /\ parked' = {} /\ inbox' = {} /\ told' = {}
        /\ settled' = {} /\ held' = {} /\ listed' = {} /\ unlink' = {}
        /\ operatorSuspended' = {} /\ interrupted' = {} /\ work' = {} /\ saved' = {}
        /\ wish' = {} /\ sent' = {} /\ late' = {} /\ drainStopped' = {}
        /\ had' = {} /\ lost' = {} /\ belated' = {}
    BY <1>35 DEF NextEngine
  <2>4. /\ stage' = "fresh" /\ turn' = "none" /\ lock' = "free"
        /\ restoring' = "no" /\ prep' = "idle"
        /\ built' = FALSE /\ draining' = FALSE /\ suspendNew' = FALSE
        /\ keep' = FALSE /\ captured' = FALSE /\ overrun' = FALSE
    BY <1>35 DEF NextEngine
  <2>5. /\ engine' = engine + 1
        /\ UNCHANGED <<files, restartFile, recreated, twice, failures, commands>>
    BY <1>35 DEF NextEngine
  <2>6. /\ flagged' \subseteq Subagents /\ parked' \subseteq Subagents
        /\ held' \subseteq Subagents /\ listed' \subseteq Subagents
        /\ unlink' \subseteq Subagents /\ operatorSuspended' \subseteq Subagents
        /\ work' \subseteq Subagents /\ saved' \subseteq Subagents
        /\ wish' \subseteq Subagents /\ late' \subseteq Subagents
    BY <2>3
  <2>7. /\ cancelled' \subseteq Tasks /\ settled' \subseteq Tasks
        /\ inbox' \subseteq Tasks /\ told' \subseteq Tasks /\ sent' \subseteq Tasks
        /\ interrupted' \subseteq Tasks /\ drainStopped' \subseteq Tasks
        /\ had' \subseteq Tasks /\ lost' \subseteq Tasks /\ belated' \subseteq Tasks
    BY <2>3
  <2>8. /\ files' \in Slots /\ twice' \subseteq Subagents
        /\ recreated' \subseteq Subagents \X Nat
        /\ restartFile' \in [tasks : SUBSET Subagents, interrupted : SUBSET Tasks]
                               \cup {NoFile}
        /\ engine' \in Nat /\ failures' \in Nat /\ commands' \in Nat
    BY <2>5
  <2> QED
    BY <2>1, <2>2, <2>4, <2>6, <2>7, <2>8
<1>36. CASE UNCHANGED vars
  BY <1>36 DEF vars
<1>37. CASE PauseLaunches
  BY <1>37 DEF PauseLaunches, Prepares
<1> QED
  BY <1>1, <1>2, <1>3, <1>4, <1>5, <1>6, <1>7, <1>8, <1>9, <1>10, <1>11, <1>12, <1>13, <1>14,
     <1>15, <1>16, <1>17, <1>18, <1>19, <1>20, <1>21, <1>22, <1>23, <1>24, <1>25, <1>26,
     <1>27, <1>28, <1>29, <1>30, <1>31, <1>32, <1>33, <1>34, <1>35, <1>36, <1>37
     DEF Next, TaskStep, SubagentStep, HostStep, PrepareStep

-----------------------------------------------------------------------------
(* The inductive step, action by action; most actions touch nothing of it. *)

LEMMA Untouched ==
    ASSUME RestoreInv,
           UNCHANGED <<restoring, lock, prep, todo, unlink, stage, built, turn, listed,
                       pending, disk, recreated, twice, saved, engine>>
    PROVE  RestoreInv'
  BY DEF RestoreInv, LockInv, PlaceInv, AgeInv, UnusedInv, RestoredOnce, Held, Unused, disk

(* The steps of prepare_restart outside the services lock. *)
LEMMA PrepareMoves ==
    ASSUME RestoreInv, stage = "ready", prep # "save", prep' # "save",
           UNCHANGED <<restoring, lock, todo, unlink, stage, built, turn, listed,
                       pending, disk, recreated, twice, saved, engine>>
    PROVE  RestoreInv'
  BY DEF RestoreInv, LockInv, PlaceInv, AgeInv, UnusedInv, RestoredOnce, Held, Unused, disk

LEMMA TurnMoves ==
    ASSUME RestoreInv, stage = "ready" \/ turn # "none" \/ turn' = "none",
           UNCHANGED <<restoring, lock, prep, todo, unlink, stage, built, listed,
                       pending, disk, recreated, twice, saved, engine>>
    PROVE  RestoreInv'
  BY DEF RestoreInv, LockInv, PlaceInv, AgeInv, UnusedInv, RestoredOnce, Held, Unused, disk

(* While prepare_restart is under way, initialize is over. *)
LEMMA PrepareIsLate ==
    ASSUME TypeOK, LockInv, prep # "idle"
    PROVE  stage = "ready"
  BY DEF TypeOK, LockInv

(* While a saved state is being re-created, no other place holds one. *)
LEMMA RestoringAlone ==
    ASSUME LockInv, PlaceInv, UnusedInv, restoring # "no"
    PROVE  /\ listed = {} /\ saved = {} /\ pending = Nothing
           /\ stage \notin {"fresh", "applying"}
           /\ prep # "save"
  BY DEF LockInv, PlaceInv, UnusedInv

LEMMA RegisterStep ==
    ASSUME TypeOK, RestoreInv, NEW t \in Subagents, Register(t)
    PROVE  RestoreInv'
<1> DEFINE cp == todo[t]
<1>0. /\ LockInv /\ PlaceInv /\ AgeInv /\ UnusedInv /\ RestoredOnce
  BY DEF RestoreInv
<1>1. /\ restoring = "register" /\ cp # NoFile
      /\ todo' = [todo EXCEPT ![t] = NoFile]
      /\ unlink' \in {unlink, unlink \cup {t}}
      /\ recreated' \in {recreated, recreated \cup {<<t, cp.engine>>}}
      /\ twice' = IF <<t, cp.engine>> \in recreated THEN twice' ELSE twice
      /\ UNCHANGED <<restoring, lock, prep, stage, built, turn, listed, pending, disk, saved,
                     engine>>
  BY DEF Register, host, prepare, bounds
<1>2. /\ listed = {} /\ saved = {} /\ pending = Nothing
      /\ stage \notin {"fresh", "applying"} /\ prep # "save"
  BY <1>0, <1>1, RestoringAlone
<1>3. /\ todo \in Slots /\ todo # Nothing
  BY <1>1 DEF TypeOK, Nothing
<1>4. restartFile = NoFile
  BY <1>0, <1>3 DEF PlaceInv
<1>5. LockInv'
  BY <1>0, <1>1, <1>2 DEF LockInv
<1>6. PlaceInv'
  BY <1>0, <1>1, <1>2, <1>4 DEF PlaceInv, disk
<1>7. /\ \A u \in Subagents : todo'[u] = IF u = t THEN NoFile ELSE todo[u]
      /\ \A u \in Subagents : pending[u] = NoFile
  BY <1>1, <1>2, <1>3 DEF Slots, Nothing
<1>8. AgeInv'
  <2>1. \A r \in recreated' : r[2] < engine'
    BY <1>0, <1>1 DEF AgeInv
  <2> QED
    BY <1>0, <1>1, <1>7, <2>1 DEF AgeInv, disk
<1>9. UnusedInv'
  <2>1. ASSUME NEW u \in Subagents PROVE Unused(u, todo[u])'
    BY <1>0, <1>1, <1>7 DEF UnusedInv, Unused
  <2>2. ASSUME NEW u \in Subagents PROVE Unused(u, pending[u])'
    BY <1>1, <1>7 DEF Unused
  <2> QED
    BY <1>1, <1>2, <1>4, <2>1, <2>2 DEF UnusedInv, Held, disk
<1>10. RestoredOnce'
  BY <1>0, <1>1 DEF RestoredOnce, UnusedInv, Unused
<1> QED
  BY <1>5, <1>6, <1>8, <1>9, <1>10 DEF RestoreInv

LEMMA UnlinkStep ==
    ASSUME TypeOK, RestoreInv, NEW t \in Subagents, Unlink(t)
    PROVE  RestoreInv'
<1>0. /\ LockInv /\ PlaceInv /\ AgeInv /\ UnusedInv /\ RestoredOnce
  BY DEF RestoreInv
<1>1. /\ restoring = "unlink" /\ unlink # {}
      /\ unlink' \subseteq unlink
      /\ files' \in {files, [files EXCEPT ![t] = NoFile]}
      /\ UNCHANGED <<restoring, lock, prep, todo, stage, built, turn, listed, pending,
                     restartFile, recreated, twice, saved, engine>>
  BY DEF Unlink, host, prepare, ledger
<1>2. /\ listed = {} /\ saved = {} /\ pending = Nothing
      /\ stage \notin {"fresh", "applying"} /\ prep # "save"
  BY <1>0, <1>1, RestoringAlone
<1>3. restartFile = NoFile
  BY <1>0, <1>1 DEF PlaceInv
<1>4. LockInv' /\ PlaceInv' /\ RestoredOnce'
  BY <1>0, <1>1, <1>2, <1>3 DEF LockInv, PlaceInv, RestoredOnce
<1>5. \A u \in Subagents : files'[u] \in {files[u], NoFile}
  BY <1>1 DEF TypeOK, Slots
<1>6. AgeInv'
  BY <1>0, <1>1, <1>5 DEF AgeInv
<1>7. UnusedInv'
  BY <1>0, <1>1, <1>2, <1>3 DEF UnusedInv, Held, Unused
<1> QED
  BY <1>4, <1>6, <1>7 DEF RestoreInv

(* What is saved under the services lock: a state not re-created, at most  *)
(* as old as the engine.                                                   *)
LEMMA SavedStep ==
    ASSUME TypeOK, RestoreInv, NEW t \in Subagents, NEW cp, NEW more \in SUBSET {t},
           prep = "save",
           more # {} => cp # NoFile /\ Unused(t, cp) /\ cp.engine <= engine
                        /\ files' = [files EXCEPT ![t] = cp],
           more = {} => files' = files,
           saved' = saved \cup more,
           UNCHANGED <<restoring, lock, prep, todo, unlink, stage, built, turn, listed,
                       pending, restartFile, recreated, twice, engine>>
    PROVE  RestoreInv'
<1>0. /\ LockInv /\ PlaceInv /\ AgeInv /\ UnusedInv /\ RestoredOnce
  BY DEF RestoreInv
<1>1. stage = "ready"
  BY <1>0, PrepareIsLate
<1>2. LockInv' /\ PlaceInv' /\ RestoredOnce'
  BY <1>0 DEF LockInv, PlaceInv, RestoredOnce
<1>3. \A u \in Subagents :
          files'[u] = files[u] \/ (files'[u] = cp /\ u = t /\ more = {t})
  BY DEF TypeOK, Slots
<1>4. AgeInv'
  BY <1>0, <1>1, <1>3 DEF AgeInv
<1>5. ASSUME NEW ts \in SUBSET Subagents, Held(ts) PROVE Held(ts)'
  BY <1>3, <1>5 DEF Held, Unused
<1>6. Held(saved)'
  <2>1. saved \in SUBSET Subagents /\ Held(saved)
    BY <1>0 DEF TypeOK, UnusedInv
  <2>2. ASSUME NEW u \in saved' PROVE (files[u] # NoFile /\ Unused(u, files[u]))'
    <3>1. CASE u \in saved
      BY <1>3, <2>1, <3>1 DEF Held, Unused
    <3>2. CASE more = {t} /\ u = t
      <4>1. files'[u] = cp
        BY <3>2 DEF TypeOK, Slots
      <4> QED
        BY <3>2, <4>1 DEF Unused
    <3> QED
      BY <2>2, <3>1, <3>2
  <2> QED
    BY <2>2 DEF Held
<1>7. restartFile # NoFile => restartFile.tasks \in SUBSET Subagents
  BY DEF TypeOK
<1>8. listed \in SUBSET Subagents
  BY DEF TypeOK
<1>9. UnusedInv'
  <2>1. restartFile' # NoFile => Held(restartFile.tasks)'
    BY <1>0, <1>5, <1>7 DEF UnusedInv, Held
  <2>2. Held(listed)'
    BY <1>0, <1>5, <1>8 DEF UnusedInv, Held
  <2> QED
    BY <1>0, <1>6, <2>1, <2>2 DEF UnusedInv, Unused
<1> QED
  BY <1>2, <1>4, <1>9 DEF RestoreInv

LEMMA SaveStep ==
    ASSUME TypeOK, RestoreInv, NEW t \in Subagents, Save(t) \/ SaveDeferred(t)
    PROVE  RestoreInv'
<1>0. /\ AgeInv /\ UnusedInv
  BY DEF RestoreInv
<1>1. CASE Save(t)
  <2>1. Checkpoint(t) # NoFile
    BY CheckpointTyped, NoFileAssumption
  <2>2. Checkpoint(t).engine = engine
    BY DEF Checkpoint
  <2>3. Unused(t, Checkpoint(t)) /\ engine <= engine
    BY <1>0, <2>2 DEF AgeInv, Unused, TypeOK
  <2>4. CASE status[t] = "suspended"
    BY <1>1, <2>1, <2>2, <2>3, <2>4, SavedStep
       DEF Save, host, restore, ledger, bounds
  <2>5. CASE status[t] # "suspended"
    BY <1>1, <2>5, Untouched DEF Save, host, restore, ledger, bounds, disk
  <2> QED
    BY <2>4, <2>5
<1>2. CASE SaveDeferred(t)
  <2>1. /\ pending[t] # NoFile /\ Unused(t, pending[t]) /\ pending[t].engine < engine
    BY <1>0, <1>2 DEF SaveDeferred, AgeInv, UnusedInv
  <2>2. pending[t].engine \in Nat /\ engine \in Nat
    BY <2>1 DEF TypeOK, Slots, Checkpoints
  <2>3. pending[t].engine <= engine
    BY <2>1, <2>2
  <2> QED
    BY <1>2, <2>1, <2>3, SavedStep DEF SaveDeferred, host, restore, ledger, bounds
<1> QED
  BY <1>1, <1>2

LEMMA BuildStep ==
    ASSUME TypeOK, RestoreInv, BuildServices
    PROVE  RestoreInv'
<1>0. /\ LockInv /\ PlaceInv /\ AgeInv /\ UnusedInv /\ RestoredOnce
  BY DEF RestoreInv
<1>1. /\ built' = TRUE /\ lock = "free" /\ lock' = "restore" /\ restoring' = "register"
      /\ todo' = pending /\ pending' = Nothing
      /\ turn = "claimed" \/ stage = "building"
      /\ UNCHANGED <<prep, unlink, stage, turn, listed, disk, recreated, twice, saved, engine>>
  BY DEF BuildServices, prepare, ledger, bounds
<1>2. LockInv' /\ RestoredOnce'
  BY <1>0, <1>1 DEF LockInv, RestoredOnce
<1>3. PlaceInv'
  BY <1>0, <1>1 DEF PlaceInv, LockInv, disk
<1>4. \A t \in Subagents : pending'[t] = NoFile
  BY <1>1 DEF Nothing
<1>5. AgeInv'
  BY <1>0, <1>1, <1>4 DEF AgeInv, disk
<1>6. UnusedInv'
  BY <1>0, <1>1, <1>4 DEF UnusedInv, Held, Unused, disk
<1> QED
  BY <1>2, <1>3, <1>5, <1>6 DEF RestoreInv

LEMMA LaunchStep ==
    ASSUME TypeOK, RestoreInv, Launch \/ Restored
    PROVE  RestoreInv'
<1> USE DEF host, prepare, ledger, bounds, disk
<1>0. /\ LockInv /\ PlaceInv /\ AgeInv /\ UnusedInv /\ RestoredOnce
  BY DEF RestoreInv
<1>1. restoring # "no"
  BY DEF Launch, Restored
<1>2. stage \notin {"fresh", "applying"} /\ listed = {} /\ prep # "save"
  BY <1>0, <1>1, RestoringAlone
<1>3. UNCHANGED <<prep, todo, unlink, built, listed, pending, disk, recreated, twice, saved,
                  engine>>
  BY DEF Launch, Restored
<1>4. LockInv'
  BY <1>0, <1>2 DEF LockInv, Launch, Restored
<1>5. PlaceInv'
  BY <1>0, <1>2, <1>3 DEF PlaceInv, Launch, Restored
<1>6. stage' \notin {"fresh", "applying"}
  BY <1>2 DEF Launch, Restored
<1>7. AgeInv' /\ UnusedInv' /\ RestoredOnce'
  BY <1>0, <1>2, <1>3, <1>6 DEF AgeInv, UnusedInv, Held, Unused, RestoredOnce
<1> QED
  BY <1>4, <1>5, <1>7 DEF RestoreInv

LEMMA InitializeStep ==
    ASSUME TypeOK, RestoreInv, InitializePlainly \/ InitializeRestoring \/ Apply
    PROVE  RestoreInv'
<1> USE DEF restore, prepare, ledger, bounds, disk
<1>0. /\ LockInv /\ PlaceInv /\ AgeInv /\ UnusedInv /\ RestoredOnce
  BY DEF RestoreInv
<1>1. CASE InitializePlainly
  <2>1. stage = "fresh" /\ stage' = "ready"
    BY <1>1 DEF InitializePlainly
  <2>2. LockInv' /\ PlaceInv' /\ RestoredOnce'
    BY <1>0, <1>1 DEF InitializePlainly, LockInv, PlaceInv, RestoredOnce
  <2>3. AgeInv' /\ UnusedInv'
    BY <1>0, <1>1, <2>1 DEF InitializePlainly, AgeInv, UnusedInv, Held, Unused
  <2> QED
    BY <2>2, <2>3 DEF RestoreInv
<1>2. CASE InitializeRestoring
  <2>1. /\ stage = "fresh" /\ stage' = "applying"
        /\ restartFile # NoFile /\ restartFile' = NoFile /\ listed' = restartFile.tasks
        /\ UNCHANGED <<restoring, lock, prep, todo, unlink, built, turn, pending, files,
                       recreated, twice, saved, engine>>
    BY <1>2 DEF InitializeRestoring, Consumed
  <2>2. LockInv' /\ PlaceInv' /\ RestoredOnce'
    BY <1>0, <2>1 DEF LockInv, PlaceInv, RestoredOnce
  <2>3. AgeInv'
    BY <1>0, <2>1 DEF AgeInv
  <2>4. UnusedInv'
    BY <1>0, <2>1 DEF UnusedInv, Held, Unused
  <2> QED
    BY <2>2, <2>3, <2>4 DEF RestoreInv
<1>3. CASE Apply
  <2>1. /\ stage = "applying" /\ stage' \in {"building", "ready"} /\ listed' = {}
        /\ UNCHANGED <<restoring, lock, prep, todo, unlink, built, turn, restartFile, files,
                       recreated, twice, saved, engine>>
    BY <1>3 DEF Apply
  <2>2. \A t \in Subagents : pending'[t] # NoFile => t \in listed /\ pending'[t] = files[t]
    BY <1>3 DEF Apply
  <2>3. LockInv' /\ PlaceInv' /\ RestoredOnce'
    BY <1>0, <2>1 DEF LockInv, PlaceInv, RestoredOnce
  <2>4. AgeInv'
    <3>1. \A t \in Subagents : pending'[t] # NoFile => pending'[t].engine < engine
      BY <1>0, <2>1, <2>2 DEF AgeInv
    <3> QED
      BY <1>0, <2>1, <3>1 DEF AgeInv
  <2>5. UnusedInv'
    <3>1. \A t \in Subagents :
              pending'[t] # NoFile => <<t, pending'[t].engine>> \notin recreated
      BY <1>0, <2>2 DEF UnusedInv, Held, Unused
    <3> QED
      BY <1>0, <2>1, <3>1 DEF UnusedInv, Held, Unused
  <2> QED
    BY <2>3, <2>4, <2>5 DEF RestoreInv
<1> QED
  BY <1>1, <1>2, <1>3

LEMMA PrepareStepKeeps ==
    ASSUME TypeOK, RestoreInv, PrepareStep
    PROVE  RestoreInv'
<1> USE DEF tasks, host, restore, ledger, bounds, disk, Prepares
<1>0. /\ LockInv /\ PlaceInv /\ AgeInv /\ UnusedInv /\ RestoredOnce
  BY DEF RestoreInv
<1>1. CASE BeginDraining
  BY <1>1, PrepareMoves DEF BeginDraining
<1>2. CASE Capture
  BY <1>0, <1>2, PrepareIsLate, PrepareMoves DEF Capture
<1>3. CASE SuspendAll
  BY <1>0, <1>3, PrepareIsLate, PrepareMoves DEF SuspendAll
<1>4. CASE Drained
  BY <1>0, <1>4, PrepareIsLate, PrepareMoves DEF Drained
<1>5. CASE Interrupt
  BY <1>0, <1>5, PrepareIsLate, PrepareMoves DEF Interrupt, StopAndRecord
<1>6. CASE Release
  BY <1>0, <1>6, PrepareIsLate, PrepareMoves DEF Release
<1>7. CASE Settle
  BY <1>0, <1>7, PrepareIsLate, PrepareMoves DEF Settle, StopAndRecord
<1>8. CASE LockServices
  <2>1. /\ prep = "lock" /\ prep' = "save" /\ lock = "free" /\ lock' = "prepare" /\ saved' = {}
        /\ UNCHANGED <<restoring, todo, unlink, stage, built, turn, listed, pending, disk,
                       recreated, twice, engine>>
    BY <1>8 DEF LockServices
  <2>2. stage = "ready"
    BY <1>0, <2>1, PrepareIsLate
  <2>3. LockInv' /\ PlaceInv' /\ AgeInv' /\ RestoredOnce'
    BY <1>0, <2>1, <2>2 DEF LockInv, PlaceInv, AgeInv, RestoredOnce
  <2>4. UnusedInv'
    BY <1>0, <2>1 DEF UnusedInv, Held, Unused
  <2> QED
    BY <2>3, <2>4 DEF RestoreInv
<1>9. CASE WriteRestartFile
  <2>1. /\ prep = "save" /\ prep' = "done" /\ lock' = "free"
        /\ restartFile'.tasks = saved /\ pending' = Nothing /\ saved' = {}
        /\ UNCHANGED <<restoring, todo, unlink, stage, built, turn, listed, files,
                       recreated, twice, engine>>
    BY <1>9 DEF WriteRestartFile, PendingAfterWrite
  <2>2. stage = "ready"
    BY <1>0, <2>1, PrepareIsLate
  <2>3. lock = "prepare" /\ restoring = "no" /\ todo = Nothing /\ unlink = {}
    BY <1>0, <2>1 DEF LockInv
  <2>4. LockInv' /\ PlaceInv' /\ RestoredOnce'
    BY <1>0, <2>1, <2>2, <2>3 DEF LockInv, PlaceInv, RestoredOnce
  <2>5. \A t \in Subagents : pending'[t] = NoFile
    BY <2>1 DEF Nothing
  <2>6. AgeInv'
    BY <1>0, <2>1, <2>5 DEF AgeInv
  <2>7. UnusedInv'
    BY <1>0, <2>1, <2>5 DEF UnusedInv, Held, Unused
  <2> QED
    BY <2>4, <2>6, <2>7 DEF RestoreInv
<1>10. CASE PrepareFails
  <2>1. /\ prep # "idle" /\ prep' = "idle" /\ saved' = {}
        /\ lock' = IF prep = "save" THEN "free" ELSE lock
        /\ UNCHANGED <<restoring, todo, unlink, stage, built, turn, listed, pending, disk,
                       recreated, twice, engine>>
    BY <1>10 DEF PrepareFails
  <2>2. stage = "ready"
    BY <1>0, <2>1, PrepareIsLate
  <2>3. LockInv' /\ PlaceInv' /\ AgeInv' /\ RestoredOnce'
    BY <1>0, <2>1, <2>2 DEF LockInv, PlaceInv, AgeInv, RestoredOnce
  <2>4. UnusedInv'
    BY <1>0, <2>1 DEF UnusedInv, Held, Unused
  <2> QED
    BY <2>3, <2>4 DEF RestoreInv
<1>11. CASE PauseLaunches
  BY <1>0, <1>11, PrepareIsLate, PrepareMoves DEF PauseLaunches
<1> QED
  BY <1>1, <1>2, <1>3, <1>4, <1>5, <1>6, <1>7, <1>8, <1>9, <1>10, <1>11 DEF PrepareStep

(* What the last engine saved is older than the next one. *)
LEMMA NextEngineStep ==
    ASSUME TypeOK, RestoreInv, NextEngine
    PROVE  RestoreInv'
<1>0. /\ LockInv /\ PlaceInv /\ AgeInv /\ UnusedInv /\ RestoredOnce
  BY DEF RestoreInv
<1>1. /\ engine' = engine + 1 /\ engine \in Nat
      /\ UNCHANGED <<files, restartFile, recreated, twice>>
  BY DEF NextEngine, disk, TypeOK
<1>2. /\ stage' = "fresh" /\ turn' = "none" /\ built' = FALSE /\ lock' = "free"
      /\ pending' = Nothing /\ listed' = {} /\ restoring' = "no" /\ todo' = Nothing
      /\ unlink' = {} /\ prep' = "idle" /\ saved' = {}
  BY DEF NextEngine
<1>3. LockInv' /\ PlaceInv' /\ RestoredOnce'
  BY <1>0, <1>1, <1>2 DEF LockInv, PlaceInv, RestoredOnce
<1>4. \A t \in Subagents : pending'[t] = NoFile /\ todo'[t] = NoFile
  BY <1>2 DEF Nothing
<1>5. AgeInv'
  <2>1. \A r \in recreated' : r[2] < engine'
    BY <1>0, <1>1 DEF AgeInv, TypeOK
  <2>2. ASSUME NEW t \in Subagents, files'[t] # NoFile PROVE files'[t].engine < engine'
    <3>1. files[t] \in Checkpoints /\ files[t].engine <= engine
      BY <1>0, <1>1, <2>2 DEF AgeInv, TypeOK, Slots
    <3>2. files[t].engine \in Nat
      BY <3>1 DEF Checkpoints
    <3> QED
      BY <1>1, <3>1, <3>2
  <2>3. ASSUME NEW t \in Subagents, files'[t] # NoFile PROVE files'[t].engine <= engine'
    <3>1. files[t] \in Checkpoints /\ files[t].engine <= engine
      BY <1>0, <1>1, <2>3 DEF AgeInv, TypeOK, Slots
    <3>2. files[t].engine \in Nat
      BY <3>1 DEF Checkpoints
    <3> QED
      BY <1>1, <3>1, <3>2
  <2> QED
    BY <1>4, <2>1, <2>2, <2>3 DEF AgeInv
<1>6. UnusedInv'
  BY <1>0, <1>1, <1>2, <1>4 DEF UnusedInv, Held, Unused
<1> QED
  BY <1>3, <1>5, <1>6 DEF RestoreInv

LEMMA RestoreStep == TypeOK /\ RestoreInv /\ [Next]_vars => RestoreInv'
<1> SUFFICES ASSUME TypeOK, RestoreInv, [Next]_vars PROVE RestoreInv'
  OBVIOUS
<1> USE DEF tasks, host, restore, prepare, disk, ledger, bounds
<1>1. ASSUME NEW t \in Tasks, TaskStep(t) PROVE RestoreInv'
  BY <1>1, Untouched DEF TaskStep, Start, Abort, End, Report, StopTask, Command
<1>2. ASSUME NEW t \in Subagents, SubagentStep(t) PROVE RestoreInv'
  <2>1. CASE SafePoint(t) \/ Continue(t) \/ Deliver(t) \/ Park(t) \/ Finish(t)
    BY <2>1, Untouched DEF SafePoint, Continue, Deliver, Park, Finish, End
  <2>2. CASE Suspend(t) \/ Resume(t)
    BY <2>2, Untouched DEF Suspend, Resume, Command
  <2> QED
    BY <1>2, <2>1, <2>2, RegisterStep, UnlinkStep, SaveStep DEF SubagentStep
<1>3. CASE HostStep
  <2>1. CASE ClaimTurn \/ UseServices \/ EndTurn
    BY <2>1, TurnMoves DEF ClaimTurn, UseServices, EndTurn
  <2> QED
    BY <1>3, <2>1, BuildStep, LaunchStep, InitializeStep DEF HostStep
<1>4. CASE UNCHANGED vars
  BY <1>4, Untouched DEF vars
<1> QED
  BY <1>1, <1>2, <1>3, <1>4, PrepareStepKeeps, NextEngineStep DEF Next

LEMMA InitHolds == Init => TypeOK /\ RestoreInv
<1> SUFFICES ASSUME Init PROVE TypeOK /\ RestoreInv
  OBVIOUS
<1>1. TypeOK
  <2>1. pending \in Slots /\ todo \in Slots /\ files \in Slots
    BY NothingTyped DEF Init
  <2> QED
    BY <2>1 DEF Init, TypeOK
<1>2. LockInv /\ PlaceInv /\ RestoredOnce
  BY DEF Init, LockInv, PlaceInv, RestoredOnce
<1>3. AgeInv /\ UnusedInv
  BY DEF Init, AgeInv, UnusedInv, Held, Unused, Nothing
<1> QED
  BY <1>1, <1>2, <1>3 DEF RestoreInv

LEMMA RestoreInvariant == Spec => [](TypeOK /\ RestoreInv)
<1>1. TypeOK /\ RestoreInv /\ [Next]_vars => (TypeOK /\ RestoreInv)'
  BY TypeStep, RestoreStep
<1> QED
  BY <1>1, InitHolds, PTL DEF Spec

(* The variables of the engine and of the disk stay within their ranges,   *)
(* whatever fails and however often the engine is replaced.                *)
THEOREM TypeCorrect == Spec => []TypeOK
  BY RestoreInvariant, PTL

(* A restart file never lists a subagent whose checkpoint is not there:    *)
(* prepare_restart writes it last, and restore_subagents removes only      *)
(* checkpoints that no file lists.                                         *)
THEOREM FilesComplete == Spec => []FileIsComplete
<1>1. RestoreInv => FileIsComplete
  BY DEF RestoreInv, UnusedInv, Held, FileIsComplete
<1> QED
  BY <1>1, RestoreInvariant, PTL

(* No saved state of a subagent is re-created twice: initialize deletes    *)
(* the restart file before it applies it, and what is carried over to a    *)
(* new file is no longer pending.                                          *)
THEOREM RestoresOnce == Spec => []RestoredOnce
<1>1. RestoreInv => RestoredOnce
  BY DEF RestoreInv
<1> QED
  BY <1>1, RestoreInvariant, PTL

-----------------------------------------------------------------------------
(* The operator's suspensions.  Until the first capture a request a task   *)
(* carries is the operator's; from then on the capture says whose it was,  *)
(* and a checkpoint says the same wherever it is.                          *)

(* How far prepare_restart came, in this call or in an earlier one. *)
CaptureInv ==
    /\ prep # "idle" \/ captured \/ suspendNew => draining
    /\ prep \in {"suspend", "drain", "release", "settle", "lock", "save"} => captured
    /\ prep \in {"drain", "release", "settle", "lock", "save", "done"} => suspendNew
    /\ suspendNew => captured \/ prep = "done"

WishOf(t) ==
    /\ status[t] = "absent" => t \notin flagged /\ t \notin wish /\ t \notin operatorSuspended
    /\ Live(t) /\ t \notin late /\ ~captured /\ ~suspendNew => (t \in flagged <=> t \in wish)
    /\ Live(t) /\ t \notin late /\ captured => (t \in operatorSuspended <=> t \in wish)

Keeps(cp) == cp # NoFile => cp.late \/ (cp.explicit <=> cp.wish)

KeptInv == \A t \in Subagents : Keeps(files[t]) /\ Keeps(pending[t]) /\ Keeps(todo[t])

SuspensionInv == CaptureInv /\ KeptInv /\ \A t \in Subagents : WishOf(t)

LEMMA WishesGo ==
    ASSUME SuspensionInv,
           \A t \in Subagents : status'[t] = status[t] \/ (Live(t) /\ status'[t] # "absent"),
           UNCHANGED <<flagged, wish, operatorSuspended, late, captured, suspendNew, prep,
                       draining, files, pending, todo>>
    PROVE  SuspensionInv'
  BY DEF SuspensionInv, CaptureInv, KeptInv, Keeps, WishOf, Live

LEMMA SuspensionTaskStep ==
    ASSUME TypeOK, SuspensionInv, NEW t \in Tasks, TaskStep(t)
    PROVE  SuspensionInv'
<1> USE DEF tasks, host, restore, prepare, disk, ledger, bounds
<1>1. CASE Start(t)
  <2>1. /\ status[t] = "absent" /\ status' = [status EXCEPT ![t] = "running"]
        /\ flagged' = IF suspendNew THEN flagged \cup ({t} \cap Subagents) ELSE flagged
        /\ wish' = wish \ {t}
        /\ UNCHANGED <<operatorSuspended, late, captured, suspendNew, prep, draining, files,
                       pending, todo>>
    BY <1>1 DEF Start
  <2>2. CaptureInv' /\ KeptInv'
    BY <2>1 DEF SuspensionInv, CaptureInv, KeptInv, Keeps
  <2>3. ASSUME NEW u \in Subagents PROVE WishOf(u)'
    <3>1. status'[u] = IF u = t THEN "running" ELSE status[u]
      BY <2>1 DEF TypeOK, Tasks
    <3> QED
      BY <2>1, <3>1 DEF SuspensionInv, WishOf, Live
  <2> QED
    BY <2>2, <2>3 DEF SuspensionInv
<1>2. CASE Abort(t)
  <2>1. Live(t) /\ status' = [status EXCEPT ![t] = "ended"]
    BY <1>2 DEF Abort, Runs, End, Live
  <2>2. \A u \in Subagents : status'[u] = status[u] \/ (Live(u) /\ status'[u] # "absent")
    BY <2>1 DEF TypeOK, Tasks
  <2> QED
    BY <1>2, <2>2, WishesGo DEF Abort, End
<1>3. CASE Report(t)
  BY <1>3, WishesGo DEF Report
<1>4. CASE StopTask(t)
  BY <1>4, WishesGo DEF StopTask, Command
<1> QED
  BY <1>1, <1>2, <1>3, <1>4 DEF TaskStep

LEMMA SuspensionRunStep ==
    ASSUME TypeOK, SuspensionInv, NEW t \in Subagents,
           SafePoint(t) \/ Continue(t) \/ Deliver(t) \/ Park(t) \/ Finish(t)
             \/ Suspend(t) \/ Resume(t)
    PROVE  SuspensionInv'
<1> USE DEF tasks, host, restore, prepare, disk, ledger, bounds
<1>1. CASE SafePoint(t) \/ Continue(t) \/ Finish(t)
  <2>1. /\ Live(t)
        /\ \E s \in {"suspended", "running", "finished"} : status' = [status EXCEPT ![t] = s]
    BY <1>1 DEF SafePoint, Continue, Finish, Runs, End, Live
  <2>2. \A u \in Subagents : status'[u] = status[u] \/ (Live(u) /\ status'[u] # "absent")
    BY <2>1 DEF TypeOK, Tasks
  <2> QED
    BY <1>1, <2>2, WishesGo DEF SafePoint, Continue, Finish, End
<1>2. CASE Deliver(t) \/ Park(t)
  BY <1>2, WishesGo DEF Deliver, Park
<1>3. CASE Suspend(t)
  BY <1>3 DEF Suspend, Command, SuspensionInv, CaptureInv, KeptInv, Keeps, WishOf, Live
<1>4. CASE Resume(t)
  BY <1>4 DEF Resume, Command, SuspensionInv, CaptureInv, KeptInv, Keeps, WishOf, Live
<1> QED
  BY <1>1, <1>2, <1>3, <1>4

LEMMA SuspensionRegisterStep ==
    ASSUME TypeOK, SuspensionInv, NEW t \in Subagents, Register(t)
    PROVE  SuspensionInv'
<1> USE DEF host, restore, prepare, disk, bounds
<1> DEFINE cp == todo[t]
<1>1. /\ cp # NoFile /\ todo' = [todo EXCEPT ![t] = NoFile]
      /\ UNCHANGED <<operatorSuspended, captured, suspendNew, prep, draining, files, pending,
                     keep>>
  BY DEF Register
<1>2. CaptureInv' /\ KeptInv'
  BY <1>1 DEF SuspensionInv, CaptureInv, KeptInv, Keeps, TypeOK, Slots
<1>3. CASE UNCHANGED <<status, flagged, wish, late>>
  BY <1>1, <1>2, <1>3 DEF SuspensionInv, WishOf, Live
<1>4. CASE /\ status[t] = "absent" /\ status' = [status EXCEPT ![t] = "running"]
           /\ flagged' = IF keep \/ cp.explicit \/ suspendNew THEN flagged \cup {t}
                                                             ELSE flagged
           /\ wish' = IF keep \/ cp.wish THEN wish \cup {t} ELSE wish \ {t}
           /\ late' = IF captured \/ suspendNew \/ cp.late THEN late \cup {t} ELSE late
  <2>1. ASSUME NEW u \in Subagents PROVE WishOf(u)'
    <3>1. status'[u] = IF u = t THEN "running" ELSE status[u]
      BY <1>4 DEF TypeOK, Tasks
    <3>2. CASE u # t
      BY <1>1, <1>4, <3>1, <3>2 DEF SuspensionInv, WishOf, Live
    <3>3. CASE u = t
      <4>1. t \notin late' => ~captured /\ ~suspendNew /\ ~cp.late
        BY <1>4
      <4>2. t \notin late' => (cp.explicit <=> cp.wish)
        BY <1>1, <4>1 DEF SuspensionInv, KeptInv, Keeps
      <4>3. t \notin flagged /\ t \notin wish
        BY <1>4 DEF SuspensionInv, WishOf
      <4> QED
        BY <1>1, <1>4, <3>1, <3>3, <4>1, <4>2, <4>3 DEF WishOf, Live
    <3> QED
      BY <3>2, <3>3
  <2> QED
    BY <1>2, <2>1 DEF SuspensionInv
<1> QED
  BY <1>3, <1>4 DEF Register

LEMMA SuspensionFileStep ==
    ASSUME TypeOK, SuspensionInv, NEW t \in Subagents,
           Unlink(t) \/ Save(t) \/ SaveDeferred(t)
    PROVE  SuspensionInv'
<1> USE DEF tasks, host, restore, prepare, ledger, bounds
<1>1. /\ UNCHANGED <<status, flagged, wish, operatorSuspended, late, captured, suspendNew,
                     prep, draining, pending, todo>>
  BY DEF Unlink, Save, SaveDeferred
<1>2. CaptureInv' /\ \A u \in Subagents : WishOf(u)'
  BY <1>1 DEF SuspensionInv, CaptureInv, WishOf, Live
<1>3. \E cp : Keeps(cp) /\ files' \in {files, [files EXCEPT ![t] = cp]}
  <2>1. CASE Unlink(t)
    BY <2>1 DEF Unlink, Keeps
  <2>2. CASE Save(t)
    <3>1. CASE status[t] = "suspended"
      <4>1. t \notin late => (t \in operatorSuspended <=> t \in wish)
        BY <2>2, <3>1 DEF Save, SuspensionInv, CaptureInv, WishOf, Live
      <4>2. Keeps(Checkpoint(t))
        BY <4>1 DEF Keeps, Checkpoint
      <4> QED
        BY <2>2, <3>1, <4>2 DEF Save
    <3>2. CASE status[t] # "suspended"
      BY <2>2, <3>2 DEF Save, Keeps
    <3> QED
      BY <3>1, <3>2
  <2>3. CASE SaveDeferred(t)
    BY <2>3 DEF SaveDeferred, SuspensionInv, KeptInv
  <2> QED
    BY <2>1, <2>2, <2>3
<1>4. KeptInv'
  BY <1>1, <1>3 DEF SuspensionInv, KeptInv, Keeps, TypeOK, Slots
<1> QED
  BY <1>2, <1>4 DEF SuspensionInv

LEMMA SuspensionHostStep ==
    ASSUME TypeOK, SuspensionInv, HostStep
    PROVE  SuspensionInv'
<1> USE DEF tasks, restore, prepare, disk, ledger, bounds
<1>1. CASE ClaimTurn \/ UseServices \/ EndTurn \/ InitializePlainly \/ Launch \/ Restored
  BY <1>1, WishesGo DEF ClaimTurn, UseServices, EndTurn, InitializePlainly, Launch, Restored,
                        host
<1>2. CASE InitializeRestoring
  BY <1>2, WishesGo DEF InitializeRestoring
<1>3. CASE BuildServices \/ Apply
  <2>1. UNCHANGED <<status, flagged, wish, operatorSuspended, late, captured, suspendNew,
                    prep, draining, files>>
    BY <1>3 DEF BuildServices, Apply
  <2>2. CaptureInv' /\ \A u \in Subagents : WishOf(u)'
    BY <2>1 DEF SuspensionInv, CaptureInv, WishOf, Live
  <2>3. \A u \in Subagents : Keeps(pending'[u]) /\ Keeps(todo'[u])
    BY <1>3 DEF BuildServices, Apply, SuspensionInv, KeptInv, Keeps, Nothing
  <2> QED
    BY <2>1, <2>2, <2>3 DEF SuspensionInv, KeptInv, Keeps
<1> QED
  BY <1>1, <1>2, <1>3 DEF HostStep

LEMMA SuspensionPrepareStep ==
    ASSUME TypeOK, SuspensionInv, PrepareStep
    PROVE  SuspensionInv'
<1> USE DEF tasks, host, restore, disk, ledger, bounds, Prepares
<1>1. UNCHANGED <<status, wish, late, files, todo>>
  BY DEF PrepareStep, BeginDraining, PauseLaunches, Capture, SuspendAll, Drained, Interrupt,
         Release, Settle, LockServices, WriteRestartFile, PrepareFails, StopAndRecord
<1>2. KeptInv'
  <2>1. pending' = pending \/ pending' = Nothing
    BY DEF PrepareStep, BeginDraining, PauseLaunches, Capture, SuspendAll, Drained, Interrupt,
           Release, Settle, LockServices, WriteRestartFile, PrepareFails, StopAndRecord,
           PendingAfterWrite
  <2> QED
    BY <1>1, <2>1 DEF SuspensionInv, KeptInv, Keeps, Nothing
<1>3. CASE \/ BeginDraining \/ PauseLaunches \/ Drained \/ Interrupt \/ Release \/ Settle
           \/ LockServices
  <2>1. /\ CaptureInv'
        /\ UNCHANGED <<flagged, operatorSuspended, captured, suspendNew>>
    BY <1>3 DEF BeginDraining, PauseLaunches, Drained, Interrupt, Release, Settle, LockServices,
                StopAndRecord, SuspensionInv, CaptureInv
  <2> QED
    BY <1>1, <1>2, <2>1 DEF SuspensionInv, WishOf, Live
<1>4. CASE Capture
  <2>1. CaptureInv'
    BY <1>4 DEF Capture, SuspensionInv, CaptureInv
  <2>2. ~captured => ~suspendNew
    BY <1>4 DEF Capture, SuspensionInv, CaptureInv
  <2>3. ASSUME NEW u \in Subagents PROVE WishOf(u)'
    BY <1>1, <1>4, <2>2 DEF Capture, FirstCapture, FlaggedNow, SuspensionInv, WishOf, Live
  <2> QED
    BY <1>2, <2>1, <2>3 DEF SuspensionInv
<1>5. CASE SuspendAll
  <2>1. CaptureInv'
    BY <1>5 DEF SuspendAll, SuspensionInv, CaptureInv
  <2>2. ASSUME NEW u \in Subagents PROVE WishOf(u)'
    BY <1>1, <1>5 DEF SuspendAll, SuspensionInv, CaptureInv, WishOf, Live, LiveTasks
  <2> QED
    BY <1>2, <2>1, <2>2 DEF SuspensionInv
<1>6. CASE WriteRestartFile
  <2>1. CaptureInv' /\ suspendNew'
    BY <1>6 DEF WriteRestartFile, SuspensionInv, CaptureInv
  <2>2. ASSUME NEW u \in Subagents PROVE WishOf(u)'
    BY <1>1, <1>6, <2>1 DEF WriteRestartFile, SuspensionInv, WishOf, Live
  <2> QED
    BY <1>2, <2>1, <2>2 DEF SuspensionInv
<1>7. CASE PrepareFails
  <2>1. CaptureInv' /\ UNCHANGED <<flagged, operatorSuspended, captured, suspendNew>>
    BY <1>7 DEF PrepareFails, SuspensionInv, CaptureInv, TypeOK
  <2> QED
    BY <1>1, <1>2, <2>1 DEF SuspensionInv, WishOf, Live
<1> QED
  BY <1>3, <1>4, <1>5, <1>6, <1>7 DEF PrepareStep

LEMMA SuspensionStep == TypeOK /\ SuspensionInv /\ [Next]_vars => SuspensionInv'
<1> SUFFICES ASSUME TypeOK, SuspensionInv, [Next]_vars PROVE SuspensionInv'
  OBVIOUS
<1>1. CASE NextEngine
  <2>1. /\ CaptureInv'
        /\ \A t \in Subagents : status'[t] = "absent"
        /\ flagged' = {} /\ wish' = {} /\ operatorSuspended' = {}
    BY <1>1 DEF NextEngine, CaptureInv, Tasks
  <2>2. KeptInv'
    BY <1>1 DEF NextEngine, SuspensionInv, KeptInv, Keeps, Nothing, disk
  <2> QED
    BY <2>1, <2>2 DEF SuspensionInv, WishOf, Live
<1>2. CASE UNCHANGED vars
  BY <1>2, WishesGo DEF vars, tasks, host, restore, prepare, disk, ledger, bounds
<1> QED
  BY <1>1, <1>2, SuspensionTaskStep, SuspensionRunStep, SuspensionRegisterStep,
     SuspensionFileStep, SuspensionHostStep, SuspensionPrepareStep DEF Next, SubagentStep

LEMMA SuspensionInvariant == Spec => []SuspensionInv
<1>1. Init => SuspensionInv
  BY DEF Init, SuspensionInv, CaptureInv, KeptInv, Keeps, WishOf, Live, Nothing, Tasks
<1> QED
  BY <1>1, SuspensionStep, TypeCorrect, PTL DEF Spec

(* The operator's suspension survives: a saved subagent is marked to stay  *)
(* suspended exactly when the operator had suspended it, however often the *)
(* drain is repeated and engines are replaced, unless it was re-created    *)
(* only after an engine's drain had captured the operator's suspensions.   *)
THEOREM SuspensionKept == Spec => []OperatorSuspensionKept
<1>1. TypeOK /\ FileIsComplete /\ SuspensionInv => OperatorSuspensionKept
  BY DEF SuspensionInv, KeptInv, Keeps, OperatorSuspensionKept, FileIsComplete, TypeOK
<1> QED
  BY <1>1, SuspensionInvariant, TypeCorrect, FilesComplete, PTL

-----------------------------------------------------------------------------
(* What an owner hears.  A settled task has been sent to a live owner,     *)
(* what was sent is in the inbox or told, in the engine and in every       *)
(* checkpoint; while subagents are registered nothing runs, so that no     *)
(* owner finishes before its child is back; and a task that an owner had   *)
(* when it was saved comes back with it, or its report did, or it is lost. *)

QuietInv ==
    /\ ~built \/ restoring = "register" => turn # "working"
    /\ ~built => \A t \in Tasks : status[t] = "absent"
    /\ restoring = "register" =>
          \A t \in Tasks : status[t] = "absent" \/ (status[t] = "running" /\ t \in held)

Consistent(t, cp) ==
    cp # NoFile =>
        /\ cp.sent \subseteq cp.inbox \cup cp.told
        /\ cp.sent \subseteq Children(t)
        /\ cp.had \subseteq Children(t)

CarriedInv ==
    \A t \in Subagents :
        Consistent(t, files[t]) /\ Consistent(t, pending[t]) /\ Consistent(t, todo[t])

SentInv ==
    /\ sent \subseteq inbox \cup told
    /\ \A t \in settled : Over(t)
    /\ \A t \in Tasks :
          Owner[t] # Main =>
              /\ status[t] # "absent" => status[Owner[t]] # "absent"
              /\ t \in settled /\ Live(Owner[t]) => t \in sent

(* Its owner is back, and it is about to be.                               *)
Awaited(t) == restoring = "register" /\ Returns(t) /\ status[Owner[t]] # "absent"

(* A task that an owner ever had is here or about to be, unless its report *)
(* was sent or it is lost.                                                 *)
HadInv ==
    \A t \in Tasks :
        Owner[t] # Main =>
            /\ status[t] # "absent" => t \in had
            /\ t \in had \ (sent \cup lost) => status[t] # "absent" \/ Awaited(t)

HearInv == QuietInv /\ CarriedInv /\ SentInv /\ HadInv /\ OwnerHears

LEMMA OwnersTyped ==
    ASSUME NEW t \in Tasks, Owner[t] # Main
    PROVE  Owner[t] \in Subagents /\ Owner[t] \in Tasks /\ t \in Children(Owner[t])
  BY DEF Tasks, Children

(* A live task goes on, or is aborted. *)
LEMMA HearingGoes ==
    ASSUME TypeOK, SentInv, OwnerHears,
           \A t \in Tasks : \/ status'[t] = status[t]
                            \/ Live(t) /\ status'[t] \in {"running", "suspended", "ended"},
           UNCHANGED <<settled, inbox, told, sent, had, lost>>
    PROVE  SentInv' /\ OwnerHears' /\ (HadInv /\ UNCHANGED <<todo, restoring>> => HadInv')
<1>1. \A t \in Tasks : /\ Live(t)' => Live(t)
                       /\ Over(t) => Over(t)'
                       /\ status'[t] # "absent" <=> status[t] # "absent"
                       /\ status'[t] = "finished" => status[t] = "finished"
  BY DEF Live, Over
<1>2. SentInv'
  BY <1>1, OwnersTyped DEF SentInv, TypeOK
<1>3. OwnerHears'
  BY <1>1 DEF OwnerHears, Children, Tasks
<1>4. HadInv /\ UNCHANGED <<todo, restoring>> => HadInv'
  BY <1>1, OwnersTyped DEF HadInv, Awaited, Returns
<1> QED
  BY <1>2, <1>3, <1>4

LEMMA HearingTaskStep ==
    ASSUME TypeOK, HearInv, NEW t \in Tasks, TaskStep(t)
    PROVE  HearInv'
<1> USE DEF tasks, host, restore, prepare, disk, ledger, bounds
<1>0. QuietInv /\ CarriedInv /\ SentInv /\ HadInv /\ OwnerHears
  BY DEF HearInv
<1>1. UNCHANGED <<built, restoring, turn, held, files, pending, todo, told, lost>>
  BY DEF TaskStep, Start, Abort, End, Report, StopTask, Command
<1>2. CarriedInv'
  BY <1>0, <1>1 DEF CarriedInv, Consistent
<1>3. CASE Start(t)
  <2>1. /\ status[t] = "absent" /\ status' = [status EXCEPT ![t] = "running"]
        /\ IF Owner[t] = Main THEN turn = "working" ELSE Runs(Owner[t])
        /\ had' = had \cup {t}
        /\ UNCHANGED <<settled, inbox, told, sent>>
    BY <1>3 DEF Start
  <2>2. \A u \in Tasks : status'[u] = IF u = t THEN "running" ELSE status[u]
    BY <2>1 DEF TypeOK
  <2>3. built /\ restoring # "register"
    BY <1>0, <2>1, OwnersTyped DEF QuietInv, Runs
  <2>4. QuietInv'
    BY <1>1, <2>3 DEF QuietInv
  <2>5. t \notin settled /\ \A u \in Tasks : Owner[u] = t => u \notin settled
    BY <1>0, <2>1, OwnersTyped DEF SentInv, Over, TypeOK, Tasks
  <2>6. SentInv'
    <3>1. \A u \in settled' : Over(u)'
      BY <1>0, <2>1, <2>2, <2>5 DEF SentInv, Over, TypeOK
    <3>2. ASSUME NEW u \in Tasks, Owner[u] # Main
          PROVE  /\ status'[u] # "absent" => status'[Owner[u]] # "absent"
                 /\ u \in settled' /\ Live(Owner[u])' => u \in sent'
      BY <1>0, <2>1, <2>2, <2>5, <3>2, OwnersTyped DEF SentInv, Live, Runs
    <3> QED
      BY <1>0, <2>1, <3>1, <3>2 DEF SentInv
  <2>7. OwnerHears'
    <3>1. ASSUME NEW o \in Subagents, status'[o] = "finished",
                 NEW u \in Children(o), u \in had'
          PROVE  u \in told' \cup lost'
      <4>1. o \in Tasks /\ u \in Tasks /\ Owner[u] = o /\ o # Main
        BY DEF Tasks, Children
      <4>2. status[o] = "finished" /\ u # t
        BY <2>1, <2>2, <3>1, <4>1 DEF Runs
      <4> QED
        BY <1>0, <1>1, <2>1, <3>1, <4>2 DEF OwnerHears
    <3> QED
      BY <3>1 DEF OwnerHears
  <2>8. HadInv'
    BY <1>0, <1>1, <2>1, <2>2, OwnersTyped DEF HadInv, Awaited, Returns
  <2> QED
    BY <1>2, <2>4, <2>6, <2>7, <2>8 DEF HearInv
<1>4. CASE Abort(t)
  <2>1. Live(t) /\ status' = [status EXCEPT ![t] = "ended"]
    BY <1>4 DEF Abort, Runs, End, Live
  <2>2. \A u \in Tasks : \/ status'[u] = status[u]
                         \/ Live(u) /\ status'[u] \in {"running", "suspended", "ended"}
    BY <2>1 DEF TypeOK
  <2>3. SentInv' /\ OwnerHears' /\ HadInv'
    BY <1>0, <1>1, <1>4, <2>2, HearingGoes DEF Abort, End
  <2>4. built /\ restoring # "register"
    BY <1>0, <1>4, <2>1 DEF QuietInv, Live, Abort, Runs
  <2>5. QuietInv'
    BY <1>1, <2>4 DEF QuietInv
  <2> QED
    BY <1>2, <2>3, <2>5 DEF HearInv
<1>5. CASE Report(t)
  <2>1. /\ Over(t) /\ Owner[t] # Main /\ settled' = settled \cup {t}
        /\ \/ Live(Owner[t]) /\ inbox' = inbox \cup {t} /\ sent' = sent \cup {t}
           \/ ~Live(Owner[t]) /\ inbox' = inbox /\ sent' = sent
        /\ UNCHANGED <<status, told, had>>
    BY <1>5 DEF Report
  <2>2. QuietInv'
    BY <1>0, <1>1, <2>1 DEF QuietInv
  <2>3. SentInv'
    BY <1>0, <2>1 DEF SentInv, Over, Live
  <2>4. OwnerHears'
    BY <1>0, <1>1, <2>1 DEF OwnerHears
  <2>5. HadInv'
    BY <1>0, <1>1, <2>1 DEF HadInv, Awaited, Returns
  <2> QED
    BY <1>2, <2>2, <2>3, <2>4, <2>5 DEF HearInv
<1>6. CASE StopTask(t)
  <2>1. UNCHANGED <<status, settled, inbox, told, sent, had, lost>>
    BY <1>6 DEF StopTask, Command
  <2>2. SentInv' /\ OwnerHears' /\ HadInv'
    BY <1>0, <1>1, <2>1, HearingGoes
  <2> QED
    BY <1>0, <1>1, <1>2, <2>1, <2>2 DEF HearInv, QuietInv
<1> QED
  BY <1>3, <1>4, <1>5, <1>6 DEF TaskStep

LEMMA HearingRunStep ==
    ASSUME TypeOK, HearInv, NEW t \in Subagents,
           SafePoint(t) \/ Continue(t) \/ Deliver(t) \/ Park(t) \/ Finish(t)
             \/ Suspend(t) \/ Resume(t)
    PROVE  HearInv'
<1> USE DEF tasks, host, restore, prepare, disk, ledger, bounds
<1>0. QuietInv /\ CarriedInv /\ SentInv /\ HadInv /\ OwnerHears /\ t \in Tasks
  BY DEF HearInv, Tasks
<1>1. UNCHANGED <<built, restoring, turn, held, files, pending, todo, had, lost>>
  BY DEF SafePoint, Continue, Deliver, Park, Finish, End, Suspend, Resume, Command
<1>2. CarriedInv'
  BY <1>0, <1>1 DEF CarriedInv, Consistent
<1>3. CASE SafePoint(t) \/ Continue(t)
  <2>1. /\ Live(t) /\ \E s \in {"running", "suspended"} : status' = [status EXCEPT ![t] = s]
        /\ Runs(t) \/ status[t] = "suspended"
        /\ UNCHANGED <<settled, inbox, told, sent>>
    BY <1>3 DEF SafePoint, Continue, Runs, Live
  <2>2. \A u \in Tasks : \/ status'[u] = status[u]
                         \/ Live(u) /\ status'[u] \in {"running", "suspended", "ended"}
    BY <2>1 DEF TypeOK
  <2>3. SentInv' /\ OwnerHears' /\ HadInv'
    BY <1>0, <1>1, <2>1, <2>2, HearingGoes
  <2>4. built /\ restoring # "register"
    BY <1>0, <2>1 DEF QuietInv, Live, Runs
  <2>5. QuietInv'
    BY <1>1, <2>4 DEF QuietInv
  <2> QED
    BY <1>2, <2>3, <2>5 DEF HearInv
<1>4. CASE Deliver(t)
  <2>1. /\ told \subseteq told' /\ inbox \cup told \subseteq inbox' \cup told'
        /\ UNCHANGED <<status, settled, sent>>
    BY <1>4 DEF Deliver
  <2>2. QuietInv' /\ SentInv'
    BY <1>0, <1>1, <2>1 DEF QuietInv, SentInv, Over, Live
  <2>3. OwnerHears'
    BY <1>0, <1>1, <2>1 DEF OwnerHears
  <2>4. HadInv'
    BY <1>0, <1>1, <2>1 DEF HadInv, Awaited, Returns
  <2> QED
    BY <1>2, <2>2, <2>3, <2>4 DEF HearInv
<1>5. CASE Park(t) \/ Suspend(t) \/ Resume(t)
  <2>1. UNCHANGED <<status, settled, inbox, told, sent>>
    BY <1>5 DEF Park, Suspend, Resume, Command
  <2>2. SentInv' /\ OwnerHears' /\ HadInv'
    BY <1>0, <1>1, <2>1, HearingGoes
  <2> QED
    BY <1>0, <1>1, <1>2, <2>1, <2>2 DEF HearInv, QuietInv
<1>6. CASE Finish(t)
  <2>1. /\ Runs(t) /\ InboxOf(t) = {} /\ LiveChildren(t) = {}
        /\ status' = [status EXCEPT ![t] = "finished"]
        /\ UNCHANGED <<settled, inbox, told, sent>>
    BY <1>6 DEF Finish, End
  <2>2. \A u \in Tasks : status'[u] = IF u = t THEN "finished" ELSE status[u]
    BY <1>0, <2>1 DEF TypeOK
  <2>3. built /\ restoring # "register"
    BY <1>0, <2>1 DEF QuietInv, Runs
  <2>4. QuietInv'
    BY <1>1, <2>3 DEF QuietInv
  <2>5. SentInv'
    <3>1. \A u \in settled' : Over(u)'
      BY <1>0, <2>1, <2>2 DEF SentInv, Over, TypeOK
    <3>2. ASSUME NEW u \in Tasks, Owner[u] # Main
          PROVE  /\ status'[u] # "absent" => status'[Owner[u]] # "absent"
                 /\ u \in settled' /\ Live(Owner[u])' => u \in sent'
      BY <1>0, <2>1, <2>2, <3>2, OwnersTyped DEF SentInv, Live, Runs
    <3> QED
      BY <1>0, <2>1, <3>1, <3>2 DEF SentInv
  <2>6. ASSUME NEW u \in Children(t), u \in had, u \notin lost
        PROVE  u \in told
    <3>1. u \in Tasks /\ Owner[u] = t /\ Owner[u] # Main /\ Live(Owner[u])
      BY <2>1 DEF Children, Runs, Live, Tasks
    <3>2. u \in sent
      <4>1. CASE status[u] # "absent"
        BY <1>0, <2>1, <2>6, <3>1, <4>1 DEF LiveChildren, SentInv
      <4>2. CASE status[u] = "absent"
        BY <1>0, <2>3, <2>6, <3>1, <4>2 DEF HadInv, Awaited
      <4> QED
        BY <4>1, <4>2
    <3>3. u \notin inbox
      BY <2>1 DEF InboxOf
    <3> QED
      BY <1>0, <3>2, <3>3 DEF SentInv
  <2>7. OwnerHears'
    <3>1. ASSUME NEW o \in Subagents, status'[o] = "finished",
                 NEW u \in Children(o), u \in had'
          PROVE  u \in told' \cup lost'
      <4>1. o \in Tasks
        BY DEF Tasks
      <4>2. CASE o = t
        BY <1>1, <2>1, <2>6, <3>1, <4>2
      <4>3. CASE o # t
        BY <1>0, <1>1, <2>1, <2>2, <3>1, <4>1, <4>3 DEF OwnerHears
      <4> QED
        BY <4>2, <4>3
    <3> QED
      BY <3>1 DEF OwnerHears
  <2>8. HadInv'
    BY <1>0, <1>1, <2>1, <2>2, OwnersTyped DEF HadInv, Awaited, Returns, Runs
  <2> QED
    BY <1>2, <2>4, <2>5, <2>7, <2>8 DEF HearInv
<1> QED
  BY <1>3, <1>4, <1>5, <1>6

LEMMA HearingRegisterStep ==
    ASSUME TypeOK, HearInv, LockInv, NEW t \in Subagents, Register(t)
    PROVE  HearInv'
<1> USE DEF host, restore, prepare, disk, bounds
<1> DEFINE cp == todo[t]
<1>0. QuietInv /\ CarriedInv /\ SentInv /\ HadInv /\ OwnerHears /\ t \in Tasks
  BY DEF HearInv, Tasks
<1>1. /\ restoring = "register" /\ cp # NoFile
      /\ todo' = [todo EXCEPT ![t] = NoFile]
      /\ UNCHANGED <<built, restoring, turn, files, pending, settled>>
  BY DEF Register
<1>2. CarriedInv'
  <2>1. \A u \in Subagents : todo'[u] = IF u = t THEN NoFile ELSE todo[u]
    BY <1>1 DEF TypeOK, Slots
  <2> QED
    BY <1>0, <1>1, <2>1 DEF CarriedInv, Consistent
<1>3. built
  BY <1>1 DEF LockInv
<1>4. CASE /\ ~(status[t] = "absent" /\ (Owner[t] # Main => status[Owner[t]] # "absent"))
           /\ UNCHANGED <<status, inbox, told, sent, held, had, lost>>
  <2>1. QuietInv'
    BY <1>0, <1>1, <1>4 DEF QuietInv
  <2>2. SentInv' /\ OwnerHears'
    BY <1>0, <1>1, <1>4, HearingGoes
  <2>3. \A u \in Tasks : u # t /\ Returns(u) => Returns(u)'
    BY <1>1 DEF Returns, TypeOK, Slots
  <2>4. HadInv'
    BY <1>0, <1>1, <1>4, <2>3 DEF HadInv, Awaited
  <2> QED
    BY <1>2, <2>1, <2>2, <2>4 DEF HearInv
<1>5. CASE /\ status[t] = "absent" /\ (Owner[t] # Main => status[Owner[t]] # "absent")
           /\ status' = [status EXCEPT ![t] = "running"]
           /\ inbox' = inbox \cup cp.inbox /\ told' = told \cup cp.told
           /\ sent' = sent \cup cp.sent /\ held' = held \cup {t}
           /\ had' = had \cup {t} \cup cp.had
           /\ lost' = lost \cup {u \in cp.had \ cp.sent : ~Returns(u)}
  <2>1. \A u \in Tasks : status'[u] = IF u = t THEN "running" ELSE status[u]
    BY <1>5 DEF TypeOK
  <2>2. QuietInv'
    BY <1>0, <1>1, <1>3, <1>5, <2>1 DEF QuietInv
  <2>3. cp.sent \subseteq cp.inbox \cup cp.told
    BY <1>0, <1>1 DEF CarriedInv, Consistent
  <2>4. settled = {} /\ \A u \in Tasks : status[u] # "finished"
    BY <1>0, <1>1 DEF QuietInv, SentInv, Over, TypeOK
  <2>5. SentInv'
    <3>1. sent' \subseteq inbox' \cup told'
      BY <1>0, <1>5, <2>3 DEF SentInv
    <3>2. \A u \in settled' : Over(u)'
      BY <1>1, <2>4
    <3>3. ASSUME NEW u \in Tasks, Owner[u] # Main
          PROVE  /\ status'[u] # "absent" => status'[Owner[u]] # "absent"
                 /\ u \in settled' /\ Live(Owner[u])' => u \in sent'
      BY <1>0, <1>1, <1>5, <2>1, <2>4, <3>3, OwnersTyped DEF SentInv
    <3> QED
      BY <3>1, <3>2, <3>3 DEF SentInv
  <2>6. OwnerHears'
    BY <2>1, <2>4 DEF OwnerHears, Tasks
  <2>7. \A u \in Tasks : u # t /\ Returns(u) => Returns(u)'
    BY <1>1 DEF Returns, TypeOK, Slots
  <2>8. ASSUME NEW u \in Tasks, Owner[u] # Main, u \in had' \ (sent' \cup lost'), u # t
        PROVE  status'[u] # "absent" \/ Awaited(u)'
    <3>1. CASE u \in had
      BY <1>0, <1>1, <1>5, <2>1, <2>7, <2>8, <3>1, OwnersTyped DEF HadInv, Awaited
    <3>2. CASE u \in cp.had
      <4>1. Returns(u) /\ Owner[u] = t
        BY <1>0, <1>1, <1>5, <2>8, <3>2 DEF CarriedInv, Consistent, Children
      <4> QED
        BY <1>0, <1>1, <2>1, <2>7, <2>8, <4>1 DEF Awaited
    <3> QED
      BY <1>5, <2>8, <3>1, <3>2
  <2>9. HadInv'
    BY <1>0, <1>5, <2>1, <2>8 DEF HadInv
  <2> QED
    BY <1>2, <2>2, <2>5, <2>6, <2>9 DEF HearInv
<1> QED
  BY <1>4, <1>5 DEF Register

LEMMA HearingFileStep ==
    ASSUME TypeOK, HearInv, NEW t \in Subagents, Unlink(t) \/ Save(t) \/ SaveDeferred(t)
    PROVE  HearInv'
<1> USE DEF tasks, host, restore, prepare, ledger, bounds
<1>0. QuietInv /\ CarriedInv /\ SentInv /\ HadInv /\ OwnerHears
  BY DEF HearInv
<1>1. UNCHANGED <<built, restoring, turn, held, pending, todo, status, settled, inbox, told,
                  sent, had, lost>>
  BY DEF Unlink, Save, SaveDeferred
<1>2. QuietInv' /\ SentInv' /\ HadInv' /\ OwnerHears'
  BY <1>0, <1>1, HearingGoes DEF QuietInv
<1>3. \E cp : Consistent(t, cp) /\ files' \in {files, [files EXCEPT ![t] = cp]}
  <2>1. CASE Unlink(t)
    BY <2>1 DEF Unlink, Consistent
  <2>2. CASE Save(t)
    <3>1. Consistent(t, Checkpoint(t))
      <4>1. /\ Checkpoint(t).sent = sent \cap Children(t)
            /\ Checkpoint(t).inbox = inbox \cap Children(t)
            /\ Checkpoint(t).told = told \cap Children(t)
            /\ Checkpoint(t).had = had \cap Children(t)
        BY DEF Checkpoint, InboxOf
      <4> QED
        BY <1>0, <4>1 DEF Consistent, SentInv
    <3> QED
      BY <2>2, <3>1 DEF Save
  <2>3. CASE SaveDeferred(t)
    BY <1>0, <2>3 DEF SaveDeferred, CarriedInv
  <2> QED
    BY <2>1, <2>2, <2>3
<1>4. CarriedInv'
  BY <1>0, <1>1, <1>3 DEF CarriedInv, Consistent, TypeOK, Slots
<1> QED
  BY <1>2, <1>4 DEF HearInv

LEMMA HearingHostStep ==
    ASSUME TypeOK, HearInv, LockInv, HostStep
    PROVE  HearInv'
<1> USE DEF tasks, restore, prepare, disk, ledger, bounds
<1>0. QuietInv /\ CarriedInv /\ SentInv /\ HadInv /\ OwnerHears
  BY DEF HearInv
<1>1. UNCHANGED <<status, settled, inbox, told, sent, had, lost, files>>
  BY DEF HostStep, ClaimTurn, UseServices, BuildServices, EndTurn, Launch, Restored,
         InitializePlainly, InitializeRestoring, Apply
<1>2. SentInv' /\ OwnerHears'
  BY <1>0, <1>1, HearingGoes
<1>3. CarriedInv'
  <2>1. \A u \in Subagents : Consistent(u, pending'[u]) /\ Consistent(u, todo'[u])
    <3>1. CASE BuildServices
      BY <1>0, <3>1 DEF BuildServices, CarriedInv, Consistent, Nothing
    <3>2. CASE Apply
      BY <1>0, <3>2 DEF Apply, CarriedInv, Consistent
    <3>3. CASE ~BuildServices /\ ~Apply
      BY <1>0, <3>3 DEF HostStep, ClaimTurn, UseServices, EndTurn, Launch, Restored,
                        InitializePlainly, InitializeRestoring, CarriedInv, host
    <3> QED
      BY <3>1, <3>2, <3>3
  <2> QED
    BY <1>0, <1>1, <2>1 DEF CarriedInv
<1>4. QuietInv'
  <2>1. CASE BuildServices
    BY <1>0, <2>1 DEF BuildServices, QuietInv
  <2>2. CASE UseServices
    BY <1>0, <2>2 DEF UseServices, QuietInv, LockInv
  <2>3. CASE Launch \/ Restored
    BY <1>0, <2>3 DEF Launch, Restored, QuietInv, LockInv, host
  <2>4. CASE ClaimTurn \/ EndTurn
    BY <1>0, <2>4 DEF ClaimTurn, EndTurn, QuietInv
  <2>5. CASE InitializePlainly \/ InitializeRestoring \/ Apply
    BY <1>0, <2>5 DEF InitializePlainly, InitializeRestoring, Apply, QuietInv
  <2> QED
    BY <2>1, <2>2, <2>3, <2>4, <2>5 DEF HostStep
<1>5. HadInv'
  <2>1. CASE BuildServices
    BY <1>0, <1>1, <2>1 DEF BuildServices, HadInv, Awaited, LockInv
  <2>2. CASE Launch
    BY <1>0, <1>1, <2>2 DEF Launch, HadInv, Awaited, Returns, Nothing
  <2>3. CASE Restored
    BY <1>0, <1>1, <2>3 DEF Restored, HadInv, Awaited
  <2>4. CASE ~BuildServices /\ ~Launch /\ ~Restored
    BY <1>0, <1>1, <2>4, HearingGoes DEF HostStep, ClaimTurn, UseServices, EndTurn,
       InitializePlainly, InitializeRestoring, Apply
  <2> QED
    BY <2>1, <2>2, <2>3, <2>4
<1> QED
  BY <1>2, <1>3, <1>4, <1>5 DEF HearInv

LEMMA HearingStep == TypeOK /\ LockInv /\ HearInv /\ [Next]_vars => HearInv'
<1> SUFFICES ASSUME TypeOK, LockInv, HearInv, [Next]_vars PROVE HearInv'
  OBVIOUS
<1>0. QuietInv /\ CarriedInv /\ SentInv /\ HadInv /\ OwnerHears
  BY DEF HearInv
<1>1. CASE PrepareStep
  <2>1. /\ UNCHANGED <<built, restoring, turn, held, files, todo, status, settled, inbox,
                       told, sent, had, lost>>
        /\ pending' = pending \/ pending' = Nothing
    BY <1>1 DEF PrepareStep, BeginDraining, PauseLaunches, Capture, SuspendAll, Drained, Interrupt,
                Release, Settle, LockServices, WriteRestartFile, PrepareFails, StopAndRecord,
                PendingAfterWrite, tasks, host, restore, disk, ledger, bounds, Prepares
  <2>2. QuietInv' /\ SentInv' /\ HadInv' /\ OwnerHears'
    BY <1>0, <2>1, HearingGoes DEF QuietInv
  <2>3. CarriedInv'
    BY <1>0, <2>1 DEF CarriedInv, Consistent, Nothing
  <2> QED
    BY <2>2, <2>3 DEF HearInv
<1>2. CASE NextEngine
  <2>1. /\ \A t \in Tasks : status'[t] = "absent"
        /\ turn' = "none" /\ restoring' = "no"
        /\ settled' = {} /\ sent' = {} /\ had' = {}
        /\ pending' = Nothing /\ todo' = Nothing /\ files' = files
    BY <1>2 DEF NextEngine, disk
  <2>2. QuietInv' /\ SentInv' /\ HadInv' /\ OwnerHears'
    BY <2>1 DEF QuietInv, SentInv, HadInv, OwnerHears, Tasks
  <2>3. CarriedInv'
    BY <1>0, <2>1 DEF CarriedInv, Consistent, Nothing
  <2> QED
    BY <2>2, <2>3 DEF HearInv
<1>3. CASE UNCHANGED vars
  <2>1. UNCHANGED <<built, restoring, turn, held, files, pending, todo, status, settled,
                    inbox, told, sent, had, lost>>
    BY <1>3 DEF vars, tasks, host, restore, disk, ledger
  <2>2. QuietInv' /\ SentInv' /\ HadInv' /\ OwnerHears'
    BY <1>0, <2>1, HearingGoes DEF QuietInv
  <2> QED
    BY <1>0, <2>1, <2>2 DEF HearInv, CarriedInv
<1> QED
  BY <1>1, <1>2, <1>3, HearingTaskStep, HearingRunStep, HearingRegisterStep, HearingFileStep,
     HearingHostStep DEF Next, SubagentStep

(* Whoever finishes by itself has heard of every task it ever had, also of *)
(* those an earlier engine saved, but for what is lost: neither restored   *)
(* with it nor reported in its saved state.  A restored owner runs only    *)
(* when its children are registered, and its inbox is saved with it.       *)
THEOREM OwnersHear == Spec => []OwnerHears
<1>1. Init => HearInv
  <2> SUFFICES ASSUME Init PROVE HearInv
    OBVIOUS
  <2>1. /\ \A t \in Tasks : status[t] = "absent"
        /\ turn = "none" /\ restoring = "no" /\ settled = {} /\ sent = {} /\ had = {}
        /\ pending = Nothing /\ todo = Nothing /\ files = Nothing
    BY DEF Init
  <2>2. QuietInv /\ SentInv /\ HadInv /\ OwnerHears
    BY <2>1 DEF QuietInv, SentInv, HadInv, OwnerHears, Tasks
  <2>3. CarriedInv
    BY <2>1 DEF CarriedInv, Consistent, Nothing
  <2> QED
    BY <2>2, <2>3 DEF HearInv
<1>2. TypeOK /\ RestoreInv => LockInv
  BY DEF RestoreInv
<1>3. HearInv => OwnerHears
  BY DEF HearInv
<1> QED
  BY <1>1, <1>2, <1>3, HearingStep, RestoreInvariant, PTL DEF Spec

-----------------------------------------------------------------------------
(* Nobody is left behind.  Once the drain is over, every live task but     *)
(* those begun by a turn that outlived it, or after that, is suspended or  *)
(* recorded as interrupted, itself or by an agent above it; a turn does    *)
(* not start, a suspended subagent does not go on, and what an interrupted *)
(* agent starts is recorded with it.                                       *)

Recorded(t) == ({t} \cup Above[t]) \cap interrupted # {}

Counted(t) ==
    \/ Recorded(t)
    \/ status[t] = "suspended" /\ (prep = "save" => t \in work \cup saved)

DrainInv ==
    /\ prep # "done" => drainStopped \subseteq interrupted
    /\ restoring # "no" => stage = "building" \/ turn = "claimed"
    /\ suspendNew => LiveTasks \cap Subagents \subseteq flagged
    /\ \A t \in Tasks : status[t] = "suspended" => t \in Subagents
    /\ prep \in {"settle", "lock", "save"} /\ ~overrun => turn = "none"
    /\ belated # {} => overrun

CountInv == prep \in {"lock", "save"} => \A t \in LiveTasks \ belated : Counted(t)

LEMMA AboveOwner ==
    ASSUME NEW t \in Tasks, Owner[t] # Main
    PROVE  {Owner[t]} \cup Above[Owner[t]] \subseteq Above[t]
<1>1. Owner[t] \in Subagents /\ Owner[t] \in Tasks
  BY OwnersTyped
<1>2. ASSUME NEW s \in SUBSET Subagents, Closed(t, s)
      PROVE  Owner[t] \in s /\ Closed(Owner[t], s)
  BY <1>2 DEF Closed
<1> QED
  BY <1>1, <1>2 DEF Above

LEMMA DrainTaskStep ==
    ASSUME TypeOK, LockInv, CaptureInv, DrainInv, CountInv, NEW t \in Tasks, TaskStep(t)
    PROVE  DrainInv' /\ CountInv'
<1> USE DEF tasks, host, restore, prepare, disk, ledger, bounds
<1>1. UNCHANGED <<prep, drainStopped, interrupted, restoring, stage, turn, suspendNew,
                  overrun, work, saved>> /\ belated \subseteq belated'
  BY DEF TaskStep, Belated, Start, Abort, End, Report, StopTask, Command
<1>2. CASE Start(t)
  <2>1. /\ status[t] = "absent" /\ status' = [status EXCEPT ![t] = "running"]
        /\ flagged' = IF suspendNew THEN flagged \cup ({t} \cap Subagents) ELSE flagged
        /\ IF Owner[t] = Main THEN turn = "working" ELSE Runs(Owner[t])
        /\ belated' = IF overrun THEN belated \cup {t} ELSE belated
    BY <1>2 DEF Start, Belated
  <2>2. \A u \in Tasks : status'[u] = IF u = t THEN "running" ELSE status[u]
    BY <2>1 DEF TypeOK
  <2>3. DrainInv'
    BY <1>1, <2>1, <2>2 DEF DrainInv, LiveTasks, Live
  <2>4. CountInv'
    <3>1. SUFFICES ASSUME prep \in {"lock", "save"}, NEW u \in Tasks, Live(u)', u \notin belated'
                   PROVE  Counted(u)'
      BY <1>1 DEF CountInv, LiveTasks
    <3>2. CASE u # t
      BY <1>1, <2>2, <3>1, <3>2 DEF CountInv, LiveTasks, Live, Counted, Recorded
    <3>3. CASE u = t
      <4>1. Owner[t] # Main /\ Runs(Owner[t]) /\ belated = {}
        BY <2>1, <3>1, <3>3 DEF DrainInv
      <4>2. Owner[t] \in LiveTasks \ belated /\ status[Owner[t]] # "suspended"
        BY <4>1, OwnersTyped DEF Runs, LiveTasks, Live
      <4>3. Recorded(Owner[t])
        BY <3>1, <4>2 DEF CountInv, Counted
      <4>4. Recorded(t)
        BY <4>1, <4>3, AboveOwner DEF Recorded
      <4> QED
        BY <1>1, <3>3, <4>4 DEF Counted, Recorded
    <3> QED
      BY <3>2, <3>3
  <2> QED
    BY <2>3, <2>4
<1>3. CASE Abort(t)
  <2>1. \A u \in Tasks : status'[u] = IF u = t THEN "ended" ELSE status[u]
    BY <1>3 DEF Abort, End, TypeOK
  <2>2. flagged' = flagged /\ belated' = belated
    BY <1>3 DEF Abort, End
  <2> QED
    BY <1>1, <2>1, <2>2 DEF DrainInv, CountInv, LiveTasks, Live, Counted, Recorded
<1>4. CASE Report(t) \/ StopTask(t)
  <2>1. status' = status /\ flagged' = flagged /\ belated' = belated
    BY <1>4 DEF Report, StopTask, Command
  <2> QED
    BY <1>1, <2>1 DEF DrainInv, CountInv, LiveTasks, Live, Counted, Recorded
<1> QED
  BY <1>2, <1>3, <1>4 DEF TaskStep

LEMMA DrainRunStep ==
    ASSUME TypeOK, LockInv, CaptureInv, DrainInv, CountInv, NEW t \in Subagents,
           SafePoint(t) \/ Continue(t) \/ Deliver(t) \/ Park(t) \/ Finish(t)
             \/ Suspend(t) \/ Resume(t)
    PROVE  DrainInv' /\ CountInv'
<1> USE DEF tasks, host, restore, prepare, disk, ledger, bounds
<1>0. t \in Tasks
  BY DEF Tasks
<1>1. UNCHANGED <<prep, drainStopped, interrupted, restoring, stage, turn, suspendNew,
                  overrun, belated, work, saved>>
  BY DEF SafePoint, Continue, Deliver, Park, Finish, End, Suspend, Resume, Command
<1>2. suspendNew => ~Resume(t)
  BY DEF CaptureInv, Resume
<1>3. suspendNew => flagged \subseteq flagged'
  BY <1>2 DEF SafePoint, Continue, Deliver, Park, Finish, End, Suspend
<1>4. CASE SafePoint(t)
  <2>1. status[t] = "running" /\ status' = [status EXCEPT ![t] = "suspended"]
    BY <1>4 DEF SafePoint, Runs
  <2>2. \A u \in Tasks : status'[u] = IF u = t THEN "suspended" ELSE status[u]
    BY <1>0, <2>1 DEF TypeOK
  <2>3. DrainInv'
    BY <1>1, <1>3, <2>1, <2>2 DEF DrainInv, LiveTasks, Live
  <2>4. CountInv'
    BY <1>1, <2>1, <2>2 DEF CountInv, LiveTasks, Live, Counted, Recorded
  <2> QED
    BY <2>3, <2>4
<1>5. CASE Continue(t)
  <2>1. status[t] = "suspended" /\ ~Requested(t) /\ status' = [status EXCEPT ![t] = "running"]
    BY <1>5 DEF Continue
  <2>2. ~suspendNew
    BY <1>0, <2>1 DEF DrainInv, Requested, LiveTasks, Live
  <2>3. prep \notin {"lock", "save"}
    BY <2>2 DEF CaptureInv
  <2>4. \A u \in Tasks : status'[u] = IF u = t THEN "running" ELSE status[u]
    BY <1>0, <2>1 DEF TypeOK
  <2> QED
    BY <1>1, <2>2, <2>3, <2>4 DEF DrainInv, CountInv
<1>6. CASE Finish(t)
  <2>1. \A u \in Tasks : status'[u] = IF u = t THEN "finished" ELSE status[u]
    BY <1>0, <1>6 DEF Finish, End, TypeOK
  <2> QED
    BY <1>1, <1>3, <2>1 DEF DrainInv, CountInv, LiveTasks, Live, Counted, Recorded
<1>7. CASE Deliver(t) \/ Park(t) \/ Suspend(t) \/ Resume(t)
  <2>1. status' = status
    BY <1>7 DEF Deliver, Park, Suspend, Resume, Command
  <2> QED
    BY <1>1, <1>3, <2>1 DEF DrainInv, CountInv, LiveTasks, Live, Counted, Recorded
<1> QED
  BY <1>4, <1>5, <1>6, <1>7

LEMMA DrainRestoreStep ==
    ASSUME TypeOK, LockInv, CaptureInv, DrainInv, CountInv, NEW t \in Subagents,
           Register(t) \/ Unlink(t) \/ Save(t) \/ SaveDeferred(t)
    PROVE  DrainInv' /\ CountInv'
<1> USE DEF tasks, host, restore, prepare, disk, ledger, bounds
<1>0. t \in Tasks
  BY DEF Tasks
<1>1. UNCHANGED <<prep, drainStopped, interrupted, restoring, stage, turn, suspendNew,
                  overrun>>
  BY DEF Register, Unlink, Save, SaveDeferred
<1>2. CASE Register(t)
  <2>1. CASE UNCHANGED <<status, flagged, belated>>
    BY <1>1, <1>2, <2>1 DEF Register, DrainInv, CountInv, LiveTasks, Live, Counted, Recorded
  <2>2. CASE /\ status' = [status EXCEPT ![t] = "running"]
             /\ flagged \subseteq flagged' /\ (suspendNew => t \in flagged')
             /\ belated' = IF overrun THEN belated \cup {t} ELSE belated
    <3>1. \A u \in Tasks : status'[u] = IF u = t THEN "running" ELSE status[u]
      BY <2>2 DEF TypeOK
    <3>2. DrainInv'
      BY <1>1, <2>2, <3>1 DEF DrainInv, LiveTasks, Live
    <3>3. prep \in {"lock", "save"} => t \in belated'
      BY <1>2, <2>2 DEF Register, DrainInv, LockInv
    <3>4. work' = work /\ saved' = saved
      BY <1>2 DEF Register
    <3> QED
      BY <1>1, <2>2, <3>1, <3>2, <3>3, <3>4
         DEF CountInv, LiveTasks, Live, Counted, Recorded
  <2> QED
    BY <1>2, <2>1, <2>2 DEF Register, Belated
<1>3. CASE Unlink(t) \/ SaveDeferred(t)
  <2>1. /\ UNCHANGED <<status, flagged, belated, work>> /\ saved \subseteq saved'
    BY <1>3 DEF Unlink, SaveDeferred
  <2> QED
    BY <1>1, <2>1 DEF DrainInv, CountInv, LiveTasks, Live, Counted, Recorded
<1>4. CASE Save(t)
  <2>1. /\ UNCHANGED <<status, flagged, belated>> /\ work' = work \ {t}
        /\ saved' = IF status[t] = "suspended" THEN saved \cup {t} ELSE saved
    BY <1>4 DEF Save
  <2> QED
    BY <1>1, <2>1 DEF DrainInv, CountInv, LiveTasks, Live, Counted, Recorded
<1> QED
  BY <1>2, <1>3, <1>4

LEMMA DrainHostStep ==
    ASSUME TypeOK, LockInv, CaptureInv, DrainInv, CountInv, HostStep
    PROVE  DrainInv' /\ CountInv'
<1> USE DEF tasks, restore, prepare, disk, ledger, bounds
<1>1. UNCHANGED <<status, flagged, prep, drainStopped, interrupted, suspendNew, overrun,
                  belated, work, saved>>
  BY DEF HostStep, ClaimTurn, UseServices, BuildServices, EndTurn, Launch, Restored,
         InitializePlainly, InitializeRestoring, Apply, host
<1>2. CountInv'
  BY <1>1 DEF CountInv, LiveTasks, Live, Counted, Recorded
<1>3. /\ restoring' # "no" => stage' = "building" \/ turn' = "claimed"
      /\ prep \in {"settle", "lock", "save"} /\ ~overrun => turn' = "none"
  <2>1. CASE ClaimTurn
    BY <2>1 DEF ClaimTurn, DrainInv, CaptureInv
  <2>2. CASE UseServices
    BY <2>2 DEF UseServices, DrainInv, LockInv
  <2>3. CASE BuildServices
    BY <2>3 DEF BuildServices, DrainInv
  <2>4. CASE EndTurn
    BY <2>4 DEF EndTurn
  <2>5. CASE Launch
    BY <2>5 DEF Launch, DrainInv, host
  <2>6. CASE Restored
    BY <2>6 DEF Restored, DrainInv, LockInv
  <2>7. CASE InitializePlainly \/ InitializeRestoring \/ Apply
    BY <2>7 DEF InitializePlainly, InitializeRestoring, Apply, DrainInv, LockInv
  <2> QED
    BY <2>1, <2>2, <2>3, <2>4, <2>5, <2>6, <2>7 DEF HostStep
<1>4. DrainInv'
  BY <1>1, <1>3 DEF DrainInv, LiveTasks, Live
<1> QED
  BY <1>2, <1>4

LEMMA DrainPrepareStep ==
    ASSUME TypeOK, LockInv, CaptureInv, DrainInv, CountInv, PrepareStep
    PROVE  DrainInv' /\ CountInv'
<1> USE DEF tasks, host, restore, disk, ledger, bounds, Prepares
<1>1. UNCHANGED <<status, restoring, stage, turn, belated>>
  BY DEF PrepareStep, BeginDraining, PauseLaunches, Capture, SuspendAll, Drained, Interrupt,
         Release, Settle, LockServices, WriteRestartFile, PrepareFails, StopAndRecord
<1>2. CASE BeginDraining \/ PauseLaunches \/ Capture \/ SuspendAll
  <2>1. /\ prep' \in {"pause", "capture", "suspend", "drain"} /\ prep # "done"
        /\ UNCHANGED <<drainStopped, interrupted, overrun>>
        /\ \/ suspendNew' = suspendNew /\ flagged' = flagged
           \/ flagged' = flagged \cup (LiveTasks \cap Subagents)
    BY <1>2 DEF BeginDraining, PauseLaunches, Capture, SuspendAll
  <2> QED
    BY <1>1, <2>1 DEF DrainInv, CountInv, LiveTasks, Live
<1>3. CASE Drained
  <2>1. /\ prep = "drain" /\ prep' = "lock" /\ turn = "none" /\ Unsettled = {}
        /\ UNCHANGED <<drainStopped, interrupted, suspendNew, flagged, overrun, work, saved>>
    BY <1>3 DEF Drained, DrainComplete
  <2>2. DrainInv'
    BY <1>1, <2>1 DEF DrainInv, LiveTasks, Live
  <2>3. CountInv'
    BY <1>1, <2>1 DEF CountInv, Counted, LiveTasks, Live, Unsettled
  <2> QED
    BY <2>2, <2>3
<1>4. CASE Interrupt \/ Release
  <2>1. /\ prep \in {"drain", "release"} /\ prep' \in {"release", "settle"}
        /\ prep' = "settle" /\ ~overrun' => turn = "none"
        /\ drainStopped \subseteq interrupted => drainStopped' \subseteq interrupted'
        /\ UNCHANGED <<suspendNew, flagged>>
    BY <1>4 DEF Interrupt, Release, StopAndRecord
  <2>2. overrun => overrun'
    BY <1>4, Zenon DEF Interrupt, Release
  <2>3. LiveTasks' = LiveTasks
    BY <1>1 DEF LiveTasks, Live
  <2>4. prep' # "done" => drainStopped' \subseteq interrupted'
    BY <2>1 DEF DrainInv
  <2>5. prep' \in {"settle", "lock", "save"} /\ ~overrun' => turn' = "none"
    BY <1>1, <2>1
  <2>6. belated' # {} => overrun'
    BY <1>1, <2>2, Zenon DEF DrainInv
  <2>7. DrainInv'
    BY <1>1, <2>1, <2>3, <2>4, <2>5, <2>6, Zenon DEF DrainInv
  <2>8. CountInv'
    BY <2>1 DEF CountInv
  <2> QED
    BY <2>7, <2>8
<1>5. CASE Settle
  <2>1. /\ prep = "settle" /\ prep' = "lock"
        /\ interrupted' = interrupted \cup (Unsettled \ interrupted)
        /\ drainStopped' = drainStopped \cup (Unsettled \ interrupted)
        /\ UNCHANGED <<suspendNew, flagged, overrun>>
    BY <1>5 DEF Settle, StopAndRecord
  <2>2. DrainInv'
    BY <1>1, <2>1 DEF DrainInv, LiveTasks, Live
  <2>3. CountInv'
    BY <1>1, <2>1 DEF CountInv, Counted, Recorded, LiveTasks, Live, Unsettled
  <2> QED
    BY <2>2, <2>3
<1>6. CASE LockServices
  <2>1. /\ prep = "lock" /\ prep' = "save"
        /\ work' = {t \in Subagents : status[t] = "suspended"}
        /\ UNCHANGED <<drainStopped, interrupted, suspendNew, flagged, overrun>>
    BY <1>6 DEF LockServices
  <2>2. DrainInv'
    BY <1>1, <2>1 DEF DrainInv, LiveTasks, Live
  <2>3. CountInv'
    BY <1>1, <2>1 DEF CountInv, Counted, Recorded, LiveTasks, Live, DrainInv
  <2> QED
    BY <2>2, <2>3
<1>7. CASE WriteRestartFile
  <2>1. prep' = "done" /\ UNCHANGED <<suspendNew, flagged, overrun>>
    BY <1>7 DEF WriteRestartFile
  <2> QED
    BY <1>1, <2>1 DEF DrainInv, CountInv, LiveTasks, Live
<1>8. CASE PrepareFails
  <2>1. /\ prep # "done" /\ prep' = "idle"
        /\ UNCHANGED <<drainStopped, interrupted, suspendNew, flagged, overrun>>
    BY <1>8 DEF PrepareFails, KeptForRetry
  <2> QED
    BY <1>1, <2>1 DEF DrainInv, CountInv, LiveTasks, Live
<1> QED
  BY <1>2, <1>3, <1>4, <1>5, <1>6, <1>7, <1>8 DEF PrepareStep

LEMMA DrainStep ==
    TypeOK /\ LockInv /\ CaptureInv /\ DrainInv /\ CountInv /\ [Next]_vars
        => DrainInv' /\ CountInv'
<1> SUFFICES ASSUME TypeOK, LockInv, CaptureInv, DrainInv, CountInv, [Next]_vars
             PROVE  DrainInv' /\ CountInv'
  OBVIOUS
<1>1. CASE NextEngine
  <2>1. /\ \A t \in Tasks : status'[t] = "absent"
        /\ turn' = "none" /\ restoring' = "no" /\ prep' = "idle" /\ drainStopped' = {}
        /\ belated' = {}
    BY <1>1 DEF NextEngine
  <2> QED
    BY <2>1 DEF DrainInv, CountInv, LiveTasks, Live
<1>2. CASE UNCHANGED vars
  <2>1. UNCHANGED <<status, flagged, prep, drainStopped, interrupted, restoring, stage, turn,
                    suspendNew, overrun, belated, work, saved>>
    BY <1>2 DEF vars, tasks, host, restore, prepare, ledger
  <2> QED
    BY <2>1 DEF DrainInv, CountInv, LiveTasks, Live, Counted, Recorded
<1> QED
  BY <1>1, <1>2, DrainTaskStep, DrainRunStep, DrainRestoreStep, DrainHostStep,
     DrainPrepareStep DEF Next, SubagentStep

(* A new restart file is only ever the work of WriteRestartFile. *)
LEMMA OnlyPrepareWrites ==
    ASSUME [Next]_vars, Writes
    PROVE  WriteRestartFile
<1> USE DEF tasks, host, restore, prepare, disk, ledger, bounds, Writes
<1>1. ASSUME NEW t \in Tasks, TaskStep(t) PROVE FALSE
  BY <1>1 DEF TaskStep, Start, Abort, End, Report, StopTask, Command
<1>2. ASSUME NEW t \in Subagents, SubagentStep(t) PROVE FALSE
  BY <1>2 DEF SubagentStep, SafePoint, Continue, Deliver, Park, Finish, End, Suspend, Resume,
              Command, Register, Unlink, Save, SaveDeferred
<1>3. CASE HostStep
  BY <1>3 DEF HostStep, ClaimTurn, UseServices, BuildServices, EndTurn, Launch, Restored,
              InitializePlainly, InitializeRestoring, Apply, Consumed
<1>4. CASE PrepareStep
  BY <1>4 DEF PrepareStep, BeginDraining, PauseLaunches, Capture, SuspendAll, Drained, Interrupt,
              Release, Settle, LockServices, PrepareFails, StopAndRecord
<1>5. CASE NextEngine \/ UNCHANGED vars
  BY <1>5 DEF NextEngine, vars
<1> QED
  BY <1>1, <1>2, <1>3, <1>4, <1>5 DEF Next

LEMMA WritesAll ==
    ASSUME TypeOK, DrainInv, CountInv, WriteRestartFile
    PROVE  AccountsForAll
<1>1. /\ prep = "save" /\ work = {} /\ \A t \in Subagents : pending[t] # NoFile => t \in saved
      /\ restartFile'.tasks = saved /\ restartFile'.interrupted = interrupted
  BY DEF WriteRestartFile, Prepares
<1>2. \A t \in LiveTasks \ belated : Accounted(t)
  BY <1>1 DEF CountInv, Counted, Recorded, Accounted
<1>3. \A t \in drainStopped : Accounted(t)
  BY <1>1 DEF DrainInv, Accounted
<1>4. \A t \in Subagents : pending[t] # NoFile => Accounted(t)
  BY <1>1 DEF Accounted
<1> QED
  BY <1>2, <1>3, <1>4 DEF AccountsForAll

(* Every restart file speaks of every task: whatever is live, still to be  *)
(* re-created or was stopped by the drain, in this call of prepare_restart *)
(* or in one that failed, is saved or recorded as interrupted, but for     *)
(* what was started or re-created after a turn outlived its cancellation.  *)
THEOREM NobodyIsLeftBehind == Spec => NobodyLeftBehind
<1>1. Init => CaptureInv /\ DrainInv /\ CountInv
  BY DEF Init, CaptureInv, DrainInv, CountInv, LiveTasks, Live
<1>2. TypeOK /\ RestoreInv /\ SuspensionInv => LockInv /\ CaptureInv
  BY DEF RestoreInv, SuspensionInv
<1>3. TypeOK /\ DrainInv /\ CountInv /\ [Next]_vars
          => [Writes => AccountsForAll]_vars
  BY OnlyPrepareWrites, WritesAll
<1> QED
  BY <1>1, <1>2, <1>3, DrainStep, RestoreInvariant, SuspensionInvariant, PTL
  DEF Spec, NobodyLeftBehind
=============================================================================
