----------------------------- MODULE TurnSlotProofs -----------------------------
(***************************************************************************)
(* Proofs about TurnSlot, for any messages, interrupts and bound on turns. *)
(*                                                                         *)
(* Three inductive invariants, each a conjunction of named parts: what the *)
(* holder's place says of the flag and of the public state (SlotInv), what *)
(* it says of the inbox (SteerInv), and of the token and the remembered    *)
(* interrupt (StopInv).  The last two rest on the first.                   *)
(***************************************************************************)
EXTENDS TurnSlot, FiniteSetTheorems, TLAPS

(* What the holder's place says of its kind and of the flag. *)
PlaceInv ==
    /\ at = "none" <=> kind = "none"
    /\ kind = "init" => at \in {"admitted", "preparing", "freed"}
    /\ at \in {"published", "ended", "closed"} => kind = "prompt"
    /\ at = "running" => kind \in {"prompt", "compaction"}
    /\ at = "cleared" => kind \in {"prompt", "compaction"}
    /\ busy <=> at \notin {"none", "admitted", "freed"}
    /\ Running => turns # NoTurn

(* The public state follows the holder. *)
PublicInv ==
    /\ turn # NoTurn => Running /\ turn = turns /\ at \notin {"finished", "unwinding", "freed"}
    /\ lifecycle = "ready" => at = "none"
    /\ lifecycle = "busy" => Running
    /\ draining => lifecycle \in {"draining", "stopping", "stopped"}
    /\ observer # NoTurn => Running /\ observer = turns /\ at \notin {"admitted", "unwinding", "freed"}

SlotInv == TypeOK /\ PlaceInv /\ PublicInv

(* A waiting message waits in its own turn, whose end is still to come. *)
WaitInv ==
    /\ pending # {} => /\ at \in {"preparing", "published", "running", "ended", "finished"}
                       /\ kind = "prompt" /\ observer = turns
    /\ \A m \in pending : sentIn[m] = turns
    /\ at \in {"closed", "cleared"} => sealed
    /\ kind \in {"compaction", "maintenance"} /\ at \notin {"admitted", "freed"} => sealed

OutcomeInv ==
    /\ \A o \in fate : /\ o.message \notin pending
                       /\ sentIn[o.message] # NoTurn
                       /\ o.outcome # "recalled" => o.turn = sentIn[o.message]
                       /\ \A p \in fate : p.message = o.message => p = o
    /\ \A m \in Messages : sentIn[m] # NoTurn =>
           m \in pending \/ \E o \in fate : o.message = m

SteerInv == WaitInv /\ OutcomeInv

(* A prompt not yet cancelled has its token in place; a shutdown that has  *)
(* armed the flag finds every later prompt before its look at the flag.    *)
TokenInv ==
    kind = "prompt" /\ at \in {"published", "running"} /\ turns \notin cancelled => token = turns

ArmedInv ==
    /\ stop["shutdown"] # "idle" => Ended
    /\ stop["shutdown"] \in {"armed", "taken", "done"} /\ kind = "prompt"
       /\ at \in {"admitted", "preparing", "published"} => pendingInterrupt

StopInv == TokenInv /\ ArmedInv /\ StoppedTurnIsTold

-----------------------------------------------------------------------------
USE BoundsAssumption DEF NoTurn

(* Every variable stays within its range. *)
LEMMA TypeStep == TypeOK /\ [Next]_vars => TypeOK'
<1> SUFFICES ASSUME TypeOK, [Next]_vars PROVE TypeOK'
  OBVIOUS
<1> USE DEF TypeOK, TurnIds, Places, Stages, stateVars, slotVars, inboxVars, stopVars, Stoppers
<1>1. ASSUME NEW k \in {"prompt", "compaction", "maintenance"}, ClaimTurn(k) PROVE TypeOK'
  BY <1>1 DEF ClaimTurn
<1>2. CASE ClaimInitialization
  BY <1>2 DEF ClaimInitialization
<1>3. CASE OpenTurn \/ OpenInitialization
  BY <1>3 DEF OpenTurn, OpenInitialization
<1>4. CASE PublishToken
  BY <1>4 DEF PublishToken, Move
<1>5. CASE CheckPending
  BY <1>5 DEF CheckPending, Move, Heed, PendingConsumed
<1>6. CASE CloseForTurn
  BY <1>6 DEF CloseForTurn, CloseInbox, Report, Outcomes, Move
<1>7. CASE ClearToken
  BY <1>7 DEF ClearToken, Move
<1>7a. CASE CompactionEnds
  BY <1>7a DEF CompactionEnds, Move
<1>8. CASE Finish
  <2>1. turn' = NoTurn /\ observer' \in {NoTurn, observer} /\ at' = "finished"
    BY <1>8 DEF Finish, EndTurn, Move
  <2>2. UNCHANGED <<lifecycle, initialized, draining, busy, kind, turns, inboxVars, stopVars>>
    BY <1>8 DEF Finish, EndTurn, Move
  <2> QED
    BY <2>1, <2>2
<1>9. CASE Unwind
  <2>1. /\ turn' \in {NoTurn, turn} /\ observer' = NoTurn /\ at' = "unwinding"
        /\ fate' = fate \cup Report(pending, "dropped", observer)
        /\ pending' = {} /\ sealed' = TRUE
    BY <1>9 DEF Unwind, GuardClosesInbox, CloseInbox, Move
  <2>2. UNCHANGED <<lifecycle, initialized, draining, busy, kind, turns, sentIn, stopVars>>
    BY <1>9 DEF Unwind, GuardClosesInbox, CloseInbox, Move
  <2>3. Report(pending, "dropped", observer) \subseteq Outcomes
    BY DEF Report, Outcomes
  <2> QED
    BY <2>1, <2>2, <2>3
<1>10. CASE FreeSlot \/ ReleaseTurn \/ FinishInitialization
  BY <1>10 DEF FreeSlot, ReleaseTurn, FinishInitialization
<1>11. CASE Deliver
  BY <1>11 DEF Deliver, Report, Outcomes
<1>12. CASE NaturalStop \/ AbortRun
  BY <1>12 DEF NaturalStop, AbortRun, Move
<1>13. CASE Recall
  BY <1>13 DEF Recall, Report, Outcomes
<1>14. ASSUME NEW m \in Messages, Steer(m) PROVE TypeOK'
  BY <1>14 DEF Steer
<1>t. ASSUME NEW s \in Stoppers, NEW from, NEW to \in Stages, Advance(s, from, to)
      PROVE  stop' \in [Stoppers -> Stages]
  BY <1>t DEF Advance
<1>z. NoTurn \in TurnIds /\ turns \in TurnIds
  OBVIOUS
<1>u. TakeToken => token' \in TurnIds /\ cancelled' \subseteq TurnIds
  BY DEF TakeToken, Live
<1>15. ASSUME NEW i \in Interrupts, Interrupt(i) PROVE TypeOK'
  <2>1. stop' \in [Stoppers -> Stages]
    BY <1>15, <1>t DEF Interrupt, InterruptChecks, InterruptTakes, InterruptRemembers
  <2>2. aim' \in [Interrupts -> TurnIds]
    <3>1. NoTurn \in TurnIds /\ turns \in TurnIds
      BY <1>z
    <3>2. InterruptChecks(i) => aim' \in [Interrupts -> TurnIds]
      BY <3>1 DEF InterruptChecks
    <3>3. InterruptTakes(i) \/ InterruptRemembers(i) => aim' = aim
      BY DEF InterruptTakes, InterruptRemembers
    <3> QED
      BY <1>15, <3>2, <3>3 DEF Interrupt
  <2>3. token' \in TurnIds /\ cancelled' \subseteq TurnIds
    BY <1>15, <1>u DEF Interrupt, InterruptChecks, InterruptTakes, InterruptRemembers
  <2>4. pendingInterrupt' \in BOOLEAN /\ UNCHANGED <<stateVars, slotVars, inboxVars>>
    BY <1>15 DEF Interrupt, InterruptChecks, InterruptTakes, InterruptRemembers
  <2> QED
    BY <2>1, <2>2, <2>3, <2>4
<1>16. CASE Restart
  <2>1. stop' \in [Stoppers -> Stages]
    BY <1>16, <1>t DEF Restart, BeginDraining, RestartTakes, RestartLooks, RestartRemembers
  <2>2. token' \in TurnIds /\ cancelled' \subseteq TurnIds
    BY <1>16, <1>u DEF Restart, BeginDraining, RestartTakes, RestartLooks, RestartRemembers
  <2>3. pendingInterrupt' \in BOOLEAN /\ draining' \in BOOLEAN /\ lifecycle' \in {lifecycle, "draining"}
    BY <1>16 DEF Restart, BeginDraining, RestartTakes, RestartLooks, RestartRemembers
  <2>4. UNCHANGED <<aim, initialized, turn, slotVars, inboxVars>>
    BY <1>16 DEF Restart, BeginDraining, RestartTakes, RestartLooks, RestartRemembers
  <2> QED
    BY <2>1, <2>2, <2>3, <2>4
<1>17. CASE Shutdown
  <2>1. stop' \in [Stoppers -> Stages]
    BY <1>17, <1>t DEF Shutdown, ShutdownStarts, ShutdownArms, ShutdownTakes, ShutdownCompletes
  <2>2. /\ token' \in TurnIds /\ cancelled' \subseteq TurnIds /\ aim' = aim
        /\ pendingInterrupt' \in BOOLEAN /\ UNCHANGED <<initialized, draining, turn, slotVars, inboxVars>>
        /\ lifecycle' \in {lifecycle, "stopping", "stopped"}
    BY <1>17, <1>u DEF Shutdown, ShutdownStarts, ShutdownArms, Arm, ShutdownTakes, ShutdownCompletes
  <2> QED
    BY <2>1, <2>2
<1>18. CASE UNCHANGED vars
  BY <1>18 DEF vars
<1> QED
  BY <1>1, <1>2, <1>3, <1>4, <1>5, <1>6, <1>7, <1>7a, <1>8, <1>9, <1>10, <1>11, <1>12, <1>13, <1>14,
     <1>15, <1>16, <1>17, <1>18 DEF Next, Claim, Proceed, Panic

(* The holder's place, the flag and the public state stay in step. *)
LEMMA SlotStep == SlotInv /\ [Next]_vars => SlotInv'
<1> SUFFICES ASSUME SlotInv, [Next]_vars PROVE SlotInv'
  OBVIOUS
<1>0. TypeOK'
  BY TypeStep DEF SlotInv
<1>a. PlaceInv /\ PublicInv
  BY DEF SlotInv
<1>b. turns \in Nat /\ turn \in Nat /\ observer \in Nat /\ at \in Places
  BY DEF SlotInv, TypeOK, TurnIds
<1> SUFFICES PlaceInv' /\ PublicInv'
  BY <1>0 DEF SlotInv
<1> USE <1>a, <1>b DEF PlaceInv, PublicInv, Running, Ended, stateVars, slotVars, Places
<1>1. ASSUME NEW k \in {"prompt", "compaction", "maintenance"}, ClaimTurn(k)
      PROVE  PlaceInv' /\ PublicInv'
  BY <1>1 DEF ClaimTurn, Admits
<1>2. CASE ClaimInitialization
  BY <1>2 DEF ClaimInitialization
<1>3. CASE OpenTurn
  BY <1>3 DEF OpenTurn
<1>3a. CASE OpenInitialization
  BY <1>3a DEF OpenInitialization
<1>4. CASE PublishToken
  BY <1>4 DEF PublishToken, Move
<1>5. CASE CheckPending \/ CloseForTurn \/ ClearToken \/ CompactionEnds \/ NaturalStop \/ AbortRun
  BY <1>5 DEF CheckPending, CloseForTurn, ClearToken, CompactionEnds, NaturalStop, AbortRun, Move
<1>6. CASE Finish
  <2>1. /\ turn' = NoTurn /\ observer' \in {NoTurn, observer} /\ at' = "finished"
        /\ UNCHANGED <<lifecycle, initialized, draining, busy, kind, turns>>
        /\ at \in {"cleared", "preparing"} /\ kind # "init"
    BY <1>6 DEF Finish, EndTurn, Move
  <2> QED
    BY <2>1
<1>7. CASE Unwind
  BY <1>7 DEF Unwind, Move
<1>8. CASE FreeSlot
  BY <1>8 DEF FreeSlot
<1>9. CASE ReleaseTurn
  BY <1>9 DEF ReleaseTurn
<1>9a. CASE FinishInitialization
  <2>1. /\ at = "freed" /\ kind = "init" /\ at' = "none" /\ kind' = "none"
        /\ lifecycle' \in {lifecycle, "ready"}
        /\ draining => lifecycle' = lifecycle
        /\ UNCHANGED <<draining, turn, busy, turns, observer>>
    BY <1>9a DEF FinishInitialization
  <2> QED
    BY <2>1
<1>10. CASE Deliver \/ Recall \/ \E m \in Messages : Steer(m)
  <2>1. UNCHANGED <<stateVars, slotVars>>
    BY <1>10 DEF Deliver, Recall, Steer
  <2> QED
    BY <2>1
<1>11. CASE \E i \in Interrupts : Interrupt(i)
  BY <1>11 DEF Interrupt, InterruptChecks, InterruptTakes, InterruptRemembers
<1>12. CASE Restart
  BY <1>12 DEF Restart, BeginDraining, RestartTakes, RestartLooks, RestartRemembers
<1>13. CASE Shutdown
  BY <1>13 DEF Shutdown, ShutdownStarts, ShutdownArms, ShutdownTakes, ShutdownCompletes
<1>14. CASE UNCHANGED vars
  BY <1>14 DEF vars
<1> QED
  BY <1>1, <1>2, <1>3, <1>3a, <1>4, <1>5, <1>6, <1>7, <1>8, <1>9, <1>9a, <1>10, <1>11, <1>12, <1>13, <1>14
     DEF Next, Claim, Proceed, Panic

(* Emptying the inbox with an outcome that names the turn of its messages  *)
(* keeps the accounts.                                                     *)
LEMMA EmptyingKeepsAccounts ==
    ASSUME SlotInv, SteerInv, NEW what, NEW t,
           what = "recalled" \/ t = observer,
           fate' = fate \cup Report(pending, what, t),
           pending' = {}, sentIn' = sentIn
    PROVE  OutcomeInv'
<1>1. \A m \in pending : m \in Messages /\ sentIn[m] = turns /\ turns # NoTurn
  BY DEF SlotInv, TypeOK, PlaceInv, Running, SteerInv, WaitInv
<1>2. \A o \in Report(pending, what, t) :
         /\ o.message \in pending /\ o.outcome = what /\ o.turn = t
         /\ \A p \in Report(pending, what, t) : p.message = o.message => p = o
  BY DEF Report
<1>3. ASSUME NEW m \in pending PROVE \E o \in Report(pending, what, t) : o.message = m
  <2>1. [message |-> m, outcome |-> what, turn |-> t] \in Report(pending, what, t)
    BY DEF Report
  <2> QED
    BY <2>1
<1>4. pending # {} => observer = turns
  BY DEF SteerInv, WaitInv
<1> QED
  BY <1>1, <1>2, <1>3, <1>4 DEF SteerInv, OutcomeInv

(* Messages wait in their own turn and get one outcome. *)
LEMMA SteerStep == SlotInv /\ SteerInv /\ [Next]_vars => SteerInv'
<1> SUFFICES ASSUME SlotInv, SteerInv, [Next]_vars PROVE SteerInv'
  OBVIOUS
<1>a. WaitInv /\ OutcomeInv
  BY DEF SteerInv
<1>b. PlaceInv /\ PublicInv /\ TypeOK
  BY DEF SlotInv
<1> USE <1>a, <1>b DEF SteerInv
<1>0. ASSUME UNCHANGED <<pending, sentIn, fate>> PROVE OutcomeInv'
  BY <1>0 DEF OutcomeInv
<1>1. ASSUME NEW k \in {"prompt", "compaction", "maintenance"}, ClaimTurn(k) PROVE SteerInv'
  BY <1>0, <1>1 DEF ClaimTurn, WaitInv, inboxVars
<1>2. CASE ClaimInitialization
  BY <1>0, <1>2 DEF ClaimInitialization, WaitInv, inboxVars
<1>3. CASE OpenTurn \/ OpenInitialization
  BY <1>0, <1>3 DEF OpenTurn, OpenInitialization, WaitInv, inboxVars, TypeOK
<1>4. CASE PublishToken \/ ClearToken \/ CompactionEnds \/ AbortRun
  BY <1>0, <1>4 DEF PublishToken, ClearToken, CompactionEnds, AbortRun, Move, WaitInv, PlaceInv, inboxVars
<1>5. CASE CheckPending \/ NaturalStop
  BY <1>0, <1>5 DEF CheckPending, NaturalStop, Move, WaitInv, PlaceInv
<1>6. CASE CloseForTurn
  <2>1. OutcomeInv'
    BY <1>6, EmptyingKeepsAccounts DEF CloseForTurn, CloseInbox
  <2> QED
    BY <2>1, <1>6 DEF CloseForTurn, CloseInbox, Move, WaitInv
<1>7. CASE Finish
  BY <1>0, <1>7 DEF Finish, Move, WaitInv, PlaceInv, inboxVars
<1>8. CASE Unwind
  <2>1. OutcomeInv'
    BY <1>8, EmptyingKeepsAccounts DEF Unwind, GuardClosesInbox, CloseInbox
  <2> QED
    BY <2>1, <1>8 DEF Unwind, GuardClosesInbox, CloseInbox, Move, WaitInv
<1>9. CASE FreeSlot \/ ReleaseTurn \/ FinishInitialization
  BY <1>0, <1>9 DEF FreeSlot, ReleaseTurn, FinishInitialization, WaitInv, PlaceInv, inboxVars
<1>10. CASE Deliver
  <2>1. OutcomeInv'
    BY <1>10, EmptyingKeepsAccounts DEF Deliver
  <2> QED
    BY <2>1, <1>10 DEF Deliver, WaitInv, slotVars
<1>11. CASE Recall
  <2>1. OutcomeInv'
    BY <1>11, EmptyingKeepsAccounts DEF Recall
  <2> QED
    BY <2>1, <1>11 DEF Recall, WaitInv, slotVars
<1>12. ASSUME NEW m \in Messages, Steer(m) PROVE SteerInv'
  <2>1. /\ at \in {"preparing", "published", "running", "ended", "finished"}
        /\ kind = "prompt" /\ observer = turns /\ turns # NoTurn
    BY <1>12 DEF Steer, TurnLocked, PlaceInv, PublicInv, Running, WaitInv, TypeOK, Places
  <2>2. sentIn'[m] = turns /\ \A n \in Messages \ {m} : sentIn'[n] = sentIn[n]
    BY <1>12 DEF Steer, TypeOK
  <2>3. m \notin pending
    BY <1>12, <2>1 DEF Steer, WaitInv
  <2>4. \A o \in fate : o.message # m /\ o.message \in Messages
    BY <1>12 DEF Steer, OutcomeInv, TypeOK, Outcomes
  <2>5. WaitInv'
    BY <1>12, <2>1, <2>2 DEF Steer, WaitInv, slotVars, TypeOK
  <2>6. OutcomeInv'
    BY <1>12, <2>2, <2>4 DEF Steer, OutcomeInv
  <2> QED
    BY <2>5, <2>6
<1>13. CASE \E i \in Interrupts : Interrupt(i)
  BY <1>0, <1>13 DEF Interrupt, InterruptChecks, InterruptTakes, InterruptRemembers, WaitInv, slotVars, inboxVars
<1>14. CASE Restart
  BY <1>0, <1>14 DEF Restart, BeginDraining, RestartTakes, RestartLooks, RestartRemembers, WaitInv, slotVars, inboxVars
<1>15. CASE Shutdown
  BY <1>0, <1>15 DEF Shutdown, ShutdownStarts, ShutdownArms, ShutdownTakes, ShutdownCompletes, WaitInv, slotVars, inboxVars
<1>16. CASE UNCHANGED vars
  BY <1>0, <1>16 DEF vars, WaitInv, slotVars, inboxVars
<1> QED
  BY <1>1, <1>2, <1>3, <1>4, <1>5, <1>6, <1>7, <1>8, <1>9, <1>10, <1>11, <1>12, <1>13, <1>14, <1>15, <1>16
     DEF Next, Claim, Proceed, Panic

(* The token and the flag hold what a prompt will be told by. *)
LEMMA StopStep == SlotInv /\ StopInv /\ [Next]_vars => StopInv'
<1> SUFFICES ASSUME SlotInv, StopInv, [Next]_vars PROVE StopInv'
  OBVIOUS
<1>a. TokenInv /\ ArmedInv /\ StoppedTurnIsTold
  BY DEF StopInv
<1>b. PlaceInv /\ TypeOK
  BY DEF SlotInv
<1>c. stop["shutdown"] # "idle" => Ended
  BY <1>a DEF ArmedInv
<1> USE <1>a, <1>b DEF StopInv, TokenInv, ArmedInv, StoppedTurnIsTold, Ended
<1>1. ASSUME NEW k \in {"prompt", "compaction", "maintenance"}, ClaimTurn(k) PROVE StopInv'
  BY <1>1, <1>c DEF ClaimTurn, Admits, stopVars
<1>2. CASE ClaimInitialization
  BY <1>2 DEF ClaimInitialization, stopVars
<1>3. CASE OpenTurn \/ OpenInitialization
  BY <1>3 DEF OpenTurn, OpenInitialization, stopVars, stateVars
<1>4. CASE PublishToken
  BY <1>4 DEF PublishToken, Move, stateVars
<1>5. CASE CheckPending
  BY <1>5 DEF CheckPending, Move, Heed, stateVars
<1>6. CASE CloseForTurn \/ NaturalStop \/ AbortRun \/ ClearToken \/ CompactionEnds
  BY <1>6 DEF CloseForTurn, NaturalStop, AbortRun, ClearToken, CompactionEnds, Move, stopVars, stateVars
<1>7. CASE Finish
  BY <1>7 DEF Finish, EndTurn, Move, stopVars
<1>8. CASE Unwind
  BY <1>8 DEF Unwind, Move, stopVars
<1>9. CASE FreeSlot \/ ReleaseTurn \/ FinishInitialization
  BY <1>9 DEF FreeSlot, ReleaseTurn, FinishInitialization, stopVars, stateVars
<1>10. CASE Deliver \/ Recall \/ \E m \in Messages : Steer(m)
  BY <1>10 DEF Deliver, Recall, Steer, stopVars, stateVars, slotVars
<1>11. ASSUME NEW i \in Interrupts, Interrupt(i) PROVE StopInv'
  <2>0. i # "shutdown" /\ {"shutdown", i} \subseteq Stoppers
    BY DEF Stoppers
  <2>1. stop'["shutdown"] = stop["shutdown"]
    BY <1>11, <2>0 DEF Interrupt, InterruptChecks, InterruptTakes, InterruptRemembers, Advance, TypeOK
  <2> QED
    BY <1>11, <2>1 DEF Interrupt, InterruptChecks, InterruptTakes, InterruptRemembers, TakeToken, Live,
       Running, stateVars, slotVars
<1>12. CASE Restart
  <2>0. {"shutdown", "restart"} \subseteq Stoppers
    BY DEF Stoppers
  <2>1. stop'["shutdown"] = stop["shutdown"]
    BY <1>12, <2>0 DEF Restart, BeginDraining, RestartTakes, RestartLooks, RestartRemembers, Advance, TypeOK
  <2> QED
    BY <1>12, <2>1 DEF Restart, BeginDraining, RestartTakes, RestartLooks, RestartRemembers, TakeToken, Live,
       Running, stateVars, slotVars
<1>13. CASE ShutdownStarts
  BY <1>13 DEF ShutdownStarts, Advance, Stoppers, TypeOK, slotVars
<1>14. CASE ShutdownArms
  BY <1>14 DEF ShutdownArms, Arm, Advance, Stoppers, TypeOK, slotVars, stateVars
<1>15. CASE ShutdownTakes
  BY <1>15 DEF ShutdownTakes, TakeToken, Live, Running, Advance, Stoppers, TypeOK, slotVars, stateVars
<1>16. CASE ShutdownCompletes
  BY <1>16 DEF ShutdownCompletes, Advance, Stoppers, TypeOK, slotVars
<1>17. CASE UNCHANGED vars
  BY <1>17 DEF vars, stateVars, slotVars, stopVars
<1> QED
  BY <1>1, <1>2, <1>3, <1>4, <1>5, <1>6, <1>7, <1>8, <1>9, <1>10, <1>11, <1>12, <1>13, <1>14, <1>15, <1>16, <1>17
     DEF Next, Claim, Proceed, Panic, Shutdown

-----------------------------------------------------------------------------
LEMMA InitHolds == Init => SlotInv /\ SteerInv /\ StopInv
<1> SUFFICES ASSUME Init PROVE SlotInv /\ SteerInv /\ StopInv
  OBVIOUS
<1>1. TypeOK
  <2>1. stop \in [Stoppers -> Stages]
    BY DEF Init, Stages
  <2>2. NoTurn \in TurnIds
    BY DEF TurnIds
  <2>3. aim \in [Interrupts -> TurnIds] /\ sentIn \in [Messages -> TurnIds]
    BY <2>2 DEF Init
  <2> QED
    BY <2>1, <2>2, <2>3 DEF Init, TypeOK, Places
<1>2. PlaceInv /\ PublicInv
  BY DEF Init, PlaceInv, PublicInv, Running
<1>3. SteerInv
  BY DEF Init, SteerInv, WaitInv, OutcomeInv
<1>4. StopInv
  BY DEF Init, StopInv, TokenInv, ArmedInv, StoppedTurnIsTold, Stoppers
<1> QED
  BY <1>1, <1>2, <1>3, <1>4 DEF SlotInv

LEMMA Inductive == Spec => [](SlotInv /\ SteerInv /\ StopInv)
<1>1. SlotInv /\ SteerInv /\ StopInv /\ [Next]_vars => (SlotInv /\ SteerInv /\ StopInv)'
  BY SlotStep, SteerStep, StopStep
<1> QED
  BY <1>1, InitHolds, PTL DEF Spec

(* The slot, the inbox and the stop requests keep to their types. *)
THEOREM TypeCorrect == Spec => []TypeOK
<1>1. SlotInv => TypeOK
  BY DEF SlotInv
<1> QED
  BY <1>1, Inductive, PTL

(* What the engine publishes as ready is free, and what it publishes as    *)
(* busy is held, through every claim, release, drain and shutdown.         *)
THEOREM PublicIsTruthful == Spec => []LifecycleTruthful
<1>1. SlotInv => LifecycleTruthful
  BY DEF SlotInv, TypeOK, PlaceInv, PublicInv, LifecycleTruthful, Running
<1> QED
  BY <1>1, Inductive, PTL

(* Every accepted steering message has its one outcome, in its own turn.   *)
THEOREM SteeringIsAccounted == Spec => []SteerLandsInItsTurn
<1>1. SlotInv /\ SteerInv => SteerLandsInItsTurn
  BY DEF SlotInv, PlaceInv, SteerInv, WaitInv, OutcomeInv, SteerLandsInItsTurn, Running
<1> QED
  BY <1>1, Inductive, PTL

(* No prompt slips past a shutdown between its claim and its token.        *)
THEOREM ShutdownIsHeard == Spec => []StoppedTurnIsTold
<1>1. StopInv => StoppedTurnIsTold
  BY DEF StopInv
<1> QED
  BY <1>1, Inductive, PTL
-----------------------------------------------------------------------------
(* Counting the cancellations.  Before the shutdown arms the flag, each    *)
(* request that got to the turn has paid for a cancellation or for one     *)
(* still owed: a remembered interrupt, or a restart about to leave one.    *)
(* From then on no turn is claimed, and only the last one can be added to  *)
(* the cancelled ones.                                                     *)
Stoppings == {s \in Stoppers : Stopped(s)}

Owing == (IF pendingInterrupt THEN 1 ELSE 0) + (IF stop["restart"] = "active" THEN 1 ELSE 0)

CountInv ==
    IF stop["shutdown"] \in {"idle", "started"}
    THEN Cardinality(cancelled) + Owing <= Cardinality(Stoppings)
    ELSE Cardinality(cancelled \cup {turns}) <= Cardinality(Stoppings)

\* The sets counted are finite.
LEMMA Countable ==
  ASSUME TypeOK
  PROVE  /\ IsFiniteSet(cancelled) /\ Cardinality(cancelled) \in Nat
         /\ IsFiniteSet(cancelled \cup {turns}) /\ Cardinality(cancelled \cup {turns}) \in Nat
         /\ Cardinality(cancelled \cup {turns}) \in {Cardinality(cancelled), Cardinality(cancelled) + 1}
         /\ IsFiniteSet(Stoppings) /\ Cardinality(Stoppings) \in Nat
<1>1. IsFiniteSet(cancelled)
  <2>1. IsFiniteSet(0..MaxTurns) /\ cancelled \in SUBSET (0..MaxTurns)
    BY FS_Interval DEF TypeOK, TurnIds
  <2> QED
    BY <2>1, FS_Subset
<1>2. IsFiniteSet(Stoppers)
  <2>1. IsFiniteSet(Interrupts \cup {"shutdown"}) /\ IsFiniteSet((Interrupts \cup {"shutdown"}) \cup {"restart"})
    BY FS_AddElement
  <2>2. Stoppers = (Interrupts \cup {"shutdown"}) \cup {"restart"}
    BY DEF Stoppers
  <2> QED
    BY <2>1, <2>2
<1>3. IsFiniteSet(Stoppings)
  BY <1>2, FS_Subset DEF Stoppings
<1> QED
  BY <1>1, <1>3, FS_CardinalityType, FS_AddElement

\* A request counts from the moment it is done, and for good.
LEMMA RequestCounts ==
  ASSUME TypeOK, NEW s \in Stoppers, NEW from, NEW to, Advance(s, from, to)
  PROVE  /\ from \notin {"active", "armed", "taken", "done"} /\ to \in {"active", "armed", "taken", "done"}
               => Cardinality(Stoppings') = Cardinality(Stoppings) + 1
         /\ (from \in {"active", "armed", "taken", "done"} <=> to \in {"active", "armed", "taken", "done"})
               => Stoppings' = Stoppings
<1>1. stop[s] = from /\ stop'[s] = to /\ \A t \in Stoppers \ {s} : stop'[t] = stop[t]
  BY DEF Advance, TypeOK
<1>2. ASSUME from \notin {"active", "armed", "taken", "done"}, to \in {"active", "armed", "taken", "done"}
      PROVE  Cardinality(Stoppings') = Cardinality(Stoppings) + 1
  <2>1. Stoppings' = Stoppings \cup {s} /\ s \notin Stoppings
    BY <1>1, <1>2 DEF Stoppings, Stopped
  <2> QED
    BY <2>1, Countable, FS_AddElement
<1>3. ASSUME from \in {"active", "armed", "taken", "done"} <=> to \in {"active", "armed", "taken", "done"}
      PROVE  Stoppings' = Stoppings
  BY <1>1, <1>3 DEF Stoppings, Stopped
<1> QED
  BY <1>2, <1>3

\* Cancelling the turn in the slot adds one turn at most, none without a token.
LEMMA TakeAddsOne ==
  ASSUME TypeOK, PlaceInv, TakeToken
  PROVE  /\ cancelled' \subseteq cancelled \cup {turns}
         /\ token = NoTurn => cancelled' = cancelled
BY DEF TakeToken, Live, PlaceInv, Running

\* What counts does not grow when the turn in the slot is cancelled.
LEMMA CountGrowth ==
  ASSUME TypeOK, TypeOK', cancelled' \subseteq cancelled \cup {turns}, cancelled \subseteq cancelled',
         turns' = turns
  PROVE  /\ Cardinality(cancelled') \in Nat /\ Cardinality(cancelled') <= Cardinality(cancelled) + 1
         /\ Cardinality((cancelled \cup {turns})') = Cardinality(cancelled \cup {turns})
<1>1. Cardinality(cancelled') <= Cardinality(cancelled \cup {turns})
  BY Countable, FS_Subset
<1>2. cancelled' \cup {turns'} = cancelled \cup {turns}
  OBVIOUS
<1>3. Cardinality(cancelled') \in Nat
  BY <1>1, Countable, FS_CardinalityType, FS_Subset
<1> QED
  BY <1>1, <1>2, <1>3, Countable

(* No request cancels more than one turn. *)
LEMMA CountStep == SlotInv /\ StopInv /\ CountInv /\ [Next]_vars => CountInv'
<1> SUFFICES ASSUME SlotInv, StopInv, CountInv, [Next]_vars PROVE CountInv'
  OBVIOUS
<1>a. TypeOK /\ PlaceInv /\ TypeOK'
  BY TypeStep DEF SlotInv
<1>b. {"shutdown", "restart"} \subseteq Stoppers /\ Interrupts \subseteq Stoppers
  BY DEF Stoppers
<1>c. Owing \in 0..2
  BY DEF Owing
<1>d. ASSUME UNCHANGED <<cancelled, turns, stop, pendingInterrupt>> PROVE CountInv'
  BY <1>d DEF CountInv, Stoppings, Stopped, Owing
<1>1. ASSUME NEW k \in {"prompt", "compaction", "maintenance"}, ClaimTurn(k) PROVE CountInv'
  <2>1. stop["shutdown"] = "idle" /\ UNCHANGED <<cancelled, stop, pendingInterrupt>>
    BY <1>1 DEF ClaimTurn, Admits, StopInv, ArmedInv, stopVars
  <2> QED
    BY <2>1 DEF CountInv, Stoppings, Stopped, Owing
<1>2. CASE CheckPending
  <2>1. UNCHANGED <<turns, stop>> /\ pendingInterrupt' = FALSE /\ cancelled' = cancelled \cup Heed
    BY <1>2 DEF CheckPending, PendingConsumed, Move
  <2>2. Stoppings' = Stoppings
    BY <2>1 DEF Stoppings, Stopped
  <2>3. CASE pendingInterrupt
    <3>1. cancelled' = cancelled \cup {turns} /\ Owing' = Owing - 1
      BY <1>c, <2>1, <2>3 DEF Heed, Owing
    <3> QED
      BY <1>a, <1>c, <2>1, <2>2, <3>1, Countable, CountGrowth DEF CountInv
  <2>4. CASE ~pendingInterrupt
    <3>1. cancelled' = cancelled /\ Owing' = Owing
      BY <2>1, <2>4 DEF Heed, Owing
    <3> QED
      BY <2>1, <2>2, <3>1 DEF CountInv
  <2> QED
    BY <2>3, <2>4
<1>3. ASSUME NEW i \in Interrupts, Interrupt(i) PROVE CountInv'
  <2>1. /\ stop'["shutdown"] = stop["shutdown"] /\ stop'["restart"] = stop["restart"]
        /\ turns' = turns
    BY <1>3, <1>a, <1>b DEF Interrupt, InterruptChecks, InterruptTakes, InterruptRemembers, Advance, TypeOK,
       slotVars
  <2>2. CASE InterruptChecks(i)
    <3>1. Stoppings' = Stoppings
      BY <2>2, <1>a, <1>b, RequestCounts DEF InterruptChecks
    <3> QED
      BY <2>1, <2>2, <3>1 DEF InterruptChecks, CountInv, Owing
  <2>3. CASE InterruptTakes(i) /\ token = NoTurn
    <3>1. Stoppings' = Stoppings /\ cancelled' = cancelled
      BY <2>3, <1>a, <1>b, RequestCounts, TakeAddsOne DEF InterruptTakes
    <3> QED
      BY <2>1, <2>3, <3>1 DEF InterruptTakes, CountInv, Owing
  <2>4. CASE InterruptTakes(i) /\ token # NoTurn
    <3>1. Cardinality(Stoppings') = Cardinality(Stoppings) + 1
      BY <2>4, <1>a, <1>b, RequestCounts DEF InterruptTakes
    <3>2. /\ cancelled' \subseteq cancelled \cup {turns} /\ cancelled \subseteq cancelled'
          /\ Owing' = Owing
      BY <2>1, <2>4, <1>a, TakeAddsOne DEF InterruptTakes, TakeToken, Owing
    <3> QED
      BY <1>a, <1>c, <2>1, <3>1, <3>2, Countable, CountGrowth DEF CountInv
  <2>5. CASE InterruptRemembers(i)
    <3>1. Cardinality(Stoppings') = Cardinality(Stoppings) + 1
      BY <2>5, <1>a, <1>b, RequestCounts DEF InterruptRemembers
    <3>2. cancelled' = cancelled /\ Owing' <= Owing + 1 /\ Owing' \in 0..2
      BY <2>1, <2>5 DEF InterruptRemembers, Owing
    <3> QED
      BY <1>a, <1>c, <2>1, <3>1, <3>2, Countable DEF CountInv
  <2> QED
    BY <1>3, <2>2, <2>3, <2>4, <2>5 DEF Interrupt
<1>4. CASE Restart
  <2>1. stop'["shutdown"] = stop["shutdown"] /\ turns' = turns
    BY <1>4, <1>a, <1>b DEF Restart, BeginDraining, RestartTakes, RestartLooks, RestartRemembers, Advance,
       TypeOK, slotVars
  <2>2. CASE BeginDraining
    <3>1. Stoppings' = Stoppings
      BY <2>2, <1>a, <1>b, RequestCounts DEF BeginDraining
    <3>2. stop["restart"] = "idle" /\ stop'["restart"] = "draining"
      BY <2>2, <1>a, <1>b DEF BeginDraining, Advance, TypeOK
    <3> QED
      BY <2>1, <2>2, <3>1, <3>2 DEF BeginDraining, CountInv, Owing
  <2>3. CASE RestartTakes /\ token = NoTurn
    <3>1. Stoppings' = Stoppings /\ cancelled' = cancelled
      BY <2>3, <1>a, <1>b, RequestCounts, TakeAddsOne DEF RestartTakes
    <3>2. stop["restart"] = "draining" /\ stop'["restart"] = "missed"
      BY <2>3, <1>a, <1>b DEF RestartTakes, Advance, TypeOK
    <3> QED
      BY <2>1, <2>3, <3>1, <3>2 DEF RestartTakes, CountInv, Owing
  <2>4. CASE RestartTakes /\ token # NoTurn
    <3>1. Cardinality(Stoppings') = Cardinality(Stoppings) + 1
      BY <2>4, <1>a, <1>b, RequestCounts DEF RestartTakes
    <3>a. stop["restart"] = "draining" /\ stop'["restart"] = "done"
      BY <2>4, <1>a, <1>b DEF RestartTakes, Advance, TypeOK
    <3>2. /\ cancelled' \subseteq cancelled \cup {turns} /\ cancelled \subseteq cancelled'
          /\ Owing' = Owing
      BY <2>4, <1>a, <3>a, TakeAddsOne DEF RestartTakes, TakeToken, Owing
    <3> QED
      BY <1>a, <1>c, <2>1, <3>1, <3>2, Countable, CountGrowth DEF CountInv
  <2>5. CASE RestartLooks
    <3>1. UNCHANGED <<cancelled, pendingInterrupt>> /\ stop["restart"] = "missed"
      BY <2>5 DEF RestartLooks, Advance
    <3>2. CASE busy
      <4>1. Cardinality(Stoppings') = Cardinality(Stoppings) + 1
        BY <2>5, <3>2, <1>a, <1>b, RequestCounts DEF RestartLooks
      <4>2. Owing' = Owing + 1
        BY <2>5, <3>1, <3>2, <1>a, <1>b DEF RestartLooks, Advance, TypeOK, Owing
      <4> QED
        BY <1>a, <1>c, <2>1, <3>1, <4>1, <4>2, Countable DEF CountInv
    <3>3. CASE ~busy
      <4>1. Cardinality(Stoppings') = Cardinality(Stoppings) + 1
        BY <2>5, <3>3, <1>a, <1>b, RequestCounts DEF RestartLooks
      <4>2. Owing' = Owing
        BY <2>5, <3>1, <3>3, <1>a, <1>b DEF RestartLooks, Advance, TypeOK, Owing
      <4> QED
        BY <1>a, <1>c, <2>1, <3>1, <4>1, <4>2, Countable DEF CountInv
    <3> QED
      BY <3>2, <3>3
  <2>6. CASE RestartRemembers
    <3>1. Stoppings' = Stoppings /\ cancelled' = cancelled /\ pendingInterrupt' = TRUE
      BY <2>6, <1>a, <1>b, RequestCounts DEF RestartRemembers
    <3>2. Owing' <= Owing /\ Owing' \in 0..2
      BY <2>6, <3>1, <1>a, <1>b DEF RestartRemembers, Advance, TypeOK, Owing
    <3> QED
      BY <1>a, <1>c, <2>1, <3>1, <3>2, Countable DEF CountInv
  <2> QED
    BY <1>4, <2>2, <2>3, <2>4, <2>5, <2>6 DEF Restart
<1>5. CASE ShutdownStarts
  <2>1. Stoppings' = Stoppings
    BY <1>5, <1>a, <1>b, RequestCounts DEF ShutdownStarts
  <2>2. /\ stop["shutdown"] = "idle" /\ stop'["shutdown"] = "started"
        /\ stop'["restart"] = stop["restart"]
    BY <1>5, <1>a, <1>b DEF ShutdownStarts, Advance, TypeOK
  <2> QED
    BY <1>5, <2>1, <2>2 DEF ShutdownStarts, CountInv, Owing
<1>6. CASE ShutdownArms
  <2>1. Cardinality(Stoppings') = Cardinality(Stoppings) + 1
    BY <1>6, <1>a, <1>b, RequestCounts DEF ShutdownArms
  <2>2. /\ stop["shutdown"] = "started" /\ stop'["shutdown"] = "armed"
        /\ UNCHANGED <<turns, cancelled>>
    BY <1>6, <1>a, <1>b DEF ShutdownArms, Advance, TypeOK, slotVars
  <2> QED
    BY <1>a, <1>c, <2>1, <2>2, Countable DEF CountInv
<1>7. CASE ShutdownTakes
  <2>1. Stoppings' = Stoppings
    BY <1>7, <1>a, <1>b, RequestCounts DEF ShutdownTakes
  <2>3. /\ stop["shutdown"] = "armed" /\ stop'["shutdown"] = "taken"
        /\ turns' = turns
    BY <1>7, <1>a, <1>b DEF ShutdownTakes, Advance, TypeOK, slotVars
  <2>2. cancelled' \subseteq cancelled \cup {turns} /\ cancelled \subseteq cancelled'
    BY <1>7, <1>a, TakeAddsOne DEF ShutdownTakes, TakeToken
  <2> QED
    BY <1>a, <2>1, <2>2, <2>3, Countable, CountGrowth DEF CountInv
<1>8. CASE ShutdownCompletes
  <2>1. Stoppings' = Stoppings
    BY <1>8, <1>a, <1>b, RequestCounts DEF ShutdownCompletes
  <2>2. /\ stop["shutdown"] = "taken" /\ stop'["shutdown"] = "done"
        /\ UNCHANGED <<turns, cancelled>>
    BY <1>8, <1>a, <1>b DEF ShutdownCompletes, Advance, TypeOK, slotVars
  <2> QED
    BY <2>1, <2>2 DEF CountInv
<1>9. CASE ClaimInitialization \/ OpenTurn \/ OpenInitialization \/ PublishToken \/ CloseForTurn
           \/ ClearToken \/ CompactionEnds \/ NaturalStop \/ AbortRun \/ Finish \/ Unwind
  BY <1>9, <1>d DEF ClaimInitialization, OpenTurn, OpenInitialization, PublishToken, CloseForTurn,
     ClearToken, CompactionEnds, NaturalStop, AbortRun, Finish, Unwind, Move, stopVars
<1>10. CASE FreeSlot \/ ReleaseTurn \/ FinishInitialization \/ Deliver \/ Recall
            \/ (\E m \in Messages : Steer(m)) \/ UNCHANGED vars
  BY <1>10, <1>d DEF FreeSlot, ReleaseTurn, FinishInitialization, Deliver, Recall, Steer, vars,
     stopVars, slotVars
<1> QED
  BY <1>1, <1>2, <1>3, <1>4, <1>5, <1>6, <1>7, <1>8, <1>9, <1>10
     DEF Next, Claim, Proceed, Panic, Shutdown

(* One request stops one turn at most, whatever is remembered from one     *)
(* turn to the next.                                                       *)
THEOREM OneTurnPerStop == Spec => []OneStopOneTurn
<1>1. Init => CountInv
  <2> SUFFICES ASSUME Init PROVE CountInv
    OBVIOUS
  <2>1. TypeOK /\ Cardinality(cancelled) = 0 /\ Owing = 0 /\ stop["shutdown"] = "idle"
    BY InitHolds, FS_EmptySet DEF Init, Owing, SlotInv, Stoppers
  <2> QED
    BY <2>1, Countable DEF CountInv
<1>2. SlotInv /\ CountInv => OneStopOneTurn
  <2> SUFFICES ASSUME SlotInv, CountInv PROVE OneStopOneTurn
    OBVIOUS
  <2>1. TypeOK /\ Owing \in 0..2
    BY DEF SlotInv, Owing
  <2> QED
    BY <2>1, Countable DEF CountInv, OneStopOneTurn, Stoppings
<1> QED
  BY <1>1, <1>2, Inductive, CountStep, PTL DEF Spec
=============================================================================
