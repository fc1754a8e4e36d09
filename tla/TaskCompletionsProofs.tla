------------------------- MODULE TaskCompletionsProofs -------------------------
(***************************************************************************)
(* TaskCompletions for every set of tasks, kind of owner and limit: type   *)
(* correctness, and a completion is told at most once; then, for a         *)
(* subagent, what it knows at its end, and the refinement.                 *)
(***************************************************************************)
EXTENDS TaskCompletions, FiniteSetTheorems, TLAPS

(* What the steps of a task's thread and of the owner's loop know of its   *)
(* delivery; together they are inductive.                                  *)
ReportFollowsEnd(t) ==
    /\ report[t] = "none" <=> status[t] \in {"none", "running"}
    /\ number[t] = 0 <=> status[t] = "none"

NotYetPushed(t) ==
    /\ report[t] \in {"none", "outbox", "claim", "push"} => queued[t] = 0
    /\ report[t] = "none" => told[t] = 0
    /\ report[t] \in {"outbox", "claim"} /\ mode[t] = "background" => told[t] = 0
    /\ report[t] = "push" /\ mode[t] = "background" /\ t \notin claimed => told[t] = 0

ClaimReplacesPush(t) ==
    /\ t \in claimed => queued[t] = 0 /\ report[t] \notin {"none", "outbox", "claim"}
    /\ t \in attachedTo => focus = t /\ owner \in Attaches \ {"attaching"}
    /\ queued[t] > 0 => mode[t] = "background"

FocusIsUntold(t) ==
    focus = t => /\ owner \in Waits \cup Attaches => told[t] = 0
                 /\ owner \in Waits => mode[t] = "foreground"

Delivered(t) ==
    /\ ReportFollowsEnd(t)
    /\ NotYetPushed(t)
    /\ ClaimReplacesPush(t)
    /\ FocusIsUntold(t)
    /\ told[t] + queued[t] <= 1

DeliveryInv == \A t \in Tasks : Delivered(t)

USE DEF Waits, Attaches, Parking, Steps, Terminal, Ended, LoopAt, ParkStep, task, delivery, loop, ledger

(* The order of the report, step by step. *)
LEMMA ReportOrder ==
    /\ StepAfter("outbox") = "claim"
    /\ StepAfter("claim") = "push"
    /\ StepAfter("push") = "mark"
    /\ StepAfter("mark") = "settle"
    /\ StepAfter("settle") = "done"
BY DEF StepAfter

(* A task's end and its report. *)
LEMMA ReportDelivers ==
    ASSUME TypeOK, DeliveryInv, NEW t \in Tasks, End(t) \/ Report(t)
    PROVE  DeliveryInv'
<1> SUFFICES ASSUME NEW u \in Tasks PROVE Delivered(u)' BY DEF DeliveryInv
<1>1. Delivered(u) /\ Delivered(t) BY DEF DeliveryInv
<1> USE ReportOrder DEF TypeOK, Delivered, ReportFollowsEnd, NotYetPushed, ClaimReplacesPush, FocusIsUntold
<1>2. CASE End(t)
  <2>1. PICK end \in Terminal : status' = [status EXCEPT ![t] = end]
    BY <1>2 DEF End
  <2>2. /\ status[t] = "running"
        /\ report' = [report EXCEPT ![t] = "outbox"]
        /\ UNCHANGED <<mode, number, attachedTo, claimed, queued, owner, focus, told>>
    BY <1>2 DEF End
  <2>3. CASE u = t BY <1>1, <2>1, <2>2, <2>3
  <2>4. CASE u # t BY <1>1, <2>1, <2>2, <2>4
  <2> QED BY <2>3, <2>4
<1>3. CASE Enqueue(t) BY <1>1, <1>3 DEF Enqueue, Reporting
<1>4. CASE Claim(t) BY <1>1, <1>4 DEF Claim, Reporting
<1>5. CASE Push(t)
  <2>1. CASE Applies(t) /\ Accepts(t)
    <3>1. /\ queued' = [queued EXCEPT ![t] = @ + 1]
          /\ report[t] = "push"
          /\ report' = [report EXCEPT ![t] = "mark"]
      BY <1>5, <2>1 DEF Push, Reporting
    <3>2. mode[t] = "background" /\ t \notin claimed
      BY <2>1 DEF Applies
    <3> QED BY <1>1, <1>5, <3>1, <3>2 DEF Push
  <2>2. CASE ~(Applies(t) /\ Accepts(t))
    BY <1>1, <1>5, <2>2 DEF Push
  <2> QED BY <2>1, <2>2
<1>6. CASE Mark(t) BY <1>1, <1>6 DEF Mark, Reporting
<1>7. CASE Settle(t) BY <1>1, <1>7 DEF Settle, Reporting
<1> QED BY <1>2, <1>3, <1>4, <1>5, <1>6, <1>7 DEF Report

(* The end of an attached wait: the owner is told what it claimed. *)
LEMMA DetachEffect ==
    ASSUME TypeOK, Detach
    PROVE  /\ owner \in {"settling", "expired", "interrupted"} /\ focus \in Tasks
           /\ owner' \in {"boundary", "idle", "ending"} /\ focus' = NoTask
           /\ outcome' \in {outcome, "aborted"}
           /\ attachedTo' = attachedTo \ {focus}
           /\ focus \in claimed => told' = [told EXCEPT ![focus] = @ + 1]
           /\ focus \notin claimed => told' = told
           /\ UNCHANGED <<status, mode, number, claimed, queued, report>>
<1>1. owner \in {"settling", "expired", "interrupted"} /\ owner' \in {"boundary", "idle", "ending"}
  BY DEF Detach, Interrupted
<1>2. focus \in Tasks BY <1>1 DEF TypeOK
<1>3. outcome' \in {outcome, "aborted"}
  BY DEF Detach, Ends
<1>4. /\ focus \in claimed => told' = [told EXCEPT ![focus] = @ + 1]
      /\ focus \notin claimed => told' = told
  BY DEF Detach, Tell
<1> QED BY <1>1, <1>2, <1>3, <1>4 DEF Detach

(* What the owner does with its foreground tasks and its attached waits. *)
LEMMA WaitsDeliver ==
    ASSUME TypeOK, DeliveryInv,
           \/ LookUp \/ FinishInline \/ YieldWait \/ Promote \/ InterruptWait
           \/ Attach \/ SeeEnd \/ TimeOut \/ CancelWait \/ Detach
    PROVE  DeliveryInv'
<1> SUFFICES ASSUME NEW u \in Tasks PROVE Delivered(u)' BY DEF DeliveryInv
<1>1. Delivered(u) /\ (focus \in Tasks => Delivered(focus)) BY DEF DeliveryInv
<1> USE DEF TypeOK, Delivered, ReportFollowsEnd, NotYetPushed, ClaimReplacesPush, FocusIsUntold
<1>2. CASE FinishInline BY <1>1, <1>2 DEF FinishInline, Tell
<1>3. CASE LookUp \/ YieldWait BY <1>1, <1>3 DEF LookUp, YieldWait
<1>4. CASE Promote
  <2>1. focus \in Tasks BY <1>4 DEF Promote
  <2>2. CASE Promotes(focus) BY <1>1, <1>4, <2>1, <2>2 DEF Promote, Promotes
  <2>3. CASE ~Promotes(focus)
    <3>1. told' = [told EXCEPT ![focus] = @ + 1] BY <1>4, <2>3 DEF Promote, Tell
    <3> QED BY <1>1, <1>4, <2>1, <2>3, <3>1 DEF Promote, Promotes
  <2> QED BY <2>2, <2>3
<1>5. CASE InterruptWait BY <1>1, <1>5 DEF InterruptWait, Interrupted
<1>6. CASE Attach BY <1>1, <1>6 DEF Attach
<1>7. CASE SeeEnd BY <1>1, <1>7 DEF SeeEnd
<1>8. CASE TimeOut BY <1>1, <1>8 DEF TimeOut
<1>9. CASE CancelWait BY <1>1, <1>9 DEF CancelWait
<1>10. CASE Detach
  <2>1. /\ owner \in {"settling", "expired", "interrupted"} /\ focus \in Tasks
        /\ owner' \in {"boundary", "idle", "ending"} /\ focus' = NoTask
        /\ attachedTo' = attachedTo \ {focus}
        /\ UNCHANGED <<status, mode, number, claimed, queued, report>>
    BY <1>10, DetachEffect
  <2>2. CASE focus \in claimed
    <3>1. told' = [told EXCEPT ![focus] = @ + 1] BY <1>10, <2>2, DetachEffect
    <3>2. CASE u = focus BY <1>1, <2>1, <2>2, <3>1, <3>2
    <3>3. CASE u # focus BY <1>1, <2>1, <3>1, <3>3
    <3> QED BY <3>2, <3>3
  <2>3. CASE focus \notin claimed
    <3>1. told' = told BY <1>10, <2>3, DetachEffect
    <3> QED BY <1>1, <2>1, <3>1
  <2> QED BY <2>2, <2>3
<1> QED BY <1>2, <1>3, <1>4, <1>5, <1>6, <1>7, <1>8, <1>9, <1>10

(* The rest of the loop, the operator and the agents that remove a task. *)
LEMMA LoopDelivers ==
    ASSUME TypeOK, DeliveryInv,
           \/ Recall \/ OtherCall \/ Drain \/ NaturalStop \/ StartTurn \/ CheckInbox \/ CountChildren \/ FallAsleep
           \/ Recheck \/ Unpark \/ Deadline \/ Abort \/ Prompt \/ StopDescendants
           \/ \E t \in Tasks : Start(t) \/ Wait(t) \/ StopTask(t) \/ OperatorStop(t) \/ Remove(t)
    PROVE  DeliveryInv'
<1> SUFFICES ASSUME NEW u \in Tasks PROVE Delivered(u)' BY DEF DeliveryInv
<1>1. Delivered(u) BY DEF DeliveryInv
<1> USE DEF TypeOK, Delivered, ReportFollowsEnd, NotYetPushed, ClaimReplacesPush, FocusIsUntold
<1>2. CASE Recall \/ OtherCall BY <1>1, <1>2 DEF Recall, OtherCall
<1>3. CASE Drain BY <1>1, <1>3 DEF Drain
<1>4. CASE NaturalStop \/ StartTurn \/ Prompt BY <1>1, <1>4 DEF NaturalStop, StartTurn, Prompt
<1>5. CASE CheckInbox \/ CountChildren \/ FallAsleep \/ Recheck
  BY <1>1, <1>5 DEF CheckInbox, CountChildren, FallAsleep, Recheck
<1>6. CASE Unpark \/ Deadline \/ Abort \/ StopDescendants
  BY <1>1, <1>6 DEF Unpark, Deadline, Abort, StopDescendants, Interrupted
<1>7. ASSUME NEW t \in Tasks, Start(t) PROVE Delivered(u)'
  <2>1. Cardinality(Registered) + 1 > 0
    <3>1. IsFiniteSet(Registered) BY TaskAssumption, FS_Subset DEF Registered
    <3> QED BY <3>1, FS_CardinalityType
  <2>2. Delivered(t) BY DEF DeliveryInv
  <2>3. /\ number[t] = 0 /\ number' = [number EXCEPT ![t] = Cardinality(Registered) + 1]
        /\ status' = [status EXCEPT ![t] = "running"]
        /\ mode' = [mode EXCEPT ![t] = IF t \in Shells THEN "foreground" ELSE "background"]
        /\ owner = "working" /\ owner' \in {"starting", "boundary"}
        /\ focus' \in {t, NoTask} /\ (owner' = "starting" => t \in Shells)
        /\ UNCHANGED <<claimed, attachedTo, queued, report, told>>
    BY <1>7 DEF Start
  <2>4. CASE u = t BY <1>1, <2>1, <2>3, <2>4
  <2>5. CASE u # t BY <1>1, <2>3, <2>5, TaskAssumption
  <2> QED BY <2>4, <2>5
<1>8. ASSUME NEW t \in Tasks, Wait(t) PROVE Delivered(u)'
  <2>1. Delivered(t) BY DEF DeliveryInv
  <2> QED BY <1>1, <1>8, <2>1 DEF Wait
<1>9. ASSUME NEW t \in Tasks, StopTask(t) \/ OperatorStop(t) \/ Remove(t) PROVE Delivered(u)'
  BY <1>1, <1>9, ZenonT(60) DEF StopTask, OperatorStop, Remove
<1> QED BY <1>2, <1>3, <1>4, <1>5, <1>6, <1>7, <1>8, <1>9

-----------------------------------------------------------------------------
(* Type correctness, step by step. *)

LEMMA OutboxStaysBounded ==
    ASSUME NEW t \in Tasks, outbox \in Seq(Tasks), Len(outbox) <= OutboxCapacity
    PROVE  OutboxWith(t) \in Seq(Tasks) /\ Len(OutboxWith(t)) <= OutboxCapacity
<1>1. CASE Len(outbox) >= OutboxCapacity
  <2>1. outbox # <<>> BY <1>1, LimitAssumption
  <2>2. Tail(outbox) \in Seq(Tasks) /\ Len(Tail(outbox)) = Len(outbox) - 1
    BY <2>1
  <2> QED BY <1>1, <2>2, LimitAssumption DEF OutboxWith
<1>2. CASE ~(Len(outbox) >= OutboxCapacity)
  BY <1>2, LimitAssumption DEF OutboxWith
<1> QED BY <1>1, <1>2

LEMMA ReportTyped ==
    ASSUME TypeOK, NEW t \in Tasks, End(t) \/ Report(t)
    PROVE  TypeOK'
<1> USE ReportOrder
<1>1. CASE End(t)
  <2>1. PICK end \in Terminal : status' = [status EXCEPT ![t] = end]
    BY <1>1 DEF End
  <2> QED BY <1>1, <2>1 DEF End, TypeOK
<1>2. CASE Enqueue(t)
  <2>1. outbox' \in Seq(Tasks) /\ Len(outbox') <= OutboxCapacity
    BY <1>2, OutboxStaysBounded DEF Enqueue, TypeOK
  <2>2. registry' \subseteq Tasks
    BY <1>2 DEF Enqueue, Kept, TypeOK
  <2>3. report' \in [Tasks -> {"none", "done"} \cup Steps]
    BY <1>2 DEF Enqueue, Reporting, TypeOK
  <2> QED BY <1>2, <2>1, <2>2, <2>3 DEF Enqueue, TypeOK
<1>3. CASE Claim(t) BY <1>3 DEF Claim, Reporting, TypeOK
<1>4. CASE Push(t)
  <2>1. queued' \in [Tasks -> Nat]
    <3>1. CASE Applies(t) /\ Accepts(t)
      <4>1. queued' = [queued EXCEPT ![t] = @ + 1] BY <1>4, <3>1 DEF Push
      <4> QED BY <4>1 DEF TypeOK
    <3>2. CASE ~(Applies(t) /\ Accepts(t)) BY <1>4, <3>2 DEF Push, TypeOK
    <3> QED BY <3>1, <3>2
  <2>2. report' \in [Tasks -> {"none", "done"} \cup Steps]
    BY <1>4 DEF Push, Reporting, TypeOK
  <2> QED BY <1>4, <2>1, <2>2 DEF Push, TypeOK
<1>5. CASE Mark(t) BY <1>5 DEF Mark, Reporting, TypeOK
<1>6. CASE Settle(t)
  <2>1. registry' \subseteq Tasks
    BY <1>6 DEF Settle, Kept, TypeOK
  <2> QED BY <1>6, <2>1 DEF Settle, Reporting, TypeOK
<1> QED BY <1>1, <1>2, <1>3, <1>4, <1>5, <1>6 DEF Report

LEMMA WaitsTyped ==
    ASSUME TypeOK,
           \/ LookUp \/ FinishInline \/ YieldWait \/ Promote \/ InterruptWait
           \/ Attach \/ SeeEnd \/ TimeOut \/ CancelWait \/ Detach
    PROVE  TypeOK'
<1> USE PolicyAssumption DEF TypeOK
<1>1. CASE FinishInline
  <2>1. told' \in [Tasks -> Nat] BY <1>1 DEF FinishInline, Tell
  <2> QED BY <1>1, <2>1 DEF FinishInline
<1>2. CASE LookUp \/ YieldWait
  <2>1. owner' \in {"awaiting", "boundary", "promoting"} /\ (owner' # "boundary" => focus' = focus)
    BY <1>2 DEF LookUp, YieldWait
  <2>2. focus' \in Tasks \cup {NoTask} /\ (owner' # "boundary" => focus' \in Tasks)
    BY <1>2, <2>1 DEF LookUp, YieldWait
  <2> QED BY <1>2, <2>1, <2>2 DEF LookUp, YieldWait
<1>3. CASE Promote
  <2>1. focus \in Tasks BY <1>3 DEF Promote
  <2>2. CASE Promotes(focus) BY <1>3, <2>1, <2>2 DEF Promote
  <2>3. CASE ~Promotes(focus)
    <3>1. told' = [told EXCEPT ![focus] = @ + 1] BY <1>3, <2>3 DEF Promote, Tell
    <3>2. told' \in [Tasks -> Nat] BY <2>1, <3>1
    <3> QED BY <1>3, <2>3, <3>2 DEF Promote
  <2> QED BY <2>2, <2>3
<1>4. CASE InterruptWait
  <2>1. cancelled' \subseteq Tasks /\ operatorStop' \subseteq cancelled'
    BY <1>4 DEF InterruptWait
  <2>2. owner' \in {"idle", "ending"} /\ outcome' \in {outcome, "aborted"}
    BY <1>4 DEF InterruptWait, Interrupted, Ends
  <2> QED BY <1>4, <2>1, <2>2 DEF InterruptWait
<1>5. CASE Attach BY <1>5 DEF Attach
<1>6. CASE SeeEnd BY <1>6 DEF SeeEnd
<1>7. CASE TimeOut BY <1>7 DEF TimeOut
<1>8. CASE CancelWait BY <1>8 DEF CancelWait
<1>9. CASE Detach
  <2>1. told' \in [Tasks -> Nat]
    <3>1. CASE focus \in claimed
      <4>1. told' = [told EXCEPT ![focus] = @ + 1] BY <1>9, <3>1, DetachEffect
      <4>2. focus \in Tasks BY <1>9, DetachEffect
      <4> QED BY <4>1, <4>2
    <3>2. CASE focus \notin claimed BY <1>9, <3>2, DetachEffect
    <3> QED BY <3>1, <3>2
  <2>2. promised' \subseteq Tasks BY <1>9, DetachEffect DEF Detach
  <2> QED BY <1>9, <2>1, <2>2, DetachEffect DEF Detach
<1> QED BY <1>1, <1>2, <1>3, <1>4, <1>5, <1>6, <1>7, <1>8, <1>9

LEMMA LoopTyped ==
    ASSUME TypeOK,
           \/ Recall \/ OtherCall \/ Drain \/ NaturalStop \/ StartTurn \/ CheckInbox \/ CountChildren \/ FallAsleep
           \/ Recheck \/ Unpark \/ Deadline \/ Abort \/ Prompt \/ StopDescendants
           \/ \E t \in Tasks : Start(t) \/ Wait(t) \/ StopTask(t) \/ OperatorStop(t) \/ Remove(t)
    PROVE  TypeOK'
<1> USE DEF TypeOK
<1>1. CASE Recall
  <2>1. PICK returned : recalled' = [t \in Tasks |-> recalled[t] + (IF t \in returned THEN 1 ELSE 0)]
    BY <1>1 DEF Recall
  <2>3. recalled' \in [Tasks -> Nat] BY <2>1
  <2>2. outbox' \in Seq(Tasks) /\ Len(outbox') <= OutboxCapacity
    BY <1>1, LimitAssumption DEF Recall
  <2> QED BY <1>1, <2>2, <2>3 DEF Recall
<1>2. CASE OtherCall \/ Drain
  <2>1. CASE OtherCall BY <2>1 DEF OtherCall
  <2>2. CASE Drain BY <2>2 DEF Drain
  <2> QED BY <1>2, <2>1, <2>2
<1>3. CASE NaturalStop \/ StartTurn \/ Prompt BY <1>3 DEF NaturalStop, StartTurn, Prompt
<1>4. CASE CheckInbox \/ CountChildren \/ FallAsleep \/ Recheck
  BY <1>4 DEF CheckInbox, CountChildren, FallAsleep, Recheck, WakeSinceCheck
<1>5. CASE Unpark \/ Deadline \/ StopDescendants
  BY <1>5 DEF Unpark, Deadline, StopDescendants
<1>11. CASE Abort
  <2>1. owner' \in {"idle", "ending"} /\ outcome' \in {outcome, "aborted"}
    BY <1>11 DEF Abort, Interrupted, Ends
  <2> QED BY <1>11, <2>1 DEF Abort
<1>6. ASSUME NEW t \in Tasks, Start(t) PROVE TypeOK'
  <2>1. Cardinality(Registered) \in Nat
    <3>1. IsFiniteSet(Registered) BY TaskAssumption, FS_Subset DEF Registered
    <3> QED BY <3>1, FS_CardinalityType
  <2>2. number' \in [Tasks -> Nat] BY <1>6, <2>1 DEF Start
  <2>3. /\ status' \in [Tasks -> {"none", "running"} \cup Terminal]
        /\ mode' \in [Tasks -> {"foreground", "background"}]
    BY <1>6 DEF Start
  <2>4. owner' \in {"starting", "boundary"} /\ (owner' = "starting" => focus' \in Tasks)
    BY <1>6 DEF Start
  <2>5. focus' \in Tasks \cup {NoTask} /\ registry' \subseteq Tasks
    BY <1>6 DEF Start
  <2> QED BY <1>6, <2>2, <2>3, <2>4, <2>5 DEF Start
<1>7. ASSUME NEW t \in Tasks, Wait(t) PROVE TypeOK'
  BY <1>7 DEF Wait
<1>8. ASSUME NEW t \in Tasks, StopTask(t) PROVE TypeOK'
  BY <1>8 DEF StopTask
<1>9. ASSUME NEW t \in Tasks, OperatorStop(t) PROVE TypeOK'
  BY <1>9 DEF OperatorStop
<1>10. ASSUME NEW t \in Tasks, Remove(t) PROVE TypeOK'
  BY <1>10, SMTT(30) DEF Remove
<1> QED BY <1>1, <1>2, <1>3, <1>4, <1>5, <1>6, <1>7, <1>8, <1>9, <1>10, <1>11

-----------------------------------------------------------------------------

LEMMA InitHolds == Init => TypeOK /\ DeliveryInv
<1> SUFFICES ASSUME Init PROVE TypeOK /\ DeliveryInv
  OBVIOUS
<1>1. TypeOK
  <2>1. outbox \in Seq(Tasks) /\ Len(outbox) <= OutboxCapacity
    BY LimitAssumption DEF Init
  <2>2. wake \in BOOLEAN /\ finishing \in BOOLEAN
    BY DEF Init
  <2> QED BY <2>1, <2>2 DEF Init, TypeOK
<1>2. DeliveryInv
  BY DEF Init, DeliveryInv, Delivered, ReportFollowsEnd, NotYetPushed, ClaimReplacesPush, FocusIsUntold
<1> QED BY <1>1, <1>2

LEMMA StepHolds == TypeOK /\ DeliveryInv /\ [Next]_vars => TypeOK' /\ DeliveryInv'
<1> SUFFICES ASSUME TypeOK, DeliveryInv, [Next]_vars PROVE TypeOK' /\ DeliveryInv'
  OBVIOUS
<1>1. CASE UNCHANGED vars
  BY <1>1 DEF vars, TypeOK, DeliveryInv, Delivered, ReportFollowsEnd, NotYetPushed,
              ClaimReplacesPush, FocusIsUntold
<1>2. CASE Next
  BY <1>2, ReportTyped, WaitsTyped, LoopTyped, ReportDelivers, WaitsDeliver, LoopDelivers
     DEF Next, Loop
<1> QED BY <1>1, <1>2

LEMMA InvariantHolds == Spec => [](TypeOK /\ DeliveryInv)
  BY InitHolds, StepHolds, PTL DEF Spec

(* The values of the registry, the tasks and the loop keep their types. *)
THEOREM TypeCorrect == Spec => []TypeOK
  BY InvariantHolds, PTL

(* Whatever the interleaving of a task's report with the waits and drains  *)
(* of its owner, and whatever stops, removals, deadlines and interruptions *)
(* happen, the owner is given each completion at most once.                *)
THEOREM AtMostOnce == Spec => []ToldAtMostOnce
<1>1. DeliveryInv => ToldAtMostOnce
  BY DEF DeliveryInv, Delivered, ToldAtMostOnce
<1> QED BY <1>1, InvariantHolds, PTL

-----------------------------------------------------------------------------
(* Parking loses no wake-up, whoever owns the tasks and whoever removes    *)
(* them.                                                                   *)

OnlyRegistered == registry \subseteq Registered

ParkInv == OnlyRegistered /\ ParkedIsWoken

LEMMA RegisteredFinite == IsFiniteSet(Registered) /\ Cardinality(Registered) \in Nat
<1>1. IsFiniteSet(Registered) BY TaskAssumption, FS_Subset DEF Registered
<1> QED BY <1>1, FS_CardinalityType

(* The count finds a live task, so not all of them have settled yet.       *)
LEMMA CountedSomething == ASSUME OnlyRegistered, LiveChildren # {} PROVE ~(Registered \subseteq settled)
BY DEF OnlyRegistered, LiveChildren

LEMMA ParkStepHolds ==
    ASSUME TypeOK, ParkInv, [Next]_vars
    PROVE  ParkInv'
<1> USE DEF ParkInv, OnlyRegistered, ParkedIsWoken, Registered
<1>1. CASE UNCHANGED vars BY <1>1 DEF vars
<1>2. ASSUME NEW t \in Tasks, End(t) \/ OperatorStop(t) \/ Remove(t) PROVE ParkInv'
  BY <1>2 DEF End, OperatorStop, Remove
<1>3. ASSUME NEW t \in Tasks, Report(t) PROVE ParkInv'
  <2>1. CASE Settle(t) BY <2>1, <1>3 DEF Settle, Reporting, Kept, TypeOK
  <2>2. CASE Enqueue(t) \/ Claim(t) \/ Push(t) \/ Mark(t)
    <3>1. CASE Enqueue(t) BY <3>1 DEF Enqueue, Kept
    <3>2. CASE Claim(t) BY <3>2 DEF Claim
    <3>3. CASE Push(t) BY <3>3 DEF Push
    <3>4. CASE Mark(t) BY <3>4 DEF Mark
    <3> QED BY <2>2, <3>1, <3>2, <3>3, <3>4
  <2> QED BY <1>3, <2>1, <2>2 DEF Report
<1>4. CASE LookUp \/ FinishInline \/ YieldWait \/ Promote \/ Attach \/ SeeEnd \/ TimeOut \/ Detach
           \/ InterruptWait \/ CancelWait
  BY <1>4 DEF LookUp, FinishInline, YieldWait, Promote, Attach, SeeEnd, TimeOut, Detach,
              InterruptWait, CancelWait, Interrupted
<1>5. CASE Recall \/ OtherCall \/ Drain \/ NaturalStop \/ StartTurn \/ Recheck \/ Unpark \/ Deadline
           \/ Abort \/ Prompt \/ StopDescendants
  BY <1>5 DEF Recall, OtherCall, Drain, NaturalStop, StartTurn, Recheck, Unpark, Deadline, Abort, Prompt,
              StopDescendants, Interrupted
<1>6. CASE CheckInbox BY <1>6 DEF CheckInbox
<1>7. CASE CountChildren BY <1>7, CountedSomething DEF CountChildren
<1>8. CASE FallAsleep BY <1>8 DEF FallAsleep, WakeSinceCheck
<1>9. ASSUME NEW t \in Tasks, Start(t) PROVE ParkInv'
  <2>1. number'[t] > 0
    <3>1. Cardinality(Registered) \in Nat BY RegisteredFinite
    <3>2. number' = [number EXCEPT ![t] = Cardinality(Registered) + 1] BY <1>9 DEF Start
    <3> HIDE DEF Registered
    <3> QED BY <3>1, <3>2 DEF TypeOK
  <2>2. owner' \notin {"counted", "parked"} BY <1>9 DEF Start
  <2>3. registry' = registry \cup {t} /\ \A u \in Tasks : number[u] > 0 => number'[u] > 0
    BY <1>9 DEF Start, TypeOK
  <2> QED BY <2>1, <2>2, <2>3
<1>10. ASSUME NEW t \in Tasks, Wait(t) \/ StopTask(t) PROVE ParkInv'
  BY <1>10 DEF Wait, StopTask
<1> QED BY <1>1, <1>2, <1>3, <1>4, <1>5, <1>6, <1>7, <1>8, <1>9, <1>10 DEF Next, Loop

(* A parking owner all of whose tasks have settled is woken, also when     *)
(* another agent removes one of them.                                      *)
THEOREM ParkingIsWoken == Spec => []ParkedIsWoken
<1>1. Init => TypeOK /\ ParkInv
  BY InitHolds DEF Init, ParkInv, OnlyRegistered, ParkedIsWoken, Registered
<1>2. TypeOK /\ DeliveryInv /\ ParkInv /\ [Next]_vars => ParkInv' BY ParkStepHolds
<1> QED BY <1>1, <1>2, InvariantHolds, PTL DEF Spec, ParkInv

-----------------------------------------------------------------------------
(* Recall: what the outbox holds, and what the owner was told of before.   *)

InOutbox(t) == \E i \in DOMAIN outbox : outbox[i] = t

(* The outbox holds background tasks whose report has begun; a background  *)
(* completion that was told or queued is marked, or was claimed.           *)
RecallKnows(t) ==
    /\ InOutbox(t) => mode[t] = "background" /\ report[t] \notin {"none", "outbox"}
    /\ told[t] + queued[t] > 0 /\ mode[t] = "background" =>
          t \in pushed \cup claimed \/ report[t] = "mark"

RecallInv == \A t \in Tasks : RecallKnows(t)

LEMMA OutboxGainsOne ==
    ASSUME TypeOK, NEW t \in Tasks, NEW i \in DOMAIN OutboxWith(t)
    PROVE  OutboxWith(t)[i] = t \/ InOutbox(OutboxWith(t)[i])
<1> DEFINE base == IF Len(outbox) >= OutboxCapacity THEN Tail(outbox) ELSE outbox
<1>1. outbox \in Seq(Tasks) BY DEF TypeOK
<1>2. base \in Seq(Tasks) /\ \A k \in DOMAIN base : \E j \in DOMAIN outbox : outbox[j] = base[k]
  <2>1. CASE Len(outbox) >= OutboxCapacity
    <3>1. outbox # <<>> BY <2>1, LimitAssumption
    <3>2. /\ Tail(outbox) \in Seq(Tasks)
          /\ \A k \in DOMAIN Tail(outbox) : k + 1 \in DOMAIN outbox /\ Tail(outbox)[k] = outbox[k + 1]
      BY <1>1, <3>1
    <3> QED BY <2>1, <3>2
  <2>2. CASE ~(Len(outbox) >= OutboxCapacity) BY <1>1, <2>2
  <2> QED BY <2>1, <2>2
<1>3. OutboxWith(t) = Append(base, t) BY DEF OutboxWith
<1> HIDE DEF base
<1>4. (i \in DOMAIN base /\ OutboxWith(t)[i] = base[i]) \/ OutboxWith(t)[i] = t
  BY <1>2, <1>3
<1> QED BY <1>2, <1>4 DEF InOutbox

\* A task's end and its report.
LEMMA ReportRecalls ==
    ASSUME TypeOK, DeliveryInv, RecallInv, NEW t \in Tasks, End(t) \/ Report(t)
    PROVE  RecallInv'
<1> SUFFICES ASSUME NEW u \in Tasks PROVE RecallKnows(u)' BY DEF RecallInv
<1>1. Delivered(u) /\ RecallKnows(u) BY DEF DeliveryInv, RecallInv
<1> USE ReportOrder DEF TypeOK, RecallKnows
<1>2. CASE End(t)
  <2>1. /\ status[t] = "running" /\ report' = [report EXCEPT ![t] = "outbox"]
        /\ UNCHANGED <<mode, claimed, pushed, outbox, queued, told>>
    BY <1>2 DEF End
  <2>2. report[t] = "none" BY <2>1 DEF DeliveryInv, Delivered, ReportFollowsEnd
  <2>3. InOutbox(u)' <=> InOutbox(u) BY <2>1 DEF InOutbox
  <2> QED BY <1>1, <2>1, <2>2, <2>3
<1>3. CASE Enqueue(t)
  <2>1. /\ report[t] = "outbox" /\ report' = [report EXCEPT ![t] = "claim"]
        /\ outbox' = IF mode[t] = "background" THEN OutboxWith(t) ELSE outbox
        /\ UNCHANGED <<mode, claimed, pushed, queued, told>>
    BY <1>3 DEF Enqueue, Reporting
  <2>2. InOutbox(u)' => InOutbox(u) \/ (u = t /\ mode[t] = "background")
    BY <2>1, OutboxGainsOne DEF InOutbox
  <2> QED BY <1>1, <2>1, <2>2
<1>4. CASE Claim(t)
  <2>1. /\ report[t] = "claim" /\ report' = [report EXCEPT ![t] = "push"]
        /\ claimed \subseteq claimed'
        /\ UNCHANGED <<mode, outbox, pushed, queued, told>>
    BY <1>4 DEF Claim, Reporting
  <2>2. InOutbox(u)' <=> InOutbox(u) BY <2>1 DEF InOutbox
  <2> QED BY <1>1, <2>1, <2>2
<1>5. CASE Push(t)
  <2>1. /\ report[t] = "push" /\ UNCHANGED <<mode, claimed, pushed, outbox, told>>
        /\ \/ report' = [report EXCEPT ![t] = "mark"] /\ queued' = [queued EXCEPT ![t] = @ + 1]
           \/ report' = [report EXCEPT ![t] = "settle"] /\ queued' = queued
    BY <1>5 DEF Push, Reporting
  <2>2. InOutbox(u)' <=> InOutbox(u) BY <2>1 DEF InOutbox
  <2> QED BY <1>1, <2>1, <2>2
<1>6. CASE Mark(t)
  <2>1. /\ report[t] = "mark" /\ report' = [report EXCEPT ![t] = "settle"]
        /\ pushed' = pushed \cup {t}
        /\ UNCHANGED <<mode, claimed, outbox, queued, told>>
    BY <1>6 DEF Mark, Reporting
  <2>2. InOutbox(u)' <=> InOutbox(u) BY <2>1 DEF InOutbox
  <2> QED BY <1>1, <2>1, <2>2
<1>7. CASE Settle(t)
  <2>1. /\ report[t] = "settle" /\ report' = [report EXCEPT ![t] = "done"]
        /\ UNCHANGED <<mode, claimed, pushed, outbox, queued, told>>
    BY <1>7 DEF Settle, Reporting
  <2>2. InOutbox(u)' <=> InOutbox(u) BY <2>1 DEF InOutbox
  <2> QED BY <1>1, <2>1, <2>2
<1> QED BY <1>2, <1>3, <1>4, <1>5, <1>6, <1>7 DEF Report

\* What is told by a wait is a foreground task, or was claimed.
LEMMA WaitsRecall ==
    ASSUME TypeOK, DeliveryInv, RecallInv,
           \/ LookUp \/ FinishInline \/ YieldWait \/ Promote \/ InterruptWait
           \/ Attach \/ SeeEnd \/ TimeOut \/ CancelWait \/ Detach
    PROVE  RecallInv'
<1> SUFFICES ASSUME NEW u \in Tasks PROVE RecallKnows(u)' BY DEF RecallInv
<1>1. Delivered(u) /\ RecallKnows(u) BY DEF DeliveryInv, RecallInv
<1>2. UNCHANGED <<outbox, claimed, pushed, report, queued>>
  BY DEF LookUp, FinishInline, YieldWait, Promote, InterruptWait, Attach, SeeEnd, TimeOut, CancelWait, Detach
<1>3. InOutbox(u)' <=> InOutbox(u) BY <1>2 DEF InOutbox
<1> USE DEF TypeOK, RecallKnows
<1>4. CASE FinishInline
  <2>1. /\ focus \in Tasks /\ owner \in Waits
        /\ told' = [told EXCEPT ![focus] = @ + 1] /\ mode' = mode
    BY <1>4 DEF FinishInline, Tell
  <2>2. mode[focus] = "foreground"
    BY <2>1 DEF DeliveryInv, Delivered, FocusIsUntold
  <2> QED BY <1>1, <1>2, <1>3, <2>1, <2>2
<1>5. CASE Promote
  <2>1. focus \in Tasks /\ owner \in Waits BY <1>5 DEF Promote
  <2>2. mode[focus] = "foreground" /\ told[focus] = 0 /\ queued[focus] = 0
    <3>1. Delivered(focus) BY <2>1 DEF DeliveryInv
    <3>2. mode[focus] = "foreground" /\ told[focus] = 0
      BY <2>1, <3>1 DEF Delivered, FocusIsUntold
    <3>3. queued[focus] \in Nat /\ ~(queued[focus] > 0)
      BY <2>1, <3>1, <3>2 DEF Delivered, ClaimReplacesPush
    <3> QED BY <3>2, <3>3
  <2>3. CASE Promotes(focus)
    <3>1. mode' = [mode EXCEPT ![focus] = "background"] /\ told' = told
      BY <1>5, <2>3 DEF Promote
    <3>2. report[focus] = "none"
      <4>1. status[focus] \notin Terminal BY <2>3 DEF Promotes
      <4> QED BY <2>1, <4>1 DEF DeliveryInv, Delivered, ReportFollowsEnd
    <3>3. ~InOutbox(focus)
      BY <2>1, <3>2 DEF RecallInv
    <3>4. CASE u = focus BY <1>2, <1>3, <2>2, <3>1, <3>3, <3>4
    <3>5. CASE u # focus BY <1>1, <1>2, <1>3, <3>1, <3>5
    <3> QED BY <3>4, <3>5
  <2>4. CASE ~Promotes(focus)
    <3>1. told' = [told EXCEPT ![focus] = @ + 1] /\ mode' = mode
      BY <1>5, <2>4 DEF Promote, Tell
    <3> QED BY <1>1, <1>2, <1>3, <2>1, <2>2, <3>1
  <2> QED BY <2>3, <2>4
<1>6. CASE Detach
  <2>1. /\ focus \in Tasks /\ mode' = mode
        /\ focus \in claimed => told' = [told EXCEPT ![focus] = @ + 1]
        /\ focus \notin claimed => told' = told
    BY <1>6, DetachEffect
  <2> QED BY <1>1, <1>2, <1>3, <2>1
<1>7. CASE LookUp \/ YieldWait \/ InterruptWait \/ Attach \/ SeeEnd \/ TimeOut \/ CancelWait
  <2>1. UNCHANGED <<told, mode>>
    BY <1>7 DEF LookUp, YieldWait, InterruptWait, Attach, SeeEnd, TimeOut, CancelWait
  <2> QED BY <1>1, <1>2, <1>3, <2>1
<1> QED BY <1>4, <1>5, <1>6, <1>7

\* The rest of the loop.
LEMMA LoopRecalls ==
    ASSUME TypeOK, DeliveryInv, RecallInv,
           \/ Recall \/ OtherCall \/ Drain \/ NaturalStop \/ StartTurn \/ CheckInbox \/ CountChildren \/ FallAsleep
           \/ Recheck \/ Unpark \/ Deadline \/ Abort \/ Prompt \/ StopDescendants
           \/ \E t \in Tasks : Start(t) \/ Wait(t) \/ StopTask(t) \/ OperatorStop(t) \/ Remove(t)
    PROVE  RecallInv'
<1> SUFFICES ASSUME NEW u \in Tasks PROVE RecallKnows(u)' BY DEF RecallInv
<1>1. Delivered(u) /\ RecallKnows(u) BY DEF DeliveryInv, RecallInv
<1> USE DEF TypeOK, RecallKnows
<1>2. CASE Recall
  <2>1. outbox' = <<>> /\ UNCHANGED <<mode, claimed, pushed, report, queued, told>>
    BY <1>2 DEF Recall
  <2>2. ~InOutbox(u)' BY <2>1 DEF InOutbox
  <2> QED BY <1>1, <2>1, <2>2
<1>3. CASE Drain
  <2>1. /\ told' = [t \in Tasks |-> told[t] + queued[t]] /\ queued' = [t \in Tasks |-> 0]
        /\ UNCHANGED <<mode, claimed, pushed, report, outbox>>
    BY <1>3 DEF Drain
  <2>2. InOutbox(u)' <=> InOutbox(u) BY <2>1 DEF InOutbox
  <2> QED BY <1>1, <2>1, <2>2
<1>4. ASSUME NEW t \in Tasks, Start(t) PROVE RecallKnows(u)'
  <2>1. /\ number[t] = 0 /\ \E m \in {"foreground", "background"} : mode' = [mode EXCEPT ![t] = m]
        /\ UNCHANGED <<claimed, pushed, report, outbox, queued, told>>
    BY <1>4 DEF Start
  <2>2. InOutbox(u)' <=> InOutbox(u) BY <2>1 DEF InOutbox
  <2>3. CASE u = t
    <3>1. report[u] = "none" BY <1>1, <2>1, <2>3 DEF Delivered, ReportFollowsEnd
    <3>2. told[u] = 0 /\ queued[u] = 0 BY <1>1, <3>1 DEF Delivered, NotYetPushed
    <3> QED BY <1>1, <2>1, <2>2, <3>1, <3>2
  <2>4. CASE u # t BY <1>1, <2>1, <2>2, <2>4
  <2> QED BY <2>3, <2>4
<1>5. ASSUME UNCHANGED <<mode, claimed, pushed, report, outbox, queued, told>> PROVE RecallKnows(u)'
  <2>1. InOutbox(u)' <=> InOutbox(u) BY <1>5 DEF InOutbox
  <2> QED BY <1>1, <1>5, <2>1
<1>6. CASE OtherCall \/ NaturalStop \/ StartTurn \/ CheckInbox \/ CountChildren \/ FallAsleep
           \/ Recheck \/ Unpark \/ Deadline \/ Abort \/ Prompt \/ StopDescendants
  BY <1>5, <1>6 DEF OtherCall, NaturalStop, StartTurn, CheckInbox, CountChildren, FallAsleep,
     Recheck, Unpark, Deadline, Abort, Prompt, StopDescendants
<1>7. ASSUME NEW t \in Tasks, Wait(t) \/ StopTask(t) \/ OperatorStop(t) \/ Remove(t) PROVE RecallKnows(u)'
  BY <1>5, <1>7 DEF Wait, StopTask, OperatorStop, Remove
<1> QED BY <1>2, <1>3, <1>4, <1>6, <1>7

LEMMA RecallHolds == Spec => [](TypeOK /\ DeliveryInv /\ RecallInv)
<1>1. Init => RecallInv
  BY DEF Init, RecallInv, RecallKnows, InOutbox
<1>2. ASSUME TypeOK, DeliveryInv, RecallInv, [Next]_vars PROVE RecallInv'
  <2>1. CASE UNCHANGED vars BY <1>2, <2>1 DEF vars, RecallInv, RecallKnows, InOutbox
  <2>2. CASE Next BY <1>2, <2>2, ReportRecalls, WaitsRecall, LoopRecalls DEF Next, Loop
  <2> QED BY <1>2, <2>1, <2>2
<1> QED BY <1>1, <1>2, InvariantHolds, PTL DEF Spec

\* Only task_recall counts a return.
LEMMA OnlyRecallReturns ==
    ASSUME [Next]_vars, ~Recall PROVE recalled' = recalled
<1>1. ASSUME NEW t \in Tasks, End(t) \/ Report(t) \/ OperatorStop(t) \/ Remove(t)
      PROVE  recalled' = recalled
  BY <1>1 DEF End, Report, Enqueue, Claim, Push, Mark, Settle, OperatorStop, Remove
<1>2. CASE Loop
  BY <1>2 DEF Loop, LookUp, FinishInline, YieldWait, Promote, Attach, SeeEnd, TimeOut, Detach,
     OtherCall, Drain, NaturalStop, StartTurn, CheckInbox, CountChildren, FallAsleep, Recheck,
     Unpark, StopDescendants, Wait, StopTask, Start
<1>3. CASE InterruptWait \/ CancelWait \/ Deadline \/ Abort \/ Prompt
  BY <1>3 DEF InterruptWait, CancelWait, Deadline, Abort, Prompt
<1>4. CASE UNCHANGED vars BY <1>4 DEF vars
<1> QED BY <1>1, <1>2, <1>3, <1>4 DEF Next

(* task_recall returns a completion the owner was told of before only when *)
(* the registry has forgotten the task, or between the push and its mark:  *)
(* for every set of tasks, owner and limit of the outbox.                  *)
THEOREM RecallsAreNews == Spec => RecallRepeatsOnlyForgotten
<1>1. ASSUME TypeOK, RecallInv, [Next]_vars,
             NEW t \in Tasks, recalled'[t] > recalled[t], told[t] > 0
      PROVE  t \notin registry \/ report[t] = "mark"
  <2>1. recalled[t] \in Nat /\ told[t] \in Nat /\ queued[t] \in Nat BY <1>1 DEF TypeOK
  <2>2. Recall BY <1>1, <2>1, OnlyRecallReturns
  <2>3. InOutbox(t) /\ Recalls(t) BY <1>1, <2>1, <2>2 DEF Recall, InOutbox
  <2>4. t \in pushed \cup claimed \/ report[t] = "mark"
    <3>1. told[t] + queued[t] > 0 BY <1>1, <2>1
    <3> QED BY <1>1, <2>3, <3>1 DEF RecallInv, RecallKnows
  <2> QED BY <2>3, <2>4 DEF Recalls
<1>2. TypeOK /\ DeliveryInv /\ RecallInv /\ [Next]_vars =>
        [\A t \in Tasks : recalled'[t] > recalled[t] /\ told[t] > 0
            => t \notin registry \/ report[t] = "mark"]_vars
  BY <1>1
<1> QED BY <1>2, RecallHolds, PTL DEF Spec, RecallRepeatsOnlyForgotten

-----------------------------------------------------------------------------
(* A subagent whose tasks nobody removes, under a registry that retains    *)
(* terminal tasks, is told of every task it started before it ends by      *)
(* itself, and TaskCompletions implements CompletionDelivery for it.       *)

USE DEF Waits, Attaches, Parking, Steps, Terminal, Ended, LoopAt, ParkStep, task, delivery, loop, ledger

Subagent == ~MainOwner /\ Removable = {} /\ MaxRetained > 0

(* The loop has ended exactly when its outcome is known. *)
OutcomeKnown == outcome = "none" <=> owner \notin {"ending", "gone"}

(* The end of a task is in the owner's hands. *)
InHands(t) ==
    \/ told[t] + queued[t] > 0
    \/ t \in claimed /\ t \in attachedTo
    \/ owner \in Waits /\ focus = t
    \/ mode[t] = "foreground" /\ outcome # "none"
    \/ owner = "gone"

(* A registered task is visible until it has settled and reported by then. *)
Accounted(t) ==
    /\ t \in claimed => told[t] > 0 \/ t \in attachedTo
    /\ number[t] > 0 /\ mode[t] = "foreground" => InHands(t)
    /\ report[t] \in {"mark", "settle", "done"} => InHands(t)
    /\ t \in settled => report[t] = "done"
    /\ number[t] > 0 /\ t \notin settled => t \in registry
    /\ number[t] > 0 /\ owner = "rechecking" => t \in settled
    /\ number[t] > 0 /\ outcome = "natural" => told[t] > 0

(* The task the owner is about to await is its latest. *)
Youngest ==
    owner = "starting" => focus \in registry /\ \A t \in Tasks \ {focus} : number[t] < number[focus]

Numbered == \A t \in Tasks : number[t] <= Cardinality(Registered)

AccountInv == OutcomeKnown /\ Youngest /\ Numbered /\ \A t \in Tasks : Accounted(t)

LEMMA InitAccounted == Init => AccountInv
<1> SUFFICES ASSUME Init PROVE AccountInv
  OBVIOUS
<1>1. OutcomeKnown /\ Youngest /\ \A t \in Tasks : Accounted(t)
  BY DEF Init, OutcomeKnown, Accounted, InHands, Youngest
<1>2. Numbered BY RegisteredFinite DEF Init, Numbered
<1> QED BY <1>1, <1>2 DEF AccountInv

(* A task that is not settled is never pruned. *)
LEMMA PruneKeepsUnsettled ==
    ASSUME NEW done, NEW u \in registry, u \notin done
    PROVE  u \in Kept(done)
  BY DEF Kept, Prunable

(* Nor is the latest task, as long as one terminal task is retained. *)
LEMMA PruneKeepsYoungest ==
    ASSUME NEW done, MaxRetained > 0, TypeOK, NEW u \in registry,
           \A t \in Tasks \ {u} : number[t] < number[u]
    PROVE  u \in Kept(done)
<1> DEFINE Younger == {t \in Prunable(done) : number[t] >= number[u]}
<1>1. number \in [Tasks -> Nat] /\ registry \subseteq Tasks BY DEF TypeOK
<1>2. \A t \in Younger : t = u BY <1>1 DEF Prunable
<1>3. Younger = {} \/ Younger = {u} BY <1>2
<1>4. Cardinality({}) = 0 /\ Cardinality({u}) = 1 BY FS_EmptySet, FS_Singleton
<1>5. ~(Cardinality(Younger) > MaxRetained)
  <2> HIDE DEF Younger
  <2>1. Cardinality(Younger) \in {0, 1} BY <1>3, <1>4
  <2> QED BY <2>1, LimitAssumption
<1> QED BY <1>5 DEF Kept

(* The order of registrations, where a step registers no task. *)
LEMMA NumbersStay ==
    ASSUME Numbered, UNCHANGED number
    PROVE  Numbered'
  BY DEF Numbered, Registered

LEMMA ReportAccounted ==
    ASSUME Subagent, TypeOK, DeliveryInv, AccountInv, NEW t \in Tasks, End(t) \/ Report(t)
    PROVE  AccountInv'
<1>1. OutcomeKnown' /\ Youngest' /\ Numbered'
  <2>1. /\ UNCHANGED <<number, owner, focus, outcome>>
        /\ registry' \in {registry, Kept(settled), Kept(settled \cup {t})}
    BY DEF Report, End, Enqueue, Claim, Push, Mark, Settle
  <2>2. OutcomeKnown' BY <2>1 DEF AccountInv, OutcomeKnown
  <2>3. Numbered' BY <2>1, NumbersStay DEF AccountInv
  <2>4. Youngest' BY <2>1, PruneKeepsYoungest DEF AccountInv, Youngest, Subagent
  <2> QED BY <2>2, <2>3, <2>4
<1> SUFFICES ASSUME NEW u \in Tasks PROVE Accounted(u)' BY <1>1 DEF AccountInv
<1>2. Accounted(u) /\ Delivered(u) /\ OutcomeKnown BY DEF AccountInv, DeliveryInv
<1>3. queued \in [Tasks -> Nat] /\ told \in [Tasks -> Nat] /\ report \in [Tasks -> {"none", "done"} \cup Steps]
  BY DEF TypeOK
<1> USE ReportOrder DEF Accounted, InHands
<1>4. CASE End(t)
  <2>1. /\ report[t] = "none"
        /\ report' = [report EXCEPT ![t] = "outbox"]
        /\ UNCHANGED <<mode, number, registry, attachedTo, claimed, settled, queued, loop, told>>
    BY <1>4 DEF End, DeliveryInv, Delivered, ReportFollowsEnd
  <2> QED BY <1>2, <1>3, <2>1
<1>5. CASE Enqueue(t)
  <2>1. u \in registry /\ u \notin settled => u \in registry'
    BY <1>5, PruneKeepsUnsettled DEF Enqueue
  <2> QED BY <1>2, <1>3, <1>5, <2>1 DEF Enqueue, Reporting
<1>6. CASE Claim(t) BY <1>2, <1>3, <1>6 DEF Claim, Reporting
<1>7. CASE Push(t)
  <2>1. /\ report[t] = "push"
        /\ UNCHANGED <<mode, number, registry, attachedTo, claimed, settled, loop, told>>
    BY <1>7 DEF Push
  <2>2. CASE Applies(t) /\ Accepts(t)
    <3>1. queued' = [queued EXCEPT ![t] = @ + 1] /\ report' = [report EXCEPT ![t] = "mark"]
      BY <1>7, <2>2 DEF Push, Reporting
    <3> QED BY <1>2, <1>3, <2>1, <3>1
  <2>3. CASE ~(Applies(t) /\ Accepts(t))
    <3>1. queued' = queued /\ report' = [report EXCEPT ![t] = "settle"]
      BY <1>7, <2>3 DEF Push
    <3>2. mode[t] = "foreground" \/ t \in claimed \/ owner = "gone"
      BY <2>3 DEF Applies, Accepts, Subagent, TypeOK
    <3>3. number[t] > 0
      BY <2>1 DEF DeliveryInv, Delivered, ReportFollowsEnd, TypeOK
    <3>4. u = t => InHands(u)
      BY <1>2, <1>3, <3>2, <3>3 DEF OutcomeKnown
    <3> QED BY <1>2, <1>3, <2>1, <3>1, <3>4
  <2> QED BY <2>2, <2>3
<1>8. CASE Mark(t) BY <1>2, <1>3, <1>8 DEF Mark, Reporting
<1>9. CASE Settle(t)
  <2>1. u \in registry /\ u \notin settled' => u \in registry'
    BY <1>9, PruneKeepsUnsettled DEF Settle
  <2> QED BY <1>2, <1>3, <1>9, <2>1 DEF Settle, Reporting
<1> QED BY <1>4, <1>5, <1>6, <1>7, <1>8, <1>9 DEF Report

LEMMA WaitsAccounted ==
    ASSUME Subagent, TypeOK, DeliveryInv, AccountInv,
           \/ LookUp \/ FinishInline \/ YieldWait \/ Promote \/ InterruptWait
           \/ Attach \/ SeeEnd \/ TimeOut \/ CancelWait \/ Detach
    PROVE  AccountInv'
<1>1. queued \in [Tasks -> Nat] /\ told \in [Tasks -> Nat] /\ focus \in Tasks
      /\ mode \in [Tasks -> {"foreground", "background"}]
  BY DEF TypeOK, LookUp, FinishInline, YieldWait, Promote, InterruptWait, Attach, SeeEnd, TimeOut,
         CancelWait, Detach
<1>2. OutcomeKnown BY DEF AccountInv
<1>3. OutcomeKnown' /\ Youngest' /\ Numbered'
  <2>1. OutcomeKnown'
    BY <1>2 DEF Subagent, OutcomeKnown, LookUp, FinishInline, YieldWait, Promote, InterruptWait,
           Attach, SeeEnd, TimeOut, CancelWait, Detach, Interrupted, Ends
  <2>2. number' = number /\ owner' # "starting"
    BY DEF LookUp, FinishInline, YieldWait, Promote, InterruptWait, Attach, SeeEnd, TimeOut,
           CancelWait, Detach, Interrupted
  <2> QED BY <2>1, <2>2, NumbersStay DEF AccountInv, Youngest
<1> SUFFICES ASSUME NEW u \in Tasks PROVE Accounted(u)' BY <1>3 DEF AccountInv
<1>4. Accounted(u) /\ Delivered(u) /\ Delivered(focus) BY <1>1 DEF AccountInv, DeliveryInv
<1> USE DEF Accounted, InHands
<1>5. CASE FinishInline
  <2>1. told' = [told EXCEPT ![focus] = @ + 1] BY <1>5 DEF FinishInline, Tell
  <2> QED BY <1>1, <1>2, <1>4, <1>5, <2>1 DEF FinishInline
<1>6. CASE LookUp \/ YieldWait
  <2>1. owner = "starting" => focus \in registry BY DEF AccountInv, Youngest
  <2> QED BY <1>4, <1>6, <2>1 DEF LookUp, YieldWait
<1>7. CASE Promote
  <2>1. CASE Promotes(focus)
    <3>1. mode' = [mode EXCEPT ![focus] = "background"] /\ told' = told
      BY <1>7, <2>1 DEF Promote
    <3>2. report[focus] = "none" /\ focus \notin claimed
      <4>1. status[focus] \in {"none", "running"}
        BY <1>1, <2>1 DEF Promotes, TypeOK
      <4> QED BY <1>4, <4>1 DEF Delivered, ReportFollowsEnd, ClaimReplacesPush
    <3> QED BY <1>1, <1>4, <1>7, <3>1, <3>2 DEF Promote
  <2>2. CASE ~Promotes(focus)
    <3>1. mode' = mode /\ told' = [told EXCEPT ![focus] = @ + 1]
      BY <1>7, <2>2 DEF Promote, Tell
    <3> QED BY <1>1, <1>4, <1>7, <3>1 DEF Promote
  <2> QED BY <2>1, <2>2
<1>8. CASE InterruptWait
  <2>1. outcome' = "aborted" /\ owner = "awaiting" /\ owner' = "ending"
    BY <1>2, <1>8 DEF InterruptWait, Interrupted, Ends, Subagent, OutcomeKnown
  <2>2. mode[focus] = "foreground"
    BY <1>4, <2>1 DEF Delivered, FocusIsUntold
  <2> QED BY <1>2, <1>4, <1>8, <2>1, <2>2 DEF InterruptWait, OutcomeKnown
<1>9. CASE Attach BY <1>4, <1>9 DEF Attach
<1>10. CASE SeeEnd BY <1>4, <1>10 DEF SeeEnd
<1>11. CASE TimeOut BY <1>4, <1>11 DEF TimeOut
<1>12. CASE CancelWait BY <1>4, <1>12 DEF CancelWait
<1>13. CASE Detach
  <2>1. /\ owner \in {"settling", "expired", "interrupted"}
        /\ owner' \in {"boundary", "idle", "ending"} /\ focus' = NoTask
        /\ outcome' \in {outcome, "aborted"}
        /\ attachedTo' = attachedTo \ {focus}
        /\ UNCHANGED <<status, mode, number, claimed, queued, report, settled, registry>>
    BY <1>13, DetachEffect DEF Detach
  <2>2. CASE focus \in claimed
    <3>1. told' = [told EXCEPT ![focus] = @ + 1] BY <1>13, <2>2, DetachEffect
    <3> QED BY <1>1, <1>2, <1>4, <2>1, <2>2, <3>1 DEF OutcomeKnown
  <2>3. CASE focus \notin claimed
    <3>1. told' = told BY <1>13, <2>3, DetachEffect
    <3> QED BY <1>1, <1>2, <1>4, <2>1, <2>3, <3>1 DEF OutcomeKnown
  <2> QED BY <2>2, <2>3
<1> QED BY <1>5, <1>6, <1>7, <1>8, <1>9, <1>10, <1>11, <1>12, <1>13

(* A new task is registered with the highest number. *)
LEMMA StartNumbers ==
    ASSUME TypeOK, Numbered, NEW t \in Tasks, Start(t)
    PROVE  Youngest' /\ Numbered'
<1>1. /\ number[t] = 0 /\ number' = [number EXCEPT ![t] = Cardinality(Registered) + 1]
      /\ registry' = registry \cup {t} /\ (owner' = "starting" => focus' = t)
  BY DEF Start
<1>2. number \in [Tasks -> Nat] /\ Cardinality(Registered) \in Nat BY RegisteredFinite DEF TypeOK
<1>3. Registered' = Registered \cup {t} /\ t \notin Registered
  BY <1>1, <1>2 DEF Registered
<1>4. Cardinality(Registered') = Cardinality(Registered) + 1
  BY <1>3, RegisteredFinite, FS_AddElement
<1>5. Numbered' BY <1>1, <1>2, <1>4 DEF Numbered
<1>6. Youngest' BY <1>1, <1>2 DEF Youngest, Numbered
<1> QED BY <1>5, <1>6

LEMMA LoopAccounted ==
    ASSUME Subagent, TypeOK, DeliveryInv, AccountInv,
           \/ Recall \/ OtherCall \/ Drain \/ NaturalStop \/ StartTurn \/ CheckInbox \/ CountChildren \/ FallAsleep
           \/ Recheck \/ Unpark \/ Deadline \/ Abort \/ Prompt \/ StopDescendants
           \/ \E t \in Tasks : Start(t) \/ Wait(t) \/ StopTask(t) \/ OperatorStop(t) \/ Remove(t)
    PROVE  AccountInv'
<1>1. queued \in [Tasks -> Nat] /\ told \in [Tasks -> Nat] BY DEF TypeOK
<1>2. OutcomeKnown BY DEF AccountInv
<1>3. OutcomeKnown' /\ Youngest' /\ Numbered'
  <2>1. OutcomeKnown'
    BY <1>2 DEF Subagent, OutcomeKnown, Recall, OtherCall, Drain, NaturalStop, StartTurn,
           CheckInbox, CountChildren, FallAsleep, Recheck, Unpark, Deadline, Abort, Prompt, Interrupted,
           Ends, StopDescendants, Start, Wait, StopTask, OperatorStop, Remove
  <2>2. CASE \E t \in Tasks : Start(t)
    BY <2>1, <2>2, StartNumbers DEF AccountInv
  <2>3. CASE \E t \in Tasks : OperatorStop(t)
    <3>1. UNCHANGED <<number, owner, focus, registry>> BY <2>3 DEF OperatorStop
    <3> QED BY <2>1, <3>1, NumbersStay DEF AccountInv, Youngest
  <2>4. CASE \/ Recall \/ OtherCall \/ Drain \/ NaturalStop \/ StartTurn \/ CheckInbox
             \/ CountChildren \/ FallAsleep \/ Recheck \/ Unpark \/ Deadline \/ Abort \/ Prompt \/ StopDescendants
             \/ \E t \in Tasks : Wait(t) \/ StopTask(t)
    <3>1. UNCHANGED number /\ owner' # "starting"
      BY <2>4 DEF Recall, OtherCall, Drain, NaturalStop, StartTurn, CheckInbox, CountChildren, FallAsleep,
           Recheck, Unpark, Deadline, Abort, Prompt, Interrupted, StopDescendants, Wait, StopTask
    <3> QED BY <2>1, <3>1, NumbersStay DEF AccountInv, Youngest
  <2>5. ~ \E t \in Tasks : Remove(t) BY DEF Remove, Subagent
  <2> QED BY <2>2, <2>3, <2>4, <2>5
<1> SUFFICES ASSUME NEW u \in Tasks PROVE Accounted(u)' BY <1>3 DEF AccountInv
<1>4. Accounted(u) /\ Delivered(u) BY DEF AccountInv, DeliveryInv
<1> USE DEF Accounted, InHands
<1>5. CASE Recall \/ OtherCall BY <1>4, <1>5 DEF Recall, OtherCall
<1>6. CASE Drain BY <1>1, <1>4, <1>6 DEF Drain
<1>7. CASE NaturalStop \/ StartTurn BY <1>2, <1>4, <1>7 DEF NaturalStop, StartTurn, OutcomeKnown
<1>8. CASE CheckInbox BY <1>4, <1>8 DEF CheckInbox
<1>9. CASE CountChildren \/ FallAsleep
  BY <1>4, <1>9 DEF CountChildren, FallAsleep, LiveChildren
<1>10. CASE Recheck
  <2>1. owner = "rechecking" /\ outcome = "none" BY <1>2, <1>10 DEF Recheck, OutcomeKnown
  <2>2. number[u] > 0 /\ ~InboxHasAny => told[u] > 0
    BY <1>1, <1>4, <2>1 DEF InboxHasAny, Delivered, ClaimReplacesPush
  <2> QED BY <1>4, <1>10, <2>1, <2>2 DEF Recheck
<1>11. CASE Unpark \/ Deadline \/ Abort \/ Prompt \/ StopDescendants
  BY <1>2, <1>4, <1>11
     DEF Unpark, Deadline, Abort, Prompt, Interrupted, Ends, Subagent, StopDescendants, OutcomeKnown
<1>12. ASSUME NEW t \in Tasks, Start(t) PROVE Accounted(u)'
  <2>1. Accounted(t) /\ Delivered(t) BY DEF AccountInv, DeliveryInv
  <2>2. report[t] = "none" /\ outcome = "none" /\ t \notin claimed /\ t \notin settled
    BY <1>2, <1>12, <2>1
       DEF Start, Delivered, ReportFollowsEnd, ClaimReplacesPush, OutcomeKnown
  <2> QED BY <1>4, <1>12, <2>1, <2>2 DEF Start, TypeOK
<1>13. ASSUME NEW t \in Tasks, Wait(t) \/ StopTask(t) \/ OperatorStop(t) \/ Remove(t)
       PROVE  Accounted(u)'
  BY <1>4, <1>13 DEF Wait, StopTask, OperatorStop, Remove, Subagent
<1> QED BY <1>5, <1>6, <1>7, <1>8, <1>9, <1>10, <1>11, <1>12, <1>13

-----------------------------------------------------------------------------

LEMMA AccountHolds == ASSUME Subagent PROVE Spec => [](TypeOK /\ DeliveryInv /\ AccountInv)
<1>1. Init => TypeOK /\ DeliveryInv /\ AccountInv BY InitHolds, InitAccounted
<1>2. ASSUME TypeOK, DeliveryInv, AccountInv, [Next]_vars
      PROVE  TypeOK' /\ DeliveryInv' /\ AccountInv'
  <2>1. TypeOK' /\ DeliveryInv' BY <1>2, StepHolds
  <2>2. CASE UNCHANGED vars
    BY <1>2, <2>1, <2>2
       DEF vars, AccountInv, OutcomeKnown, Accounted, InHands, Youngest, Numbered, Registered
  <2>3. CASE Next
    BY <1>2, <2>1, <2>3, ReportAccounted, WaitsAccounted, LoopAccounted DEF Next, Loop
  <2> QED BY <1>2, <2>1, <2>2, <2>3
<1> QED BY <1>1, <1>2, PTL DEF Spec

(* A subagent that ends by itself has been told of the end of every task   *)
(* it started, if no other agent removes one: counting live children and   *)
(* looking into the inbox again misses no report that races in.            *)
THEOREM NaturalEnd == ASSUME Subagent PROVE Spec => []NaturalEndKnowsAll
<1>1. AccountInv => NaturalEndKnowsAll
  BY DEF AccountInv, Accounted, NaturalEndKnowsAll, Registered
<1> QED BY <1>1, AccountHolds, PTL

(* What live_children and task_wait rely on: the report of a settled task  *)
(* is in the subagent's inbox, told, or held by its attached wait.         *)
THEOREM SettledReport == ASSUME Subagent PROVE Spec => []SettledIsReported
<1>1. ASSUME TypeOK, DeliveryInv, AccountInv PROVE SettledIsReported
  <2> SUFFICES ASSUME NEW t \in settled, Due(t), owner # "gone", ~Held(t)
               PROVE  told[t] + queued[t] > 0
    BY DEF SettledIsReported
  <2>1. t \in Tasks /\ mode[t] = "background" BY <1>1 DEF TypeOK, Due
  <2>2. Accounted(t) /\ Delivered(t) BY <1>1, <2>1 DEF AccountInv, DeliveryInv
  <2> QED BY <2>1, <2>2
          DEF Accounted, InHands, Delivered, ClaimReplacesPush, FocusIsUntold, Held
<1> QED BY <1>1, AccountHolds, PTL

-----------------------------------------------------------------------------
(* Every step of a subagent's protocol is a step of CompletionDelivery. *)

Step == Delivery!Next \/ UNCHANGED <<Phase, told, Over>>

LEMMA MappingType ==
    ASSUME TypeOK, NEW t \in Tasks
    PROVE  /\ status[t] = "none" => Phase[t] = "unknown"
           /\ status[t] = "running" => Phase[t] = "live"
           /\ status[t] \in Terminal => Phase[t] = "ended"
           /\ outcome = "none" => Over = "no"
           /\ outcome \in {"deadline", "aborted"} => Over = "early"
           /\ outcome = "natural" => Over = "natural"
  BY DEF TypeOK, Phase, Over

LEMMA TellStep ==
    ASSUME TypeOK, DeliveryInv, outcome = "none", NEW t \in Tasks,
           status[t] \in Terminal, told[t] = 0,
           told' = [told EXCEPT ![t] = @ + 1], UNCHANGED <<status, outcome>>
    PROVE  Step
<1>1. told' = [u \in Tasks |-> IF u \in {t} THEN 1 ELSE told[u]]
  <2>1. told \in [Tasks -> Nat] /\ told[t] + 1 = 1 BY DEF TypeOK
  <2> QED BY <2>1
<1>2. Over = "no" /\ Phase[t] = "ended" BY MappingType
<1>3. Phase' = Phase /\ Over' = Over BY DEF Phase, Over
<1>4. Delivery!Tell({t}) BY <1>1, <1>2, <1>3 DEF Delivery!Tell
<1> QED BY <1>4 DEF Step, Delivery!Next

LEMMA EarlyStep ==
    ASSUME TypeOK, outcome = "none", outcome' \in {"deadline", "aborted"},
           UNCHANGED <<status, told>>
    PROVE  Step
<1>1. Over = "no" /\ Over' = "early" BY DEF Over
<1>2. Phase' = Phase BY DEF Phase
<1>3. Delivery!EndEarly BY <1>1, <1>2 DEF Delivery!EndEarly
<1> QED BY <1>3 DEF Step, Delivery!Next

LEMMA QuietStep ==
    ASSUME UNCHANGED <<status, told, outcome>>
    PROVE  Step
  BY DEF Step, Phase, Over

LEMMA TaskSteps ==
    ASSUME TypeOK, DeliveryInv, AccountInv, NEW t \in Tasks, End(t) \/ Report(t) \/ Start(t)
    PROVE  Step
<1>0. Delivered(t) /\ OutcomeKnown BY DEF DeliveryInv, AccountInv
<1>1. CASE End(t)
  <2>1. status[t] = "running" /\ UNCHANGED <<told, outcome>> BY <1>1 DEF End
  <2>2. PICK end \in Terminal : status' = [status EXCEPT ![t] = end] BY <1>1 DEF End
  <2>3. Phase' = [Phase EXCEPT ![t] = "ended"] BY <2>2 DEF Phase, TypeOK
  <2>4. Phase[t] = "live" /\ Over' = Over BY <2>1, MappingType DEF Over
  <2>5. Delivery!End(t) BY <2>1, <2>3, <2>4 DEF Delivery!End
  <2> QED BY <2>5 DEF Step, Delivery!Next
<1>2. CASE Report(t)
  <2>1. UNCHANGED <<status, told, outcome>>
    BY <1>2 DEF Report, Enqueue, Claim, Push, Mark, Settle
  <2> QED BY <2>1, QuietStep
<1>3. CASE Start(t)
  <2>1. /\ number[t] = 0 /\ owner = "working"
        /\ status' = [status EXCEPT ![t] = "running"] /\ UNCHANGED <<told, outcome>>
    BY <1>3 DEF Start
  <2>2. status[t] = "none" /\ outcome = "none"
    BY <1>0, <2>1 DEF Delivered, ReportFollowsEnd, OutcomeKnown
  <2>3. Phase' = [Phase EXCEPT ![t] = "live"] BY <2>1 DEF Phase, TypeOK
  <2>4. Phase[t] = "unknown" /\ Over = "no" /\ Over' = Over
    BY <2>1, <2>2, MappingType DEF Over
  <2>5. Delivery!Start(t) BY <2>1, <2>3, <2>4 DEF Delivery!Start
  <2> QED BY <2>5 DEF Step, Delivery!Next
<1> QED BY <1>1, <1>2, <1>3

(* Where the owner hears of one completion, it hears of it first. *)
LEMMA WaitSteps ==
    ASSUME Subagent, TypeOK, DeliveryInv, AccountInv,
           \/ LookUp \/ FinishInline \/ YieldWait \/ Promote \/ InterruptWait
           \/ Attach \/ SeeEnd \/ TimeOut \/ CancelWait \/ Detach
    PROVE  Step
<1>1. CASE LookUp \/ YieldWait \/ Attach \/ SeeEnd \/ TimeOut \/ CancelWait
  <2>1. UNCHANGED <<status, told, outcome>>
    BY <1>1 DEF LookUp, YieldWait, Attach, SeeEnd, TimeOut, CancelWait
  <2> QED BY <2>1, QuietStep
<1>2. CASE InterruptWait
  <2>1. outcome = "none" BY <1>2 DEF InterruptWait, AccountInv, OutcomeKnown
  <2>2. outcome' = "aborted" /\ UNCHANGED <<status, told>>
    BY <1>2, <2>1 DEF InterruptWait, Interrupted, Ends, Subagent
  <2> QED BY <2>1, <2>2, EarlyStep
<1>3. CASE FinishInline \/ Promote \/ Detach
  <2>1. focus \in Tasks /\ outcome = "none" /\ owner \in Waits \cup Attaches
    BY <1>3 DEF FinishInline, Promote, Detach, TypeOK, AccountInv, OutcomeKnown
  <2>2. Delivered(focus) /\ told[focus] = 0 /\ status' = status
    BY <1>3, <2>1
       DEF DeliveryInv, Delivered, FocusIsUntold, FinishInline, Promote, Detach
  <2>3. status[focus] \in Terminal \cup {"none", "running"} BY <2>1 DEF TypeOK
  <2>4. CASE FinishInline
    <3>1. /\ told' = [told EXCEPT ![focus] = @ + 1] /\ outcome' = outcome
          /\ status[focus] \in Terminal
      BY <2>4 DEF FinishInline, Tell
    <3> QED BY <2>1, <2>2, <3>1, TellStep
  <2>5. CASE Promote
    <3>1. outcome' = outcome BY <2>5 DEF Promote
    <3>2. CASE Promotes(focus)
      <4>1. told' = told BY <2>5, <3>2 DEF Promote
      <4> QED BY <2>2, <3>1, <4>1, QuietStep
    <3>3. CASE ~Promotes(focus)
      <4>1. told' = [told EXCEPT ![focus] = @ + 1] BY <2>5, <3>3 DEF Promote, Tell
      <4>2. status[focus] \in Terminal BY <3>3 DEF Promotes
      <4> QED BY <2>1, <2>2, <3>1, <4>1, <4>2, TellStep
    <3> QED BY <3>2, <3>3
  <2>6. CASE Detach
    <3>1. CASE focus \in claimed
      <4>1. told' = [told EXCEPT ![focus] = @ + 1] BY <2>6, <3>1, DetachEffect
      <4>2. outcome' = outcome BY <2>6, <3>1 DEF Detach, Ends
      <4>3. status[focus] \in Terminal
        BY <2>2, <2>3, <3>1 DEF Delivered, ReportFollowsEnd, ClaimReplacesPush
      <4> QED BY <2>1, <2>2, <4>1, <4>2, <4>3, TellStep
    <3>2. CASE focus \notin claimed
      <4>1. told' = told /\ outcome' \in {outcome, "aborted"} BY <2>6, <3>2, DetachEffect
      <4> QED BY <2>1, <2>2, <4>1, QuietStep, EarlyStep
    <3> QED BY <3>1, <3>2
  <2> QED BY <1>3, <2>4, <2>5, <2>6
<1> QED BY <1>1, <1>2, <1>3

LEMMA LoopSteps ==
    ASSUME TypeOK, DeliveryInv, AccountInv, AccountInv', DeliveryInv', TypeOK',
           \/ Recall \/ OtherCall \/ Drain \/ NaturalStop \/ StartTurn \/ CheckInbox \/ CountChildren \/ FallAsleep
           \/ Recheck \/ Unpark \/ Deadline \/ Abort \/ Prompt \/ StopDescendants
           \/ \E t \in Tasks : Wait(t) \/ StopTask(t) \/ OperatorStop(t) \/ Remove(t)
    PROVE  Step
<1>0. OutcomeKnown BY DEF AccountInv
<1>1. CASE \/ Recall \/ OtherCall \/ StartTurn \/ CheckInbox \/ CountChildren \/ FallAsleep \/ Unpark \/ Deadline
           \/ Prompt \/ StopDescendants
           \/ \E t \in Tasks : Wait(t) \/ StopTask(t) \/ OperatorStop(t) \/ Remove(t)
  <2>1. UNCHANGED <<status, told, outcome>>
    BY <1>1 DEF Recall, OtherCall, StartTurn, CheckInbox, CountChildren, FallAsleep, Unpark, Deadline,
                Prompt, StopDescendants, Wait, StopTask, OperatorStop, Remove
  <2> QED BY <2>1, QuietStep
<1>2. CASE NaturalStop \/ Abort
  <2>1. outcome = "none" /\ outcome' \in {outcome, "deadline", "aborted"}
        /\ UNCHANGED <<status, told>>
    BY <1>0, <1>2 DEF NaturalStop, Abort, Ends, OutcomeKnown
  <2> QED BY <2>1, QuietStep, EarlyStep
<1>3. CASE Drain
  <2>1. /\ told' = [t \in Tasks |-> told[t] + queued[t]] /\ UNCHANGED <<status, outcome>>
        /\ owner = "boundary"
    BY <1>3 DEF Drain
  <2>2. outcome = "none" BY <1>0, <2>1 DEF OutcomeKnown
  <2> DEFINE some == {t \in Tasks : queued[t] > 0}
  <2>3. ASSUME NEW t \in Tasks PROVE /\ told[t] \in Nat /\ queued[t] \in Nat
                                     /\ told[t] + queued[t] <= 1
    BY DEF TypeOK, DeliveryInv, Delivered
  <2>4. told' = [t \in Tasks |-> IF t \in some THEN 1 ELSE told[t]]
    BY <2>1, <2>3
  <2>5. ASSUME NEW t \in some PROVE Phase[t] = "ended" /\ told[t] = 0
    <3>0. t \in Tasks /\ told[t] = 0 BY <2>3
    <3>1. Delivered(t) /\ status[t] \in Terminal \cup {"none", "running"}
      BY DEF DeliveryInv, TypeOK
    <3>2. status[t] \in Terminal
      BY <2>3, <3>1 DEF Delivered, ReportFollowsEnd, NotYetPushed
    <3> QED BY <3>0, <3>2, MappingType
  <2>6. Over = "no" /\ Phase' = Phase /\ Over' = Over
    BY <2>1, <2>2 DEF Phase, Over
  <2>7. Delivery!Tell(some) BY <2>4, <2>5, <2>6 DEF Delivery!Tell
  <2> QED BY <2>7 DEF Step, Delivery!Next
<1>4. CASE Recheck
  <2>1. owner = "rechecking" /\ UNCHANGED <<status, told>> BY <1>4 DEF Recheck
  <2>2. outcome = "none" BY <1>0, <2>1 DEF OutcomeKnown
  <2>3. CASE InboxHasAny
    <3>1. outcome' = outcome BY <1>4, <2>3 DEF Recheck
    <3> QED BY <2>1, <3>1, QuietStep
  <2>4. CASE ~InboxHasAny
    <3>1. outcome' = "natural" BY <1>4, <2>4 DEF Recheck
    <3>2. Over = "no" /\ Over' = "natural" /\ Phase' = Phase
      BY <2>1, <2>2, <3>1 DEF Over, Phase
    <3>3. ASSUME NEW t \in Tasks, Phase[t] # "unknown" PROVE told[t] = 1
      <4>1. status[t] # "none" BY <3>3, MappingType
      <4>2. Delivered(t) /\ Accounted(t)' BY DEF DeliveryInv, AccountInv
      <4>3. number[t] \in Nat /\ number' = number /\ told[t] \in Nat /\ queued[t] \in Nat
        BY <1>4 DEF TypeOK, Recheck
      <4>4. told[t] > 0
        BY <2>1, <3>1, <4>1, <4>2, <4>3 DEF Delivered, ReportFollowsEnd, Accounted
      <4> QED BY <4>2, <4>3, <4>4 DEF Delivered
    <3>4. Delivery!EndNaturally BY <2>1, <3>2, <3>3 DEF Delivery!EndNaturally
    <3> QED BY <3>4 DEF Step, Delivery!Next
  <2> QED BY <2>3, <2>4
<1> QED BY <1>1, <1>2, <1>3, <1>4

(* A subagent's registry, pushes, waits and parking implement              *)
(* CompletionDelivery, if no other agent removes its tasks.                *)
THEOREM Implementation == ASSUME Subagent PROVE Spec => ImplementsDelivery
<1>1. Init => Delivery!Init
  BY DEF Init, Delivery!Init, Phase, Over
<1>2. ASSUME TypeOK, DeliveryInv, AccountInv, TypeOK', DeliveryInv', AccountInv', [Next]_vars
      PROVE  Step
  <2>1. CASE UNCHANGED vars BY <2>1, QuietStep DEF vars
  <2>2. CASE Next
    BY <1>2, <2>2, TaskSteps, WaitSteps, LoopSteps DEF Next, Loop
  <2> QED BY <1>2, <2>1, <2>2
<1>3. Step => [Delivery!Next]_(Delivery!vars) BY DEF Step, Delivery!vars
<1> QED BY <1>1, <1>2, <1>3, AccountHolds, PTL DEF Spec, ImplementsDelivery, Delivery!Spec
=============================================================================
