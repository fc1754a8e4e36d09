--------------------------- MODULE MessageBusProofs ---------------------------
(***************************************************************************)
(* Proofs about both halves of MessageBus: the main inbox (MainInbox) for  *)
(* every set of keys and bodies, every queue capacity and every horizon,   *)
(* then the user ring (UserRing) for every capacity; and about the pump    *)
(* that drains the inbox while no turn runs (MainPump), for every number   *)
(* of messages, providers and turns: no wake is lost, the pump does not    *)
(* spin, and a joined pump is quiet.                                       *)
(***************************************************************************)
EXTENDS MainInbox, UserRing, MainPump, AscendingProofs

(* The types, the history and the pending table; the window of recent      *)
(* deliveries comes with WindowInv.                                        *)
IInv == TypeOK /\ NothingLostOrRepeated /\ PendingMirrorsQueue

(* A fresh bus satisfies the invariant. *)
LEMMA InitIInv == Init => IInv
<1> SUFFICES ASSUME Init PROVE IInv
  OBVIOUS
<1>1. /\ mainQueue = <<>> /\ handed = <<>> /\ nextMainSeq = 1 /\ mainDeliveredSeq = 0
      /\ DOMAIN pending = {} /\ DOMAIN delivered = {}
      /\ closed = FALSE /\ receipt = Nothing
  BY DEF Init, EmptyTable
<1>2. pending \in [{} -> IdempotencyRecord] /\ delivered \in [{} -> IdempotencyRecord]
  BY DEF Init, EmptyTable
<1>3. TypeOK
  <2>1. mainQueue \in Seq(Message) /\ handed \in Seq(Message)
    BY <1>1
  <2>2. pending \in [DOMAIN pending -> IdempotencyRecord] /\ delivered \in [DOMAIN delivered -> IdempotencyRecord]
    BY <1>1, <1>2
  <2>3. closed \in BOOLEAN
    BY <1>1
  <2>4. DOMAIN pending \subseteq Keys /\ DOMAIN delivered \subseteq Keys
    BY <1>1
  <2>5. nextMainSeq \in Nat \ {0} /\ mainDeliveredSeq \in Nat /\ receipt = Nothing
    BY <1>1
  <2> QED BY <2>1, <2>2, <2>3, <2>4, <2>5 DEF TypeOK
<1>4. NothingLostOrRepeated
  BY <1>1 DEF NothingLostOrRepeated, Accepted
<1>5. PendingMirrorsQueue
  BY <1>1 DEF PendingMirrorsQueue
<1> QED BY <1>3, <1>4, <1>5 DEF IInv

(* A publication that is refused or answered from a table changes only the *)
(* receipt.                                                                *)
LEMMA SameQueue ==
  ASSUME IInv, receipt' = Nothing \/ receipt' \in Receipts,
         UNCHANGED <<mainQueue, nextMainSeq, mainDeliveredSeq, tables, handed>>,
         closed' \in BOOLEAN
  PROVE  IInv'
  BY DEF IInv, TypeOK, NothingLostOrRepeated, PendingMirrorsQueue, Accepted, tables,
         Message, IdempotencyRecord, Nothing, Receipts

(* Accepting a new message extends the queue and the pending table by the  *)
(* same message.                                                           *)
LEMMA AcceptIInv ==
  ASSUME IInv, NEW key \in Keys \cup {NoKey}, NEW body \in Bodies, Accept(key, body)
  PROVE  IInv'
<1> DEFINE msg == [seq |-> nextMainSeq, key |-> key, body |-> body]
<1>1. mainQueue \in Seq(Message) /\ handed \in Seq(Message) /\ msg \in Message /\ nextMainSeq \in Nat
  BY DEF IInv, TypeOK, Message
<1>2. mainQueue' = Append(mainQueue, msg) /\ handed' = handed /\ nextMainSeq' = nextMainSeq + 1
  BY DEF Accept
<1>3. TypeOK'
  <2>1. DOMAIN pending' \subseteq Keys /\ pending' \in [DOMAIN pending' -> IdempotencyRecord]
    BY <1>1 DEF IInv, TypeOK, Accept, Remember, IdempotencyRecord
  <2>2. receipt' \in Receipts
    BY <1>1 DEF Accept, Receipt, Receipts, Outcomes
  <2> QED BY <1>1, <1>2, <2>1, <2>2 DEF IInv, TypeOK, Accept
<1>4. NothingLostOrRepeated'
  <2>1. Accepted' = Append(Accepted, msg) /\ Accepted \in Seq(Message)
    BY <1>1, <1>2 DEF Accepted
  <2> HIDE DEF Accepted
  <2> QED BY <1>1, <1>2, <2>1 DEF IInv, TypeOK, NothingLostOrRepeated, Accept, Message
<1>5. PendingMirrorsQueue'
  <2>1. key # NoKey => key \notin {mainQueue[i].key : i \in DOMAIN mainQueue}
    BY DEF Accept, IsNew, IInv, PendingMirrorsQueue
  <2>2. DOMAIN mainQueue' = DOMAIN mainQueue \cup {Len(mainQueue) + 1}
    BY <1>1, <1>2
  <2>3. /\ \A i \in DOMAIN mainQueue : mainQueue'[i] = mainQueue[i]
        /\ mainQueue'[Len(mainQueue) + 1] = msg
    BY <1>1, <1>2
  <2>4. CASE key = NoKey
    <3>1. pending' = pending /\ delivered' = delivered
      BY <2>4 DEF Accept, Remember
    <3> QED BY <2>2, <2>3, <2>4, <3>1 DEF IInv, PendingMirrorsQueue
  <2>5. CASE key # NoKey
    <3>1. /\ delivered' = delivered
          /\ key \notin DOMAIN pending /\ key \notin DOMAIN delivered
          /\ DOMAIN pending' = DOMAIN pending \cup {key}
          /\ pending'[key] = [seq |-> nextMainSeq, body |-> body]
          /\ \A k \in DOMAIN pending : pending'[k] = pending[k]
      BY <2>5 DEF Accept, Remember, IsNew
    <3> QED BY <2>1, <2>2, <2>3, <2>5, <3>1 DEF IInv, PendingMirrorsQueue
  <2> QED BY <2>4, <2>5
<1> QED BY <1>3, <1>4, <1>5 DEF IInv

(* A drain hands over the whole queue and empties the pending table with   *)
(* it.                                                                     *)
LEMMA TakeIInv ==
  ASSUME IInv, TakeMainForDelivery
  PROVE  IInv'
<1>1. mainQueue \in Seq(Message) /\ handed \in Seq(Message) /\ Len(mainQueue) \in Nat \ {0}
  BY DEF IInv, TypeOK, TakeMainForDelivery
<1>2. handed' = handed \o mainQueue /\ mainQueue' = <<>> /\ nextMainSeq' = nextMainSeq
  BY DEF TakeMainForDelivery
<1>3. Accepted' = Accepted /\ Accepted \in Seq(Message) /\ handed' = Accepted
  BY <1>1, <1>2 DEF Accepted
<1>4. DOMAIN pending \subseteq DrainedKeys
  BY DEF IInv, PendingMirrorsQueue, DrainedKeys
<1>5. pending' = [k \in {} |-> pending[k]]
  BY <1>4 DEF TakeMainForDelivery, MoveToWindow
<1>6. /\ DOMAIN delivered' \subseteq Keys
      /\ delivered' \in [DOMAIN delivered' -> IdempotencyRecord]
  BY DEF TakeMainForDelivery, MoveToWindow, DrainedKeys, IInv, TypeOK
<1>7. mainDeliveredSeq' = Len(handed')
  <2>1. Accepted[Len(Accepted)].seq = Len(Accepted) /\ Len(Accepted) = Len(handed) + Len(mainQueue)
    BY <1>1 DEF Accepted, IInv, NothingLostOrRepeated
  <2>2. Accepted[Len(Accepted)] = mainQueue[Len(mainQueue)]
    BY <1>1 DEF Accepted
  <2>3. mainDeliveredSeq = Len(handed)
    BY DEF IInv, NothingLostOrRepeated
  <2> QED BY <1>1, <1>3, <2>1, <2>2, <2>3 DEF TakeMainForDelivery, LargerOf
<1>8. TypeOK'
  <2>1. mainDeliveredSeq' \in Nat
    BY <1>1, <1>2, <1>7
  <2>2. DOMAIN pending' \subseteq Keys /\ pending' \in [DOMAIN pending' -> IdempotencyRecord]
    BY <1>5
  <2>3. handed' \in Seq(Message) /\ mainQueue' \in Seq(Message)
    BY <1>1, <1>2
  <2>4. closed' \in BOOLEAN /\ nextMainSeq' \in Nat \ {0} /\ receipt' = Nothing
    BY DEF TakeMainForDelivery, IInv, TypeOK
  <2> QED BY <1>6, <2>1, <2>2, <2>3, <2>4 DEF TypeOK
<1>9. NothingLostOrRepeated'
  BY <1>2, <1>3, <1>7 DEF IInv, NothingLostOrRepeated
<1>10. PendingMirrorsQueue'
  BY <1>2, <1>5 DEF PendingMirrorsQueue
<1> QED BY <1>8, <1>9, <1>10 DEF IInv

(* Each step of the bus keeps the invariant. *)
LEMMA NextIInv == IInv /\ [Next]_vars => IInv'
<1> SUFFICES ASSUME IInv, [Next]_vars PROVE IInv'
  OBVIOUS
<1>1. ASSUME NEW key \in Keys \cup {NoKey}, NEW body \in Bodies, PublishMain(key, body)
      PROVE  IInv'
  <2>1. ASSUME NEW outcome \in Outcomes, Refuse(outcome, key, body) PROVE IInv'
    BY <2>1, SameQueue DEF Refuse, Receipt, Receipts, IInv, TypeOK
  <2>2. CASE PublishClosed(key, body)
    BY <2>1, <2>2 DEF PublishClosed, Outcomes
  <2>3. CASE ReplayPending(key, body)
    <3>1. CASE pending[key].body = body
      <4> DEFINE p == CHOOSE q \in DOMAIN mainQueue : mainQueue[q].seq = pending[key].seq
      <4>1. PICK i \in DOMAIN mainQueue : mainQueue[i].key = key
        BY <2>3 DEF ReplayPending, IInv, PendingMirrorsQueue
      <4>2. mainQueue[i].seq = pending[key].seq
        <5>1. mainQueue[i].key # NoKey
          BY <2>3, <4>1, KeyAssumption DEF ReplayPending, IInv, TypeOK
        <5>2. pending[key] = [seq |-> mainQueue[i].seq, body |-> mainQueue[i].body]
          BY <4>1, <5>1 DEF IInv, PendingMirrorsQueue
        <5> QED BY <5>2
      <4>3. p \in DOMAIN mainQueue
        BY <4>2
      <4>4. p \in Nat /\ pending[key].seq \in Nat
        BY <2>3, <4>3 DEF ReplayPending, IInv, TypeOK, IdempotencyRecord
      <4> HIDE DEF p
      <4>5. receipt' \in Receipts
        <5>1. receipt' = Receipt("queued", key, body, pending[key].seq, p)
          BY <2>3, <3>1 DEF ReplayPending, p
        <5> QED BY <4>4, <5>1 DEF Receipt, Receipts, Outcomes
      <4> QED BY <2>3, <3>1, <4>5, SameQueue DEF ReplayPending, IInv, TypeOK
    <3>2. CASE pending[key].body # body
      BY <2>1, <2>3, <3>2 DEF ReplayPending, Outcomes
    <3> QED BY <3>1, <3>2
  <2>4. CASE ReplayDelivered(key, body)
    <3>1. CASE delivered[key].body = body
      <4>1. receipt' \in Receipts
        BY <2>4, <3>1 DEF ReplayDelivered, Receipt, Receipts, Outcomes, IInv, TypeOK, IdempotencyRecord
      <4> QED BY <2>4, <3>1, <4>1, SameQueue DEF ReplayDelivered, IInv, TypeOK
    <3>2. CASE delivered[key].body # body
      BY <2>1, <2>4, <3>2 DEF ReplayDelivered, Outcomes
    <3> QED BY <3>1, <3>2
  <2>5. CASE PublishFull(key, body)
    BY <2>1, <2>5 DEF PublishFull, Outcomes
  <2>6. CASE Accept(key, body)
    BY <2>6, AcceptIInv
  <2> QED BY <1>1, <2>2, <2>3, <2>4, <2>5, <2>6 DEF PublishMain
<1>2. CASE TakeMainForDelivery
  BY <1>2, TakeIInv
<1>3. CASE Close
  BY <1>3, SameQueue DEF Close
<1>4. CASE UNCHANGED vars
  BY <1>4, SameQueue DEF vars, IInv, TypeOK
<1> QED BY <1>1, <1>2, <1>3, <1>4 DEF Next

(* The invariant holds in every reachable state of the bus. *)
LEMMA InvariantHolds == Spec => []IInv
  BY InitIInv, NextIInv, PTL DEF Spec

(* The fields of Inner keep their types. *)
THEOREM TypeCorrect == Spec => []TypeOK
<1>1. IInv => TypeOK
  BY DEF IInv
<1> QED BY <1>1, InvariantHolds, PTL

(* Every accepted publication is queued or was handed over, exactly once   *)
(* and in the order of acceptance.                                         *)
THEOREM ExactlyOnceInOrder == Spec => []NothingLostOrRepeated
<1>1. IInv => NothingLostOrRepeated
  BY DEF IInv
<1> QED BY <1>1, InvariantHolds, PTL

(* The pending table is an exact index of the queue, disjoint from the     *)
(* window of recent deliveries.                                            *)
THEOREM PendingTableExact == Spec => []PendingMirrorsQueue
<1>1. IInv => PendingMirrorsQueue
  BY DEF IInv
<1> QED BY <1>1, InvariantHolds, PTL

-----------------------------------------------------------------------------
(* Receipts.                                                               *)

\* A record of the window is that of a delivered message.
DeliveredRecorded ==
    \A k \in DOMAIN delivered :
        /\ delivered[k].seq \in 1..Len(handed)
        /\ handed[delivered[k].seq] =
              [seq |-> delivered[k].seq, key |-> k, body |-> delivered[k].body]

\* The message at a position of the queue has the next number but so many.
LEMMA QueuedSeq ==
  ASSUME IInv, NEW i \in DOMAIN mainQueue
  PROVE  /\ mainQueue[i].seq = Len(handed) + i /\ i \in Nat
         /\ Len(handed) + i \in 1..Len(handed \o mainQueue)
         /\ (handed \o mainQueue)[Len(handed) + i] = mainQueue[i]
         /\ mainQueue[i] = [seq |-> mainQueue[i].seq, key |-> mainQueue[i].key,
                            body |-> mainQueue[i].body]
<1>1. handed \in Seq(Message) /\ mainQueue \in Seq(Message)
  BY DEF IInv, TypeOK
<1> HIDE DEF Message
<1>2. /\ Len(handed) \in Nat /\ Len(mainQueue) \in Nat /\ i \in 1..Len(mainQueue)
      /\ Len(handed \o mainQueue) = Len(handed) + Len(mainQueue)
      /\ DOMAIN (handed \o mainQueue) = 1..(Len(handed) + Len(mainQueue))
      /\ (handed \o mainQueue)[Len(handed) + i] = mainQueue[i]
      /\ mainQueue[i] \in Message
  BY <1>1
<1>3. Len(handed) + i \in 1..(Len(handed) + Len(mainQueue))
  BY <1>2
<1>4. mainQueue[i].seq = Len(handed) + i
  BY <1>2, <1>3 DEF IInv, NothingLostOrRepeated, Accepted
<1>5. mainQueue[i] = [seq |-> mainQueue[i].seq, key |-> mainQueue[i].key,
                      body |-> mainQueue[i].body]
  BY <1>2 DEF Message
<1> QED BY <1>2, <1>3, <1>4, <1>5

LEMMA RecordsHold == Spec => []DeliveredRecorded
<1>1. Init => DeliveredRecorded
  BY DEF Init, EmptyTable, DeliveredRecorded
<1>2. ASSUME IInv, DeliveredRecorded, [Next]_vars PROVE DeliveredRecorded'
  <2>1. CASE TakeMainForDelivery
    <3> SUFFICES ASSUME NEW k \in DOMAIN delivered'
                 PROVE  /\ delivered'[k].seq \in 1..Len(handed')
                        /\ handed'[delivered'[k].seq] =
                              [seq |-> delivered'[k].seq, key |-> k, body |-> delivered'[k].body]
      BY DEF DeliveredRecorded
    <3>1. /\ handed' = handed \o mainQueue
          /\ k \in DrainedKeys => delivered'[k] = pending[k]
          /\ k \notin DrainedKeys => k \in DOMAIN delivered /\ delivered'[k] = delivered[k]
      BY <2>1 DEF TakeMainForDelivery, MoveToWindow
    <3>2. CASE k \in DrainedKeys
      <4>1. PICK i \in DOMAIN mainQueue : mainQueue[i].key = k /\ k \in DOMAIN pending
        BY <3>2 DEF DrainedKeys
      <4>2. k # NoKey
        BY <4>1, <1>2, KeyAssumption DEF IInv, TypeOK
      <4>3. pending[k] = [seq |-> mainQueue[i].seq, body |-> mainQueue[i].body]
        BY <1>2, <4>1, <4>2 DEF IInv, PendingMirrorsQueue
      <4> QED BY <1>2, <3>1, <3>2, <4>1, <4>3, QueuedSeq
    <3>3. CASE k \notin DrainedKeys
      <4>1. /\ delivered[k].seq \in 1..Len(handed)
            /\ handed[delivered[k].seq] =
                  [seq |-> delivered[k].seq, key |-> k, body |-> delivered[k].body]
        BY <1>2, <3>1, <3>3 DEF DeliveredRecorded
      <4>2. handed \in Seq(Message) /\ mainQueue \in Seq(Message)
        BY <1>2 DEF IInv, TypeOK
      <4> HIDE DEF Message
      <4>3. \A j \in 1..Len(handed) :
                j \in 1..Len(handed \o mainQueue) /\ (handed \o mainQueue)[j] = handed[j]
        BY <4>2
      <4> QED BY <3>1, <3>3, <4>1, <4>3
    <3> QED BY <3>2, <3>3
  <2>2. CASE UNCHANGED <<delivered, handed>>
    BY <1>2, <2>2 DEF DeliveredRecorded
  <2> QED
    BY <1>2, <2>1, <2>2 DEF Next, vars, tables, PublishMain, PublishClosed, ReplayPending,
       ReplayDelivered, PublishFull, Refuse, Accept, Close
<1> QED BY <1>1, <1>2, InvariantHolds, PTL DEF Spec

\* The answers to a publication.
LEMMA PublishTruthful ==
  ASSUME IInv, DeliveredRecorded, NEW key \in Keys \cup {NoKey}, NEW body \in Bodies,
         PublishMain(key, body)
  PROVE  ReceiptTruthful'
<1>1. ASSUME NEW outcome, Refuse(outcome, key, body),
             outcome \in {"closed", "conflict"} \/ (outcome = "queueFull" /\ key \notin DOMAIN pending)
      PROVE  ReceiptTruthful'
  <2>1. /\ receipt'.outcome = outcome /\ receipt'.key = key
        /\ mainQueue' = mainQueue
    BY <1>1 DEF Refuse, Receipt
  <2>2. key \notin DOMAIN pending => key \notin {mainQueue[i].key : i \in DOMAIN mainQueue} \ {NoKey}
    BY DEF IInv, PendingMirrorsQueue
  <2>3. CASE outcome = "closed"
    BY <2>1, <2>3 DEF ReceiptTruthful
  <2>4. CASE outcome = "conflict"
    BY <2>1, <2>4 DEF ReceiptTruthful
  <2>5. CASE outcome = "queueFull" /\ key \notin DOMAIN pending
    <3>1. key \notin {mainQueue'[i].key : i \in DOMAIN mainQueue'} \ {NoKey}
      BY <2>1, <2>2, <2>5
    <3> QED BY <2>1, <2>5, <3>1 DEF ReceiptTruthful
  <2> QED BY <1>1, <2>3, <2>4, <2>5
<1>2. CASE PublishClosed(key, body)
  BY <1>1, <1>2 DEF PublishClosed
<1>3. CASE ReplayPending(key, body)
  <2>1. CASE pending[key].body = body
    <3>1. PICK i \in DOMAIN mainQueue : mainQueue[i].key = key
      BY <1>3 DEF ReplayPending, IInv, PendingMirrorsQueue
    <3>2. pending[key] = [seq |-> mainQueue[i].seq, body |-> mainQueue[i].body]
      <4>1. mainQueue[i].key # NoKey
        BY <1>3, <3>1, KeyAssumption DEF ReplayPending, IInv, TypeOK
      <4> QED BY <3>1, <4>1 DEF IInv, PendingMirrorsQueue
    <3>3. PICK p \in DOMAIN mainQueue :
              /\ p = CHOOSE q \in DOMAIN mainQueue : mainQueue[q].seq = pending[key].seq
              /\ mainQueue[p].seq = mainQueue[i].seq
      BY <3>2
    <3>4. /\ receipt' = Receipt("queued", key, body, pending[key].seq, p)
          /\ mainQueue' = mainQueue
      BY <1>3, <2>1, <3>3 DEF ReplayPending
    <3>5. p = i
      <4>1. /\ mainQueue[p].seq = Len(handed) + p /\ p \in Nat
            /\ mainQueue[i].seq = Len(handed) + i /\ i \in Nat
        BY <3>3, QueuedSeq
      <4>2. Len(handed) \in Nat
        BY DEF IInv, TypeOK
      <4>3. Len(handed) + p = Len(handed) + i
        BY <3>3, <4>1
      <4> QED BY <4>1, <4>2, <4>3
    <3>6. mainQueue[i] = [seq |-> pending[key].seq, key |-> key, body |-> body]
      BY <2>1, <3>1, <3>2, QueuedSeq
    <3>7. /\ receipt'.outcome = "queued" /\ receipt'.position = i
          /\ receipt'.seq = pending[key].seq /\ receipt'.key = key /\ receipt'.body = body
      BY <3>4, <3>5 DEF Receipt
    <3>8. /\ receipt'.position \in DOMAIN mainQueue'
          /\ mainQueue'[receipt'.position] =
                [seq |-> receipt'.seq, key |-> receipt'.key, body |-> receipt'.body]
      BY <3>4, <3>6, <3>7
    <3> QED BY <3>7, <3>8 DEF ReceiptTruthful
  <2>2. CASE pending[key].body # body
    BY <1>1, <1>3, <2>2 DEF ReplayPending
  <2> QED BY <2>1, <2>2
<1>4. CASE ReplayDelivered(key, body)
  <2>1. CASE delivered[key].body = body
    <3>1. /\ receipt' = Receipt("delivered", key, body, delivered[key].seq, 0)
          /\ handed' = handed /\ mainDeliveredSeq' = Len(handed)
      BY <1>4, <2>1 DEF ReplayDelivered, IInv, NothingLostOrRepeated
    <3>2. /\ delivered[key].seq \in 1..Len(handed)
          /\ handed[delivered[key].seq] = [seq |-> delivered[key].seq, key |-> key, body |-> body]
      BY <1>4, <2>1 DEF ReplayDelivered, DeliveredRecorded
    <3> QED BY <3>1, <3>2 DEF Receipt, ReceiptTruthful
  <2>2. CASE delivered[key].body # body
    BY <1>1, <1>4, <2>2 DEF ReplayDelivered
  <2> QED BY <2>1, <2>2
<1>5. CASE PublishFull(key, body)
  BY <1>1, <1>5 DEF PublishFull, IsNew
<1>6. CASE Accept(key, body)
  <2>1. mainQueue \in Seq(Message) /\ nextMainSeq \in Nat
    BY DEF IInv, TypeOK
  <2>2. /\ mainQueue' = Append(mainQueue, [seq |-> nextMainSeq, key |-> key, body |-> body])
        /\ receipt' = Receipt("accepted", key, body, nextMainSeq, Len(mainQueue) + 1)
    BY <1>6 DEF Accept
  <2>3. /\ Len(mainQueue) + 1 \in DOMAIN mainQueue'
        /\ mainQueue'[Len(mainQueue) + 1] = [seq |-> nextMainSeq, key |-> key, body |-> body]
    BY <2>1, <2>2
  <2> QED BY <2>2, <2>3 DEF Receipt, ReceiptTruthful
<1> QED BY <1>2, <1>3, <1>4, <1>5, <1>6 DEF PublishMain

(* A receipt tells the truth when it is returned: positions are present    *)
(* ones, and a replay is answered with the caller's own message.           *)
THEOREM ReceiptsTellTheTruth == Spec => []ReceiptTruthful
<1>1. Init => ReceiptTruthful
  BY DEF Init, ReceiptTruthful
<1>2. ASSUME IInv, DeliveredRecorded, ReceiptTruthful, [Next]_vars PROVE ReceiptTruthful'
  <2>1. CASE TakeMainForDelivery \/ Close
    BY <2>1 DEF TakeMainForDelivery, Close, ReceiptTruthful
  <2>2. CASE UNCHANGED vars
    BY <1>2, <2>2 DEF vars, ReceiptTruthful
  <2> QED BY <1>2, <2>1, <2>2, PublishTruthful DEF Next
<1> QED BY <1>1, <1>2, InvariantHolds, RecordsHold, PTL DEF Spec

-----------------------------------------------------------------------------
(* Repeated keys.                                                          *)

KeyedAfter(messages, i) == {l \in DOMAIN messages : i < l /\ messages[l].key # NoKey}

(* The window is the end of the history of keyed deliveries: the key of a  *)
(* delivered message stands as far from the end of the window as there     *)
(* were keyed deliveries after it, unless these fill the horizon.          *)
WindowIsRecent ==
    \A i \in DOMAIN handed : handed[i].key # NoKey =>
        LET after == Cardinality(KeyedAfter(handed, i))
        IN  \/ after >= MainDeliveredHorizon
            \/ /\ after < Len(deliveredOrder)
               /\ deliveredOrder[Len(deliveredOrder) - after] = handed[i].key

(* The window lists keys with a record of delivery, each once. *)
WindowRecorded ==
    /\ deliveredOrder \in Seq(Keys)
    /\ \A i \in DOMAIN deliveredOrder : deliveredOrder[i] \in DOMAIN delivered
    /\ \A i, j \in DOMAIN deliveredOrder : deliveredOrder[i] = deliveredOrder[j] => i = j

WindowInv == WindowRecorded /\ WindowIsRecent

\* A keyed message waits once in the queue.
LEMMA QueuedOnce ==
  ASSUME IInv, NEW i \in DOMAIN mainQueue, NEW j \in DOMAIN mainQueue,
         mainQueue[i].key = mainQueue[j].key, mainQueue[i].key # NoKey
  PROVE  i = j
<1>1. mainQueue[i].seq = mainQueue[j].seq
  <2>1. /\ pending[mainQueue[i].key] = [seq |-> mainQueue[i].seq, body |-> mainQueue[i].body]
        /\ pending[mainQueue[i].key] = [seq |-> mainQueue[j].seq, body |-> mainQueue[j].body]
    BY DEF IInv, PendingMirrorsQueue
  <2> QED BY <2>1
<1>2. /\ mainQueue[i].seq = Len(handed) + i /\ i \in Nat
      /\ mainQueue[j].seq = Len(handed) + j /\ j \in Nat
  BY QueuedSeq
<1>3. Len(handed) \in Nat
  BY DEF IInv, TypeOK
<1>4. Len(handed) + i = Len(handed) + j
  BY <1>1, <1>2
<1> QED BY <1>2, <1>3, <1>4

KeyedPlaces == {i \in DOMAIN mainQueue : mainQueue[i].key \in DOMAIN pending}

LEMMA KeyedPlacesAre ==
  ASSUME IInv
  PROVE  /\ mainQueue \in Seq(Message) /\ Len(mainQueue) \in Nat
         /\ DOMAIN mainQueue = 1..Len(mainQueue)
         /\ KeyedPlaces \in SUBSET DOMAIN mainQueue
         /\ \A i \in DOMAIN mainQueue :
               /\ i \in KeyedPlaces <=> mainQueue[i].key # NoKey
               /\ i \in KeyedPlaces => mainQueue[i].key \in Keys
<1>1. mainQueue \in Seq(Message)
  BY DEF IInv, TypeOK
<1>2. ASSUME NEW i \in DOMAIN mainQueue
      PROVE  /\ i \in KeyedPlaces <=> mainQueue[i].key # NoKey
             /\ i \in KeyedPlaces => mainQueue[i].key \in Keys
  BY KeyAssumption DEF IInv, TypeOK, PendingMirrorsQueue, KeyedPlaces
<1> QED BY <1>1, <1>2 DEF KeyedPlaces

\* The list of drained keys: the keys of the queue, each once, and each as
\* far from the end as there are keyed messages behind it.
LEMMA DrainedList ==
  ASSUME IInv
  PROVE  /\ DrainedKeysInOrder \in Seq(Keys)
         /\ Len(DrainedKeysInOrder) = Cardinality(KeyedPlaces)
         /\ \A k \in DOMAIN DrainedKeysInOrder : DrainedKeysInOrder[k] \in DrainedKeys
         /\ \A k, l \in DOMAIN DrainedKeysInOrder :
               DrainedKeysInOrder[k] = DrainedKeysInOrder[l] => k = l
         /\ \A q \in DOMAIN mainQueue : mainQueue[q].key # NoKey =>
               /\ Cardinality(KeyedAfter(mainQueue, q)) \in Nat
               /\ Cardinality(KeyedAfter(mainQueue, q)) < Len(DrainedKeysInOrder)
               /\ DrainedKeysInOrder[Len(DrainedKeysInOrder) - Cardinality(KeyedAfter(mainQueue, q))]
                     = mainQueue[q].key
<1> DEFINE I == KeyedPlaces
           A == Ascending(I)
           c == Cardinality(I)
           D == DrainedKeysInOrder
<1>1. /\ mainQueue \in Seq(Message) /\ Len(mainQueue) \in Nat
      /\ DOMAIN mainQueue = 1..Len(mainQueue)
      /\ I \in SUBSET DOMAIN mainQueue
      /\ \A i \in DOMAIN mainQueue :
            /\ i \in I <=> mainQueue[i].key # NoKey
            /\ i \in I => mainQueue[i].key \in Keys
  BY KeyedPlacesAre
<1> HIDE DEF I
<1>2. /\ c \in Nat /\ Len(At(mainQueue, I)) = c /\ DOMAIN At(mainQueue, I) = 1..c
      /\ \A k \in 1..c : A[k] \in I /\ At(mainQueue, I)[k] = mainQueue[A[k]]
      /\ \A i \in I : \E k \in 1..c : A[k] = i /\ At(mainQueue, I)[k] = mainQueue[i]
  BY <1>1, AtKeeps
<1>3. \A k, l \in 1..c : k < l => A[k] < A[l]
  <2>1. Len(mainQueue) \in Nat /\ I \in SUBSET (1..Len(mainQueue))
    BY <1>1
  <2>2. \A k, l \in 1..Cardinality(I) : k < l => Ascending(I)[k] < Ascending(I)[l]
    <3> HIDE DEF A, c
    <3> QED BY <2>1, AscendingLists
  <2> QED BY <2>2
<1>4. D = [k \in 1..c |-> mainQueue[A[k]].key]
  BY <1>2 DEF DrainedKeysInOrder, I, KeyedPlaces
<1> HIDE DEF A, c, D
<1>5. \A k \in 1..c : mainQueue[A[k]].key \in Keys /\ A[k] \in DOMAIN mainQueue /\ A[k] \in Nat
  BY <1>1, <1>2
<1>6. D \in Seq(Keys) /\ Len(D) = c /\ DOMAIN D = 1..c
  BY <1>2, <1>4, <1>5
<1>7. ASSUME NEW k \in 1..c PROVE D[k] \in DrainedKeys
  BY <1>2, <1>4, <1>5, <1>7 DEF DrainedKeys, I, KeyedPlaces
<1>8. ASSUME NEW k \in 1..c, NEW l \in 1..c, D[k] = D[l] PROVE k = l
  <2>1. mainQueue[A[k]].key = mainQueue[A[l]].key /\ mainQueue[A[k]].key # NoKey
    BY <1>1, <1>2, <1>4, <1>5, <1>8
  <2>2. A[k] = A[l]
    BY <1>5, <2>1, QueuedOnce
  <2>3. ~ (k < l) /\ ~ (l < k)
    BY <1>3, <1>5, <2>2
  <2> QED BY <1>2, <2>3
<1>9. ASSUME NEW q \in DOMAIN mainQueue, mainQueue[q].key # NoKey
      PROVE  /\ Cardinality(KeyedAfter(mainQueue, q)) \in Nat
             /\ Cardinality(KeyedAfter(mainQueue, q)) < Len(D)
             /\ D[Len(D) - Cardinality(KeyedAfter(mainQueue, q))] = mainQueue[q].key
  <2>1. q \in I
    BY <1>1, <1>9
  <2>2. PICK r \in 1..c : A[r] = q
    BY <1>2, <2>1
  <2>3. KeyedAfter(mainQueue, q) = {x \in I : A[r] < x}
    BY <1>1, <2>2 DEF KeyedAfter
  <2>4. Cardinality({x \in I : Ascending(I)[r] < x}) = Cardinality(I) - r
    <3>1. Len(mainQueue) \in Nat /\ I \in SUBSET (1..Len(mainQueue)) /\ r \in 1..Cardinality(I)
      BY <1>1 DEF c
    <3> QED BY <3>1, RankFromTheEnd
  <2>5. Cardinality(KeyedAfter(mainQueue, q)) = c - r
    BY <2>3, <2>4 DEF A, c
  <2> QED BY <1>2, <1>4, <1>6, <2>2, <2>5
<1>10. DOMAIN D = 1..c
  BY <1>6
<1> QED BY <1>6, <1>7, <1>8, <1>9, <1>10 DEF D, c, I

\* The keyed messages of a sequence behind a place are finitely many.
LEMMA CountedAfter ==
  ASSUME NEW s \in Seq(Message), NEW i
  PROVE  /\ IsFiniteSet(KeyedAfter(s, i)) /\ Cardinality(KeyedAfter(s, i)) \in Nat
         /\ KeyedAfter(s, i) \in SUBSET DOMAIN s
<1>1. KeyedAfter(s, i) \in SUBSET (1..Len(s)) /\ Len(s) \in Nat /\ DOMAIN s = 1..Len(s)
  BY DEF KeyedAfter
<1>2. IsFiniteSet(1..Len(s))
  BY <1>1, FS_Interval
<1>3. IsFiniteSet(KeyedAfter(s, i))
  BY <1>1, <1>2, FS_Subset
<1> QED BY <1>1, <1>3, FS_CardinalityType

\* A drain puts the keyed messages of the queue behind all earlier ones.
LEMMA DrainCounts ==
  ASSUME IInv
  PROVE  /\ \A i \in DOMAIN handed :
               Cardinality(KeyedAfter(handed \o mainQueue, i))
                 = Cardinality(KeyedAfter(handed, i)) + Cardinality(KeyedPlaces)
         /\ \A q \in DOMAIN mainQueue :
               Cardinality(KeyedAfter(handed \o mainQueue, Len(handed) + q))
                 = Cardinality(KeyedAfter(mainQueue, q))
<1> DEFINE d == Len(handed)
           both == handed \o mainQueue
           Behind == {d + x : x \in KeyedPlaces}
<1>1. /\ handed \in Seq(Message) /\ mainQueue \in Seq(Message) /\ d \in Nat
      /\ Len(mainQueue) \in Nat
      /\ DOMAIN handed = 1..d /\ DOMAIN mainQueue = 1..Len(mainQueue)
  BY DEF IInv, TypeOK
<1>2. /\ KeyedPlaces \in SUBSET DOMAIN mainQueue
      /\ \A i \in DOMAIN mainQueue : i \in KeyedPlaces <=> mainQueue[i].key # NoKey
  BY KeyedPlacesAre
<1> HIDE DEF Message
<1>3. /\ DOMAIN both = 1..(d + Len(mainQueue))
      /\ \A i \in 1..d : both[i] = handed[i]
      /\ \A q \in DOMAIN mainQueue : both[d + q] = mainQueue[q]
  BY <1>1
<1> HIDE DEF d, both
<1>4. KeyedPlaces \in SUBSET Nat /\ IsFiniteSet(KeyedPlaces)
  <2>1. IsFiniteSet(1..Len(mainQueue))
    BY <1>1, FS_Interval
  <2>2. IsFiniteSet(KeyedPlaces)
    BY <1>1, <1>2, <2>1, FS_Subset
  <2>3. KeyedPlaces \in SUBSET Nat
    BY <1>1, <1>2
  <2> QED BY <2>2, <2>3
<1>5. /\ IsFiniteSet(Behind) /\ Cardinality(Behind) = Cardinality(KeyedPlaces)
      /\ Cardinality(KeyedPlaces) \in Nat
  BY <1>1, <1>4, ShiftKeepsCount, FS_CardinalityType
<1>6. \A x \in DOMAIN both : x \in 1..d \/ (x - d \in DOMAIN mainQueue /\ x = d + (x - d))
  BY <1>1, <1>3
<1>7. ASSUME NEW i \in 1..d
      PROVE  Cardinality(KeyedAfter(both, i))
               = Cardinality(KeyedAfter(handed, i)) + Cardinality(KeyedPlaces)
  <2>1. \A x \in KeyedAfter(both, i) : x \in KeyedAfter(handed, i) \/ x \in Behind
    <3> SUFFICES ASSUME NEW x \in DOMAIN both, i < x, both[x].key # NoKey
                 PROVE  x \in KeyedAfter(handed, i) \/ x \in Behind
      BY DEF KeyedAfter
    <3>1. CASE x \in 1..d
      BY <1>1, <1>3, <3>1 DEF KeyedAfter
    <3>2. CASE x - d \in DOMAIN mainQueue /\ x = d + (x - d)
      <4>1. mainQueue[x - d].key # NoKey
        BY <1>3, <3>2
      <4>2. x - d \in KeyedPlaces
        BY <1>2, <3>2, <4>1
      <4> QED BY <3>2, <4>2
    <3> QED BY <1>6, <3>1, <3>2
  <2>2. \A x \in KeyedAfter(handed, i) : x \in KeyedAfter(both, i) /\ x \notin Behind
    <3> SUFFICES ASSUME NEW x \in 1..d, i < x, handed[x].key # NoKey
                 PROVE  x \in KeyedAfter(both, i) /\ x \notin Behind
      BY <1>1 DEF KeyedAfter
    <3>1. x \in KeyedAfter(both, i)
      BY <1>1, <1>3 DEF KeyedAfter
    <3>2. x \notin Behind
      BY <1>1, <1>2
    <3> QED BY <3>1, <3>2
  <2>3. \A x \in Behind : x \in KeyedAfter(both, i)
    <3> SUFFICES ASSUME NEW q \in KeyedPlaces PROVE d + q \in KeyedAfter(both, i)
      OBVIOUS
    <3>1. q \in DOMAIN mainQueue /\ mainQueue[q].key # NoKey
      BY <1>2
    <3>2. d + q \in DOMAIN both /\ i < d + q /\ both[d + q].key # NoKey
      BY <1>1, <1>3, <3>1
    <3> QED BY <3>2 DEF KeyedAfter
  <2>4. KeyedAfter(both, i) = KeyedAfter(handed, i) \cup Behind
    BY <2>1, <2>2, <2>3
  <2>5. KeyedAfter(handed, i) \cap Behind = {}
    BY <2>2
  <2>6. IsFiniteSet(KeyedAfter(handed, i)) /\ Cardinality(KeyedAfter(handed, i)) \in Nat
    BY <1>1, CountedAfter
  <2> HIDE DEF Behind
  <2>7. Cardinality(KeyedAfter(handed, i) \cup Behind)
          = Cardinality(KeyedAfter(handed, i)) + Cardinality(Behind) - Cardinality(KeyedAfter(handed, i) \cap Behind)
    BY <1>5, <2>6, FS_Union
  <2>8. Cardinality(KeyedAfter(handed, i) \cap Behind) = 0
    BY <2>5, FS_EmptySet
  <2> QED BY <1>5, <2>4, <2>6, <2>7, <2>8
<1>8. ASSUME NEW q \in DOMAIN mainQueue
      PROVE  Cardinality(KeyedAfter(both, d + q)) = Cardinality(KeyedAfter(mainQueue, q))
  <2> DEFINE K == KeyedAfter(mainQueue, q)
  <2>1. IsFiniteSet(K) /\ K \in SUBSET DOMAIN mainQueue
    BY <1>1, CountedAfter
  <2>2. K \in SUBSET Nat
    BY <1>1, <2>1
  <2>3. \A x \in KeyedAfter(both, d + q) : x \in {d + y : y \in K}
    <3> SUFFICES ASSUME NEW x \in DOMAIN both, d + q < x, both[x].key # NoKey
                 PROVE  x \in {d + y : y \in K}
      BY DEF KeyedAfter
    <3>1. x - d \in DOMAIN mainQueue /\ x = d + (x - d) /\ q < x - d
      BY <1>1, <1>3
    <3>2. mainQueue[x - d].key # NoKey
      BY <1>3, <3>1
    <3>3. x - d \in K
      BY <3>1, <3>2 DEF KeyedAfter
    <3> QED BY <3>1, <3>3
  <2>4. \A y \in K : d + y \in KeyedAfter(both, d + q)
    <3> SUFFICES ASSUME NEW y \in DOMAIN mainQueue, q < y, mainQueue[y].key # NoKey
                 PROVE  d + y \in KeyedAfter(both, d + q)
      BY DEF KeyedAfter
    <3>1. d + y \in DOMAIN both /\ d + q < d + y /\ both[d + y].key # NoKey
      BY <1>1, <1>3
    <3> QED BY <3>1 DEF KeyedAfter
  <2>5. KeyedAfter(both, d + q) = {d + y : y \in K}
    BY <2>3, <2>4
  <2> HIDE DEF K
  <2>6. Cardinality({d + y : y \in K}) = Cardinality(K)
    BY <1>1, <2>1, <2>2, ShiftKeepsCount
  <2> QED BY <2>5, <2>6 DEF K
<1> QED BY <1>1, <1>7, <1>8 DEF d, both

\* What remains of a list without its front.
LEMMA Remainder ==
  ASSUME NEW T, NEW s \in Seq(T), NEW n \in 0..Len(s)
  PROVE  /\ SubSeq(s, n + 1, Len(s)) \in Seq(T)
         /\ Len(SubSeq(s, n + 1, Len(s))) = Len(s) - n
         /\ \A k \in 1..(Len(s) - n) : SubSeq(s, n + 1, Len(s))[k] = s[n + k] /\ n + k \in DOMAIN s
  OBVIOUS

\* Two lists without a common or a repeated element, one after the other.
LEMMA JoinedOnce ==
  ASSUME NEW s \in Seq(Keys), NEW t \in Seq(Keys), NEW S, NEW T, S \cap T = {},
         \A k \in DOMAIN s : s[k] \in S, \A k \in DOMAIN t : t[k] \in T,
         \A k, l \in DOMAIN s : s[k] = s[l] => k = l,
         \A k, l \in DOMAIN t : t[k] = t[l] => k = l
  PROVE  /\ s \o t \in Seq(Keys)
         /\ Len(s \o t) = Len(s) + Len(t)
         /\ \A k \in DOMAIN s : k \in DOMAIN (s \o t) /\ (s \o t)[k] = s[k]
         /\ \A k \in DOMAIN t : Len(s) + k \in DOMAIN (s \o t) /\ (s \o t)[Len(s) + k] = t[k]
         /\ \A k \in DOMAIN (s \o t) : (s \o t)[k] \in S \cup T
         /\ \A k, l \in DOMAIN (s \o t) : (s \o t)[k] = (s \o t)[l] => k = l
<1> DEFINE both == s \o t
<1>1. /\ both \in Seq(Keys) /\ Len(both) = Len(s) + Len(t)
      /\ Len(s) \in Nat /\ Len(t) \in Nat
      /\ DOMAIN s = 1..Len(s) /\ DOMAIN t = 1..Len(t) /\ DOMAIN both = 1..(Len(s) + Len(t))
      /\ \A k \in DOMAIN s : both[k] = s[k]
      /\ \A k \in DOMAIN t : both[Len(s) + k] = t[k]
  OBVIOUS
<1> HIDE DEF both
<1>2. ASSUME NEW k \in DOMAIN both
      PROVE  \/ k \in DOMAIN s /\ both[k] = s[k] /\ both[k] \in S
             \/ k - Len(s) \in DOMAIN t /\ both[k] = t[k - Len(s)] /\ both[k] \in T
  <2>1. CASE k \in DOMAIN s
    BY <1>1, <2>1
  <2>2. CASE k \notin DOMAIN s
    <3>1. k - Len(s) \in DOMAIN t /\ Len(s) + (k - Len(s)) = k
      BY <1>1, <2>2
    <3> QED BY <1>1, <3>1
  <2> QED BY <2>1, <2>2
<1>3. ASSUME NEW k \in DOMAIN both, NEW l \in DOMAIN both, both[k] = both[l] PROVE k = l
  <2>1. CASE k \in DOMAIN s /\ both[k] = s[k] /\ both[k] \in S
    <3>1. both[l] \notin T
      BY <1>3, <2>1
    <3> QED BY <1>2, <1>3, <2>1, <3>1
  <2>2. CASE k - Len(s) \in DOMAIN t /\ both[k] = t[k - Len(s)] /\ both[k] \in T
    <3>1. l - Len(s) \in DOMAIN t /\ both[l] = t[l - Len(s)]
      BY <1>2, <1>3, <2>2
    <3>2. k - Len(s) = l - Len(s)
      BY <1>3, <2>2, <3>1
    <3> QED BY <1>1, <3>2
  <2> QED BY <1>2, <2>1, <2>2
<1>4. \A k \in DOMAIN t : Len(s) + k \in DOMAIN both
  BY <1>1
<1>5. \A k \in DOMAIN s : k \in DOMAIN both
  BY <1>1
<1>6. \A k \in DOMAIN both : both[k] \in S \cup T
  BY <1>2
<1> QED BY <1>1, <1>3, <1>4, <1>5, <1>6 DEF both

\* A drain moves the window on.
LEMMA TakeKeepsWindow ==
  ASSUME IInv, WindowInv, TakeMainForDelivery
  PROVE  WindowInv'
<1> DEFINE O == deliveredOrder
           D == DrainedKeysInOrder
           order == O \o D
           excess == IF Len(order) > MainDeliveredHorizon THEN Len(order) - MainDeliveredHorizon ELSE 0
           forgotten == {order[i] : i \in 1..excess}
<1>1. /\ O \in Seq(Keys) /\ \A k \in DOMAIN O : O[k] \in DOMAIN delivered
      /\ \A k, l \in DOMAIN O : O[k] = O[l] => k = l
  BY DEF WindowInv, WindowRecorded
<1>2. /\ D \in Seq(Keys) /\ Len(D) = Cardinality(KeyedPlaces)
      /\ \A k \in DOMAIN D : D[k] \in DrainedKeys
      /\ \A k, l \in DOMAIN D : D[k] = D[l] => k = l
      /\ \A q \in DOMAIN mainQueue : mainQueue[q].key # NoKey =>
            /\ Cardinality(KeyedAfter(mainQueue, q)) \in Nat
            /\ Cardinality(KeyedAfter(mainQueue, q)) < Len(D)
            /\ D[Len(D) - Cardinality(KeyedAfter(mainQueue, q))] = mainQueue[q].key
  BY DrainedList
<1>3. DOMAIN delivered \cap DrainedKeys = {}
  BY DEF DrainedKeys, IInv, PendingMirrorsQueue
<1>4. /\ deliveredOrder' = SubSeq(order, excess + 1, Len(order))
      /\ DOMAIN delivered' = (DOMAIN delivered \cup DrainedKeys) \ forgotten
      /\ handed' = handed \o mainQueue
  BY DEF TakeMainForDelivery, MoveToWindow
<1> HIDE DEF O, D
<1>5. /\ order \in Seq(Keys) /\ Len(order) = Len(O) + Len(D)
      /\ \A k \in DOMAIN O : k \in DOMAIN order /\ order[k] = O[k]
      /\ \A k \in DOMAIN D : Len(O) + k \in DOMAIN order /\ order[Len(O) + k] = D[k]
      /\ \A k \in DOMAIN order : order[k] \in DOMAIN delivered \cup DrainedKeys
      /\ \A k, l \in DOMAIN order : order[k] = order[l] => k = l
  <2> DEFINE S == DOMAIN delivered
  <2>1. O \in Seq(Keys) /\ D \in Seq(Keys) /\ S \cap DrainedKeys = {}
    BY <1>1, <1>2, <1>3
  <2>2. (\A k \in DOMAIN O : O[k] \in S) /\ (\A k \in DOMAIN D : D[k] \in DrainedKeys)
    BY <1>1, <1>2
  <2>3. /\ \A k, l \in DOMAIN O : O[k] = O[l] => k = l
        /\ \A k, l \in DOMAIN D : D[k] = D[l] => k = l
    BY <1>1, <1>2
  <2> HIDE DEF S
  <2>4. /\ O \o D \in Seq(Keys) /\ Len(O \o D) = Len(O) + Len(D)
        /\ \A k \in DOMAIN O : k \in DOMAIN (O \o D) /\ (O \o D)[k] = O[k]
        /\ \A k \in DOMAIN D : Len(O) + k \in DOMAIN (O \o D) /\ (O \o D)[Len(O) + k] = D[k]
        /\ \A k \in DOMAIN (O \o D) : (O \o D)[k] \in S \cup DrainedKeys
        /\ \A k, l \in DOMAIN (O \o D) : (O \o D)[k] = (O \o D)[l] => k = l
    BY <2>1, <2>2, <2>3, JoinedOnce
  <2> QED BY <2>4 DEF S
<1> HIDE DEF order
<1>6. /\ Len(O) \in Nat /\ Len(D) \in Nat /\ Len(order) \in Nat /\ MainDeliveredHorizon \in Nat
      /\ DOMAIN O = 1..Len(O) /\ DOMAIN D = 1..Len(D) /\ DOMAIN order = 1..Len(order)
  BY <1>1, <1>2, <1>5, CapacityAssumption
<1>7. /\ excess \in 0..Len(order) /\ excess \in Nat
      /\ Len(order) - excess >= MainDeliveredHorizon \/ excess = 0
  BY <1>6
<1> HIDE DEF excess, forgotten
<1>8. /\ deliveredOrder' \in Seq(Keys) /\ Len(deliveredOrder') = Len(order) - excess
      /\ \A k \in 1..(Len(order) - excess) :
            deliveredOrder'[k] = order[excess + k] /\ excess + k \in DOMAIN order
  BY <1>4, <1>5, <1>7, Remainder
<1>9. WindowRecorded'
  <2>1. DOMAIN deliveredOrder' = 1..(Len(order) - excess)
    BY <1>8
  <2>2. ASSUME NEW k \in DOMAIN deliveredOrder' PROVE deliveredOrder'[k] \in DOMAIN delivered'
    <3>1. /\ deliveredOrder'[k] = order[excess + k] /\ excess + k \in DOMAIN order /\ k \in Nat /\ k >= 1
      BY <1>8, <2>1
    <3>2. order[excess + k] \notin forgotten
      <4> SUFFICES ASSUME NEW j \in 1..excess, order[j] = order[excess + k] PROVE FALSE
        BY DEF forgotten
      <4>1. j \in DOMAIN order /\ j < excess + k
        BY <1>6, <1>7, <3>1
      <4> QED BY <1>5, <1>7, <3>1, <4>1
    <3> QED BY <1>4, <1>5, <3>1, <3>2
  <2>3. ASSUME NEW k \in DOMAIN deliveredOrder', NEW l \in DOMAIN deliveredOrder',
               deliveredOrder'[k] = deliveredOrder'[l]
        PROVE  k = l
    <3>1. /\ order[excess + k] = order[excess + l] /\ k \in Nat /\ l \in Nat
          /\ excess + k \in DOMAIN order /\ excess + l \in DOMAIN order
      BY <1>8, <2>1, <2>3
    <3>2. excess + k = excess + l
      BY <1>5, <3>1
    <3> QED BY <1>7, <3>1, <3>2
  <2> QED BY <1>8, <2>2, <2>3 DEF WindowRecorded
<1> DEFINE both == handed \o mainQueue
<1>10. /\ handed \in Seq(Message) /\ mainQueue \in Seq(Message)
       /\ Len(handed) \in Nat /\ DOMAIN handed = 1..Len(handed)
       /\ DOMAIN mainQueue = 1..Len(mainQueue) /\ Len(mainQueue) \in Nat
  BY DEF IInv, TypeOK
<1>11. /\ DOMAIN both = 1..(Len(handed) + Len(mainQueue))
       /\ \A i \in DOMAIN handed : both[i] = handed[i]
       /\ \A q \in DOMAIN mainQueue : both[Len(handed) + q] = mainQueue[q]
  <2> HIDE DEF Message
  <2> QED BY <1>10
<1> HIDE DEF both
<1>12. /\ \A i \in DOMAIN handed :
              Cardinality(KeyedAfter(both, i)) = Cardinality(KeyedAfter(handed, i)) + Len(D)
       /\ \A q \in DOMAIN mainQueue :
              Cardinality(KeyedAfter(both, Len(handed) + q)) = Cardinality(KeyedAfter(mainQueue, q))
  BY <1>2, DrainCounts DEF both
\* The place of a key in the joined list, counted from its end.
<1>13. ASSUME NEW i \in DOMAIN both, both[i].key # NoKey,
              NEW after \in Nat, after < Len(order), order[Len(order) - after] = both[i].key
       PROVE  \/ after >= MainDeliveredHorizon
              \/ /\ after < Len(deliveredOrder')
                 /\ deliveredOrder'[Len(deliveredOrder') - after] = both[i].key
  <2> SUFFICES ASSUME after < MainDeliveredHorizon
               PROVE  /\ after < Len(deliveredOrder')
                      /\ deliveredOrder'[Len(deliveredOrder') - after] = both[i].key
    BY <1>6
  <2>1. after < Len(order) - excess
    BY <1>6, <1>7, <1>13
  <2>2. Len(order) - excess - after \in 1..(Len(order) - excess)
    BY <1>6, <1>7, <2>1
  <2>3. excess + (Len(order) - excess - after) = Len(order) - after
    BY <1>6, <1>7
  <2> QED BY <1>8, <1>13, <2>1, <2>2, <2>3
<1>14. ASSUME NEW i \in DOMAIN both, both[i].key # NoKey
       PROVE  LET after == Cardinality(KeyedAfter(both, i))
              IN  \/ after >= MainDeliveredHorizon
                  \/ /\ after < Len(deliveredOrder')
                     /\ deliveredOrder'[Len(deliveredOrder') - after] = both[i].key
  <2>1. CASE i \in DOMAIN handed
    <3> DEFINE before == Cardinality(KeyedAfter(handed, i))
    <3>1. before \in Nat
      BY <1>10, CountedAfter
    <3>2. both[i] = handed[i] /\ Cardinality(KeyedAfter(both, i)) = before + Len(D)
      BY <1>11, <1>12, <2>1
    <3>3. before >= MainDeliveredHorizon \/ (before < Len(O) /\ O[Len(O) - before] = both[i].key)
      BY <1>14, <2>1, <3>2 DEF WindowInv, WindowIsRecent, O
    <3> HIDE DEF before
    <3>4. CASE before >= MainDeliveredHorizon
      BY <1>6, <3>1, <3>2, <3>4
    <3>5. CASE before < Len(O) /\ O[Len(O) - before] = both[i].key
      <4>1. Len(O) - before \in DOMAIN O
        BY <1>6, <3>1, <3>5
      <4>2. order[Len(O) - before] = both[i].key
        BY <1>5, <3>5, <4>1
      <4>3. /\ Len(order) - (before + Len(D)) = Len(O) - before
            /\ before + Len(D) \in Nat /\ before + Len(D) < Len(order)
        BY <1>5, <1>6, <3>1, <3>5
      <4> QED BY <1>13, <1>14, <3>2, <4>2, <4>3
    <3> QED BY <3>3, <3>4, <3>5
  <2>2. CASE i \notin DOMAIN handed
    <3> DEFINE q == i - Len(handed)
               after == Cardinality(KeyedAfter(mainQueue, q))
    <3>1. q \in DOMAIN mainQueue /\ Len(handed) + q = i
      BY <1>10, <1>11, <2>2
    <3> HIDE DEF q
    <3>2. both[i] = mainQueue[q] /\ Cardinality(KeyedAfter(both, i)) = after
      BY <1>11, <1>12, <3>1
    <3>3. after \in Nat /\ after < Len(D) /\ D[Len(D) - after] = both[i].key
      BY <1>2, <1>14, <3>1, <3>2
    <3> HIDE DEF after
    <3>4. Len(D) - after \in DOMAIN D
      BY <1>6, <3>3
    <3>5. order[Len(O) + (Len(D) - after)] = both[i].key
      BY <1>5, <3>3, <3>4
    <3>6. /\ Len(O) + (Len(D) - after) = Len(order) - after
          /\ after < Len(order)
      BY <1>5, <1>6, <3>3
    <3> QED BY <1>13, <1>14, <3>2, <3>3, <3>5, <3>6
  <2> QED BY <2>1, <2>2
<1>15. WindowIsRecent'
  BY <1>4, <1>14 DEF WindowIsRecent, both
<1> QED BY <1>9, <1>15 DEF WindowInv

\* Accepting a key that neither table knows: it was last delivered beyond
\* the horizon, if ever.
LEMMA AcceptBeyondHorizon ==
  ASSUME IInv, WindowInv, RepeatOnlyBeyondHorizon,
         NEW key \in Keys \cup {NoKey}, NEW body \in Bodies, Accept(key, body)
  PROVE  RepeatOnlyBeyondHorizon'
<1> DEFINE msg == [seq |-> nextMainSeq, key |-> key, body |-> body]
           A == Accepted
           B == Append(A, msg)
           n == Len(A)
<1>1. /\ mainQueue \in Seq(Message) /\ handed \in Seq(Message) /\ msg \in Message
      /\ Len(handed) \in Nat /\ Len(mainQueue) \in Nat
      /\ DOMAIN handed = 1..Len(handed) /\ DOMAIN mainQueue = 1..Len(mainQueue)
  BY DEF IInv, TypeOK, Message
<1>2. mainQueue' = Append(mainQueue, msg) /\ handed' = handed
  BY DEF Accept
<1> HIDE DEF Message
<1>3. Accepted' = B /\ A \in Seq(Message) /\ msg.key = key
  BY <1>1, <1>2 DEF Accepted
<1>4. /\ n = Len(handed) + Len(mainQueue) /\ n \in Nat /\ DOMAIN A = 1..n
      /\ \A i \in DOMAIN handed : A[i] = handed[i]
      /\ \A q \in DOMAIN mainQueue : A[Len(handed) + q] = mainQueue[q]
  BY <1>1 DEF Accepted
<1> HIDE DEF A, msg
<1>5. /\ DOMAIN B = 1..(n + 1) /\ \A i \in 1..n : B[i] = A[i]
      /\ B[n + 1] = msg
  BY <1>1, <1>3, <1>4
<1> HIDE DEF B, n
<1>6. key # NoKey => key \notin DOMAIN pending /\ key \notin DOMAIN delivered
  BY DEF Accept, IsNew
\* Between two earlier messages nothing changes.
<1>7. ASSUME NEW i \in 1..n, NEW j \in 1..n, i < j, B[i].key = B[j].key, B[i].key # NoKey
      PROVE  Cardinality(KeyedBetween(B, i, j)) >= MainDeliveredHorizon
  <2>1. A[i].key = A[j].key /\ A[i].key # NoKey
    BY <1>5, <1>7
  <2>2. Cardinality(KeyedBetween(A, i, j)) >= MainDeliveredHorizon
    BY <1>4, <1>7, <2>1 DEF RepeatOnlyBeyondHorizon, A
  <2>3. \A l \in DOMAIN B : l < j => l \in DOMAIN A /\ A[l] = B[l]
    BY <1>4, <1>5, <1>7
  <2>4. \A l \in DOMAIN A : l \in DOMAIN B /\ A[l] = B[l]
    BY <1>4, <1>5
  <2>5. KeyedBetween(B, i, j) = KeyedBetween(A, i, j)
    BY <2>3, <2>4 DEF KeyedBetween
  <2> QED BY <2>2, <2>5
<1>8. ASSUME NEW i \in 1..n, B[i].key = key, key # NoKey
      PROVE  Cardinality(KeyedBetween(B, i, n + 1)) >= MainDeliveredHorizon
  <2>1. i \in DOMAIN handed
    <3> SUFFICES ASSUME i \notin DOMAIN handed PROVE FALSE
      OBVIOUS
    <3>1. i - Len(handed) \in DOMAIN mainQueue /\ Len(handed) + (i - Len(handed)) = i
      BY <1>1, <1>4
    <3>2. mainQueue[i - Len(handed)].key = key
      BY <1>4, <1>5, <1>8, <3>1
    <3>3. key \in DOMAIN pending
      BY <1>8, <3>1, <3>2 DEF IInv, PendingMirrorsQueue
    <3> QED BY <1>6, <1>8, <3>3
  <2>2. handed[i].key = key
    BY <1>4, <1>5, <1>8, <2>1
  <2> DEFINE after == Cardinality(KeyedAfter(handed, i))
  <2>3. after \in Nat
    BY <1>1, CountedAfter
  <2>4. \/ after >= MainDeliveredHorizon
        \/ after < Len(deliveredOrder) /\ deliveredOrder[Len(deliveredOrder) - after] = key
    BY <1>8, <2>1, <2>2 DEF WindowInv, WindowIsRecent
  <2>5. after >= MainDeliveredHorizon
    <3> HIDE DEF after
    <3> SUFFICES ASSUME after < Len(deliveredOrder), deliveredOrder[Len(deliveredOrder) - after] = key
                 PROVE  FALSE
      BY <2>4
    <3>1. Len(deliveredOrder) - after \in DOMAIN deliveredOrder
      BY <2>3 DEF WindowInv, WindowRecorded
    <3>2. key \in DOMAIN delivered
      BY <3>1 DEF WindowInv, WindowRecorded
    <3> QED BY <1>6, <1>8, <3>2
  <2>6. KeyedAfter(handed, i) \in SUBSET KeyedBetween(B, i, n + 1)
    <3> SUFFICES ASSUME NEW l \in DOMAIN handed, i < l, handed[l].key # NoKey
                 PROVE  l \in KeyedBetween(B, i, n + 1)
      BY DEF KeyedAfter
    <3>1. l \in DOMAIN B /\ l < n + 1 /\ B[l] = handed[l]
      BY <1>1, <1>4, <1>5
    <3> QED BY <3>1 DEF KeyedBetween
  <2>7. IsFiniteSet(KeyedBetween(B, i, n + 1)) /\ Cardinality(KeyedBetween(B, i, n + 1)) \in Nat
    <3>1. IsFiniteSet(1..(n + 1))
      BY <1>4, FS_Interval
    <3>2. KeyedBetween(B, i, n + 1) \in SUBSET (1..(n + 1))
      BY <1>5 DEF KeyedBetween
    <3>3. IsFiniteSet(KeyedBetween(B, i, n + 1))
      BY <3>1, <3>2, FS_Subset
    <3> QED BY <3>3, FS_CardinalityType
  <2>8. after <= Cardinality(KeyedBetween(B, i, n + 1))
    BY <2>6, <2>7, FS_Subset
  <2> HIDE DEF after
  <2>9. MainDeliveredHorizon \in Nat
    BY CapacityAssumption
  <2> QED BY <2>3, <2>5, <2>7, <2>8, <2>9
<1>9. ASSUME NEW i \in DOMAIN B, NEW j \in DOMAIN B, i < j, B[i].key = B[j].key, B[i].key # NoKey
      PROVE  Cardinality(KeyedBetween(B, i, j)) >= MainDeliveredHorizon
  <2>1. i \in 1..n
    BY <1>4, <1>5, <1>9
  <2>2. CASE j \in 1..n
    BY <1>7, <1>9, <2>1, <2>2
  <2>3. CASE j = n + 1
    BY <1>3, <1>5, <1>8, <1>9, <2>1, <2>3
  <2> QED BY <1>4, <1>5, <2>2, <2>3
<1>10. \A i, j \in DOMAIN B : i < j /\ B[i].key = B[j].key /\ B[i].key # NoKey =>
           Cardinality(KeyedBetween(B, i, j)) >= MainDeliveredHorizon
  BY <1>9
<1> QED BY <1>3, <1>10 DEF RepeatOnlyBeyondHorizon

HorizonInv == WindowInv /\ RepeatOnlyBeyondHorizon

LEMMA HorizonStarts == Init => HorizonInv
<1> SUFFICES ASSUME Init PROVE HorizonInv
  OBVIOUS
<1>1. mainQueue = <<>> /\ handed = <<>> /\ deliveredOrder = <<>>
  BY DEF Init
<1>2. WindowInv
  <2>1. deliveredOrder \in Seq(Keys) /\ DOMAIN deliveredOrder = {} /\ DOMAIN handed = {}
    BY <1>1
  <2> QED BY <2>1 DEF WindowInv, WindowRecorded, WindowIsRecent
<1>3. DOMAIN Accepted = {}
  BY <1>1 DEF Accepted
<1>4. RepeatOnlyBeyondHorizon
  BY <1>3 DEF RepeatOnlyBeyondHorizon
<1> QED BY <1>2, <1>4 DEF HorizonInv

LEMMA HorizonSteps == IInv /\ HorizonInv /\ [Next]_vars => HorizonInv'
<1> SUFFICES ASSUME IInv, HorizonInv, [Next]_vars PROVE HorizonInv'
  OBVIOUS
<1>1. ASSUME UNCHANGED <<mainQueue, handed, delivered, deliveredOrder>> PROVE HorizonInv'
  <2>1. Accepted' = Accepted
    BY <1>1 DEF Accepted
  <2>2. WindowInv'
    BY <1>1 DEF HorizonInv, WindowInv, WindowRecorded, WindowIsRecent
  <2>3. RepeatOnlyBeyondHorizon'
    BY <2>1 DEF HorizonInv, RepeatOnlyBeyondHorizon
  <2> QED BY <2>2, <2>3 DEF HorizonInv
<1>2. ASSUME NEW key \in Keys \cup {NoKey}, NEW body \in Bodies, PublishMain(key, body)
      PROVE  HorizonInv'
  <2>1. CASE Accept(key, body)
    <3>1. RepeatOnlyBeyondHorizon'
      BY <2>1, AcceptBeyondHorizon DEF HorizonInv
    <3>2. UNCHANGED <<handed, delivered, deliveredOrder>>
      BY <2>1 DEF Accept
    <3>3. WindowInv'
      BY <3>2 DEF HorizonInv, WindowInv, WindowRecorded, WindowIsRecent
    <3> QED BY <3>1, <3>3 DEF HorizonInv
  <2>2. CASE ~ Accept(key, body)
    BY <1>1, <1>2, <2>2 DEF PublishMain, PublishClosed, ReplayPending, ReplayDelivered,
       PublishFull, Refuse, tables
  <2> QED BY <2>1, <2>2
<1>3. CASE TakeMainForDelivery
  <2>1. WindowInv'
    BY <1>3, TakeKeepsWindow DEF HorizonInv
  <2>2. Accepted' = Accepted
    <3>1. handed \in Seq(Message) /\ mainQueue \in Seq(Message)
      BY DEF IInv, TypeOK
    <3>2. handed' = handed \o mainQueue /\ mainQueue' = <<>>
      BY <1>3 DEF TakeMainForDelivery
    <3> HIDE DEF Message
    <3> QED BY <3>1, <3>2 DEF Accepted
  <2>3. RepeatOnlyBeyondHorizon'
    BY <2>2 DEF HorizonInv, RepeatOnlyBeyondHorizon
  <2> QED BY <2>1, <2>3 DEF HorizonInv
<1>4. CASE Close
  BY <1>1, <1>4 DEF Close, tables
<1>5. CASE UNCHANGED vars
  BY <1>1, <1>5 DEF vars, tables
<1> QED BY <1>2, <1>3, <1>4, <1>5 DEF Next

(* A key is accepted a second time only after at least                     *)
(* MAIN_DELIVERED_HORIZON other keyed messages were accepted between: the  *)
(* two tables together never forget a key too early, whatever the sizes of *)
(* the drains that move keys from one to the other.                        *)
THEOREM RepeatsAreFarApart == Spec => []RepeatOnlyBeyondHorizon
<1>1. HorizonInv => RepeatOnlyBeyondHorizon
  BY DEF HorizonInv
<1> QED BY <1>1, HorizonStarts, HorizonSteps, InvariantHolds, PTL DEF Spec

-----------------------------------------------------------------------------
(* The user ring.                                                          *)

RingInv == RingTypeOK /\ RingContiguous /\ RecordsMirrorRing

ringInner == <<ring, nextCursor, evictedUpTo, idempotency>>

(* A fresh bus satisfies the invariant. *)
LEMMA RingStarts == RingInit => RingInv
<1> SUFFICES ASSUME RingInit PROVE RingInv
  OBVIOUS
<1>1. ring = <<>> /\ nextCursor = 1 /\ evictedUpTo = 0 /\ DOMAIN idempotency = {}
  BY DEF RingInit
<1>2. RingTypeOK
  <2>1. closed \in BOOLEAN /\ userReceipt = Nothing
    BY DEF RingInit
  <2>4. ring \in Seq(UserMessage)
    BY <1>1
  <2>2. DOMAIN idempotency \subseteq Keys
    BY <1>1
  <2>3. idempotency \in [DOMAIN idempotency -> UserRecord]
    BY DEF RingInit
  <2> QED BY <1>1, <2>1, <2>2, <2>3, <2>4 DEF RingTypeOK
<1>3. RingContiguous
  BY <1>1, RingAssumption DEF RingContiguous
<1>4. RecordsMirrorRing
  BY <1>1 DEF RecordsMirrorRing
<1> QED BY <1>2, <1>3, <1>4 DEF RingInv

(* Everything but a new publication leaves the ring and its table alone. *)
LEMMA SameRing ==
  ASSUME RingInv, UNCHANGED ringInner, closed' \in BOOLEAN,
         userReceipt' = Nothing \/ userReceipt' \in UserReceipts
  PROVE  RingInv'
  BY DEF RingInv, RingTypeOK, RingContiguous, RecordsMirrorRing, ringInner, UserMessage,
         UserRecord, Nothing, UserReceipts

(* A push into a ring with room extends it by one cursor. *)
LEMMA PushKeepsRing ==
  ASSUME RingInv, NEW key \in Keys \cup {NoKey}, NEW body \in Bodies,
         PublishNew(key, body), Len(ring) < Capacity
  PROVE  RingInv'
<1> DEFINE msg == [cursor |-> nextCursor, key |-> key, body |-> body]
           rec == [cursor |-> nextCursor, body |-> body]
<1>1. /\ ring \in Seq(UserMessage) /\ msg \in UserMessage /\ rec \in UserRecord
      /\ nextCursor \in Nat /\ evictedUpTo \in Nat
      /\ Capacity \in Nat
  BY RingAssumption DEF RingInv, RingTypeOK, UserMessage, UserRecord
<1>2. Overflow = {}
  BY <1>1 DEF Overflow
<1>3. /\ ring' = Append(ring, msg) /\ nextCursor' = nextCursor + 1
      /\ evictedUpTo' = evictedUpTo /\ closed' = closed
      /\ key \notin DOMAIN idempotency
      /\ userReceipt' = UserReceipt("published", key, body, nextCursor)
  BY <1>2 DEF PublishNew
<1>4. idempotency' = [k \in DOMAIN idempotency \cup ({key} \ {NoKey}) |->
                         IF k = key THEN rec ELSE idempotency[k]]
  BY <1>2 DEF PublishNew, RecordsAfter
<1> HIDE DEF msg, rec
<1>5. RingTypeOK'
  <2>1. userReceipt' \in UserReceipts
    BY <1>1, <1>3 DEF UserReceipt, UserReceipts, UserOutcomes
  <2>2. DOMAIN idempotency' \subseteq Keys /\ idempotency' \in [DOMAIN idempotency' -> UserRecord]
    BY <1>1, <1>4 DEF RingInv, RingTypeOK
  <2> QED BY <1>1, <1>3, <2>1, <2>2 DEF RingInv, RingTypeOK
<1>6. RingContiguous'
  <2>1. /\ Len(ring') = Len(ring) + 1
        /\ DOMAIN ring' = DOMAIN ring \cup {Len(ring) + 1}
        /\ \A i \in DOMAIN ring : ring'[i] = ring[i]
        /\ ring'[Len(ring) + 1] = msg
    BY <1>1, <1>3
  <2>2. msg.cursor = nextCursor
    BY DEF msg
  <2>3. nextCursor = evictedUpTo + Len(ring) + 1 /\ \A i \in DOMAIN ring : ring[i].cursor = evictedUpTo + i
    BY DEF RingInv, RingContiguous
  <2>4. Len(ring) \in Nat
    BY <1>1
  <2>5. ASSUME NEW i \in DOMAIN ring' PROVE ring'[i].cursor = evictedUpTo' + i
    <3>1. CASE i \in DOMAIN ring
      BY <1>3, <2>1, <2>3, <3>1
    <3>2. CASE i = Len(ring) + 1
      BY <1>1, <1>3, <2>1, <2>2, <2>3, <2>4, <3>2
    <3> QED BY <2>1, <3>1, <3>2
  <2>6. Len(ring') <= Capacity /\ nextCursor' = evictedUpTo' + Len(ring') + 1
    BY <1>1, <1>3, <2>1, <2>3, <2>4
  <2> QED BY <2>5, <2>6 DEF RingContiguous
<1>7. RecordsMirrorRing'
  <2>1. /\ DOMAIN ring' = DOMAIN ring \cup {Len(ring) + 1}
        /\ \A i \in DOMAIN ring : ring'[i] = ring[i]
        /\ ring'[Len(ring) + 1] = msg
    BY <1>1, <1>3
  <2>2. msg.key = key /\ msg.cursor = nextCursor /\ msg.body = body /\ rec.cursor = nextCursor
        /\ rec = [cursor |-> msg.cursor, body |-> msg.body]
    BY DEF msg, rec
  <2>3. \A k \in DOMAIN idempotency : idempotency'[k] = idempotency[k]
    BY <1>3, <1>4
  <2>4. ASSUME NEW k \in DOMAIN idempotency'
        PROVE  \E i \in DOMAIN ring' :
                 /\ ring'[i].key = k
                 /\ idempotency'[k] = [cursor |-> ring'[i].cursor, body |-> ring'[i].body]
    <3>1. CASE k \in DOMAIN idempotency
      <4>1. PICK i \in DOMAIN ring :
              ring[i].key = k /\ idempotency[k] = [cursor |-> ring[i].cursor, body |-> ring[i].body]
        BY <3>1 DEF RingInv, RecordsMirrorRing
      <4> QED BY <2>1, <2>3, <3>1, <4>1
    <3>2. CASE k = key /\ k # NoKey
      BY <1>4, <2>1, <2>2, <3>2
    <3> QED BY <1>4, <3>1, <3>2
  <2>5. ASSUME NEW i \in DOMAIN ring', ring'[i].key # NoKey
        PROVE  ring'[i].key \in DOMAIN idempotency' /\ idempotency'[ring'[i].key].cursor = ring'[i].cursor
    <3>1. CASE i \in DOMAIN ring
      <4>1. ring[i].key \in DOMAIN idempotency /\ idempotency[ring[i].key].cursor = ring[i].cursor
        BY <2>1, <2>5, <3>1 DEF RingInv, RecordsMirrorRing
      <4> QED BY <1>4, <2>1, <2>3, <3>1, <4>1
    <3>2. CASE i = Len(ring) + 1
      BY <1>4, <2>1, <2>2, <2>5, <3>2
    <3> QED BY <2>1, <3>1, <3>2
  <2> QED BY <2>4, <2>5 DEF RecordsMirrorRing
<1> QED BY <1>5, <1>6, <1>7 DEF RingInv

(* A push into a full ring evicts the oldest message and its record. *)
LEMMA EvictKeepsRing ==
  ASSUME RingInv, NEW key \in Keys \cup {NoKey}, NEW body \in Bodies,
         PublishNew(key, body), Len(ring) >= Capacity
  PROVE  RingInv'
<1> DEFINE msg == [cursor |-> nextCursor, key |-> key, body |-> body]
           rec == [cursor |-> nextCursor, body |-> body]
           old == ring[1]
<1>1. /\ ring \in Seq(UserMessage) /\ msg \in UserMessage /\ rec \in UserRecord
      /\ nextCursor \in Nat /\ evictedUpTo \in Nat
      /\ Capacity \in Nat \ {0} /\ Len(ring) \in Nat /\ Len(ring) = Capacity
  BY RingAssumption DEF RingInv, RingTypeOK, UserMessage, UserRecord, RingContiguous
<1>2. Overflow = {old} /\ 1 \in DOMAIN ring /\ old \in UserMessage
  BY <1>1 DEF Overflow
<1>3. /\ ring' = Append(Tail(ring), msg) /\ nextCursor' = nextCursor + 1
      /\ evictedUpTo' = old.cursor /\ closed' = closed
      /\ key \notin DOMAIN idempotency
      /\ userReceipt' = UserReceipt("published", key, body, nextCursor)
  BY <1>2 DEF PublishNew
<1>4. idempotency' = [k \in (DOMAIN idempotency \cup ({key} \ {NoKey})) \ {old.key} |->
                         IF k = key THEN rec ELSE idempotency[k]]
  <2>1. {m.key : m \in {old}} = {old.key}
    OBVIOUS
  <2> QED BY <1>2, <2>1 DEF PublishNew, RecordsAfter
<1>5. old.cursor = evictedUpTo + 1
  BY <1>2 DEF RingInv, RingContiguous
<1>6. old.key # NoKey => old.key \in DOMAIN idempotency
  BY <1>2 DEF RingInv, RecordsMirrorRing
<1>7. key # NoKey => key # old.key
  BY <1>3, <1>6
<1> HIDE DEF msg, rec, old
<1>8. RingTypeOK'
  <2>1. userReceipt' \in UserReceipts
    BY <1>1, <1>3 DEF UserReceipt, UserReceipts, UserOutcomes
  <2>2. DOMAIN idempotency' \subseteq Keys /\ idempotency' \in [DOMAIN idempotency' -> UserRecord]
    BY <1>1, <1>4 DEF RingInv, RingTypeOK
  <2>3. ring' \in Seq(UserMessage) /\ evictedUpTo' \in Nat /\ nextCursor' \in Nat \ {0}
    BY <1>1, <1>2, <1>3, <1>5
  <2> QED BY <1>1, <1>3, <2>1, <2>2, <2>3 DEF RingInv, RingTypeOK
<1>9. /\ Len(ring') = Len(ring)
      /\ DOMAIN ring' = DOMAIN ring
      /\ \A i \in DOMAIN ring : i # Len(ring) => ring'[i] = ring[i + 1]
      /\ ring'[Len(ring)] = msg
  BY <1>1, <1>3
<1>10. RingContiguous'
  <2>1. \A i \in DOMAIN ring : i # Len(ring) => i + 1 \in DOMAIN ring
    BY <1>1
  <2>2. msg.cursor = nextCursor
    BY DEF msg
  <2>3. \A i \in DOMAIN ring : ring[i].cursor = evictedUpTo + i
    BY DEF RingInv, RingContiguous
  <2>4. nextCursor = evictedUpTo + Len(ring) + 1
    BY DEF RingInv, RingContiguous
  <2>5. ASSUME NEW i \in DOMAIN ring' PROVE ring'[i].cursor = evictedUpTo' + i
    <3>1. CASE i = Len(ring)
      BY <1>1, <1>3, <1>5, <1>9, <2>2, <2>4, <3>1
    <3>2. CASE i # Len(ring)
      <4>1. i + 1 \in DOMAIN ring /\ ring'[i] = ring[i + 1] /\ i \in Nat
        BY <1>1, <1>9, <2>1, <3>2
      <4> QED BY <1>1, <1>3, <1>5, <2>3, <4>1
    <3> QED BY <3>1, <3>2
  <2>6. Len(ring') = Len(ring)
    BY <1>9
  <2>7. Len(ring') <= Capacity
    BY <1>1, <2>6
  <2>8. nextCursor' = evictedUpTo' + Len(ring') + 1
    <3>1. evictedUpTo' = evictedUpTo + 1 /\ nextCursor' = nextCursor + 1
      BY <1>3, <1>5
    <3>2. Len(ring) \in Nat /\ evictedUpTo \in Nat
      BY <1>1
    <3> QED BY <2>4, <2>6, <3>1, <3>2
  <2> QED BY <2>5, <2>7, <2>8 DEF RingContiguous
<1>11. RecordsMirrorRing'
  <2>1. msg.key = key /\ msg.cursor = nextCursor /\ msg.body = body /\ rec.cursor = nextCursor
        /\ rec = [cursor |-> msg.cursor, body |-> msg.body]
    BY DEF msg, rec
  <2>2. \A k \in DOMAIN idempotency \ {old.key} : k \in DOMAIN idempotency' /\ idempotency'[k] = idempotency[k]
    BY <1>3, <1>4
  <2>3. ASSUME NEW k \in DOMAIN idempotency'
        PROVE  \E i \in DOMAIN ring' :
                 /\ ring'[i].key = k
                 /\ idempotency'[k] = [cursor |-> ring'[i].cursor, body |-> ring'[i].body]
    <3>1. CASE k \in DOMAIN idempotency
      <4>1. PICK i \in DOMAIN ring :
              ring[i].key = k /\ idempotency[k] = [cursor |-> ring[i].cursor, body |-> ring[i].body]
        BY <3>1 DEF RingInv, RecordsMirrorRing
      <4>2. i # 1
        BY <1>4, <4>1 DEF old
      <4>3. i - 1 \in DOMAIN ring /\ i - 1 # Len(ring) /\ ring'[i - 1] = ring[i]
        BY <1>1, <1>9, <4>2
      <4>4. k # old.key
        BY <1>4
      <4> QED BY <1>9, <2>2, <3>1, <4>1, <4>3, <4>4
    <3>2. CASE k = key /\ k # NoKey
      <4>1. Len(ring) \in DOMAIN ring'
        BY <1>1, <1>9
      <4> QED BY <1>4, <1>9, <2>1, <3>2, <4>1
    <3> QED BY <1>4, <3>1, <3>2
  <2>4. ASSUME NEW i \in DOMAIN ring', ring'[i].key # NoKey
        PROVE  ring'[i].key \in DOMAIN idempotency' /\ idempotency'[ring'[i].key].cursor = ring'[i].cursor
    <3>1. CASE i # Len(ring)
      <4>1. i + 1 \in DOMAIN ring /\ ring'[i] = ring[i + 1] /\ i \in Nat
        BY <1>1, <1>9, <3>1
      <4>2. /\ ring[i + 1].key \in DOMAIN idempotency
            /\ idempotency[ring[i + 1].key].cursor = ring[i + 1].cursor
        BY <2>4, <4>1 DEF RingInv, RecordsMirrorRing
      <4>3. ring[i + 1].key # old.key
        <5>1. SUFFICES ASSUME ring[i + 1].key = old.key PROVE FALSE
          OBVIOUS
        <5>2. ring[1].key # NoKey
          BY <2>4, <4>1, <5>1 DEF old
        <5>3. idempotency[old.key].cursor = old.cursor
          BY <1>2, <5>2 DEF RingInv, RecordsMirrorRing, old
        <5>4. ring[i + 1].cursor = evictedUpTo + i + 1
          BY <1>1, <4>1 DEF RingInv, RingContiguous
        <5>5. i # 0
          BY <1>1, <1>9, <2>4
        <5> QED BY <1>1, <1>5, <4>1, <4>2, <5>1, <5>3, <5>4, <5>5
      <4> QED BY <2>2, <4>1, <4>2, <4>3
    <3>2. CASE i = Len(ring)
      BY <1>4, <1>7, <1>9, <2>1, <2>4, <3>2
    <3> QED BY <3>1, <3>2
  <2> QED BY <2>3, <2>4 DEF RecordsMirrorRing
<1> QED BY <1>8, <1>10, <1>11 DEF RingInv

(* Each step keeps the invariant. *)
LEMMA RingSteps == RingInv /\ [RingNext]_ringVars => RingInv'
<1> SUFFICES ASSUME RingInv, [RingNext]_ringVars PROVE RingInv'
  OBVIOUS
<1>1. ASSUME NEW key \in Keys \cup {NoKey}, NEW body \in Bodies, PublishUser(key, body)
      PROVE  RingInv'
  <2>1. ASSUME NEW outcome \in UserOutcomes, NEW cursor \in Nat, Answer(outcome, key, body, cursor)
        PROVE  RingInv'
    BY <2>1, SameRing DEF Answer, UserReceipt, UserReceipts, RingInv, RingTypeOK, ringInner
  <2>2. CASE RingClosed(key, body)
    BY <2>1, <2>2 DEF RingClosed, UserOutcomes
  <2>3. CASE Replay(key, body)
    <3>1. idempotency[key].cursor \in Nat
      BY <2>3 DEF Replay, RingInv, RingTypeOK, UserRecord
    <3> QED BY <2>1, <2>3, <3>1 DEF Replay, UserOutcomes
  <2>4. CASE PublishNew(key, body)
    <3>1. Len(ring) < Capacity \/ Len(ring) >= Capacity
      BY RingAssumption DEF RingInv, RingTypeOK
    <3> QED BY <2>4, <3>1, PushKeepsRing, EvictKeepsRing
  <2> QED BY <1>1, <2>2, <2>3, <2>4 DEF PublishUser
<1>2. ASSUME NEW limit \in Limits, UserSince(limit) PROVE RingInv'
  BY <1>2, SameRing DEF UserSince, ringInner, RingInv, RingTypeOK
<1>3. CASE CloseRing
  BY <1>3, SameRing DEF CloseRing, ringInner
<1>4. CASE UNCHANGED ringVars
  BY <1>4, SameRing DEF ringVars, ringInner, RingInv, RingTypeOK
<1> QED BY <1>1, <1>2, <1>3, <1>4 DEF RingNext

(* The invariant holds in every reachable state. *)
LEMMA RingHolds == RingSpec => []RingInv
  BY RingStarts, RingSteps, PTL DEF RingSpec

(* The fields of Inner keep their types. *)
THEOREM RingTypeCorrect == RingSpec => []RingTypeOK
<1>1. RingInv => RingTypeOK
  BY DEF RingInv
<1> QED BY <1>1, RingHolds, PTL

(* The ring holds consecutive cursors that follow evicted_up_to, so the    *)
(* range user_since reports as dropped is exact.                           *)
THEOREM RingIsContiguous == RingSpec => []RingContiguous
<1>1. RingInv => RingContiguous
  BY DEF RingInv
<1> QED BY <1>1, RingHolds, PTL

(* An idempotency record never outlives its message: the lookup that       *)
(* publish_user expects to succeed always does.                            *)
THEOREM RecordsNeverOutlive == RingSpec => []RecordsMirrorRing
<1>1. RingInv => RecordsMirrorRing
  BY DEF RingInv
<1> QED BY <1>1, RingHolds, PTL

-----------------------------------------------------------------------------
(* The reader.                                                             *)

\* What the reader was told so far lies behind its cursor.
ReaderBehind ==
    /\ readerCursor \in Nat
    /\ seen \in Seq(Nat)
    /\ \A i \in DOMAIN seen : seen[i] \in 1..readerCursor

ReaderInv == ReaderBehind /\ ReaderMissesNothing

\* What a filter of the ring keeps, in order, without a gap up to the last.
LEMMA NewerIsRest ==
  ASSUME RingInv, NEW after \in Nat
  PROVE  /\ Newer(after) \in Seq(UserMessage)
         /\ \A k \in DOMAIN Newer(after) :
               Newer(after)[k].cursor > after /\ Newer(after)[k].cursor > evictedUpTo
         /\ \A k, l \in DOMAIN Newer(after) :
               k < l => Newer(after)[k].cursor < Newer(after)[l].cursor
         /\ \A c \in Nat : c > after /\ c > evictedUpTo /\ c < nextCursor =>
               \E k \in DOMAIN Newer(after) : Newer(after)[k].cursor = c
<1> DEFINE I == {i \in DOMAIN ring : ring[i].cursor > after}
           A == Ascending(I)
           n == Cardinality(I)
<1>1. /\ ring \in Seq(UserMessage) /\ I \in SUBSET DOMAIN ring
      /\ Len(ring) \in Nat /\ DOMAIN ring = 1..Len(ring)
      /\ evictedUpTo \in Nat /\ nextCursor \in Nat
  BY DEF RingInv, RingTypeOK
<1>2. Newer(after) = At(ring, I)
  BY DEF Newer
<1>3. /\ \A i \in DOMAIN ring : ring[i].cursor = evictedUpTo + i
      /\ nextCursor = evictedUpTo + Len(ring) + 1
  BY DEF RingInv, RingContiguous
<1>4. \A i \in I : i \in DOMAIN ring /\ ring[i].cursor > after
  OBVIOUS
<1>5. \A i \in DOMAIN ring : ring[i].cursor > after => i \in I
  OBVIOUS
<1> HIDE DEF I
<1>6. /\ At(ring, I) \in Seq(UserMessage)
      /\ n \in Nat /\ DOMAIN At(ring, I) = 1..n
      /\ \A k \in 1..n : A[k] \in I /\ At(ring, I)[k] = ring[A[k]]
      /\ \A i \in I : \E k \in 1..n : A[k] = i /\ At(ring, I)[k] = ring[i]
  <2>1. ring \in Seq(UserMessage) /\ I \in SUBSET DOMAIN ring
    BY <1>1
  <2> QED BY <2>1, AtKeeps
<1>7. \A k, l \in 1..n : k < l => A[k] < A[l]
  <2>1. Len(ring) \in Nat /\ I \in SUBSET (1..Len(ring))
    BY <1>1
  <2>2. \A k, l \in 1..Cardinality(I) : k < l => Ascending(I)[k] < Ascending(I)[l]
    <3> HIDE DEF A, n
    <3> QED BY <2>1, AscendingLists
  <2> QED BY <2>2
<1> DEFINE N == At(ring, I)
<1>8. \A k \in 1..n : N[k].cursor = evictedUpTo + A[k] /\ A[k] \in 1..Len(ring) /\ N[k].cursor > after
  BY <1>1, <1>3, <1>4, <1>6
<1> HIDE DEF N, A, n
<1>9. \A k \in 1..n : N[k].cursor > evictedUpTo
  BY <1>1, <1>8
<1>10. \A k, l \in 1..n : k < l => N[k].cursor < N[l].cursor
  BY <1>1, <1>7, <1>8
<1>11. ASSUME NEW c \in Nat, c > after, c > evictedUpTo, c < nextCursor
       PROVE  \E k \in 1..n : N[k].cursor = c
  <2>1. c - evictedUpTo \in DOMAIN ring
    BY <1>1, <1>3, <1>11
  <2>2. ring[c - evictedUpTo].cursor = c
    BY <1>1, <1>3, <1>11, <2>1
  <2>3. c - evictedUpTo \in I
    BY <1>5, <1>11, <2>1, <2>2
  <2> QED BY <1>6, <2>2, <2>3 DEF N, n, A
<1>12. N \in Seq(UserMessage) /\ DOMAIN N = 1..n
  BY <1>6 DEF N, n
<1>13. Newer(after) = N
  BY <1>2 DEF N
<1> QED BY <1>8, <1>9, <1>10, <1>11, <1>12, <1>13

\* A message of the ring was published.
LEMMA NewerBelowNext ==
  ASSUME RingInv, NEW after \in Nat, NEW k \in DOMAIN Newer(after)
  PROVE  Newer(after)[k].cursor < nextCursor
<1> DEFINE I == {i \in DOMAIN ring : ring[i].cursor > after}
<1>1. ring \in Seq(UserMessage) /\ I \in SUBSET DOMAIN ring
  BY DEF RingInv, RingTypeOK
<1> HIDE DEF I
<1>2. \E i \in DOMAIN ring : At(ring, I)[k] = ring[i]
  <2>1. /\ DOMAIN At(ring, I) = 1..Cardinality(I)
        /\ \A l \in 1..Cardinality(I) :
              Ascending(I)[l] \in I /\ At(ring, I)[l] = ring[Ascending(I)[l]]
    BY <1>1, AtKeeps
  <2>2. k \in DOMAIN At(ring, I)
    BY DEF Newer, I
  <2> QED BY <1>1, <2>1, <2>2
<1>3. \A i \in DOMAIN ring : ring[i].cursor < nextCursor
  BY <1>1 DEF RingInv, RingContiguous, RingTypeOK
<1> QED BY <1>2, <1>3 DEF Newer, I

\* A page is the front of it.
LEMMA PageIsFront ==
  ASSUME RingInv, NEW after \in Nat, NEW limit \in Nat
  PROVE  /\ Page(after, limit) \in Seq(UserMessage)
         /\ DOMAIN Page(after, limit) \subseteq DOMAIN Newer(after)
         /\ \A k \in DOMAIN Page(after, limit) : Page(after, limit)[k] = Newer(after)[k]
<1> DEFINE N == Newer(after)
           m == PageLength(N, limit)
<1>1. N \in Seq(UserMessage)
  BY NewerIsRest
<1> HIDE DEF N
<1>2. m \in 0..Len(N)
  BY <1>1 DEF PageLength
<1> HIDE DEF m, UserMessage
<1>3. /\ SubSeq(N, 1, m) \in Seq(UserMessage)
      /\ DOMAIN SubSeq(N, 1, m) \subseteq DOMAIN N
      /\ \A k \in DOMAIN SubSeq(N, 1, m) : SubSeq(N, 1, m)[k] = N[k]
  BY <1>1, <1>2
<1> QED BY <1>3 DEF Page, N, m

\* A read keeps the account of what was given and what was dropped.
LEMMA ReadKeepsAccount ==
  ASSUME RingInv, ReaderInv, NEW limit \in Nat, UserSince(limit)
  PROVE  ReaderInv'
<1> DEFINE after == readerCursor
           page == Page(after, limit)
           N == Newer(after)
           fresh == [i \in DOMAIN page |-> page[i].cursor]
<1>1. /\ after \in Nat /\ evictedUpTo \in Nat /\ nextCursor \in Nat
      /\ seen \in Seq(Nat) /\ \A i \in DOMAIN seen : seen[i] \in 1..after
  BY DEF ReaderInv, ReaderBehind, RingInv, RingTypeOK
<1>2. /\ lost' = lost \cup Dropped(after) /\ seen' = seen \o fresh
      /\ readerCursor' = NextCursor(after, page)
      /\ evictedUpTo' = evictedUpTo
  BY DEF UserSince
<1>3. /\ N \in Seq(UserMessage)
      /\ \A k \in DOMAIN N : N[k].cursor > after /\ N[k].cursor > evictedUpTo
      /\ \A k, l \in DOMAIN N : k < l => N[k].cursor < N[l].cursor
      /\ \A c \in Nat : c > after /\ c > evictedUpTo /\ c < nextCursor =>
            \E k \in DOMAIN N : N[k].cursor = c
  BY <1>1, NewerIsRest
<1>4. /\ page \in Seq(UserMessage) /\ DOMAIN page \subseteq DOMAIN N
      /\ \A k \in DOMAIN page : page[k] = N[k]
  BY <1>1, PageIsFront
<1>5. \A k \in DOMAIN N : N[k].cursor \in Nat /\ k \in Nat
  <2> HIDE DEF N
  <2>1. \A k \in DOMAIN N : N[k] \in UserMessage /\ k \in Nat
    BY <1>3
  <2> QED BY <2>1 DEF UserMessage
<1> HIDE DEF page, N, after
<1>6. /\ fresh \in Seq(Nat) /\ DOMAIN fresh = DOMAIN page
      /\ \A k \in DOMAIN page : fresh[k] = N[k].cursor
      /\ Len(page) \in Nat /\ DOMAIN page = 1..Len(page) /\ Len(fresh) = Len(page)
  BY <1>4, <1>5
<1> HIDE DEF fresh
<1>7. readerCursor' = IF page = <<>> THEN after ELSE fresh[Len(page)]
  BY <1>2, <1>4, <1>6 DEF NextCursor
<1>8. \A k \in DOMAIN page : fresh[k] > after /\ fresh[k] > evictedUpTo /\ fresh[k] \in Nat
  BY <1>3, <1>4, <1>5, <1>6
<1>9. \A k, l \in DOMAIN page : k < l => fresh[k] < fresh[l]
  BY <1>3, <1>4, <1>6
<1>10. /\ readerCursor' \in Nat /\ readerCursor' >= after
       /\ \A k \in DOMAIN page : fresh[k] <= readerCursor'
  <2>1. CASE page = <<>>
    BY <1>1, <1>7, <2>1
  <2>2. CASE page # <<>>
    <3>1. Len(page) \in DOMAIN page
      BY <1>4, <1>6, <2>2
    <3>2. ASSUME NEW k \in DOMAIN page PROVE fresh[k] <= fresh[Len(page)]
      <4>1. k < Len(page) \/ k = Len(page)
        BY <1>6
      <4> QED BY <1>8, <1>9, <3>1, <4>1
    <3> QED BY <1>1, <1>7, <1>8, <2>2, <3>1, <3>2
  <2> QED BY <2>1, <2>2
<1>11. ASSUME NEW i \in DOMAIN seen'
       PROVE  \/ i \in DOMAIN seen /\ seen'[i] = seen[i]
              \/ i - Len(seen) \in DOMAIN page /\ seen'[i] = fresh[i - Len(seen)] /\ i > Len(seen)
  BY <1>1, <1>2, <1>6, <1>11
<1>12. /\ \A i \in DOMAIN seen : i \in DOMAIN seen' /\ seen'[i] = seen[i]
       /\ \A k \in DOMAIN page : Len(seen) + k \in DOMAIN seen' /\ seen'[Len(seen) + k] = fresh[k]
       /\ seen' \in Seq(Nat) /\ Len(seen) \in Nat /\ DOMAIN seen = 1..Len(seen)
  BY <1>1, <1>2, <1>6, SMTT(30)
<1>13. ReaderBehind'
  <2>1. ASSUME NEW i \in DOMAIN seen' PROVE seen'[i] \in 1..readerCursor'
    BY <1>1, <1>8, <1>10, <1>11
  <2> QED BY <1>10, <1>12, <2>1 DEF ReaderBehind
<1> DEFINE given == {seen[i] : i \in DOMAIN seen}
<1>14. /\ 1..after \subseteq given \cup lost /\ given \cap lost = {}
       /\ \A i, j \in DOMAIN seen : i < j => seen[i] < seen[j]
       /\ lost \subseteq 1..evictedUpTo
  BY DEF ReaderInv, ReaderMissesNothing, after
<1>15. \A c \in lost' : c \in 1..evictedUpTo /\ (c \in lost \/ c > after)
  BY <1>1, <1>2, <1>14 DEF Dropped
<1>16. lost' \subseteq 1..evictedUpTo'
  BY <1>2, <1>15
<1>17. \A i, j \in DOMAIN seen' : i < j => seen'[i] < seen'[j]
  <2> SUFFICES ASSUME NEW i \in DOMAIN seen', NEW j \in DOMAIN seen', i < j
               PROVE  seen'[i] < seen'[j]
    OBVIOUS
  <2>0. i \in Nat /\ j \in Nat /\ Len(seen) \in Nat
    BY <1>12
  <2>1. CASE i \in DOMAIN seen /\ j \in DOMAIN seen
    BY <1>12, <1>14, <2>1
  <2>2. CASE i \in DOMAIN seen /\ j \notin DOMAIN seen
    <3>1. seen'[i] \in 1..after
      BY <1>1, <1>12, <2>2
    <3>2. seen'[j] > after /\ seen'[j] \in Nat
      BY <1>8, <1>11, <2>2
    <3> QED BY <1>1, <3>1, <3>2
  <2>3. CASE i \notin DOMAIN seen
    <3>1. j \notin DOMAIN seen
      BY <1>12, <2>0, <2>3
    <3>2. /\ i - Len(seen) \in DOMAIN page /\ seen'[i] = fresh[i - Len(seen)]
          /\ j - Len(seen) \in DOMAIN page /\ seen'[j] = fresh[j - Len(seen)]
      BY <1>11, <2>3, <3>1
    <3>3. i - Len(seen) < j - Len(seen)
      BY <2>0
    <3> QED BY <1>9, <3>2, <3>3
  <2> QED BY <2>1, <2>2, <2>3
<1>18. ASSUME NEW i \in DOMAIN seen', seen'[i] \in lost' PROVE FALSE
  <2>1. CASE i \in DOMAIN seen /\ seen'[i] = seen[i]
    <3>1. seen[i] \in given /\ seen[i] <= after
      BY <1>1, <2>1
    <3> QED BY <1>1, <1>14, <1>15, <1>18, <2>1, <3>1
  <2>2. CASE i - Len(seen) \in DOMAIN page /\ seen'[i] = fresh[i - Len(seen)]
    BY <1>1, <1>8, <1>15, <1>18, <2>2
  <2> QED BY <1>11, <2>1, <2>2
<1>19. ASSUME NEW c \in 1..readerCursor'
       PROVE  c \in lost' \/ \E i \in DOMAIN seen' : seen'[i] = c
  <2>0. c \in Nat /\ c <= readerCursor'
    BY <1>10, <1>19
  <2>1. CASE c <= after
    <3>1. c \in given \/ c \in lost
      BY <1>1, <1>14, <1>19, <2>0, <2>1
    <3>2. CASE c \in given
      <4>1. PICK i \in DOMAIN seen : seen[i] = c
        BY <3>2
      <4> QED BY <1>12, <4>1
    <3> QED BY <1>2, <3>1, <3>2
  <2>2. CASE c > after /\ c <= evictedUpTo
    BY <1>1, <1>2, <2>0, <2>2 DEF Dropped
  <2>3. CASE c > after /\ c > evictedUpTo
    <3>1. page # <<>> /\ readerCursor' = fresh[Len(page)]
      BY <1>1, <1>7, <2>0, <2>3
    <3>2. Len(page) \in DOMAIN page
      BY <1>4, <1>6, <3>1
    <3>3. c < nextCursor
      <4>1. readerCursor' = N[Len(page)].cursor /\ Len(page) \in DOMAIN N
        BY <1>4, <1>6, <3>1, <3>2
      <4>2. N[Len(page)].cursor < nextCursor
        BY <1>1, <4>1, NewerBelowNext DEF N, after
      <4> QED BY <1>1, <1>5, <2>0, <4>1, <4>2
    <3>4. PICK k \in DOMAIN N : N[k].cursor = c
      BY <1>3, <2>0, <2>3, <3>3
    <3>5. k <= Len(page)
      <4>1. SUFFICES ASSUME Len(page) < k PROVE FALSE
        BY <1>5, <1>6, <3>4
      <4>2. fresh[Len(page)] < c
        BY <1>3, <1>4, <1>6, <3>2, <3>4, <4>1
      <4> QED BY <1>8, <2>0, <3>1, <3>2, <4>2
    <3>6. k \in DOMAIN page
      BY <1>3, <1>6, <3>4, <3>5
    <3> QED BY <1>6, <1>12, <3>4, <3>6
  <2> QED BY <1>1, <2>0, <2>1, <2>2, <2>3
<1>20. ReaderMissesNothing'
  BY <1>16, <1>17, <1>18, <1>19 DEF ReaderMissesNothing
<1> QED BY <1>13, <1>20 DEF ReaderInv

LEMMA ReaderStarts == RingInit => ReaderInv
<1> SUFFICES ASSUME RingInit PROVE ReaderInv
  OBVIOUS
<1>1. readerCursor = 0 /\ seen = <<>> /\ lost = {}
  BY DEF RingInit
<1>2. seen \in Seq(Nat) /\ DOMAIN seen = {} /\ 1..readerCursor = {}
  BY <1>1
<1>3. ReaderBehind
  BY <1>1, <1>2 DEF ReaderBehind
<1>4. ReaderMissesNothing
  BY <1>1, <1>2 DEF ReaderMissesNothing
<1> QED BY <1>3, <1>4 DEF ReaderInv

\* A publication only moves evicted_up_to forward.
LEMMA PublishKeepsAccount ==
  ASSUME RingInv, ReaderInv, UNCHANGED reader, evictedUpTo' \in Nat, evictedUpTo' >= evictedUpTo
  PROVE  ReaderInv'
<1>1. readerCursor' = readerCursor /\ seen' = seen /\ lost' = lost
  BY DEF reader
<1>2. evictedUpTo \in Nat /\ lost \subseteq 1..evictedUpTo
  BY DEF RingInv, RingTypeOK, ReaderInv, ReaderMissesNothing
<1>3. lost' \subseteq 1..evictedUpTo'
  BY <1>1, <1>2
<1>4. ReaderBehind'
  BY <1>1 DEF ReaderInv, ReaderBehind
<1>5. ReaderMissesNothing'
  BY <1>1, <1>3 DEF ReaderInv, ReaderMissesNothing
<1> QED BY <1>4, <1>5 DEF ReaderInv

LEMMA ReaderSteps == RingInv /\ ReaderInv /\ [RingNext]_ringVars => ReaderInv'
<1> SUFFICES ASSUME RingInv, ReaderInv, [RingNext]_ringVars PROVE ReaderInv'
  OBVIOUS
<1>0. evictedUpTo \in Nat
  BY DEF RingInv, RingTypeOK
<1>1. ASSUME UNCHANGED <<reader, evictedUpTo>> PROVE ReaderInv'
  BY <1>0, <1>1, PublishKeepsAccount
<1>2. ASSUME NEW key \in Keys \cup {NoKey}, NEW body \in Bodies, PublishUser(key, body)
      PROVE  ReaderInv'
  <2>1. CASE RingClosed(key, body) \/ Replay(key, body)
    BY <1>1, <2>1 DEF RingClosed, Replay, Answer
  <2>2. CASE PublishNew(key, body)
    <3>1. CASE Overflow = {}
      BY <1>1, <2>2, <3>1 DEF PublishNew
    <3>2. CASE Overflow # {}
      <4>1. Len(ring) >= Capacity /\ ring \in Seq(UserMessage) /\ Capacity \in Nat \ {0}
        BY <3>2, RingAssumption DEF Overflow, RingInv, RingTypeOK
      <4>2. 1 \in DOMAIN ring
        BY <4>1
      <4>3. ring[1].cursor = evictedUpTo + 1
        BY <4>2 DEF RingInv, RingContiguous
      <4>4. evictedUpTo' = evictedUpTo + 1 /\ UNCHANGED reader
        BY <2>2, <3>2, <4>3 DEF PublishNew
      <4> QED BY <1>0, <4>4, PublishKeepsAccount
    <3> QED BY <3>1, <3>2
  <2> QED BY <1>2, <2>1, <2>2 DEF PublishUser
<1>3. ASSUME NEW limit \in Limits, UserSince(limit) PROVE ReaderInv'
  <2>1. limit \in Nat
    BY RingAssumption
  <2> QED BY <1>3, <2>1, ReadKeepsAccount
<1>4. CASE CloseRing
  BY <1>1, <1>4 DEF CloseRing
<1>5. CASE UNCHANGED ringVars
  BY <1>1, <1>5 DEF ringVars
<1> QED BY <1>2, <1>3, <1>4, <1>5 DEF RingNext

(* A reader that follows next_cursor is given every notification exactly   *)
(* once and in order, or is told that it was dropped, never both: whatever *)
(* the capacity, the page sizes and the order of publications and reads.   *)
THEOREM EveryNotificationAccounted == RingSpec => []ReaderMissesNothing
<1>1. ReaderInv => ReaderMissesNothing
  BY DEF ReaderInv
<1> QED BY <1>1, ReaderStarts, ReaderSteps, RingHolds, PTL DEF RingSpec

-----------------------------------------------------------------------------
(* The pump: the invariant, and what each step keeps of it.                *)

\* Where the pump is between the decision to attempt and its judgement.
Attempting == {"wiring", "reading", "checking", "clientless", "claiming",
               "running", "signalling", "judging", "blocking"}

\* The pump is running a turn exactly when it holds the slot.
TurnIsPumps == slot = "pump" <=> pump = "running"

\* A Notified that still waits has seen nothing change since it was enabled.
WaitingSeesAll ==
    (waiter = "waiting" /\ pump \in {"checking", "clientless"})
        => locals.generation = generation

\* Why a block, once recorded, has been paid for.
BlockIsPaid ==
    /\ block.kind = "none" =>
          \/ fruitless <= deliveredSeq + generation
          \/ fruitless < accepted + generation
    /\ block.kind = "none" /\ pump = "gating" => fruitless < accepted + generation
    /\ block.kind = "no_progress" =>
          /\ block.generation <= generation /\ block.seq <= accepted
          /\ fruitless <= block.generation + block.seq
    /\ block.kind = "unavailable" =>
          /\ block.generation <= generation
          /\ fruitless <= block.generation + accepted

\* An attempt starts with one more event than the fruitless ones before it.
AttemptIsPaid ==
    pump \in Attempting =>
        /\ block.kind = "none"
        /\ began.generation <= generation /\ began.seq <= accepted
        /\ fruitless < began.generation + began.seq
        /\ pump \notin {"wiring", "reading"} =>
              began.generation <= locals.generation /\ locals.generation <= generation

\* The inductive invariant.
PumpInv ==
    /\ PumpTypeOK /\ TurnIsPumps /\ JoinedPumpIsQuiet
    /\ WaitingSeesAll /\ NoLostWake
    /\ BlockIsPaid /\ AttemptIsPaid

(* The initial states satisfy the invariant. *)
LEMMA PumpInvStarts == PumpInit => PumpInv
<1> SUFFICES ASSUME PumpInit PROVE PumpInv
  OBVIOUS
<1>1. PumpTypeOK
  <2>1. wired \in BOOLEAN
    BY DEF PumpInit
  <2>2. /\ block \in Blocks /\ locals \in [generation : Nat, delivered : Nat]
        /\ began \in [generation : Nat, seq : Nat]
    BY DEF PumpInit, NoBlock, Blocks
  <2>3. accepted \in 0 .. MaxAccepted /\ deliveredSeq \in 0 .. accepted
        /\ generation \in 0 .. MaxWirings /\ claims \in 0 .. MaxClaims
    BY BoundsAssumption DEF PumpInit
  <2> QED BY <2>1, <2>2, <2>3 DEF PumpInit, PumpTypeOK
<1>2. TurnIsPumps /\ JoinedPumpIsQuiet /\ WaitingSeesAll /\ NoLostWake
  BY DEF PumpInit, TurnIsPumps, JoinedPumpIsQuiet, WaitingSeesAll, NoLostWake
<1>3. BlockIsPaid /\ AttemptIsPaid
  BY DEF PumpInit, NoBlock, BlockIsPaid, AttemptIsPaid, Attempting
<1> QED BY <1>1, <1>2, <1>3 DEF PumpInv

(* Signalling the wake keeps the Notify's types. *)
LEMMA NotifyTypes ==
  ASSUME permit \in BOOLEAN, waiter \in {"none", "waiting", "notified", "done"}, NotifyOne
  PROVE  permit' \in BOOLEAN /\ waiter' \in {"none", "waiting", "notified", "done"}
<1>1. CASE waiter = "waiting"
  <2>1. waiter' = "notified" /\ permit' = permit
    BY <1>1 DEF NotifyOne
  <2> QED BY <2>1
<1>2. CASE waiter # "waiting"
  <2>1. permit' = TRUE /\ waiter' = waiter
    BY <1>2 DEF NotifyOne
  <2> QED BY <2>1
<1> QED BY <1>1, <1>2

(* Every step keeps the types. *)
LEMMA StepTypes == PumpTypeOK /\ [PumpNext]_mainPumpVars => PumpTypeOK'
<1> SUFFICES ASSUME PumpTypeOK, [PumpNext]_mainPumpVars PROVE PumpTypeOK'
  OBVIOUS
<1> USE BoundsAssumption DEF PumpTypeOK, Blocks, NoBlock, hostVars, slotVars, wakeVars, pumpVars,
        lifeVars, queueVars
<1>1. CASE AcceptMain
  <2>1. NotifyOne
    BY <1>1 DEF AcceptMain
  <2> QED BY <1>1, <2>1, NotifyTypes DEF AcceptMain
<1>2. CASE WireProvider
  <2>1. NotifyOne /\ generation' \in 0 .. MaxWirings /\ wired' = TRUE
    BY <1>2 DEF WireProvider, InstallClient
  <2> QED BY <1>2, <2>1, NotifyTypes DEF WireProvider
<1>3. CASE BeginDraining
  BY <1>3 DEF BeginDraining
<1>4. CASE Deliver
  BY <1>4 DEF Deliver, DeliveredThrough, Pending
<1>5. CASE ReleaseSlot
  BY <1>5 DEF ReleaseSlot
<1>6. CASE SignalRelease
  <2>1. NotifyOne
    BY <1>6 DEF SignalRelease, GuardSignals
  <2> QED BY <1>6, <2>1, NotifyTypes DEF SignalRelease, GuardSignals
<1>7. CASE CheckStart
  BY <1>7 DEF CheckStart
<1>8. CASE SpawnPump
  BY <1>8 DEF SpawnPump
<1>9. CASE Arm
  BY <1>9 DEF Arm, Enable, CancelSeen
<1>10. CASE Look
  BY <1>10 DEF Look
<1>11. CASE Gate
  BY <1>11 DEF Gate
<1>12. CASE Wire
  <2>1. CASE UNCHANGED <<wired, generation, wakeVars>>
    BY <1>12, <2>1 DEF Wire
  <2>2. CASE InstallClient
    <3>1. NotifyOne /\ generation' \in 0 .. MaxWirings /\ wired' = TRUE
      BY <2>2 DEF InstallClient
    <3> QED BY <1>12, <3>1, NotifyTypes DEF Wire
  <2> QED BY <1>12, <2>1, <2>2 DEF Wire
<1>13. CASE ReadGeneration
  BY <1>13 DEF ReadGeneration
<1>14. CASE CheckClient
  BY <1>14 DEF CheckClient
<1>15. CASE RecordUnavailable
  BY <1>15 DEF RecordUnavailable, UnavailableBlock
<1>16. CASE ClaimRefused
  BY <1>16 DEF ClaimRefused
<1>17. CASE ClaimStopped
  BY <1>17 DEF ClaimStopped
<1>18. CASE ClaimFails
  BY <1>18 DEF ClaimFails
<1>19. CASE ClaimGranted
  BY <1>19 DEF ClaimGranted
<1>20. CASE EndRun
  BY <1>20 DEF EndRun
<1>21. CASE SignalOwnRelease
  <2>1. NotifyOne
    BY <1>21 DEF SignalOwnRelease, GuardSignals
  <2> QED BY <1>21, <2>1, NotifyTypes DEF SignalOwnRelease, GuardSignals
<1>22. CASE Judge
  BY <1>22 DEF Judge
<1>23. CASE RecordNoProgress
  BY <1>23 DEF RecordNoProgress, NoProgressBlock
<1>24. CASE WakeUp
  BY <1>24 DEF WakeUp
<1>25. CASE ParkCancelled
  BY <1>25 DEF ParkCancelled
<1>26. CASE BeginShutdown
  BY <1>26 DEF BeginShutdown
<1>27. CASE CancelPump
  <2>1. NotifyOne
    BY <1>27 DEF CancelPump
  <2> QED BY <1>27, <2>1, NotifyTypes DEF CancelPump
<1>28. CASE JoinPump
  BY <1>28 DEF JoinPump, NothingToJoin
<1>29. CASE AbortPump
  <2>1. CASE pump = "running"
    <3>1. NotifyOne
      BY <1>29, <2>1 DEF AbortPump
    <3> QED BY <1>29, <2>1, <3>1, NotifyTypes DEF AbortPump
  <2>2. CASE pump # "running"
    BY <1>29, <2>2 DEF AbortPump
  <2> QED BY <2>1, <2>2
<1>30. CASE \E holder \in {"prompt", "admin", "init"} : ClaimSlot(holder)
  BY <1>30 DEF ClaimSlot
<1>31. CASE UNCHANGED mainPumpVars
  BY <1>31 DEF mainPumpVars
<1> QED BY <1>1, <1>2, <1>3, <1>4, <1>5, <1>6, <1>7, <1>8, <1>9, <1>10,
           <1>11, <1>12, <1>13, <1>14, <1>15, <1>16, <1>17, <1>18, <1>19, <1>20,
           <1>21, <1>22, <1>23, <1>24, <1>25, <1>26, <1>27, <1>28, <1>29, <1>30,
           <1>31
        DEF PumpNext, PumpStep, Refused

(* Who holds the slot, and what is left of a joined pump. *)
LEMMA StepHolder ==
  PumpTypeOK /\ TurnIsPumps /\ JoinedPumpIsQuiet /\ [PumpNext]_mainPumpVars
     => TurnIsPumps' /\ JoinedPumpIsQuiet'
<1> SUFFICES ASSUME PumpTypeOK, TurnIsPumps, JoinedPumpIsQuiet, [PumpNext]_mainPumpVars
             PROVE  TurnIsPumps' /\ JoinedPumpIsQuiet'
  OBVIOUS
<1> USE DEF PumpTypeOK, TurnIsPumps, JoinedPumpIsQuiet, Stopping, Cancelled,
        hostVars, slotVars, wakeVars, pumpVars, lifeVars, queueVars
<1>1. CASE AcceptMain
  BY <1>1 DEF AcceptMain
<1>2. CASE WireProvider
  BY <1>2 DEF WireProvider
<1>3. CASE BeginDraining
  BY <1>3 DEF BeginDraining
<1>4. CASE Deliver
  BY <1>4 DEF Deliver, DeliveredThrough
<1>5. CASE ReleaseSlot
  BY <1>5 DEF ReleaseSlot
<1>6. CASE SignalRelease
  BY <1>6 DEF SignalRelease, GuardSignals
<1>7. CASE CheckStart
  BY <1>7 DEF CheckStart
<1>8. CASE SpawnPump
  BY <1>8 DEF SpawnPump
<1>9. CASE Arm
  BY <1>9 DEF Arm, CancelSeen
<1>10. CASE Look
  BY <1>10 DEF Look
<1>11. CASE Gate
  BY <1>11 DEF Gate
<1>12. CASE Wire
  BY <1>12 DEF Wire
<1>13. CASE ReadGeneration
  BY <1>13 DEF ReadGeneration
<1>14. CASE CheckClient
  BY <1>14 DEF CheckClient
<1>15. CASE RecordUnavailable
  BY <1>15 DEF RecordUnavailable
<1>16. CASE ClaimRefused
  BY <1>16 DEF ClaimRefused
<1>17. CASE ClaimStopped
  BY <1>17 DEF ClaimStopped
<1>18. CASE ClaimFails
  BY <1>18 DEF ClaimFails
<1>19. CASE ClaimGranted
  BY <1>19 DEF ClaimGranted, ClaimIsRefused
<1>20. CASE EndRun
  BY <1>20 DEF EndRun
<1>21. CASE SignalOwnRelease
  BY <1>21 DEF SignalOwnRelease, GuardSignals
<1>22. CASE Judge
  BY <1>22 DEF Judge
<1>23. CASE RecordNoProgress
  BY <1>23 DEF RecordNoProgress
<1>24. CASE WakeUp
  BY <1>24 DEF WakeUp
<1>25. CASE ParkCancelled
  BY <1>25 DEF ParkCancelled
<1>26. CASE BeginShutdown
  BY <1>26 DEF BeginShutdown
<1>27. CASE CancelPump
  BY <1>27 DEF CancelPump
<1>28. CASE JoinPump
  BY <1>28 DEF JoinPump, NothingToJoin
<1>29. CASE AbortPump
  BY <1>29 DEF AbortPump
<1>30. CASE \E holder \in {"prompt", "admin", "init"} : ClaimSlot(holder)
  BY <1>30 DEF ClaimSlot
<1>31. CASE UNCHANGED mainPumpVars
  BY <1>31 DEF mainPumpVars
<1> QED BY <1>1, <1>2, <1>3, <1>4, <1>5, <1>6, <1>7, <1>8, <1>9, <1>10,
           <1>11, <1>12, <1>13, <1>14, <1>15, <1>16, <1>17, <1>18, <1>19, <1>20,
           <1>21, <1>22, <1>23, <1>24, <1>25, <1>26, <1>27, <1>28, <1>29, <1>30,
           <1>31
        DEF PumpNext, PumpStep, Refused

(* Whatever changes the queue or the provider also ends the wait. *)
LEMMA StepWake ==
  PumpTypeOK /\ TurnIsPumps /\ WaitingSeesAll /\ NoLostWake /\ [PumpNext]_mainPumpVars
     => WaitingSeesAll' /\ NoLostWake'
<1> SUFFICES ASSUME PumpTypeOK, TurnIsPumps, WaitingSeesAll, NoLostWake, [PumpNext]_mainPumpVars
             PROVE  WaitingSeesAll' /\ NoLostWake'
  OBVIOUS
<1> USE DEF PumpTypeOK, TurnIsPumps, WaitingSeesAll, NoLostWake, Pending, Stopping, Suppressed,
        IsClearedBy, Blocks, NoBlock,
        hostVars, slotVars, wakeVars, pumpVars, lifeVars, queueVars
<1>1. CASE AcceptMain
  BY <1>1 DEF AcceptMain, NotifyOne
<1>2. CASE WireProvider
  BY <1>2 DEF WireProvider, InstallClient, NotifyOne
<1>3. CASE BeginDraining
  BY <1>3 DEF BeginDraining
<1>4. CASE Deliver
  BY <1>4 DEF Deliver, DeliveredThrough, Pending
<1>5. CASE ReleaseSlot
  BY <1>5 DEF ReleaseSlot
<1>6. CASE SignalRelease
  BY <1>6 DEF SignalRelease, GuardSignals, NotifyOne
<1>7. CASE CheckStart
  BY <1>7 DEF CheckStart
<1>8. CASE SpawnPump
  BY <1>8 DEF SpawnPump
<1>9. CASE Arm
  BY <1>9 DEF Arm, Enable, CancelSeen
<1>10. CASE Look
  BY <1>10 DEF Look
<1>11. CASE Gate
  BY <1>11 DEF Gate
<1>12. CASE Wire
  BY <1>12 DEF Wire, InstallClient, NotifyOne
<1>13. CASE ReadGeneration
  BY <1>13 DEF ReadGeneration
<1>14. CASE CheckClient
  BY <1>14 DEF CheckClient
<1>15. CASE RecordUnavailable
  BY <1>15 DEF RecordUnavailable, UnavailableBlock
<1>16. CASE ClaimRefused
  BY <1>16 DEF ClaimRefused, ClaimIsRefused
<1>17. CASE ClaimStopped
  BY <1>17 DEF ClaimStopped
<1>18. CASE ClaimFails
  BY <1>18 DEF ClaimFails
<1>19. CASE ClaimGranted
  BY <1>19 DEF ClaimGranted
<1>20. CASE EndRun
  BY <1>20 DEF EndRun
<1>21. CASE SignalOwnRelease
  BY <1>21 DEF SignalOwnRelease, GuardSignals, NotifyOne
<1>22. CASE Judge
  BY <1>22 DEF Judge
<1>23. CASE RecordNoProgress
  BY <1>23 DEF RecordNoProgress, NoProgressBlock
<1>24. CASE WakeUp
  BY <1>24 DEF WakeUp
<1>25. CASE ParkCancelled
  BY <1>25 DEF ParkCancelled
<1>26. CASE BeginShutdown
  BY <1>26 DEF BeginShutdown
<1>27. CASE CancelPump
  BY <1>27 DEF CancelPump, NotifyOne
<1>28. CASE JoinPump
  BY <1>28 DEF JoinPump, NothingToJoin
<1>29. CASE AbortPump
  BY <1>29 DEF AbortPump, NotifyOne
<1>30. CASE \E holder \in {"prompt", "admin", "init"} : ClaimSlot(holder)
  BY <1>30 DEF ClaimSlot
<1>31. CASE UNCHANGED mainPumpVars
  BY <1>31 DEF mainPumpVars
<1> QED BY <1>1, <1>2, <1>3, <1>4, <1>5, <1>6, <1>7, <1>8, <1>9, <1>10,
           <1>11, <1>12, <1>13, <1>14, <1>15, <1>16, <1>17, <1>18, <1>19, <1>20,
           <1>21, <1>22, <1>23, <1>24, <1>25, <1>26, <1>27, <1>28, <1>29, <1>30,
           <1>31
        DEF PumpNext, PumpStep, Refused

(* A bound on the events survives another event. *)
LEMMA LaterIsMore ==
  ASSUME NEW f \in Nat, NEW a \in Nat, NEW g \in Nat, NEW h \in Nat, f < a + g, g <= h
  PROVE  f < a + h
  OBVIOUS

(* Every fruitless attempt is paid for by an event the earlier ones lacked. *)
LEMMA StepPaid ==
  PumpTypeOK /\ BlockIsPaid /\ AttemptIsPaid /\ PumpTypeOK' /\ [PumpNext]_mainPumpVars
     => BlockIsPaid' /\ AttemptIsPaid'
<1> SUFFICES ASSUME PumpTypeOK, BlockIsPaid, AttemptIsPaid, PumpTypeOK', [PumpNext]_mainPumpVars
             PROVE  BlockIsPaid' /\ AttemptIsPaid'
  OBVIOUS
<1> USE DEF PumpTypeOK, BlockIsPaid, AttemptIsPaid, Attempting, Pending, Blocks, NoBlock,
        hostVars, slotVars, wakeVars, pumpVars, lifeVars, queueVars
<1>1. CASE AcceptMain
  BY <1>1 DEF AcceptMain
<1>2. CASE WireProvider
  BY <1>2 DEF WireProvider, InstallClient
<1>3. CASE BeginDraining
  BY <1>3 DEF BeginDraining
<1>4. CASE Deliver
  BY <1>4 DEF Deliver, DeliveredThrough
<1>5. CASE ReleaseSlot
  BY <1>5 DEF ReleaseSlot
<1>6. CASE SignalRelease
  BY <1>6 DEF SignalRelease, GuardSignals
<1>7. CASE CheckStart
  BY <1>7 DEF CheckStart
<1>8. CASE SpawnPump
  BY <1>8 DEF SpawnPump
<1>9. CASE Arm
  BY <1>9 DEF Arm, CancelSeen
<1>10. CASE Look
  BY <1>10 DEF Look
<1>11. CASE Gate
  <2>1. CASE draining \/ Suppressed
    BY <1>11, <2>1 DEF Gate
  <2>2. CASE ~draining /\ ~Suppressed
    <3>1. /\ pump' = "wiring" /\ block' = NoBlock
          /\ began' = [generation |-> generation, seq |-> accepted]
          /\ UNCHANGED <<accepted, deliveredSeq, generation, locals, fruitless>>
      BY <1>11, <2>2 DEF Gate
    <3>2. fruitless < generation + accepted
      <4>1. CASE block.kind = "none"
        BY <1>11, <4>1 DEF Gate
      <4>2. CASE block.kind # "none"
        BY <2>2, <4>2 DEF Suppressed, IsClearedBy
      <4> QED BY <4>1, <4>2
    <3>3. BlockIsPaid'
      BY <3>1, <3>2
    <3>4. AttemptIsPaid'
      BY <3>1, <3>2
    <3> QED BY <3>3, <3>4
  <2> QED BY <2>1, <2>2
<1>12. CASE Wire
  <2>1. /\ generation' = generation \/ generation' = generation + 1
        /\ pump = "wiring" /\ pump' = "reading"
        /\ UNCHANGED <<accepted, deliveredSeq, block, locals, began, fruitless>>
    BY <1>12 DEF Wire, InstallClient
  <2>2. generation \in Nat /\ generation' \in Nat /\ generation <= generation'
    BY <2>1
  <2>3. BlockIsPaid'
    <3>1. block'.kind = "none"
      BY <2>1
    <3>2. /\ fruitless < began.generation + began.seq
          /\ began.generation <= generation /\ began.seq <= accepted
          /\ began.generation \in Nat /\ began.seq \in Nat
          /\ accepted \in Nat /\ fruitless \in Nat
      BY <2>1
    <3>3. fruitless < accepted + generation
      BY <2>2, <3>2
    <3>4. accepted \in Nat /\ fruitless \in Nat
      BY <3>2
    <3>5. fruitless < accepted + generation'
      BY <2>2, <3>3, <3>4, LaterIsMore
    <3> QED BY <2>1, <3>1, <3>5
  <2>4. AttemptIsPaid'
    BY <2>1, <2>2
  <2> QED BY <2>3, <2>4
<1>13. CASE ReadGeneration
  BY <1>13 DEF ReadGeneration
<1>14. CASE CheckClient
  BY <1>14 DEF CheckClient
<1>15. CASE RecordUnavailable
  BY <1>15 DEF RecordUnavailable, UnavailableBlock
<1>16. CASE ClaimRefused
  BY <1>16 DEF ClaimRefused
<1>17. CASE ClaimStopped
  BY <1>17 DEF ClaimStopped
<1>18. CASE ClaimFails
  BY <1>18 DEF ClaimFails
<1>19. CASE ClaimGranted
  BY <1>19 DEF ClaimGranted
<1>20. CASE EndRun
  BY <1>20 DEF EndRun
<1>21. CASE SignalOwnRelease
  BY <1>21 DEF SignalOwnRelease, GuardSignals
<1>22. CASE Judge
  BY <1>22 DEF Judge
<1>23. CASE RecordNoProgress
  BY <1>23 DEF RecordNoProgress, NoProgressBlock
<1>24. CASE WakeUp
  BY <1>24 DEF WakeUp
<1>25. CASE ParkCancelled
  BY <1>25 DEF ParkCancelled
<1>26. CASE BeginShutdown
  BY <1>26 DEF BeginShutdown
<1>27. CASE CancelPump
  BY <1>27 DEF CancelPump
<1>28. CASE JoinPump
  BY <1>28 DEF JoinPump, NothingToJoin
<1>29. CASE AbortPump
  BY <1>29 DEF AbortPump
<1>30. CASE \E holder \in {"prompt", "admin", "init"} : ClaimSlot(holder)
  BY <1>30 DEF ClaimSlot
<1>31. CASE UNCHANGED mainPumpVars
  BY <1>31 DEF mainPumpVars
<1> QED BY <1>1, <1>2, <1>3, <1>4, <1>5, <1>6, <1>7, <1>8, <1>9, <1>10,
           <1>11, <1>12, <1>13, <1>14, <1>15, <1>16, <1>17, <1>18, <1>19, <1>20,
           <1>21, <1>22, <1>23, <1>24, <1>25, <1>26, <1>27, <1>28, <1>29, <1>30,
           <1>31
        DEF PumpNext, PumpStep, Refused

(* The invariant holds in every reachable state. *)
LEMMA PumpInvHolds == PumpSpec => []PumpInv
<1>1. PumpInv /\ [PumpNext]_mainPumpVars => PumpInv'
  BY StepTypes, StepHolder, StepWake, StepPaid DEF PumpInv
<1> QED BY PumpInvStarts, <1>1, PTL DEF PumpSpec

(* The pump, its locals and what it watches keep their types              *)
(* (host.rs:3495-3587).                                                    *)
THEOREM PumpTypeCorrect == PumpSpec => []PumpTypeOK
<1>1. PumpInv => PumpTypeOK
  BY DEF PumpInv
<1> QED BY <1>1, PumpInvHolds, PTL

(* The pump never sleeps through an event that could let it deliver       *)
(* (host.rs:3548-3553).                                                    *)
THEOREM NoWakeIsLost == PumpSpec => []NoLostWake
<1>1. PumpInv => NoLostWake
  BY DEF PumpInv
<1> QED BY <1>1, PumpInvHolds, PTL

(* Attempts that achieve nothing are bounded by what the world did, not   *)
(* by the pump's own wakes (host.rs:3482-3488).                            *)
THEOREM NeverSpins == PumpSpec => []NoSelfSpin
<1>1. ASSUME PumpInv PROVE NoSelfSpin
  BY <1>1 DEF PumpInv, PumpTypeOK, BlockIsPaid, NoSelfSpin, Blocks
<1> QED BY <1>1, PumpInvHolds, PTL

(* After shutdown joined the pump, it holds no turn (host.rs:5649-5707).  *)
THEOREM JoinedIsQuiet == PumpSpec => []JoinedPumpIsQuiet
<1>1. PumpInv => JoinedPumpIsQuiet
  BY DEF PumpInv
<1> QED BY <1>1, PumpInvHolds, PTL
=============================================================================
