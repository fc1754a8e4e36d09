------------------------------ MODULE MainInbox ------------------------------
(***************************************************************************)
(* The main conversation's inbox of MessageBus (coda-agent                 *)
(* src/message/mod.rs): a bounded FIFO that background work publishes into *)
(* (publish_main) and the one main AgentLoop drains                        *)
(* (take_main_for_delivery), with two idempotency tables.                  *)
(*                                                                         *)
(* Every operation is one critical section under the bus's gate, so every  *)
(* operation is one action.  A key stands for a pair (scope_id, key); a    *)
(* body stands for a (body, context) pair that passed the size checks.     *)
(***************************************************************************)
EXTENDS MessageBus, Ascending, Integers, Sequences

CONSTANTS
    MainQueueCapacity,      \* MAIN_QUEUE_CAPACITY
    MainDeliveredHorizon,   \* MAIN_DELIVERED_HORIZON
    MaxSeq                  \* bound of the model: publications accepted

ASSUME CapacityAssumption ==
    /\ MainQueueCapacity \in Nat \ {0}
    /\ MainDeliveredHorizon \in Nat
    /\ MainQueueCapacity <= MainDeliveredHorizon
    /\ MaxSeq \in Nat

VARIABLES
    mainQueue,          \* Inner::main_queue, oldest first
    nextMainSeq,        \* Inner::next_main_seq
    mainDeliveredSeq,   \* Inner::main_delivered_seq
    pending,            \* Inner::main_pending_idempotency
    delivered,          \* Inner::main_delivered_idempotency
    deliveredOrder,     \* Inner::main_delivered_order, oldest first
    handed,             \* every message drained so far: the main history
    receipt             \* what the last publish_main returned

tables == <<pending, delivered, deliveredOrder>>
vars == <<closed, mainQueue, nextMainSeq, mainDeliveredSeq, tables, handed, receipt>>

Message == [seq : Nat, key : Keys \cup {NoKey}, body : Bodies]
IdempotencyRecord == [seq : Nat, body : Bodies]

(* The receipt or error of a publication of `body` under `key`. *)
Receipt(outcome, key, body, seq, position) ==
    [outcome |-> outcome, key |-> key, body |-> body, seq |-> seq, position |-> position]

EmptyTable == [k \in {} |-> 0]

Init ==
    /\ closed = FALSE
    /\ mainQueue = <<>>
    /\ nextMainSeq = 1
    /\ mainDeliveredSeq = 0
    /\ pending = EmptyTable
    /\ delivered = EmptyTable
    /\ deliveredOrder = <<>>
    /\ handed = <<>>
    /\ receipt = Nothing

-----------------------------------------------------------------------------
(* publish_main *)

Refuse(outcome, key, body) ==
    /\ receipt' = Receipt(outcome, key, body, 0, 0)
    /\ UNCHANGED <<closed, mainQueue, nextMainSeq, mainDeliveredSeq, tables, handed>>

PublishClosed(key, body) ==
    /\ closed
    /\ Refuse("closed", key, body)

(* A key that is still queued: the caller gets the original receipt, with  *)
(* the position the message has now.                                       *)
ReplayPending(key, body) ==
    /\ ~closed
    /\ key \in DOMAIN pending
    /\ IF pending[key].body = body
       THEN /\ receipt' = Receipt("queued", key, body, pending[key].seq,
                    CHOOSE p \in DOMAIN mainQueue : mainQueue[p].seq = pending[key].seq)
            /\ UNCHANGED <<closed, mainQueue, nextMainSeq, mainDeliveredSeq, tables, handed>>
       ELSE Refuse("conflict", key, body)

(* A key delivered recently: nothing is queued again. *)
ReplayDelivered(key, body) ==
    /\ ~closed
    /\ key \notin DOMAIN pending
    /\ key \in DOMAIN delivered
    /\ IF delivered[key].body = body
       THEN /\ receipt' = Receipt("delivered", key, body, delivered[key].seq, 0)
            /\ UNCHANGED <<closed, mainQueue, nextMainSeq, mainDeliveredSeq, tables, handed>>
       ELSE Refuse("conflict", key, body)

(* Slip: only the pending table is consulted. *)
IsNewToQueue(key) == key \notin DOMAIN pending

IsNew(key) == key \notin DOMAIN pending /\ key \notin DOMAIN delivered

(* Slip: the oldest request makes room, as in the user ring. *)
PublishFullEvicting(key, body) ==
    /\ ~closed
    /\ IsNew(key)
    /\ Len(mainQueue) >= MainQueueCapacity
    /\ nextMainSeq <= MaxSeq
    /\ nextMainSeq' = nextMainSeq + 1
    /\ mainQueue' = Append(Tail(mainQueue), [seq |-> nextMainSeq, key |-> key, body |-> body])
    /\ receipt' = Receipt("accepted", key, body, nextMainSeq, Len(mainQueue))
    /\ UNCHANGED <<closed, mainDeliveredSeq, tables, handed>>

(* Pending items are never evicted to make room. *)
PublishFull(key, body) ==
    /\ ~closed
    /\ IsNew(key)
    /\ Len(mainQueue) >= MainQueueCapacity
    /\ Refuse("queueFull", key, body)

Remember(key, body) ==
    pending' = IF key = NoKey THEN pending
               ELSE [k \in DOMAIN pending \cup {key} |->
                        IF k = key THEN [seq |-> nextMainSeq, body |-> body] ELSE pending[k]]

Accept(key, body) ==
    /\ ~closed
    /\ IsNew(key)
    /\ Len(mainQueue) < MainQueueCapacity
    /\ nextMainSeq <= MaxSeq
    /\ nextMainSeq' = nextMainSeq + 1
    /\ Remember(key, body)
    /\ mainQueue' = Append(mainQueue, [seq |-> nextMainSeq, key |-> key, body |-> body])
    /\ receipt' = Receipt("accepted", key, body, nextMainSeq, Len(mainQueue) + 1)
    /\ UNCHANGED <<closed, mainDeliveredSeq, delivered, deliveredOrder, handed>>

PublishMain(key, body) ==
    \/ PublishClosed(key, body)
    \/ ReplayPending(key, body)
    \/ ReplayDelivered(key, body)
    \/ PublishFull(key, body)
    \/ Accept(key, body)

-----------------------------------------------------------------------------
(* take_main_for_delivery *)

(* The keys of the drained items that have a pending record. *)
DrainedKeys == {mainQueue[i].key : i \in DOMAIN mainQueue} \cap DOMAIN pending

DrainedKeysInOrder ==
    LET keyed == At(mainQueue, {i \in DOMAIN mainQueue : mainQueue[i].key \in DOMAIN pending})
    IN  [i \in DOMAIN keyed |-> keyed[i].key]

(* The record of a drained key moves from the pending table into the       *)
(* window of recent deliveries, which forgets its oldest keys beyond the   *)
(* horizon.                                                                *)
MoveToWindow ==
    LET order == deliveredOrder \o DrainedKeysInOrder
        excess == IF Len(order) > MainDeliveredHorizon THEN Len(order) - MainDeliveredHorizon ELSE 0
        forgotten == {order[i] : i \in 1..excess}
    IN  /\ deliveredOrder' = SubSeq(order, excess + 1, Len(order))
        /\ delivered' = [k \in (DOMAIN delivered \cup DrainedKeys) \ forgotten |->
                            IF k \in DrainedKeys THEN pending[k] ELSE delivered[k]]
        /\ pending' = [k \in DOMAIN pending \ DrainedKeys |-> pending[k]]

LargerOf(a, b) == IF a >= b THEN a ELSE b

TakeMainForDelivery ==
    /\ mainQueue # <<>>
    /\ mainDeliveredSeq' = LargerOf(mainDeliveredSeq, mainQueue[Len(mainQueue)].seq)
    /\ handed' = handed \o mainQueue
    /\ mainQueue' = <<>>
    /\ MoveToWindow
    /\ receipt' = Nothing
    /\ UNCHANGED <<closed, nextMainSeq>>

(* close: shared with the user ring; draining stays possible. *)
Close ==
    /\ ~closed
    /\ closed' = TRUE
    /\ receipt' = Nothing
    /\ UNCHANGED <<mainQueue, nextMainSeq, mainDeliveredSeq, tables, handed>>

Next ==
    \/ \E key \in Keys \cup {NoKey}, body \in Bodies : PublishMain(key, body)
    \/ TakeMainForDelivery
    \/ Close

Spec == Init /\ [][Next]_vars

-----------------------------------------------------------------------------
(* Properties *)

Outcomes == {"closed", "queued", "delivered", "conflict", "queueFull", "accepted"}
Receipts == [outcome : Outcomes, key : Keys \cup {NoKey}, body : Bodies, seq : Nat, position : Nat]

(* The values the fields of Inner range over. *)
TypeOK ==
    /\ closed \in BOOLEAN
    /\ mainQueue \in Seq(Message)
    /\ nextMainSeq \in Nat \ {0}
    /\ mainDeliveredSeq \in Nat
    /\ DOMAIN pending \subseteq Keys
    /\ pending \in [DOMAIN pending -> IdempotencyRecord]
    /\ DOMAIN delivered \subseteq Keys
    /\ delivered \in [DOMAIN delivered -> IdempotencyRecord]
    /\ handed \in Seq(Message)
    /\ receipt = Nothing \/ receipt \in Receipts

Accepted == handed \o mainQueue

(* Every accepted publication is either still queued or was handed to the  *)
(* main loop, once and in the order of acceptance, and main_delivered_seq  *)
(* tells exactly how far the deliveries got.                               *)
NothingLostOrRepeated ==
    /\ Len(Accepted) = nextMainSeq - 1
    /\ \A i \in DOMAIN Accepted : Accepted[i].seq = i
    /\ mainDeliveredSeq = Len(handed)

(* The pending table holds exactly the keys of the queued messages, with   *)
(* the sequence number and content of the message, and no key that the     *)
(* window of recent deliveries also answers for.                           *)
PendingMirrorsQueue ==
    /\ \A i \in DOMAIN mainQueue : mainQueue[i].key # NoKey =>
           /\ mainQueue[i].key \in DOMAIN pending
           /\ pending[mainQueue[i].key] = [seq |-> mainQueue[i].seq, body |-> mainQueue[i].body]
    /\ \A k \in DOMAIN pending : \E i \in DOMAIN mainQueue : mainQueue[i].key = k
    /\ DOMAIN pending \cap DOMAIN delivered = {}

KeyedBetween(messages, i, j) ==
    {l \in DOMAIN messages : i < l /\ l < j /\ messages[l].key # NoKey}

(* The same key is accepted a second time only after at least              *)
(* MAIN_DELIVERED_HORIZON other keyed messages were accepted between.      *)
RepeatOnlyBeyondHorizon ==
    \A i, j \in DOMAIN Accepted :
        i < j /\ Accepted[i].key = Accepted[j].key /\ Accepted[i].key # NoKey =>
            Cardinality(KeyedBetween(Accepted, i, j)) >= MainDeliveredHorizon

(* A receipt tells the truth when it is returned: a position is the        *)
(* message's present position, a replay names a message with the caller's  *)
(* own key and content, and only a new key is ever refused for capacity.   *)
ReceiptTruthful ==
    receipt # Nothing =>
        /\ receipt.outcome \in {"accepted", "queued"} =>
              /\ receipt.position \in DOMAIN mainQueue
              /\ mainQueue[receipt.position] =
                    [seq |-> receipt.seq, key |-> receipt.key, body |-> receipt.body]
        /\ receipt.outcome = "delivered" =>
              /\ receipt.seq \in 1..mainDeliveredSeq
              /\ handed[receipt.seq] =
                    [seq |-> receipt.seq, key |-> receipt.key, body |-> receipt.body]
        /\ receipt.outcome = "queueFull" =>
              receipt.key \notin {mainQueue[i].key : i \in DOMAIN mainQueue} \ {NoKey}
=============================================================================
