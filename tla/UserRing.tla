------------------------------- MODULE UserRing -------------------------------
(***************************************************************************)
(* The user-notification ring of MessageBus (coda-agent src/message/mod.rs)*)
(* and a reader that pages through it: publish_user evicts the oldest      *)
(* notification when the ring is full, together with its idempotency       *)
(* record; user_since reads a page after a cursor without removing         *)
(* anything and reports what the caller can no longer get.                 *)
(*                                                                         *)
(* Every operation is one critical section under the bus's gate.  A key    *)
(* stands for a pair (scope_id, key), a body for a (body, context) pair    *)
(* that passed the size checks.                                            *)
(***************************************************************************)
EXTENDS MessageBus, Ascending, Integers, Sequences

CONSTANTS
    Capacity,       \* Inner::capacity
    Limits,         \* the page sizes the reader asks for
    MaxCursor       \* bound of the model: publications accepted

ASSUME RingAssumption ==
    /\ Capacity \in Nat \ {0}
    /\ Limits \subseteq Nat
    /\ MaxCursor \in Nat

VARIABLES
    ring,           \* Inner::ring, oldest first
    nextCursor,     \* Inner::next_cursor
    evictedUpTo,    \* Inner::evicted_up_to
    idempotency,    \* Inner::idempotency
    userReceipt,    \* what the last publish_user returned
    readerCursor,   \* the cursor the reader passes next
    seen,           \* the cursors the reader was given, in order
    lost            \* the cursors the reader was told were dropped

reader == <<readerCursor, seen, lost>>
ringVars == <<closed, ring, nextCursor, evictedUpTo, idempotency, userReceipt, reader>>

UserMessage == [cursor : Nat, key : Keys \cup {NoKey}, body : Bodies]
UserRecord == [cursor : Nat, body : Bodies]

UserReceipt(outcome, key, body, cursor) ==
    [outcome |-> outcome, key |-> key, body |-> body, cursor |-> cursor]

RingInit ==
    /\ closed = FALSE
    /\ ring = <<>>
    /\ nextCursor = 1
    /\ evictedUpTo = 0
    /\ idempotency = [k \in {} |-> 0]
    /\ userReceipt = Nothing
    /\ readerCursor = 0
    /\ seen = <<>>
    /\ lost = {}

-----------------------------------------------------------------------------
(* publish_user *)

Answer(outcome, key, body, cursor) ==
    /\ userReceipt' = UserReceipt(outcome, key, body, cursor)
    /\ UNCHANGED <<closed, ring, nextCursor, evictedUpTo, idempotency, reader>>

RingClosed(key, body) ==
    /\ closed
    /\ Answer("closed", key, body, 0)

(* A key still in the table: the original receipt for the same content, a  *)
(* conflict for another.                                                   *)
Replay(key, body) ==
    /\ ~closed
    /\ key \in DOMAIN idempotency
    /\ IF idempotency[key].body = body
       THEN Answer("replayed", key, body, idempotency[key].cursor)
       ELSE Answer("conflict", key, body, 0)

(* The table with the new record (unless the publication has no key) and   *)
(* without the records of the evicted messages.                            *)
RecordsAfter(key, record, evicted) ==
    [k \in (DOMAIN idempotency \cup ({key} \ {NoKey})) \ {m.key : m \in evicted} |->
        IF k = key THEN record ELSE idempotency[k]]

(* What a push makes the ring evict: it never held more than its capacity, *)
(* so the eviction loop runs at most once.                                 *)
Overflow == IF Len(ring) >= Capacity THEN {ring[1]} ELSE {}

PublishNew(key, body) ==
    LET message == [cursor |-> nextCursor, key |-> key, body |-> body]
        evicted == Overflow
    IN  /\ ~closed
        /\ key \notin DOMAIN idempotency
        /\ nextCursor <= MaxCursor
        /\ nextCursor' = nextCursor + 1
        /\ ring' = Append(IF evicted = {} THEN ring ELSE Tail(ring), message)
        /\ evictedUpTo' = IF evicted = {} THEN evictedUpTo ELSE ring[1].cursor
        /\ idempotency' = RecordsAfter(key, [cursor |-> nextCursor, body |-> body], evicted)
        /\ userReceipt' = UserReceipt("published", key, body, nextCursor)
        /\ UNCHANGED <<closed, reader>>

PublishUser(key, body) ==
    \/ RingClosed(key, body)
    \/ Replay(key, body)
    \/ PublishNew(key, body)

-----------------------------------------------------------------------------
(* user_since *)

(* The cursors the caller can no longer get: after + 1 .. evicted_up_to. *)
Dropped(after) == IF after < evictedUpTo THEN (after + 1)..evictedUpTo ELSE {}

(* The retained messages after the cursor; the ring is in cursor order     *)
(* (RingContiguous), so sorting changes nothing.                           *)
Newer(after) == At(ring, {i \in DOMAIN ring : ring[i].cursor > after})

PageLength(newer, limit) == IF limit < Len(newer) THEN limit ELSE Len(newer)

(* Slip: a reader behind the ring is given nothing but the gap. *)
PageUnlessGap(after, limit) ==
    IF after < evictedUpTo THEN <<>>
    ELSE SubSeq(Newer(after), 1, PageLength(Newer(after), limit))

(* The oldest `limit` of them. *)
Page(after, limit) == SubSeq(Newer(after), 1, PageLength(Newer(after), limit))

(* Slip: an empty page moves the caller to the latest message. *)
NextCursorLatest(after, page) ==
    IF page = <<>> THEN nextCursor - 1 ELSE page[Len(page)].cursor

(* The cursor to continue from: never past what the page returned. *)
NextCursor(after, page) == IF page = <<>> THEN after ELSE page[Len(page)].cursor

UserSince(limit) ==
    LET page == Page(readerCursor, limit)
    IN  /\ lost' = lost \cup Dropped(readerCursor)
        /\ seen' = seen \o [i \in DOMAIN page |-> page[i].cursor]
        /\ readerCursor' = NextCursor(readerCursor, page)
        /\ userReceipt' = Nothing
        /\ UNCHANGED <<closed, ring, nextCursor, evictedUpTo, idempotency>>

(* close: reads stay possible. *)
CloseRing ==
    /\ ~closed
    /\ closed' = TRUE
    /\ userReceipt' = Nothing
    /\ UNCHANGED <<ring, nextCursor, evictedUpTo, idempotency, reader>>

RingNext ==
    \/ \E key \in Keys \cup {NoKey}, body \in Bodies : PublishUser(key, body)
    \/ \E limit \in Limits : UserSince(limit)
    \/ CloseRing

(* The reader keeps reading pages that may hold something. *)
ReadsSome == \E limit \in Limits \ {0} : UserSince(limit)

RingSpec == RingInit /\ [][RingNext]_ringVars /\ WF_ringVars(ReadsSome)

-----------------------------------------------------------------------------
(* Properties *)

UserOutcomes == {"closed", "replayed", "conflict", "published"}
UserReceipts == [outcome : UserOutcomes, key : Keys \cup {NoKey}, body : Bodies, cursor : Nat]

(* The values the fields of Inner range over. *)
RingTypeOK ==
    /\ closed \in BOOLEAN
    /\ ring \in Seq(UserMessage)
    /\ nextCursor \in Nat \ {0}
    /\ evictedUpTo \in Nat
    /\ DOMAIN idempotency \subseteq Keys
    /\ idempotency \in [DOMAIN idempotency -> UserRecord]
    /\ userReceipt = Nothing \/ userReceipt \in UserReceipts

(* The ring holds the latest messages, at most Capacity of them, with the  *)
(* consecutive cursors that follow evicted_up_to: the DroppedRange that    *)
(* user_since derives from evicted_up_to is exact.                         *)
RingContiguous ==
    /\ Len(ring) <= Capacity
    /\ nextCursor = evictedUpTo + Len(ring) + 1
    /\ \A i \in DOMAIN ring : ring[i].cursor = evictedUpTo + i

(* An idempotency record never outlives its message and a keyed message    *)
(* never loses its record: the lookup of a replayed message in the ring    *)
(* always succeeds.                                                        *)
RecordsMirrorRing ==
    /\ \A k \in DOMAIN idempotency : \E i \in DOMAIN ring :
          /\ ring[i].key = k
          /\ idempotency[k] = [cursor |-> ring[i].cursor, body |-> ring[i].body]
    /\ \A i \in DOMAIN ring : ring[i].key # NoKey =>
          /\ ring[i].key \in DOMAIN idempotency
          /\ idempotency[ring[i].key].cursor = ring[i].cursor

(* A reader that follows next_cursor is given every notification exactly   *)
(* once and in order, or is told that it was dropped, never both.          *)
ReaderMissesNothing ==
    LET given == {seen[i] : i \in DOMAIN seen}
    IN  /\ 1..readerCursor \subseteq given \cup lost
        /\ given \cap lost = {}
        /\ \A i, j \in DOMAIN seen : i < j => seen[i] < seen[j]
        /\ lost \subseteq 1..evictedUpTo

(* A client that keeps asking for pages reaches the end of the ring once   *)
(* publications stop, however far it had fallen behind.                    *)
ReaderCatchesUp == nextCursor = MaxCursor + 1 ~> readerCursor = MaxCursor
=============================================================================
