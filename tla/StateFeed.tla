------------------------------- MODULE StateFeed -------------------------------
(***************************************************************************)
(* What a client of `coda serve` shows of the engine it follows: the       *)
(* numbered events of the engine's bus, the client's fence before them,    *)
(* its hold buffer, and the three reads that put right what the events did *)
(* not bring (coda-serve/src/bus.rs, coda-serve/src/state/mod.rs,          *)
(* coda-tui/src/api/view.rs, coda-tui/src/app/serve.rs).                   *)
(*                                                                         *)
(* The engine is its log: event i has the kind log[i], and its state,      *)
(* conversation and notifications after n events are functions of log and  *)
(* n, because each change and its event are made under one lock.  The      *)
(* client is one event loop: it takes one frame, then settles with the     *)
(* engine by up to three reads in a fixed order.  While it waits for an    *)
(* answer it takes no frame; the answer follows on the same connection all *)
(* events it covers.  So a read is one step, taken when the engine         *)
(* answers, and the frames it covers are then still in `inbound`.          *)
(***************************************************************************)
EXTENDS Naturals, FiniteSets, Sequences, SequencesExt, Ascending

CONSTANTS
    Kinds,          \* kinds of events the engine publishes
    MaxEvents,      \* bound: events published
    MaxLost,        \* bound: frames a proxy loses
    MaxFailures,    \* bound: reads that fail or are not answered in time
    MaxBuffered,    \* MAX_BUFFERED_FRAMES
    RingCapacity,   \* notifications the engine retains
    SeenCapacity    \* PENDING_MESSAGES_SEEN_CAPACITY

\* content:   text or a tool result, shown from its event
\* delivered: a message to the main agent; its event asks for a history read
\* config:    configuration or steering; its event asks for a state read
\* commit:    a turn ends, the committed history grows
\* reset:     the conversation is replaced
\* note:      a notification to the user, kept in a ring of its own
ASSUME ConstantsAssumption ==
    /\ Kinds \subseteq {"content", "delivered", "config", "commit", "reset", "note"}
    /\ {MaxEvents, MaxLost, MaxFailures, MaxBuffered, RingCapacity, SeenCapacity} \subseteq Nat
    /\ RingCapacity > 0

VARIABLES
    log,        \* kinds of the events published
    inbound,    \* frames on their way to the loop, by event number
    losses,     \* frames lost so far
    client,     \* the fence and what the client shows
    at,         \* where the loop is: "loop", or the read it comes to next
    backoff,    \* reads whose next attempt is not due yet
    failures    \* reads failed so far

engineVars == <<log, losses>>
loopVars == <<at, backoff, failures>>
vars == <<engineVars, inbound, client, loopVars>>

Reads == {"state", "history", "notes"}
Events == 1..MaxEvents
Larger(a, b) == IF a >= b THEN a ELSE b

-----------------------------------------------------------------------------
(* The engine after n events.                                              *)

Of(kinds, n) == {i \in 1..n : log[i] \in kinds}

Epoch(n)  == Cardinality(Of({"reset"}, n))
Length(n) == Cardinality(Of({"commit"}, n))

\* What session/getHistory returns: committed entries and the live turn.
Conversation(n) ==
    {i \in Of({"content", "delivered"}, n) : \A j \in Of({"reset"}, n) : j < i}

NoteNumber(n) == Cardinality(Of({"note"}, n))

\* The cursor below which the notification ring has dropped its messages.
EvictedUpTo(n) ==
    IF NoteNumber(n) > RingCapacity THEN NoteNumber(n) - RingCapacity ELSE 0

Now == Len(log)

-----------------------------------------------------------------------------
(* The client.                                                             *)

Client == [
    cursor: 0..MaxEvents, content: 0..MaxEvents,            \* ServeView: cursor, content_cursor
    epoch: 0..MaxEvents, length: 0..MaxEvents,              \* its history fence
    resyncing: BOOLEAN, held: Seq(Events), needsSnapshot: BOOLEAN,
    resync: BOOLEAN, rehydrate: BOOLEAN, pending: BOOLEAN,  \* App: needs_resync, ...
    watermark: 0..MaxEvents, seen: SUBSET Events,           \* App: pending_messages_cursor, _seen
    shown: SUBSET Events, twice: SUBSET Events,             \* the transcript
    notes: SUBSET Events, missed: SUBSET Events,            \* notifications shown, reported lost
    readAt: 0..MaxEvents,                                   \* history: cursor of the last snapshot
    unread: BOOLEAN ]   \* history: a snapshot has passed over events no history read made good

Init ==
    /\ log = <<>> /\ inbound = <<>> /\ losses = 0
    /\ client = [cursor |-> 0, content |-> 0, epoch |-> 0, length |-> 0,
                 resyncing |-> FALSE, held |-> <<>>, needsSnapshot |-> TRUE,
                 resync |-> TRUE, rehydrate |-> TRUE, pending |-> TRUE,
                 watermark |-> 0, seen |-> {}, shown |-> {}, twice |-> {},
                 notes |-> {}, missed |-> {}, readAt |-> 0, unread |-> FALSE]
    /\ at = "loop" /\ backoff = {} /\ failures = 0

\* on_events_lost.
EventsLost(c) == [c EXCEPT !.resync = TRUE, !.rehydrate = TRUE, !.pending = TRUE]

(* Slip: what a history read covered is shown again. *)
ReflectedNever(c, i) == FALSE

\* content_is_reflected.
Reflected(c, i) == i <= c.content

Show(c, i) ==
    IF i \in c.shown THEN [c EXCEPT !.twice = @ \cup {i}] ELSE [c EXCEPT !.shown = @ \cup {i}]

\* on_history_reset and what its callers do on a moved epoch.
MovedTo(c, i) ==
    IF Epoch(i) = c.epoch
    THEN [c EXCEPT !.length = Length(i)]
    ELSE [c EXCEPT !.epoch = Epoch(i), !.length = Length(i), !.needsSnapshot = TRUE,
                   !.rehydrate = TRUE, !.resync = TRUE]

\* How far the numbers of s continue from w.
Contiguous(w, s) ==
    CHOOSE n \in {w} \cup s : n >= w /\ (w + 1)..n \subseteq s /\ n + 1 \notin s

WatermarkAt(c, w) ==
    LET past == Contiguous(w, c.seen)
    IN  [c EXCEPT !.watermark = past, !.seen = {k \in @ : k > past}]

(* Slip: the watermark follows whatever arrives. *)
RecordAny(c, k) == [c EXCEPT !.watermark = Larger(@, k), !.notes = @ \cup {k}]

\* record_live_pending_message_cursor, and the reducer, which shows an id once.
RecordNote(c, k) ==
    LET shown == [c EXCEPT !.notes = @ \cup {k}]
    IN  IF k <= c.watermark \/ k \in c.seen THEN shown
        ELSE IF k = c.watermark + 1 THEN WatermarkAt(shown, k)
        ELSE IF Cardinality(c.seen) >= SeenCapacity THEN [c EXCEPT !.pending = TRUE]
        ELSE [shown EXCEPT !.seen = @ \cup {k}, !.pending = TRUE]

\* dispatch_frame and apply_state_frame.
Dispatch(c, i) ==
    CASE log[i] = "content"   -> IF Reflected(c, i) THEN c ELSE Show(c, i)
      [] log[i] = "delivered" -> IF Reflected(c, i) THEN c
                                 ELSE [c EXCEPT !.resync = TRUE, !.rehydrate = TRUE]
      [] log[i] = "config"    -> [c EXCEPT !.resync = TRUE]
      [] log[i] = "commit"    -> MovedTo(c, i)
      [] log[i] = "reset"     -> [MovedTo(c, i) EXCEPT !.resync = TRUE]
      [] log[i] = "note"      -> RecordNote(c, NoteNumber(i))

\* hold, with accept's answer to an overflow.
Hold(c, i) ==
    IF Len(c.held) >= MaxBuffered
    THEN EventsLost([c EXCEPT !.held = <<>>, !.needsSnapshot = TRUE])
    ELSE [c EXCEPT !.held = Append(@, i)]

\* ServeView::receive and accept, for a frame of the engine's one instance.
Accept(c, i) ==
    IF c.resyncing THEN Hold(c, i)
    ELSE IF i <= c.cursor THEN c
    ELSE IF i > c.cursor + 1
         THEN EventsLost(Hold([c EXCEPT !.needsSnapshot = TRUE, !.resyncing = TRUE], i))
    ELSE Dispatch([c EXCEPT !.cursor = i], i)

\* The replay by the caller of drain_buffer: the events after `from`, in order.
Replay(c, from, to) ==
    LET after[i \in from..to] == IF i = from THEN c ELSE Dispatch(after[i - 1], i)
    IN  after[to]

\* drain_buffer: the held frames that continue from the cursor, up to a hole.
\* They are held in the order of their numbers.
DrainBuffer(c) ==
    LET upTo  == Contiguous(c.cursor, ToSet(c.held))
        rest  == At(c.held, {k \in DOMAIN c.held : c.held[k] > upTo})
        moved == [c EXCEPT !.cursor = upTo, !.held = rest]
    IN  IF rest = <<>>
        THEN Replay(moved, c.cursor, upTo)
        ELSE EventsLost(Replay([moved EXCEPT !.needsSnapshot = TRUE, !.resyncing = TRUE],
                               c.cursor, upTo))

-----------------------------------------------------------------------------
(* The three reads.  S is the engine's cursor when it answers.             *)

\* apply_snapshot and the rest of resync_paired_at.
TakeSnapshot(c, S) ==
    LET passed == \E i \in c.cursor + 1 .. S :
                     i > c.content /\ log[i] \in {"content", "delivered", "reset"}
    IN  [DrainBuffer([c EXCEPT !.cursor = S, !.epoch = Epoch(S), !.length = Length(S),
                               !.resync = FALSE, !.resyncing = FALSE, !.needsSnapshot = FALSE,
                               !.readAt = S, !.unread = @ \/ (passed /\ ~c.rehydrate)])
            EXCEPT !.pending = TRUE]

\* abort_resync.
AbortResync(c) ==
    DrainBuffer([c EXCEPT !.resync = FALSE, !.resyncing = FALSE, !.needsSnapshot = TRUE])

FenceMoved(c, S) == c.epoch # Epoch(S) \/ c.length # Length(S)

(* Slip: the state events up to the read are taken for read as well. *)
TakeHistoryAndFence(c, S) ==
    [c EXCEPT !.rehydrate = FALSE, !.content = S, !.cursor = Larger(@, S),
              !.shown = Conversation(S), !.twice = {}, !.unread = FALSE]

\* rehydrate_at with note_history_read: the transcript is rebuilt.
TakeHistory(c, S) ==
    [c EXCEPT !.rehydrate = FALSE, !.content = Larger(@, S),
              !.shown = Conversation(S), !.twice = {}, !.unread = FALSE]

\* narrow_dropped_range of the range the answer reports.
Unaccounted(c, S) == (c.watermark + 1 .. EvictedUpTo(S)) \ c.seen

\* pending_messages_at; the answer is not paged.
TakeNotes(c, S) ==
    WatermarkAt([c EXCEPT !.pending = FALSE,
                          !.missed = @ \cup Unaccounted(c, S),
                          !.notes = @ \cup (Larger(c.watermark, EvictedUpTo(S)) + 1 .. NoteNumber(S))],
                Larger(c.watermark, NoteNumber(S)))

-----------------------------------------------------------------------------
(* Steps.                                                                  *)

\* transact and publish_inner.  The frame reaches the client's queue, or is
\* lost on the way.
Publish(k) ==
    /\ Len(log) < MaxEvents
    /\ log' = Append(log, k)
    /\ \/ inbound' = Append(inbound, Len(log')) /\ UNCHANGED losses
       \/ losses < MaxLost /\ losses' = losses + 1 /\ UNCHANGED inbound
    /\ UNCHANGED <<client, loopVars>>

\* Time passes and the retry of a read becomes due.
BackoffOver(r) ==
    /\ r \in backoff
    /\ backoff' = backoff \ {r}
    /\ UNCHANGED <<engineVars, inbound, client, at, failures>>

Receive ==
    /\ at = "loop" /\ inbound # <<>>
    /\ client' = Accept(client, Head(inbound))
    /\ inbound' = Tail(inbound)
    /\ at' = "state"
    /\ UNCHANGED <<engineVars, backoff, failures>>

Owed(c) ==
    {r \in Reads : \/ r = "state" /\ (c.resync \/ c.needsSnapshot)
                   \/ r = "history" /\ c.rehydrate
                   \/ r = "notes" /\ c.pending}

(* Slip: the mailbox arms no timer. *)
TimerForgetsNotes == Owed(client) \ {"notes"}

\* arm_spinner_wakeup: whatever is owed wakes the loop.
TimerArmedFor == Owed(client)

Wake ==
    /\ at = "loop"
    /\ TimerArmedFor \ backoff # {}
    /\ at' = "state"
    /\ UNCHANGED <<engineVars, inbound, client, backoff, failures>>

NextPlace(r) == CASE r = "state" -> "history" [] r = "history" -> "notes" [] r = "notes" -> "loop"

Skip ==
    /\ at \in Reads /\ at \notin Owed(client) \ backoff
    /\ at' = NextPlace(at)
    /\ UNCHANGED <<engineVars, inbound, client, backoff, failures>>

DueRead(r) == at = r /\ r \in Owed(client) \ backoff /\ at' = NextPlace(r)

Answered(r, c) ==
    /\ client' = c
    /\ backoff' = backoff \ {r}
    /\ UNCHANGED <<engineVars, inbound, failures>>

ReadState == DueRead("state") /\ Answered("state", TakeSnapshot(client, Now))

\* The engine refuses a read whose epoch or length is not the current one;
\* that is a failed attempt, but the engine's.
ReadHistory ==
    /\ DueRead("history")
    /\ ~FenceMoved(client, Now)
    /\ Answered("history", TakeHistory(client, Now))

RefuseHistory ==
    /\ DueRead("history")
    /\ FenceMoved(client, Now)
    /\ client' = [client EXCEPT !.resync = TRUE]
    /\ backoff' = backoff \cup {"history"}
    /\ UNCHANGED <<engineVars, inbound, failures>>

ReadNotes == DueRead("notes") /\ Answered("notes", TakeNotes(client, Now))

\* No answer in time, or an error: the need survives.
FailRead(r) ==
    /\ DueRead(r)
    /\ failures < MaxFailures
    /\ failures' = failures + 1
    /\ client' = IF r = "state" THEN AbortResync(client) ELSE client
    /\ backoff' = backoff \cup {r}
    /\ UNCHANGED <<engineVars, inbound>>

Settle == Skip \/ ReadState \/ ReadHistory \/ RefuseHistory \/ ReadNotes

Next ==
    \/ \E k \in Kinds : Publish(k)
    \/ Receive \/ Wake \/ Settle
    \/ \E r \in Reads : FailRead(r) \/ BackoffOver(r)

Spec == Init /\ [][Next]_vars

(* The loop runs: it takes a frame that is there, its timer goes off, a    *)
(* read is answered, refused or timed out, and a backoff ends.  Nothing    *)
(* makes the engine publish.                                               *)
FairSpec ==
    /\ Spec
    /\ WF_vars(Receive \/ Wake \/ Settle)
    /\ \A r \in Reads : WF_vars(BackoffOver(r))

-----------------------------------------------------------------------------
(* Properties.                                                             *)

(* The variables stay within their ranges, the hold buffer and the set of  *)
(* notifications received out of order within their capacities.            *)
TypeOK ==
    /\ log \in Seq(Kinds) /\ Len(log) <= MaxEvents
    /\ inbound \in Seq(1..Len(log)) /\ losses \in 0..MaxLost
    /\ client \in Client
    /\ Len(client.held) <= MaxBuffered /\ Cardinality(client.seen) <= SeenCapacity
    /\ at \in Reads \cup {"loop"} /\ backoff \subseteq Reads /\ failures \in 0..MaxFailures

(* A configuration change the fence has passed was read from the engine    *)
(* with a snapshot, or such a read is owed; also when the change lies in   *)
(* the range a history read covered (view.rs, content_cursor: advancing    *)
(* the cursor "would also swallow the state frames in that range").        *)
MetadataIsRead ==
    \A i \in Of({"config"}, client.cursor) :
        i <= client.readAt \/ client.resync \/ client.needsSnapshot

Complete(c) == c.shown = Conversation(Larger(c.cursor, c.content))

(* Nothing of the conversation is shown twice, and unless a history read   *)
(* is owed the transcript is the engine's conversation at the client's     *)
(* cursor, through gaps, overflows, failed and refused reads: only a       *)
(* snapshot read without a history read passes content over (view.rs, its  *)
(* three properties).                                                      *)
TranscriptExact ==
    /\ client.twice = {}
    /\ client.rehydrate \/ client.unread \/ Complete(client)

(* Unless a history read is owed, the transcript is the conversation at    *)
(* the client's cursor, whatever made the client read the state (view.rs:  *)
(* a client must not "carry on with a conversation that quietly lost a     *)
(* tool result").  The code does not ensure it.                            *)
NothingPassedOver == client.rehydrate \/ Complete(client)

(* A notification whose event the fence has passed is shown or reported    *)
(* lost, unless a read of the mailbox is owed; and the watermark claims no *)
(* notification that is neither (serve.rs, record_live_pending_message_    *)
(* cursor).                                                                *)
NotesAccounted ==
    LET told == client.notes \cup client.missed
    IN  /\ 1..client.watermark \subseteq told
        /\ client.pending \/ 1..NoteNumber(client.cursor) \subseteq told

(* A client that holds frames back owes a state read: no frame waits for a *)
(* snapshot that nobody asks for (view.rs, needs_snapshot).                *)
HeldIsOwed ==
    (client.resyncing \/ client.held # <<>>) => "state" \in Owed(client)

(* Once the engine is quiet the client catches up: nothing stays owed, no  *)
(* frame stays held, and all configuration up to its cursor has been read. *)
CatchesUp ==
    <>[](inbound = <<>> /\ Owed(client) = {} /\ client.held = <<>> /\ ~client.resyncing)
=============================================================================
