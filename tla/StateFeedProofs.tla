---------------------------- MODULE StateFeedProofs ----------------------------
(***************************************************************************)
(* Proofs about StateFeed, for any number of events, lost frames and       *)
(* failed reads, and every capacity of the hold buffer, the notification   *)
(* ring and the set of notifications received out of order.                *)
(***************************************************************************)
EXTENDS StateFeed, AscendingProofs

-----------------------------------------------------------------------------
(* The engine after n events.                                              *)

\* One more event adds itself to its kind, and to no other.
LEMMA OfStep ==
    ASSUME NEW kinds, NEW n \in Nat \ {0}
    PROVE  Of(kinds, n) = IF log[n] \in kinds THEN Of(kinds, n - 1) \cup {n} ELSE Of(kinds, n - 1)
<1>1. 1..n = 1..(n - 1) \cup {n}
  OBVIOUS
<1> QED BY <1>1 DEF Of

\* The events of some kinds can be counted, the more the later.
LEMMA OfCount ==
    ASSUME NEW kinds, NEW m \in Nat, NEW n \in Nat, m <= n
    PROVE  /\ Of(kinds, n) \subseteq 1..n /\ IsFiniteSet(Of(kinds, n))
           /\ Cardinality(Of(kinds, n)) \in 0..n
           /\ Cardinality(Of(kinds, m)) <= Cardinality(Of(kinds, n))
<1>1. IsFiniteSet(1..n) /\ Cardinality(1..n) = n
  <2>1. 1 \in Int /\ n \in Int /\ 1 <= n + 1
    OBVIOUS
  <2>2. IsFiniteSet(1..n)
    BY <2>1, FS_Interval
  <2>3. Cardinality(1..n) = IF 1 > n THEN 0 ELSE n - 1 + 1
    BY <2>1, FS_Interval
  <2> QED BY <2>2, <2>3
<1>2. Of(kinds, n) \subseteq 1..n
  BY DEF Of
<1>3. /\ IsFiniteSet(Of(kinds, n)) /\ Cardinality(Of(kinds, n)) <= Cardinality(1..n)
  BY <1>1, <1>2, FS_Subset
<1>4. Cardinality(Of(kinds, n)) \in Nat
  BY <1>3, FS_CardinalityType
<1>5. Of(kinds, m) \subseteq Of(kinds, n)
  BY DEF Of
<1>6. Cardinality(Of(kinds, m)) <= Cardinality(Of(kinds, n))
  BY <1>3, <1>5, FS_Subset
<1> QED BY <1>1, <1>2, <1>3, <1>4, <1>6

\* One more event of the kinds is one more to count.
LEMMA CountStep ==
    ASSUME NEW kinds, NEW n \in Nat \ {0}
    PROVE  Cardinality(Of(kinds, n)) =
               IF log[n] \in kinds THEN Cardinality(Of(kinds, n - 1)) + 1
               ELSE Cardinality(Of(kinds, n - 1))
<1>1. n - 1 \in Nat
  OBVIOUS
<1>2. Of(kinds, n - 1) \subseteq 1..(n - 1) /\ IsFiniteSet(Of(kinds, n - 1))
  BY <1>1, OfCount
<1>3. n \notin Of(kinds, n - 1)
  BY <1>2
<1>4. Cardinality(Of(kinds, n - 1) \cup {n}) = Cardinality(Of(kinds, n - 1)) + 1
  BY <1>2, <1>3, FS_AddElement
<1> QED BY <1>4, OfStep

\* What the numbers of epochs, commits and notifications do at an event.
LEMMA Counters ==
    ASSUME NEW i \in Nat \ {0}
    PROVE  /\ Epoch(i) = IF log[i] = "reset" THEN Epoch(i - 1) + 1 ELSE Epoch(i - 1)
           /\ NoteNumber(i) = IF log[i] = "note" THEN NoteNumber(i - 1) + 1 ELSE NoteNumber(i - 1)
           /\ Epoch(i - 1) \in Nat /\ NoteNumber(i - 1) \in Nat
<1>1. i - 1 \in Nat /\ i - 1 <= i - 1
  OBVIOUS
<1>2. Cardinality(Of({"reset"}, i - 1)) \in 0..(i - 1) /\ Cardinality(Of({"note"}, i - 1)) \in 0..(i - 1)
  BY <1>1, OfCount
<1> QED BY <1>2, CountStep DEF Epoch, NoteNumber

LEMMA Ranges ==
    ASSUME NEW m \in Nat, NEW n \in Nat, m <= n
    PROVE  /\ Epoch(n) \in 0..n /\ Length(n) \in 0..n /\ NoteNumber(n) \in 0..n
           /\ NoteNumber(m) <= NoteNumber(n)
           /\ EvictedUpTo(n) \in 0..NoteNumber(n)
           /\ Conversation(n) \subseteq 1..n
<1>1. /\ Epoch(n) \in 0..n /\ Length(n) \in 0..n /\ NoteNumber(n) \in 0..n
      /\ NoteNumber(m) <= NoteNumber(n)
  BY OfCount DEF Epoch, Length, NoteNumber
<1>2. EvictedUpTo(n) \in 0..NoteNumber(n)
  BY <1>1, ConstantsAssumption DEF EvictedUpTo
<1>3. Conversation(n) \subseteq 1..n
  BY DEF Conversation, Of
<1> QED BY <1>1, <1>2, <1>3

\* Only content, deliveries and resets change the conversation.
LEMMA ConversationKept ==
    ASSUME NEW m \in Nat, NEW n \in Nat, m <= n,
           \A l \in m + 1 .. n : log[l] \notin {"content", "delivered", "reset"}
    PROVE  Conversation(n) = Conversation(m)
<1>1. Of({"content", "delivered"}, n) = Of({"content", "delivered"}, m)
  <2> SUFFICES ASSUME NEW l \in 1..n, log[l] \in {"content", "delivered"} PROVE l \in 1..m
    BY DEF Of
  <2>1. l \notin m + 1 .. n
    OBVIOUS
  <2> QED BY <2>1
<1>2. Of({"reset"}, n) = Of({"reset"}, m)
  <2> SUFFICES ASSUME NEW l \in 1..n, log[l] = "reset" PROVE l \in 1..m
    BY DEF Of
  <2>1. l \notin m + 1 .. n
    OBVIOUS
  <2> QED BY <2>1
<1> QED BY <1>1, <1>2 DEF Conversation

\* Content and deliveries join the conversation.
LEMMA ConversationGrows ==
    ASSUME NEW i \in Nat \ {0}, log[i] \in {"content", "delivered"}
    PROVE  Conversation(i) = Conversation(i - 1) \cup {i}
<1>1. Of({"content", "delivered"}, i) = Of({"content", "delivered"}, i - 1) \cup {i}
  BY OfStep
<1>2. Of({"reset"}, i) = Of({"reset"}, i - 1)
  BY OfStep
<1>3. \A j \in Of({"reset"}, i - 1) : j < i
  BY DEF Of
<1> QED BY <1>1, <1>2, <1>3 DEF Conversation

\* The engine's past does not change.
LEMMA PastStays ==
    ASSUME \A l \in DOMAIN log : l \in DOMAIN log' /\ log'[l] = log[l],
           log \in Seq(Kinds), NEW n \in 0..Len(log)
    PROVE  /\ \A kinds : Of(kinds, n)' = Of(kinds, n)
           /\ Epoch(n)' = Epoch(n) /\ NoteNumber(n)' = NoteNumber(n)
           /\ Conversation(n)' = Conversation(n)
<1>1. \A l \in 1..n : log'[l] = log[l]
  OBVIOUS
<1>2. ASSUME NEW kinds PROVE Of(kinds, n)' = Of(kinds, n)
  BY <1>1 DEF Of
<1>3. Epoch(n)' = Epoch(n) /\ NoteNumber(n)' = NoteNumber(n)
  BY <1>2 DEF Epoch, NoteNumber
<1>4. Conversation(n)' = Conversation(n)
  BY <1>2 DEF Conversation
<1> QED BY <1>2, <1>3, <1>4

-----------------------------------------------------------------------------
(* The client's operations on numbers.                                     *)

\* Contiguous goes from w to the first number that is missing.
LEMMA Continues ==
    ASSUME NEW w \in Nat, NEW top \in Nat, NEW s \in SUBSET (1..top)
    PROVE  /\ Contiguous(w, s) \in {w} \cup s
           /\ Contiguous(w, s) >= w /\ (w + 1)..Contiguous(w, s) \subseteq s
           /\ Contiguous(w, s) + 1 \notin s
<1> DEFINE G == {n \in Nat : (w + 1)..(w + n) \subseteq s}
<1>1. PICK n \in Nat : n \in G /\ n + 1 \notin G
  <2> SUFFICES ASSUME \A n \in Nat : n \in G => n + 1 \in G PROVE FALSE
    OBVIOUS
  <2>1. 0 \in G
    OBVIOUS
  <2> HIDE DEF G
  <2>2. \A n \in Nat : n \in G
    BY <2>1, SetInduction
  <2>3. (w + 1)..(w + (top + 1)) \subseteq s
    BY <2>2 DEF G
  <2>4. w + (top + 1) \in s
    BY <2>3
  <2> QED BY <2>4
<1>2. (w + 1)..(w + n) \subseteq s /\ w + n + 1 \notin s
  <2>1. w + n + 1 \in s => n + 1 \in G
    <3> SUFFICES ASSUME w + n + 1 \in s, NEW x \in (w + 1)..(w + (n + 1)) PROVE x \in s
      OBVIOUS
    <3>1. x \in (w + 1)..(w + n) \/ x = w + n + 1
      OBVIOUS
    <3> QED BY <1>1, <3>1
  <2> QED BY <1>1, <2>1
<1>3. w + n \in {w} \cup s
  <2>1. n = 0 \/ w + n \in (w + 1)..(w + n)
    OBVIOUS
  <2> QED BY <1>2, <2>1
<1>4. \E x \in {w} \cup s : x >= w /\ (w + 1)..x \subseteq s /\ x + 1 \notin s
  <2>1. w + n >= w
    OBVIOUS
  <2> QED BY <1>2, <1>3, <2>1
<1> QED BY <1>4 DEF Contiguous

\* What holds of the client before the replay, and is kept by each event
\* replayed, holds after it.
LEMMA Replayed ==
    ASSUME NEW G, NEW c, NEW from \in Nat, NEW to \in Nat, from <= to,
           <<c, from>> \in G,
           \A i \in from + 1 .. to : \A d : <<d, i - 1>> \in G => <<Dispatch(d, i), i>> \in G
    PROVE  <<Replay(c, from, to), to>> \in G
<1> DEFINE Step(f, i) == IF i = from THEN c ELSE Dispatch(f[i - 1], i)
           F == {n \in Nat : \E f : f = [i \in from..(from + n) |-> Step(f, i)]}
<1>1. 0 \in F
  <2> DEFINE f == [i \in from..(from + 0) |-> c]
  <2>1. f = [i \in from..(from + 0) |-> Step(f, i)]
    OBVIOUS
  <2> QED BY <2>1
<1>2. ASSUME NEW n \in Nat, n \in F PROVE n + 1 \in F
  <2>1. PICK f : f = [i \in from..(from + n) |-> Step(f, i)]
    BY <1>2
  <2> DEFINE g == [i \in from..(from + (n + 1)) |->
                     IF i = from + (n + 1) THEN Dispatch(f[from + n], i) ELSE f[i]]
  <2>2. ASSUME NEW i \in from..(from + (n + 1)) PROVE g[i] = Step(g, i)
    <3>1. CASE i = from
      BY <2>1, <3>1
    <3>2. CASE i = from + (n + 1)
      <4>1. i # from /\ i - 1 = from + n /\ from + n \in from..(from + (n + 1)) /\ from + n # from + (n + 1)
        BY <3>2
      <4>2. g[i - 1] = f[from + n]
        BY <4>1
      <4> QED BY <3>2, <4>1, <4>2
    <3>3. CASE i # from /\ i # from + (n + 1)
      <4>1. i \in from..(from + n) /\ i - 1 \in from..(from + (n + 1)) /\ i - 1 # from + (n + 1)
        BY <3>3
      <4>2. g[i - 1] = f[i - 1] /\ g[i] = f[i]
        BY <3>3, <4>1
      <4>3. f[i] = Dispatch(f[i - 1], i)
        BY <2>1, <3>3, <4>1
      <4> QED BY <3>3, <4>2, <4>3
    <3> QED BY <3>1, <3>2, <3>3
  <2>3. g = [i \in from..(from + (n + 1)) |-> Step(g, i)]
    BY <2>2
  <2> HIDE DEF g
  <2>4. \E h : h = [i \in from..(from + (n + 1)) |-> Step(h, i)]
    BY <2>3
  <2> QED BY <2>4
<1> HIDE DEF F
<1>3. \A n \in Nat : n \in F
  BY <1>1, <1>2, SetInduction
<1>4. \E f : f = [i \in from..to |-> Step(f, i)]
  <2>1. to - from \in Nat /\ from + (to - from) = to
    OBVIOUS
  <2>2. to - from \in F
    BY <1>3, <2>1
  <2> QED BY <2>1, <2>2 DEF F
<1> DEFINE after == CHOOSE f : f = [i \in from..to |-> Step(f, i)]
<1>5. after = [i \in from..to |-> Step(after, i)]
  BY <1>4
<1>6. Replay(c, from, to) = after[to]
  BY DEF Replay
<1> HIDE DEF after
<1> DEFINE H == {n \in Nat : from + n <= to => <<after[from + n], from + n>> \in G}
<1>7. 0 \in H
  <2>1. after[from] = c
    BY <1>5
  <2> QED BY <2>1
<1>8. ASSUME NEW n \in Nat, n \in H PROVE n + 1 \in H
  <2> SUFFICES ASSUME from + (n + 1) <= to
               PROVE  <<after[from + (n + 1)], from + (n + 1)>> \in G
    OBVIOUS
  <2> DEFINE i == from + (n + 1)
  <2>1. i \in from + 1 .. to /\ i \in from..to /\ i # from /\ i - 1 = from + n /\ from + n <= to
    OBVIOUS
  <2>2. <<after[i - 1], i - 1>> \in G
    BY <1>8, <2>1
  <2>3. after[i] = Dispatch(after[i - 1], i)
    BY <1>5, <2>1
  <2> HIDE DEF i
  <2>4. <<Dispatch(after[i - 1], i), i>> \in G
    BY <2>1, <2>2
  <2> QED BY <2>3, <2>4 DEF i
<1> HIDE DEF H
<1>9. \A n \in Nat : n \in H
  BY <1>7, <1>8, SetInduction
<1>10. to - from \in Nat /\ from + (to - from) = to
  OBVIOUS
<1>11. <<after[to], to>> \in G
  BY <1>9, <1>10 DEF H
<1> QED BY <1>6, <1>11

-----------------------------------------------------------------------------
(* The invariant.  The client's parts are said of a client c that has      *)
(* taken in the events up to i: in the middle of a replay c.cursor is      *)
(* already further.                                                        *)

Typed(c) == c \in Client /\ Cardinality(c.seen) <= SeenCapacity

\* The fence's epoch is the engine's, and the transcript is the conversation.
Shows(c, i) ==
    /\ c.epoch = Epoch(i)
    /\ c.twice = {}
    /\ c.shown \subseteq 1..Larger(i, c.content)
    /\ c.rehydrate \/ c.unread \/ c.shown = Conversation(Larger(i, c.content))

ReadsConfig(c, i) ==
    \A j \in Of({"config"}, i) : j <= c.readAt \/ c.resync \/ c.needsSnapshot

Told(c) == c.notes \cup c.missed

Accounts(c, i) ==
    /\ c.seen \subseteq Told(c) /\ 1..c.watermark \subseteq Told(c)
    /\ c.pending \/ 1..NoteNumber(i) \subseteq Told(c)

Follows(c, i) == Typed(c) /\ Shows(c, i) /\ ReadsConfig(c, i) /\ Accounts(c, i)

\* What the client holds and where its cursors are.
Holds(c) ==
    /\ Increasing(c.held) /\ Len(c.held) <= MaxBuffered
    /\ \A k \in DOMAIN c.held : c.held[k] \in 1..Now
    /\ c.cursor \in 0..Now /\ c.content \in 0..Now

\* What the client holds back waits for a snapshot that it owes.
Owes(c) == (c.resyncing \/ c.held # <<>>) => c.needsSnapshot

EngineOk ==
    /\ log \in Seq(Kinds) /\ Len(log) <= MaxEvents /\ losses \in 0..MaxLost

\* Frames arrive in order, after those that are held.
FrameInv ==
    /\ inbound \in Seq(1..Now) /\ Increasing(inbound)
    /\ \A k \in DOMAIN client.held, l \in DOMAIN inbound : client.held[k] < inbound[l]

LoopOk == at \in Reads \cup {"loop"} /\ backoff \subseteq Reads /\ failures \in 0..MaxFailures

FeedInv ==
    /\ EngineOk /\ LoopOk /\ FrameInv
    /\ Holds(client) /\ Owes(client) /\ Follows(client, client.cursor)

-----------------------------------------------------------------------------
(* One event.                                                              *)

\* An event keeps the transcript if it shows what joins the conversation, or
\* makes a history read owed, or was covered by the last history read.
LEMMA ShowsNext ==
    ASSUME NEW i \in Nat \ {0}, NEW c \in Client, Shows(c, i - 1),
           NEW d, d.content = c.content, d.unread = c.unread, d.twice = {}, d.epoch = Epoch(i),
           c.rehydrate => d.rehydrate,
           \/ /\ d.shown = c.shown
              /\ d.rehydrate \/ i <= c.content \/ log[i] \in {"config", "commit", "note"}
           \/ log[i] = "content" /\ i > c.content /\ d.shown = c.shown \cup {i}
    PROVE  Shows(d, i)
<1> DEFINE m == Larger(i - 1, c.content)
           n == Larger(i, c.content)
<1>1. /\ c.content \in Nat /\ m \in Nat /\ n \in Nat /\ m <= n /\ i <= n
      /\ i <= c.content => m = n
      /\ i > c.content => m = i - 1 /\ n = i
  BY DEF Client, Larger
<1>2. c.shown \subseteq 1..m /\ (c.rehydrate \/ c.unread \/ c.shown = Conversation(m))
  BY DEF Shows
<1> HIDE DEF m, n
<1>3. d.shown \subseteq 1..n
  BY <1>1, <1>2
<1>4. CASE d.shown = c.shown /\ i > c.content /\ log[i] \in {"config", "commit", "note"}
  <2>1. \A l \in m + 1 .. n : log[l] \notin {"content", "delivered", "reset"}
    BY <1>1, <1>4
  <2>2. Conversation(n) = Conversation(m)
    BY <1>1, <2>1, ConversationKept
  <2> QED BY <1>2, <1>3, <1>4, <2>2 DEF Shows, n
<1>5. CASE log[i] = "content" /\ i > c.content /\ d.shown = c.shown \cup {i}
  <2>1. Conversation(n) = Conversation(m) \cup {i}
    BY <1>1, <1>5, ConversationGrows
  <2> QED BY <1>2, <1>3, <1>5, <2>1 DEF Shows, n
<1>6. CASE d.shown = c.shown /\ (d.rehydrate \/ i <= c.content)
  BY <1>1, <1>2, <1>3, <1>6 DEF Shows, n
<1> QED BY <1>1, <1>4, <1>5, <1>6

LEMMA ConfigNext ==
    ASSUME NEW i \in Nat \ {0}, NEW c, ReadsConfig(c, i - 1),
           NEW d, d.readAt = c.readAt, c.resync => d.resync, c.needsSnapshot => d.needsSnapshot,
           log[i] = "config" => d.resync
    PROVE  ReadsConfig(d, i)
<1>1. Of({"config"}, i) \subseteq Of({"config"}, i - 1) \cup {i}
  BY OfStep
<1>2. i \in Of({"config"}, i) => log[i] = "config"
  BY DEF Of
<1> QED BY <1>1, <1>2 DEF ReadsConfig

LEMMA NotesNext ==
    ASSUME NEW i \in Nat \ {0}, log[i] # "note", NEW c, Accounts(c, i - 1),
           NEW d, d.seen = c.seen, d.watermark = c.watermark, d.notes = c.notes,
           d.missed = c.missed, c.pending => d.pending
    PROVE  Accounts(d, i)
<1>1. NoteNumber(i) = NoteNumber(i - 1)
  BY Counters
<1> QED BY <1>1 DEF Accounts, Told

\* The seen notifications after the watermark w continue it.
LEMMA WatermarkMoves ==
    ASSUME NEW c \in Client, NEW w \in 0..MaxEvents,
           Cardinality(c.seen) <= SeenCapacity,
           1..w \subseteq Told(c), c.seen \subseteq Told(c)
    PROVE  LET d == WatermarkAt(c, w)
           IN  /\ d \in Client /\ Cardinality(d.seen) <= SeenCapacity
               /\ d = [c EXCEPT !.watermark = d.watermark, !.seen = d.seen]
               /\ d.watermark >= w /\ 1..d.watermark \subseteq Told(c)
               /\ d.seen \subseteq c.seen
<1> DEFINE past == Contiguous(w, c.seen)
           later == {k \in c.seen : k > past}
<1>1. MaxEvents \in Nat /\ SeenCapacity \in Nat
  BY ConstantsAssumption
<1>2. c.seen \in SUBSET (1..MaxEvents)
  BY DEF Client, Events
<1>3. /\ past \in {w} \cup c.seen /\ past >= w /\ (w + 1)..past \subseteq c.seen
  <2>1. w \in Nat
    BY <1>1
  <2> QED BY <1>1, <1>2, <2>1, Continues
<1> HIDE DEF past
<1>4. past \in 0..MaxEvents
  BY <1>1, <1>2, <1>3
<1>5. IsFiniteSet(c.seen)
  <2>1. IsFiniteSet(1..MaxEvents)
    BY <1>1, FS_Interval
  <2> QED BY <1>2, <2>1, FS_Subset
<1>6. later \subseteq c.seen /\ Cardinality(later) <= Cardinality(c.seen)
      /\ Cardinality(later) \in Nat /\ Cardinality(c.seen) \in Nat
  <2>1. later \subseteq c.seen
    OBVIOUS
  <2> HIDE DEF later
  <2>2. IsFiniteSet(later) /\ Cardinality(later) <= Cardinality(c.seen)
    BY <1>5, <2>1, FS_Subset
  <2> QED BY <1>5, <2>1, <2>2, FS_CardinalityType
<1>7. 1..past \subseteq Told(c)
  <2> SUFFICES ASSUME NEW k \in 1..past PROVE k \in Told(c)
    OBVIOUS
  <2>1. k \in 1..w \/ k \in (w + 1)..past
    BY <1>1, <1>4
  <2> QED BY <1>3, <2>1
<1>8. WatermarkAt(c, w) = [c EXCEPT !.watermark = past, !.seen = later]
  BY DEF WatermarkAt, past
<1> HIDE DEF later
<1>9. later \in SUBSET Events
  BY <1>2, <1>6 DEF Events
<1>10. Cardinality(later) <= SeenCapacity
  BY <1>1, <1>6
<1> DEFINE d == [c EXCEPT !.watermark = past, !.seen = later]
<1>11. d \in Client /\ d.watermark = past /\ d.seen = later
  BY <1>4, <1>9 DEF Client
<1> QED BY <1>3, <1>6, <1>7, <1>8, <1>10, <1>11

\* A notification's event: its number is the next one.
LEMMA NoteFollows ==
    ASSUME NEW i \in 1..MaxEvents, log[i] = "note", NEW c, Typed(c), Accounts(c, i - 1)
    PROVE  LET d == RecordNote(c, NoteNumber(i))
           IN  /\ Typed(d) /\ Accounts(d, i)
               /\ d = [c EXCEPT !.watermark = d.watermark, !.seen = d.seen, !.notes = d.notes,
                                !.pending = d.pending]
               /\ c.pending => d.pending
<1> DEFINE k == NoteNumber(i)
           shown == [c EXCEPT !.notes = @ \cup {k}]
<1>1. /\ MaxEvents \in Nat /\ SeenCapacity \in Nat
      /\ c \in Client /\ Cardinality(c.seen) <= SeenCapacity
  BY ConstantsAssumption DEF Typed
<1>2. k \in 1..MaxEvents /\ NoteNumber(i - 1) = k - 1
  <2>1. i \in Nat \ {0} /\ i <= i
    BY <1>1
  <2>2. k = NoteNumber(i - 1) + 1 /\ NoteNumber(i - 1) \in Nat
    BY <2>1, Counters
  <2>3. k \in 0..i
    BY <2>1, Ranges
  <2> QED BY <1>1, <2>2, <2>3
<1>3. c.seen \subseteq Told(c) /\ 1..c.watermark \subseteq Told(c)
      /\ (c.pending \/ 1..(k - 1) \subseteq Told(c))
  <2>1. /\ c.seen \subseteq Told(c) /\ 1..c.watermark \subseteq Told(c)
        /\ c.pending \/ 1..NoteNumber(i - 1) \subseteq Told(c)
    BY DEF Accounts
  <2> HIDE DEF k
  <2> QED BY <1>2, <2>1
<1> HIDE DEF k
<1>4. /\ shown \in Client /\ shown.seen = c.seen /\ shown.watermark = c.watermark
      /\ Told(shown) = Told(c) \cup {k} /\ shown.pending = c.pending
  BY <1>1, <1>2 DEF Client, Told, Events
<1>5. c.watermark \in 0..MaxEvents /\ c.seen \subseteq 1..MaxEvents
  BY <1>1 DEF Client, Events
<1>6. ASSUME NEW d, Told(d) = Told(c) \cup {k}, c.pending => d.pending
      PROVE  d.pending \/ 1..k \subseteq Told(d)
  <2>1. 1..k \subseteq 1..(k - 1) \cup {k}
    BY <1>1, <1>2
  <2> QED BY <1>3, <1>6, <2>1
<1>7. CASE k <= c.watermark \/ k \in c.seen
  <2>1. RecordNote(c, k) = shown
    BY <1>7 DEF RecordNote
  <2>2. shown.pending \/ 1..k \subseteq Told(shown)
    BY <1>4, <1>6
  <2>3. Typed(shown) /\ Accounts(shown, i)
    BY <1>1, <1>3, <1>4, <2>2 DEF Typed, Accounts, k
  <2>4. shown = [c EXCEPT !.watermark = shown.watermark, !.seen = shown.seen, !.notes = shown.notes,
                          !.pending = shown.pending]
    BY <1>1 DEF Client
  <2> QED BY <1>4, <2>1, <2>3, <2>4 DEF k
<1>8. CASE ~(k <= c.watermark \/ k \in c.seen) /\ k = c.watermark + 1
  <2> DEFINE d == WatermarkAt(shown, k)
  <2>1. RecordNote(c, k) = d
    BY <1>8 DEF RecordNote
  <2>2. 1..k \subseteq Told(shown) /\ c.seen \subseteq Told(shown)
    <3>1. 1..k \subseteq 1..c.watermark \cup {k}
      BY <1>1, <1>2, <1>5, <1>8
    <3> QED BY <1>3, <1>4, <3>1
  <2>3. k \in 0..MaxEvents
    BY <1>1, <1>2
  <2> HIDE DEF shown
  <2>4. /\ d \in Client /\ Cardinality(d.seen) <= SeenCapacity
        /\ d = [shown EXCEPT !.watermark = d.watermark, !.seen = d.seen]
        /\ d.watermark >= k /\ 1..d.watermark \subseteq Told(shown)
        /\ d.seen \subseteq shown.seen
    BY <1>1, <1>4, <2>2, <2>3, WatermarkMoves
  <2> HIDE DEF d
  <2>5. d = [c EXCEPT !.watermark = d.watermark, !.seen = d.seen, !.notes = d.notes,
                      !.pending = d.pending]
        /\ d.notes = shown.notes /\ d.missed = shown.missed /\ d.pending = c.pending
    BY <1>1, <1>4, <2>4 DEF Client, shown
  <2>6. Told(d) = Told(shown)
    BY <2>5 DEF Told
  <2>7. d.pending \/ 1..k \subseteq Told(d)
    BY <1>4, <1>6, <2>5, <2>6
  <2>8. Typed(d) /\ Accounts(d, i)
    BY <1>4, <2>2, <2>4, <2>6, <2>7 DEF Typed, Accounts, k
  <2> QED BY <2>1, <2>5, <2>8 DEF k
<1>9. CASE /\ ~(k <= c.watermark \/ k \in c.seen) /\ k # c.watermark + 1
           /\ Cardinality(c.seen) >= SeenCapacity
  <2> DEFINE d == [c EXCEPT !.pending = TRUE]
  <2>1. RecordNote(c, k) = d
    BY <1>9 DEF RecordNote
  <2>2. /\ d \in Client /\ d.seen = c.seen /\ d.watermark = c.watermark /\ Told(d) = Told(c)
        /\ d.pending = TRUE
        /\ d = [c EXCEPT !.watermark = d.watermark, !.seen = d.seen, !.notes = d.notes,
                         !.pending = d.pending]
    BY <1>1 DEF Client, Told
  <2> HIDE DEF d
  <2>3. Typed(d) /\ Accounts(d, i)
    BY <1>1, <1>3, <2>2 DEF Typed, Accounts
  <2> QED BY <2>1, <2>2, <2>3 DEF k
<1>10. CASE /\ ~(k <= c.watermark \/ k \in c.seen) /\ k # c.watermark + 1
            /\ ~(Cardinality(c.seen) >= SeenCapacity)
  <2> DEFINE d == [shown EXCEPT !.seen = @ \cup {k}, !.pending = TRUE]
  <2>1. RecordNote(c, k) = d
    BY <1>10 DEF RecordNote
  <2>2. /\ d \in Client /\ d.seen = c.seen \cup {k} /\ d.watermark = c.watermark
        /\ d.notes = shown.notes /\ d.missed = shown.missed /\ d.pending = TRUE
        /\ d = [c EXCEPT !.watermark = d.watermark, !.seen = d.seen, !.notes = d.notes,
                         !.pending = d.pending]
    BY <1>1, <1>2, <1>4 DEF Client, Events
  <2>3. Told(d) = Told(c) \cup {k}
    BY <1>4, <2>2 DEF Told
  <2>4. Cardinality(d.seen) <= SeenCapacity
    <3>1. IsFiniteSet(1..MaxEvents)
      BY <1>1, FS_Interval
    <3>2. IsFiniteSet(c.seen)
      BY <1>5, <3>1, FS_Subset
    <3>3. Cardinality(c.seen \cup {k}) = Cardinality(c.seen) + 1 /\ Cardinality(c.seen) \in Nat
      BY <1>10, <3>2, FS_AddElement, FS_CardinalityType
    <3> QED BY <1>1, <1>10, <2>2, <3>3
  <2> HIDE DEF d
  <2>5. Typed(d) /\ Accounts(d, i)
    BY <1>3, <2>2, <2>3, <2>4 DEF Typed, Accounts
  <2> QED BY <2>1, <2>2, <2>5 DEF k
<1> QED BY <1>7, <1>8, <1>9, <1>10

\* What an event leaves alone.
Fenced(d, c) ==
    /\ d.cursor = c.cursor /\ d.content = c.content
    /\ d.held = c.held /\ d.resyncing = c.resyncing
    /\ c.needsSnapshot => d.needsSnapshot

\* Dispatching an event keeps the client's parts of the invariant.
LEMMA DispatchFollows ==
    ASSUME EngineOk, NEW i \in 1..Now, NEW c, Follows(c, i - 1)
    PROVE  Follows(Dispatch(c, i), i) /\ Fenced(Dispatch(c, i), c)
<1>1. /\ MaxEvents \in Nat /\ i \in Nat \ {0} /\ i \in 1..MaxEvents /\ i <= i
      /\ log[i] \in {"content", "delivered", "config", "commit", "reset", "note"}
  <2>1. MaxEvents \in Nat /\ Kinds \subseteq {"content", "delivered", "config", "commit", "reset", "note"}
    BY ConstantsAssumption
  <2>2. log \in Seq(Kinds) /\ Len(log) <= MaxEvents /\ i \in 1..Len(log)
    BY DEF EngineOk, Now
  <2>3. i \in Nat \ {0} /\ i \in 1..MaxEvents /\ i <= i
    BY <2>1, <2>2
  <2>4. log[i] \in Kinds
    BY <2>2
  <2> QED BY <2>1, <2>3, <2>4
<1>2. /\ c \in Client /\ Cardinality(c.seen) <= SeenCapacity /\ Typed(c)
      /\ Shows(c, i - 1) /\ ReadsConfig(c, i - 1) /\ Accounts(c, i - 1)
  BY DEF Follows, Typed
<1>3. c.epoch = Epoch(i - 1) /\ c.twice = {} /\ c.shown \subseteq 1..Larger(i - 1, c.content)
  BY <1>2 DEF Shows
<1>4. /\ Epoch(i - 1) \in Nat /\ Epoch(i) \in 0..MaxEvents /\ Length(i) \in 0..MaxEvents
      /\ Epoch(i) = IF log[i] = "reset" THEN Epoch(i - 1) + 1 ELSE Epoch(i - 1)
  <2>1. Epoch(i) \in 0..i /\ Length(i) \in 0..i
    BY <1>1, Ranges
  <2> QED BY <1>1, <2>1, Counters
<1> DEFINE d == Dispatch(c, i)
<1>5. ASSUME d \in Client, Fenced(d, c), d.seen = c.seen, d.watermark = c.watermark,
             d.notes = c.notes, d.missed = c.missed, c.pending => d.pending, log[i] # "note",
             d.readAt = c.readAt, c.resync => d.resync, c.needsSnapshot => d.needsSnapshot,
             log[i] = "config" => d.resync, Shows(d, i)
      PROVE  Follows(d, i)
  <2> HIDE DEF d
  <2>1. Typed(d)
    BY <1>2, <1>5 DEF Typed
  <2>2. ReadsConfig(d, i)
    BY <1>1, <1>2, <1>5, ConfigNext
  <2>3. Accounts(d, i)
    BY <1>1, <1>2, <1>5, NotesNext
  <2> QED BY <1>5, <2>1, <2>2, <2>3 DEF Follows
<1>6. CASE log[i] \in {"content", "delivered"} /\ i <= c.content
  <2>1. d = c
    BY <1>6 DEF Dispatch, Reflected
  <2>2. Shows(c, i)
    BY <1>1, <1>2, <1>3, <1>4, <1>6, ShowsNext
  <2> QED BY <1>2, <1>5, <1>6, <2>1, <2>2 DEF Fenced
<1>7. CASE log[i] = "content" /\ ~(i <= c.content)
  <2>1. i \notin c.shown /\ i > c.content
    BY <1>1, <1>2, <1>3, <1>7 DEF Larger, Client
  <2>2. d = [c EXCEPT !.shown = c.shown \cup {i}]
    BY <1>7, <2>1 DEF Dispatch, Reflected, Show
  <2>3. d \in Client /\ d.shown = c.shown \cup {i}
    <3>1. c.shown \cup {i} \in SUBSET Events
      BY <1>1, <1>2 DEF Client, Events
    <3> QED BY <1>2, <2>2, <3>1 DEF Client
  <2>4. Shows(d, i)
    <3>1. /\ d.content = c.content /\ d.unread = c.unread /\ d.twice = {} /\ d.epoch = Epoch(i)
          /\ c.rehydrate => d.rehydrate
      BY <1>2, <1>3, <1>4, <1>7, <2>2 DEF Client
    <3> HIDE DEF d
    <3> QED BY <1>1, <1>2, <1>7, <2>1, <2>3, <3>1, ShowsNext
  <2> QED BY <1>2, <1>5, <1>7, <2>2, <2>3, <2>4 DEF Fenced, Client
<1>8. CASE log[i] = "delivered" /\ ~(i <= c.content)
  <2>1. d = [c EXCEPT !.resync = TRUE, !.rehydrate = TRUE]
    BY <1>8 DEF Dispatch, Reflected
  <2>2. d \in Client
    BY <1>2, <2>1 DEF Client
  <2>3. Shows(d, i)
    <3>1. /\ d.content = c.content /\ d.unread = c.unread /\ d.twice = {} /\ d.epoch = Epoch(i)
          /\ d.rehydrate /\ d.shown = c.shown
      BY <1>2, <1>3, <1>4, <1>8, <2>1 DEF Client
    <3> HIDE DEF d
    <3> QED BY <1>1, <1>2, <3>1, ShowsNext
  <2> QED BY <1>2, <1>5, <1>8, <2>1, <2>2, <2>3 DEF Fenced, Client
<1>9. CASE log[i] = "config"
  <2>1. d = [c EXCEPT !.resync = TRUE]
    BY <1>9 DEF Dispatch
  <2>2. d \in Client
    BY <1>2, <2>1 DEF Client
  <2>3. Shows(d, i)
    <3>1. /\ d.content = c.content /\ d.unread = c.unread /\ d.twice = {} /\ d.epoch = Epoch(i)
          /\ (c.rehydrate => d.rehydrate) /\ d.shown = c.shown
      BY <1>2, <1>3, <1>4, <1>9, <2>1 DEF Client
    <3> HIDE DEF d
    <3> QED BY <1>1, <1>2, <1>9, <3>1, ShowsNext
  <2> QED BY <1>2, <1>5, <1>9, <2>1, <2>2, <2>3 DEF Fenced, Client
<1>10. CASE log[i] = "commit"
  <2>1. d = [c EXCEPT !.length = Length(i)]
    BY <1>3, <1>4, <1>10 DEF Dispatch, MovedTo
  <2>2. d \in Client
    BY <1>2, <1>4, <2>1 DEF Client
  <2>3. Shows(d, i)
    <3>1. /\ d.content = c.content /\ d.unread = c.unread /\ d.twice = {} /\ d.epoch = Epoch(i)
          /\ (c.rehydrate => d.rehydrate) /\ d.shown = c.shown
      BY <1>2, <1>3, <1>4, <1>10, <2>1 DEF Client
    <3> HIDE DEF d
    <3> QED BY <1>1, <1>2, <1>10, <3>1, ShowsNext
  <2> QED BY <1>2, <1>5, <1>10, <2>1, <2>2, <2>3 DEF Fenced, Client
<1>11. CASE log[i] = "reset"
  <2>1. d = [c EXCEPT !.epoch = Epoch(i), !.length = Length(i), !.needsSnapshot = TRUE,
                      !.rehydrate = TRUE, !.resync = TRUE]
    <3>1. Epoch(i) # c.epoch
      BY <1>3, <1>4, <1>11
    <3> QED BY <1>2, <1>11, <3>1 DEF Dispatch, MovedTo, Client
  <2>2. d \in Client
    BY <1>2, <1>4, <2>1, ZenonT(60) DEF Client
  <2>3. Shows(d, i)
    <3>1. /\ d.content = c.content /\ d.unread = c.unread /\ d.twice = {} /\ d.epoch = Epoch(i)
          /\ d.rehydrate /\ d.shown = c.shown
      BY <1>2, <1>3, <1>4, <1>11, <2>1 DEF Client
    <3> HIDE DEF d
    <3> QED BY <1>1, <1>2, <3>1, ShowsNext
  <2> QED BY <1>2, <1>5, <1>11, <2>1, <2>2, <2>3, SMTT(30) DEF Fenced, Client
<1>12. CASE log[i] = "note"
  <2>1. d = RecordNote(c, NoteNumber(i))
    BY <1>12 DEF Dispatch
  <2> HIDE DEF d
  <2>2. /\ Typed(d) /\ Accounts(d, i)
        /\ d = [c EXCEPT !.watermark = d.watermark, !.seen = d.seen, !.notes = d.notes,
                         !.pending = d.pending]
    BY <1>1, <1>2, <1>12, <2>1, NoteFollows
  <2>3. /\ d.content = c.content /\ d.unread = c.unread /\ d.twice = c.twice /\ d.epoch = c.epoch
        /\ d.rehydrate = c.rehydrate /\ d.shown = c.shown /\ d.readAt = c.readAt
        /\ d.resync = c.resync /\ d.needsSnapshot = c.needsSnapshot /\ Fenced(d, c)
    BY <1>2, <2>2 DEF Client, Fenced
  <2>4. Shows(d, i)
    <3>1. d.twice = {} /\ d.epoch = Epoch(i) /\ (c.rehydrate => d.rehydrate)
      BY <1>3, <1>4, <1>12, <2>3
    <3> QED BY <1>1, <1>2, <1>12, <2>3, <3>1, ShowsNext
  <2>5. ReadsConfig(d, i)
    BY <1>1, <1>2, <1>12, <2>3, ConfigNext
  <2> QED BY <2>2, <2>3, <2>4, <2>5 DEF Follows, d
<1> QED BY <1>1, <1>6, <1>7, <1>8, <1>9, <1>10, <1>11, <1>12

-----------------------------------------------------------------------------
(* A frame, and the replay of those held.                                  *)

\* Needs that arise and frames that are held take nothing away.
LEMMA NeedsArise ==
    ASSUME NEW i, NEW c, Follows(c, i), NEW d \in Client,
           d.epoch = c.epoch, d.twice = c.twice, d.shown = c.shown, d.content = c.content,
           d.unread = c.unread, d.readAt = c.readAt, d.watermark = c.watermark,
           d.seen = c.seen, d.notes = c.notes, d.missed = c.missed,
           c.rehydrate => d.rehydrate, c.pending => d.pending,
           (c.resync \/ c.needsSnapshot) => (d.resync \/ d.needsSnapshot)
    PROVE  Follows(d, i)
BY DEF Follows, Typed, Shows, ReadsConfig, Accounts, Told

\* hold keeps its order and its capacity.
LEMMA HoldFollows ==
    ASSUME EngineOk, NEW i \in 1..Now, NEW c, Follows(c, c.cursor), Holds(c),
           \A k \in DOMAIN c.held : c.held[k] < i
    PROVE  LET d == Hold(c, i)
           IN  /\ Follows(d, d.cursor) /\ Holds(d) /\ d.cursor = c.cursor
               /\ c.needsSnapshot => d.needsSnapshot
               /\ \A k \in DOMAIN d.held : d.held[k] <= i
<1>1. /\ c \in Client /\ c.held \in Seq(Events) /\ Len(c.held) \in Nat
      /\ MaxBuffered \in Nat /\ i \in Nat /\ i \in Events /\ Now \in Nat
  <2>1. MaxEvents \in Nat /\ MaxBuffered \in Nat
    BY ConstantsAssumption
  <2>2. Now \in Nat /\ Now <= MaxEvents
    BY DEF EngineOk, Now
  <2>3. c \in Client /\ c.held \in Seq(Events)
    BY DEF Follows, Typed, Client
  <2> QED BY <2>1, <2>2, <2>3 DEF Events
<1>2. /\ Increasing(c.held) /\ Len(c.held) <= MaxBuffered
      /\ \A k \in DOMAIN c.held : c.held[k] \in 1..Now
      /\ c.cursor \in 0..Now /\ c.content \in 0..Now
  BY DEF Holds
<1>3. CASE Len(c.held) >= MaxBuffered
  <2> DEFINE d == EventsLost([c EXCEPT !.held = <<>>, !.needsSnapshot = TRUE])
  <2>1. Hold(c, i) = d
    BY <1>3 DEF Hold
  <2>2. d = [c EXCEPT !.held = <<>>, !.needsSnapshot = TRUE, !.resync = TRUE,
                      !.rehydrate = TRUE, !.pending = TRUE]
    BY <1>1 DEF EventsLost, Client
  <2> HIDE DEF d
  <2>3. d \in Client
    <3>1. <<>> \in Seq(Events)
      OBVIOUS
    <3> QED BY <1>1, <2>2, <3>1 DEF Client
  <2>4. /\ d.cursor = c.cursor /\ d.held = <<>>
        /\ d.epoch = c.epoch /\ d.twice = c.twice /\ d.shown = c.shown /\ d.content = c.content
        /\ d.unread = c.unread /\ d.readAt = c.readAt /\ d.watermark = c.watermark
        /\ d.seen = c.seen /\ d.notes = c.notes /\ d.missed = c.missed
        /\ d.rehydrate /\ d.pending /\ d.resync /\ d.needsSnapshot
    BY <1>1, <2>2 DEF Client
  <2>5. Follows(d, c.cursor)
    BY <2>3, <2>4, NeedsArise
  <2>6. Holds(d)
    BY <1>1, <1>2, <2>4 DEF Holds, Increasing
  <2> QED BY <2>1, <2>4, <2>5, <2>6
<1>4. CASE ~(Len(c.held) >= MaxBuffered)
  <2> DEFINE d == [c EXCEPT !.held = Append(@, i)]
  <2>1. Hold(c, i) = d
    BY <1>4 DEF Hold
  <2>2. d = [c EXCEPT !.held = Append(c.held, i)]
    OBVIOUS
  <2> HIDE DEF d
  <2>3. /\ d \in Client /\ d.held = Append(c.held, i)
        /\ d.cursor = c.cursor
        /\ d.epoch = c.epoch /\ d.twice = c.twice /\ d.shown = c.shown /\ d.content = c.content
        /\ d.unread = c.unread /\ d.readAt = c.readAt /\ d.watermark = c.watermark
        /\ d.seen = c.seen /\ d.notes = c.notes /\ d.missed = c.missed
        /\ d.rehydrate = c.rehydrate /\ d.pending = c.pending /\ d.resync = c.resync
        /\ d.needsSnapshot = c.needsSnapshot
    <3>1. Append(c.held, i) \in Seq(Events)
      BY <1>1
    <3> QED BY <1>1, <2>2, <3>1 DEF Client
  <2>4. Follows(d, c.cursor)
    BY <2>3, NeedsArise
  <2>5. /\ Len(d.held) = Len(c.held) + 1 /\ DOMAIN d.held = 1..Len(c.held) + 1
        /\ \A k \in 1..Len(c.held) : d.held[k] = c.held[k]
        /\ d.held[Len(c.held) + 1] = i
        /\ DOMAIN c.held = 1..Len(c.held)
    BY <1>1, <2>3
  <2>6. Increasing(d.held)
    <3> SUFFICES ASSUME NEW k \in 1..Len(c.held) + 1, NEW l \in 1..Len(c.held) + 1, k < l
                 PROVE  d.held[k] < d.held[l]
      BY <2>5 DEF Increasing
    <3>1. k \in 1..Len(c.held)
      BY <1>1
    <3>2. CASE l \in 1..Len(c.held)
      BY <1>2, <2>5, <3>1, <3>2 DEF Increasing
    <3>3. CASE l = Len(c.held) + 1
      BY <2>5, <3>1, <3>3
    <3> QED BY <1>1, <3>2, <3>3
  <2>7. \A k \in DOMAIN d.held : d.held[k] \in 1..Now /\ d.held[k] <= i
    <3> SUFFICES ASSUME NEW k \in 1..Len(c.held) + 1
                 PROVE  d.held[k] \in 1..Now /\ d.held[k] <= i
      BY <2>5
    <3>1. CASE k \in 1..Len(c.held)
      <4>1. c.held[k] < i /\ c.held[k] \in 1..Now
        BY <1>2, <2>5, <3>1
      <4> QED BY <1>1, <2>5, <3>1, <4>1
    <3>2. CASE k = Len(c.held) + 1
      BY <1>1, <2>5, <3>2
    <3> QED BY <1>1, <3>1, <3>2
  <2>8. Holds(d)
    BY <1>1, <1>2, <1>4, <2>3, <2>5, <2>6, <2>7 DEF Holds
  <2> QED BY <2>1, <2>3, <2>4, <2>7, <2>8
<1> QED BY <1>3, <1>4

\* receive and accept: a frame held, passed over, reported missing or dispatched.
LEMMA AcceptFollows ==
    ASSUME EngineOk, NEW i \in 1..Now, NEW c, Follows(c, c.cursor), Holds(c), Owes(c),
           \A k \in DOMAIN c.held : c.held[k] < i
    PROVE  LET d == Accept(c, i)
           IN  /\ Follows(d, d.cursor) /\ Holds(d) /\ Owes(d)
               /\ \A k \in DOMAIN d.held : d.held[k] <= i
<1>1. /\ c \in Client /\ c.held \in Seq(Events) /\ i \in Nat /\ Now \in Nat /\ c.cursor \in 0..Now
      /\ Now <= MaxEvents /\ MaxEvents \in Nat
      /\ \A k \in DOMAIN c.held : c.held[k] \in 1..Now
  <2>1. MaxEvents \in Nat
    BY ConstantsAssumption
  <2>2. Now \in Nat /\ Now <= MaxEvents
    BY DEF EngineOk, Now
  <2>3. c \in Client /\ c.held \in Seq(Events) /\ c.cursor \in 0..Now
        /\ \A k \in DOMAIN c.held : c.held[k] \in 1..Now
    BY DEF Follows, Typed, Client, Holds
  <2> QED BY <2>1, <2>2, <2>3
<1>2. CASE c.resyncing
  <2>1. Accept(c, i) = Hold(c, i)
    BY <1>2 DEF Accept
  <2> DEFINE h == Hold(c, i)
  <2>2. /\ Follows(h, h.cursor) /\ Holds(h) /\ \A k \in DOMAIN h.held : h.held[k] <= i
        /\ c.needsSnapshot => h.needsSnapshot
    BY HoldFollows
  <2>3. Owes(h)
    BY <1>2, <2>2 DEF Owes
  <2> QED BY <2>1, <2>2, <2>3
<1>3. CASE ~c.resyncing /\ i <= c.cursor
  <2>1. Accept(c, i) = c
    BY <1>3 DEF Accept
  <2>2. \A k \in DOMAIN c.held : c.held[k] <= i
    BY <1>1
  <2> QED BY <2>1, <2>2
<1>4. CASE ~c.resyncing /\ ~(i <= c.cursor) /\ i > c.cursor + 1
  <2> DEFINE b == [c EXCEPT !.needsSnapshot = TRUE, !.resyncing = TRUE]
             h == Hold(b, i)
             d == EventsLost(h)
  <2>1. Accept(c, i) = d
    BY <1>4 DEF Accept
  <2>2. /\ b \in Client /\ b.held = c.held /\ b.cursor = c.cursor
        /\ b.epoch = c.epoch /\ b.twice = c.twice /\ b.shown = c.shown /\ b.content = c.content
        /\ b.unread = c.unread /\ b.readAt = c.readAt /\ b.watermark = c.watermark
        /\ b.seen = c.seen /\ b.notes = c.notes /\ b.missed = c.missed
        /\ b.rehydrate = c.rehydrate /\ b.pending = c.pending
        /\ b.needsSnapshot
    BY <1>1 DEF Client
  <2> HIDE DEF b
  <2>3. Follows(b, b.cursor)
    <3>1. Follows(b, c.cursor)
      BY <2>2, NeedsArise
    <3> QED BY <2>2, <3>1
  <2>4. Holds(b) /\ \A k \in DOMAIN b.held : b.held[k] < i
    BY <2>2 DEF Holds
  <2>5. /\ Follows(h, h.cursor) /\ Holds(h) /\ \A k \in DOMAIN h.held : h.held[k] <= i
        /\ h.needsSnapshot
    BY <2>2, <2>3, <2>4, HoldFollows
  <2> HIDE DEF h
  <2>6. h \in Client
    BY <2>5 DEF Follows, Typed
  <2>7. /\ d \in Client /\ d.held = h.held /\ d.cursor = h.cursor
        /\ d.epoch = h.epoch /\ d.twice = h.twice /\ d.shown = h.shown /\ d.content = h.content
        /\ d.unread = h.unread /\ d.readAt = h.readAt /\ d.watermark = h.watermark
        /\ d.seen = h.seen /\ d.notes = h.notes /\ d.missed = h.missed
        /\ d.rehydrate /\ d.pending /\ d.resync /\ d.needsSnapshot
    BY <2>5, <2>6 DEF Client, EventsLost
  <2> HIDE DEF d
  <2>8. Follows(d, d.cursor)
    <3>1. Follows(d, h.cursor)
      BY <2>5, <2>7, NeedsArise
    <3> QED BY <2>7, <3>1
  <2> QED BY <2>1, <2>5, <2>7, <2>8 DEF Holds, Owes
<1>5. CASE ~c.resyncing /\ ~(i <= c.cursor) /\ ~(i > c.cursor + 1)
  <2> DEFINE b == [c EXCEPT !.cursor = i]
             d == Dispatch(b, i)
  <2>1. Accept(c, i) = d
    BY <1>5 DEF Accept
  <2>2. i = c.cursor + 1 /\ i - 1 = c.cursor /\ i \in 0..MaxEvents
    BY <1>1, <1>5
  <2>3. /\ b \in Client /\ b.held = c.held /\ b.cursor = i
        /\ b.epoch = c.epoch /\ b.twice = c.twice /\ b.shown = c.shown /\ b.content = c.content
        /\ b.unread = c.unread /\ b.readAt = c.readAt /\ b.watermark = c.watermark
        /\ b.seen = c.seen /\ b.notes = c.notes /\ b.missed = c.missed
        /\ b.rehydrate = c.rehydrate /\ b.pending = c.pending
        /\ b.needsSnapshot = c.needsSnapshot /\ b.resync = c.resync
        /\ b.resyncing = c.resyncing
    BY <1>1, <2>2 DEF Client
  <2> HIDE DEF b
  <2>4. Follows(b, i - 1)
    <3>1. Follows(b, c.cursor)
      BY <2>3, NeedsArise
    <3> QED BY <2>2, <3>1
  <2>5. Follows(d, i) /\ Fenced(d, b)
    BY <2>4, DispatchFollows
  <2> HIDE DEF d
  <2>6. /\ d.cursor = i /\ d.held = c.held /\ d.content = c.content
        /\ d.resyncing = c.resyncing /\ (c.needsSnapshot => d.needsSnapshot)
    BY <2>3, <2>5 DEF Fenced
  <2>7. Holds(d)
    BY <1>1, <2>6 DEF Holds
  <2>8. \A k \in DOMAIN d.held : d.held[k] <= i
    BY <1>1, <2>6
  <2> QED BY <2>1, <2>5, <2>6, <2>7, <2>8 DEF Owes
<1> QED BY <1>2, <1>3, <1>4, <1>5

\* A replay dispatches one event after the other.
LEMMA ReplayFollows ==
    ASSUME EngineOk, NEW from \in Nat, NEW to \in Nat, from <= to, to <= Now,
           NEW c, Follows(c, from)
    PROVE  Follows(Replay(c, from, to), to) /\ Fenced(Replay(c, from, to), c)
<1> DEFINE G == {p \in Client \X Nat : Follows(p[1], p[2]) /\ Fenced(p[1], c)}
<1>1. <<c, from>> \in G
  BY DEF Follows, Typed, Fenced
<1>2. ASSUME NEW i \in from + 1 .. to, NEW d, <<d, i - 1>> \in G
      PROVE  <<Dispatch(d, i), i>> \in G
  <2>1. Now \in Nat /\ i \in Nat /\ i \in 1..Now
    BY DEF EngineOk, Now
  <2>2. Follows(d, i - 1) /\ Fenced(d, c)
    BY <1>2
  <2>3. Follows(Dispatch(d, i), i) /\ Fenced(Dispatch(d, i), d)
    BY <2>1, <2>2, DispatchFollows
  <2> QED BY <2>1, <2>2, <2>3 DEF Follows, Typed, Fenced
<1> HIDE DEF G
<1>3. <<Replay(c, from, to), to>> \in G
  BY <1>1, <1>2, Replayed
<1> QED BY <1>3 DEF G

\* How far the held frames continue, and what of them stays held.
LEMMA HeldSplit ==
    ASSUME EngineOk, NEW c \in Client, Holds(c)
    PROVE  LET upTo == Contiguous(c.cursor, ToSet(c.held))
               rest == At(c.held, {k \in DOMAIN c.held : c.held[k] > upTo})
           IN  /\ upTo \in c.cursor..Now
               /\ rest \in Seq(Events) /\ Increasing(rest) /\ Len(rest) <= Len(c.held)
               /\ \A k \in DOMAIN rest : \E l \in DOMAIN c.held : rest[k] = c.held[l] /\ rest[k] > upTo
<1> DEFINE upTo == Contiguous(c.cursor, ToSet(c.held))
           I == {k \in DOMAIN c.held : c.held[k] > upTo}
           rest == At(c.held, I)
<1>1. Now \in Nat
  BY DEF EngineOk, Now
<1>2. /\ c.held \in Seq(Events) /\ Len(c.held) \in Nat /\ DOMAIN c.held = 1..Len(c.held)
      /\ Increasing(c.held) /\ c.cursor \in 0..Now /\ c.cursor \in Nat
      /\ \A k \in DOMAIN c.held : c.held[k] \in 1..Now
  BY <1>1 DEF Client, Holds
<1>3. ToSet(c.held) \in SUBSET (1..Now)
  BY <1>2 DEF ToSet
<1>4. upTo \in c.cursor..Now
  <2>1. upTo \in {c.cursor} \cup ToSet(c.held) /\ upTo >= c.cursor
    BY <1>1, <1>2, <1>3, Continues
  <2> HIDE DEF upTo
  <2> QED BY <1>1, <1>2, <1>3, <2>1
<1> HIDE DEF upTo
<1>5. I \in SUBSET DOMAIN c.held /\ I \in SUBSET (1..Len(c.held))
  BY <1>2
<1>6. \A k \in I : c.held[k] > upTo
  OBVIOUS
<1> HIDE DEF I
<1>7. /\ rest \in Seq(Events) /\ Len(rest) = Cardinality(I) /\ Cardinality(I) \in Nat
      /\ DOMAIN rest = 1..Cardinality(I)
      /\ \A k \in 1..Cardinality(I) : Ascending(I)[k] \in I /\ rest[k] = c.held[Ascending(I)[k]]
      /\ \A j, k \in 1..Cardinality(I) : j < k => Ascending(I)[j] < Ascending(I)[k]
  BY <1>2, <1>5, AtKeeps
<1>8. Cardinality(I) <= Len(c.held)
  <2>1. IsFiniteSet(1..Len(c.held)) /\ Cardinality(1..Len(c.held)) = Len(c.held)
    <3>1. 1 \in Int /\ Len(c.held) \in Int
      BY <1>2
    <3>2. IsFiniteSet(1..Len(c.held))
      BY <3>1, FS_Interval
    <3>3. Cardinality(1..Len(c.held)) = IF 1 > Len(c.held) THEN 0 ELSE Len(c.held) - 1 + 1
      BY <3>1, FS_Interval
    <3> QED BY <1>2, <3>2, <3>3
  <2>2. Cardinality(I) <= Cardinality(1..Len(c.held))
    BY <1>5, <2>1, FS_Subset
  <2> QED BY <2>1, <2>2
<1> HIDE DEF rest
<1>9. Increasing(rest)
  <2> SUFFICES ASSUME NEW j \in 1..Cardinality(I), NEW k \in 1..Cardinality(I), j < k
               PROVE  rest[j] < rest[k]
    BY <1>7 DEF Increasing
  <2>1. /\ Ascending(I)[j] \in DOMAIN c.held /\ Ascending(I)[k] \in DOMAIN c.held
        /\ Ascending(I)[j] < Ascending(I)[k]
    BY <1>5, <1>7
  <2>2. c.held[Ascending(I)[j]] < c.held[Ascending(I)[k]]
    BY <1>2, <2>1 DEF Increasing
  <2> QED BY <1>7, <2>2
<1>10. \A k \in DOMAIN rest : \E l \in DOMAIN c.held : rest[k] = c.held[l] /\ rest[k] > upTo
  BY <1>5, <1>6, <1>7
<1> QED BY <1>4, <1>7, <1>8, <1>9, <1>10 DEF rest, I, upTo

\* drain_buffer replays what continues from the cursor and keeps the rest held.
LEMMA DrainFollows ==
    ASSUME EngineOk, NEW c, Follows(c, c.cursor), Holds(c)
    PROVE  LET d == DrainBuffer(c)
           IN  /\ Follows(d, d.cursor) /\ Holds(d)
               /\ \A k \in DOMAIN d.held : \E l \in DOMAIN c.held : d.held[k] = c.held[l]
               /\ (c.resyncing => c.needsSnapshot) => Owes(d)
<1> DEFINE upTo == Contiguous(c.cursor, ToSet(c.held))
           rest == At(c.held, {k \in DOMAIN c.held : c.held[k] > upTo})
           moved == [c EXCEPT !.cursor = upTo, !.held = rest]
           broken == [moved EXCEPT !.needsSnapshot = TRUE, !.resyncing = TRUE]
<1>1. /\ MaxEvents \in Nat /\ Now \in Nat /\ Now <= MaxEvents
      /\ c \in Client /\ c.cursor \in 0..Now /\ c.content \in 0..Now
      /\ Len(c.held) <= MaxBuffered /\ Len(c.held) \in Nat /\ MaxBuffered \in Nat
      /\ \A k \in DOMAIN c.held : c.held[k] \in 1..Now
  <2>1. MaxEvents \in Nat /\ MaxBuffered \in Nat
    BY ConstantsAssumption
  <2>2. Now \in Nat /\ Now <= MaxEvents
    BY DEF EngineOk, Now
  <2>3. c \in Client
    BY DEF Follows, Typed
  <2> QED BY <2>1, <2>2, <2>3 DEF Holds, Client
<1>2. /\ upTo \in c.cursor..Now
      /\ rest \in Seq(Events) /\ Increasing(rest) /\ Len(rest) <= Len(c.held)
      /\ \A k \in DOMAIN rest : \E l \in DOMAIN c.held : rest[k] = c.held[l] /\ rest[k] > upTo
  BY <1>1, HeldSplit
<1>3. DrainBuffer(c) = IF rest = <<>> THEN Replay(moved, c.cursor, upTo)
                       ELSE EventsLost(Replay(broken, c.cursor, upTo))
  BY DEF DrainBuffer
<1> HIDE DEF upTo, rest
<1>4. /\ upTo \in 0..MaxEvents /\ upTo \in Nat /\ c.cursor \in Nat /\ c.cursor <= upTo /\ upTo <= Now
  BY <1>1, <1>2
<1>5. /\ moved \in Client /\ moved.cursor = upTo /\ moved.held = rest
      /\ moved.content = c.content
      /\ moved.resyncing = c.resyncing /\ moved.needsSnapshot = c.needsSnapshot
  BY <1>1, <1>2, <1>4 DEF Client
<1>6. Follows(moved, c.cursor)
  <2>1. /\ moved.epoch = c.epoch /\ moved.twice = c.twice /\ moved.shown = c.shown
        /\ moved.unread = c.unread /\ moved.readAt = c.readAt /\ moved.watermark = c.watermark
        /\ moved.seen = c.seen /\ moved.notes = c.notes /\ moved.missed = c.missed
        /\ moved.rehydrate = c.rehydrate /\ moved.pending = c.pending
        /\ moved.needsSnapshot = c.needsSnapshot /\ moved.resync = c.resync
    BY <1>1 DEF Client
  <2> HIDE DEF moved
  <2> QED BY <1>5, <2>1, NeedsArise
<1>7. /\ broken \in Client /\ broken.cursor = upTo /\ broken.held = rest
      /\ broken.content = c.content
      /\ broken.needsSnapshot
  BY <1>1, <1>2, <1>4 DEF Client
<1>8. Follows(broken, c.cursor)
  <2>1. /\ broken.epoch = c.epoch /\ broken.twice = c.twice /\ broken.shown = c.shown
        /\ broken.unread = c.unread /\ broken.readAt = c.readAt /\ broken.watermark = c.watermark
        /\ broken.seen = c.seen /\ broken.notes = c.notes /\ broken.missed = c.missed
        /\ broken.rehydrate = c.rehydrate /\ broken.pending = c.pending
        /\ broken.needsSnapshot
    BY <1>1 DEF Client
  <2> HIDE DEF broken
  <2> QED BY <1>7, <2>1, NeedsArise
<1>9. ASSUME NEW d, d.cursor = upTo, d.held = rest, d.content = c.content, Follows(d, upTo)
      PROVE  /\ Follows(d, d.cursor) /\ Holds(d)
             /\ \A k \in DOMAIN d.held : \E l \in DOMAIN c.held : d.held[k] = c.held[l]
  <2>1. Len(rest) <= MaxBuffered
    <3>1. Len(rest) \in Nat
      BY <1>2
    <3> QED BY <1>1, <1>2, <3>1
  <2>2. \A k \in DOMAIN rest : rest[k] \in 1..Now
    BY <1>1, <1>2
  <2>3. upTo \in 0..Now
    BY <1>4, <1>1
  <2> QED BY <1>1, <1>2, <1>9, <2>1, <2>2, <2>3 DEF Holds
<1> HIDE DEF moved, broken
<1>10. CASE rest = <<>>
  <2> DEFINE d == Replay(moved, c.cursor, upTo)
  <2>1. Follows(d, upTo) /\ Fenced(d, moved)
    BY <1>4, <1>6, ReplayFollows
  <2> HIDE DEF d
  <2>2. d.cursor = upTo /\ d.held = rest /\ d.content = c.content
    BY <1>5, <2>1 DEF Fenced
  <2>3. /\ Follows(d, d.cursor) /\ Holds(d)
        /\ \A k \in DOMAIN d.held : \E l \in DOMAIN c.held : d.held[k] = c.held[l]
    BY <1>9, <2>1, <2>2
  <2>4. DrainBuffer(c) = d
    BY <1>3, <1>10 DEF d
  <2>5. (c.resyncing => c.needsSnapshot) => Owes(d)
    BY <1>5, <1>10, <2>1 DEF Fenced, Owes
  <2> QED BY <2>3, <2>4, <2>5
<1>11. CASE rest # <<>>
  <2> DEFINE r == Replay(broken, c.cursor, upTo)
             d == EventsLost(r)
  <2>1. Follows(r, upTo) /\ Fenced(r, broken)
    BY <1>4, <1>8, ReplayFollows
  <2>2. DrainBuffer(c) = d
    BY <1>3, <1>11
  <2> HIDE DEF r
  <2>3. r \in Client
    BY <2>1 DEF Follows, Typed
  <2>4. /\ d \in Client /\ d.held = r.held /\ d.cursor = r.cursor
        /\ d.epoch = r.epoch /\ d.twice = r.twice /\ d.shown = r.shown /\ d.content = r.content
        /\ d.unread = r.unread /\ d.readAt = r.readAt /\ d.watermark = r.watermark
        /\ d.seen = r.seen /\ d.notes = r.notes /\ d.missed = r.missed
        /\ d.rehydrate /\ d.pending /\ d.resync /\ d.needsSnapshot = r.needsSnapshot
    BY <2>3 DEF Client, EventsLost
  <2> HIDE DEF d
  <2>5. Follows(d, upTo)
    BY <2>1, <2>4, NeedsArise
  <2>6. d.cursor = upTo /\ d.held = rest /\ d.content = c.content
    BY <1>7, <2>1, <2>4 DEF Fenced
  <2>7. /\ Follows(d, d.cursor) /\ Holds(d)
        /\ \A k \in DOMAIN d.held : \E l \in DOMAIN c.held : d.held[k] = c.held[l]
    BY <1>9, <2>5, <2>6
  <2>8. Owes(d)
    BY <1>7, <2>1, <2>4 DEF Fenced, Owes
  <2> QED BY <2>2, <2>7, <2>8
<1> QED BY <1>10, <1>11

\* A client at the engine's cursor has nothing to replay.
LEMMA NothingToReplay ==
    ASSUME EngineOk, NEW c \in Client, Holds(c), c.cursor = Now
    PROVE  DrainBuffer(c) = [c EXCEPT !.held = <<>>]
<1> DEFINE upTo == Contiguous(c.cursor, ToSet(c.held))
           rest == At(c.held, {k \in DOMAIN c.held : c.held[k] > upTo})
           moved == [c EXCEPT !.cursor = upTo, !.held = rest]
<1>1. Now \in Nat /\ \A k \in DOMAIN c.held : c.held[k] \in 1..Now
  BY DEF EngineOk, Now, Holds
<1>2. /\ upTo \in c.cursor..Now
      /\ rest \in Seq(Events)
      /\ \A k \in DOMAIN rest : \E l \in DOMAIN c.held : rest[k] = c.held[l] /\ rest[k] > upTo
  BY HeldSplit
<1>3. DrainBuffer(c) = IF rest = <<>> THEN Replay(moved, c.cursor, upTo)
                       ELSE EventsLost(Replay([moved EXCEPT !.needsSnapshot = TRUE, !.resyncing = TRUE],
                                              c.cursor, upTo))
  BY DEF DrainBuffer
<1> HIDE DEF upTo, rest
<1>4. upTo = c.cursor
  BY <1>1, <1>2
<1>5. rest = <<>>
  <2>1. \A k \in DOMAIN rest : FALSE
    BY <1>1, <1>2, <1>4
  <2> QED BY <1>2, <2>1
<1>6. moved = [c EXCEPT !.held = <<>>]
  BY <1>4, <1>5 DEF Client
<1> DEFINE G == {<<moved, c.cursor>>}
<1>7. <<Replay(moved, c.cursor, c.cursor), c.cursor>> \in G
  <2>1. c.cursor \in Nat /\ c.cursor <= c.cursor /\ <<moved, c.cursor>> \in G
    BY <1>1
  <2>2. \A i \in c.cursor + 1 .. c.cursor : \A d : <<d, i - 1>> \in G => <<Dispatch(d, i), i>> \in G
    BY <2>1
  <2> HIDE DEF G, moved
  <2> QED BY <2>1, <2>2, Replayed
<1> QED BY <1>3, <1>4, <1>5, <1>6, <1>7

-----------------------------------------------------------------------------
(* The three reads.                                                        *)

\* A snapshot brings the fence to the engine's cursor.
LEMMA SnapshotFollows ==
    ASSUME EngineOk, NEW c, Follows(c, c.cursor), Holds(c)
    PROVE  LET d == TakeSnapshot(c, Now)
           IN  Follows(d, d.cursor) /\ Holds(d) /\ Owes(d) /\ d.held = <<>>
<1> DEFINE S == Now
           passed == \E i \in c.cursor + 1 .. S :
                        i > c.content /\ log[i] \in {"content", "delivered", "reset"}
           b == [c EXCEPT !.cursor = S, !.epoch = Epoch(S), !.length = Length(S),
                          !.resync = FALSE, !.resyncing = FALSE, !.needsSnapshot = FALSE,
                          !.readAt = S, !.unread = @ \/ (passed /\ ~c.rehydrate)]
           d == [c EXCEPT !.cursor = S, !.epoch = Epoch(S), !.length = Length(S),
                          !.resync = FALSE, !.resyncing = FALSE, !.needsSnapshot = FALSE,
                          !.readAt = S, !.unread = c.unread \/ (passed /\ ~c.rehydrate),
                          !.held = <<>>, !.pending = TRUE]
<1>1. /\ MaxEvents \in Nat /\ S \in Nat /\ S <= MaxEvents /\ MaxBuffered \in Nat
      /\ c \in Client /\ c.cursor \in 0..S /\ c.content \in 0..S
      /\ Cardinality(c.seen) <= SeenCapacity
  BY ConstantsAssumption DEF EngineOk, Now, Follows, Typed, Holds
<1>2. S \in 0..MaxEvents /\ Epoch(S) \in 0..MaxEvents /\ Length(S) \in 0..MaxEvents
  <2>1. S <= S
    BY <1>1
  <2>2. Epoch(S) \in 0..S /\ Length(S) \in 0..S
    BY <1>1, <2>1, Ranges
  <2> QED BY <1>1, <2>2
<1>3. passed \in BOOLEAN
  OBVIOUS
<1>4. TakeSnapshot(c, Now) = [DrainBuffer(b) EXCEPT !.pending = TRUE]
  BY DEF TakeSnapshot
<1>5. passed \/ \A l \in c.cursor + 1 .. S :
                   l > c.content => log[l] \notin {"content", "delivered", "reset"}
  OBVIOUS
<1> HIDE DEF passed, S
<1>6. b \in Client /\ b.cursor = Now /\ b.held = c.held /\ b.content = c.content
  BY <1>1, <1>2, <1>3 DEF Client, S
<1>7. Holds(b)
  BY <1>1, <1>6 DEF Holds, S
<1>8. [DrainBuffer(b) EXCEPT !.pending = TRUE] = d
  <2> DEFINE e == [b EXCEPT !.held = <<>>]
  <2>1. DrainBuffer(b) = e
    <3> HIDE DEF b
    <3> QED BY <1>6, <1>7, NothingToReplay
  <2>2. [e EXCEPT !.pending = TRUE] = d
    BY <1>1 DEF Client
  <2> QED BY <2>1, <2>2
<1>9. TakeSnapshot(c, Now) = d
  BY <1>4, <1>8
<1>10. /\ d \in Client /\ d.cursor = S /\ d.held = <<>> /\ d.content = c.content
       /\ d.epoch = Epoch(S) /\ d.twice = c.twice /\ d.shown = c.shown /\ d.rehydrate = c.rehydrate
       /\ d.unread = (c.unread \/ (passed /\ ~c.rehydrate)) /\ d.readAt = S
       /\ d.watermark = c.watermark /\ d.seen = c.seen /\ d.notes = c.notes
       /\ d.missed = c.missed /\ d.pending /\ d.resyncing = FALSE
  <2>1. <<>> \in Seq(Events)
    OBVIOUS
  <2> QED BY <1>1, <1>2, <1>3, <2>1, ZenonT(60) DEF Client
<1> HIDE DEF d, b
<1>11. Shows(d, S)
  <2> DEFINE m == Larger(c.cursor, c.content)
             n == Larger(S, c.content)
  <2>1. m \in Nat /\ n = S /\ m <= n
    BY <1>1 DEF Larger
  <2>2. c.twice = {} /\ c.shown \subseteq 1..m /\ (c.rehydrate \/ c.unread \/ c.shown = Conversation(m))
    BY DEF Follows, Shows
  <2>3. passed \/ Conversation(n) = Conversation(m)
    <3> SUFFICES ASSUME ~passed PROVE Conversation(n) = Conversation(m)
      OBVIOUS
    <3>1. \A l \in m + 1 .. n : log[l] \notin {"content", "delivered", "reset"}
      <4> SUFFICES ASSUME NEW l \in m + 1 .. n PROVE log[l] \notin {"content", "delivered", "reset"}
        OBVIOUS
      <4>1. l \in c.cursor + 1 .. S /\ l > c.content
        BY <1>1, <2>1 DEF Larger
      <4> QED BY <1>5, <4>1
    <3> HIDE DEF m, n
    <3> QED BY <1>1, <2>1, <3>1, ConversationKept
  <2>4. c.shown \subseteq 1..n
    BY <1>1, <2>1, <2>2
  <2> HIDE DEF m
  <2> QED BY <1>10, <2>2, <2>3, <2>4 DEF Shows
<1>12. ReadsConfig(d, S)
  BY <1>1, <1>10 DEF ReadsConfig, Of
<1>13. Accounts(d, S)
  <2>1. c.seen \subseteq Told(c) /\ 1..c.watermark \subseteq Told(c)
    BY DEF Follows, Accounts
  <2> QED BY <1>10, <2>1 DEF Accounts, Told
<1>14. Follows(d, d.cursor)
  BY <1>1, <1>10, <1>11, <1>12, <1>13 DEF Follows, Typed
<1>15. Holds(d)
  BY <1>1, <1>10 DEF Holds, Increasing, S
<1> QED BY <1>9, <1>10, <1>14, <1>15 DEF Owes

\* A snapshot that does not come leaves the need, and releases the frames held.
LEMMA AbortFollows ==
    ASSUME EngineOk, NEW c, Follows(c, c.cursor), Holds(c)
    PROVE  LET d == AbortResync(c)
           IN  /\ Follows(d, d.cursor) /\ Holds(d)
               /\ \A k \in DOMAIN d.held : \E l \in DOMAIN c.held : d.held[k] = c.held[l]
               /\ Owes(d)
<1> DEFINE b == [c EXCEPT !.resync = FALSE, !.resyncing = FALSE, !.needsSnapshot = TRUE]
<1>1. c \in Client
  BY DEF Follows, Typed
<1>2. /\ b \in Client /\ b.held = c.held /\ b.cursor = c.cursor
      /\ b.epoch = c.epoch /\ b.twice = c.twice /\ b.shown = c.shown /\ b.content = c.content
      /\ b.unread = c.unread /\ b.readAt = c.readAt /\ b.watermark = c.watermark
      /\ b.seen = c.seen /\ b.notes = c.notes /\ b.missed = c.missed
      /\ b.rehydrate = c.rehydrate /\ b.pending = c.pending
      /\ b.needsSnapshot
  BY <1>1 DEF Client
<1>3. AbortResync(c) = DrainBuffer(b)
  BY DEF AbortResync
<1> HIDE DEF b
<1>4. Follows(b, b.cursor)
  <2>1. Follows(b, c.cursor)
    BY <1>2, NeedsArise
  <2> QED BY <1>2, <2>1
<1>5. Holds(b)
  BY <1>2 DEF Holds
<1>6. /\ Follows(DrainBuffer(b), DrainBuffer(b).cursor) /\ Holds(DrainBuffer(b))
      /\ \A k \in DOMAIN DrainBuffer(b).held :
            \E l \in DOMAIN b.held : DrainBuffer(b).held[k] = b.held[l]
      /\ Owes(DrainBuffer(b))
  BY <1>2, <1>4, <1>5, DrainFollows
<1> QED BY <1>2, <1>3, <1>6

\* A history read rebuilds the transcript.
LEMMA HistoryFollows ==
    ASSUME EngineOk, NEW c, Follows(c, c.cursor), Holds(c)
    PROVE  LET d == TakeHistory(c, Now)
           IN  Follows(d, d.cursor) /\ Holds(d) /\ d.held = c.held /\ (Owes(c) => Owes(d))
<1> DEFINE S == Now
           d == TakeHistory(c, Now)
<1>1. /\ MaxEvents \in Nat /\ S \in Nat /\ S <= MaxEvents /\ S <= S
      /\ c \in Client /\ c.cursor \in 0..S /\ c.content \in 0..S
      /\ Cardinality(c.seen) <= SeenCapacity
  BY ConstantsAssumption DEF EngineOk, Now, Follows, Typed, Holds
<1>2. Conversation(S) \subseteq 1..S
  BY <1>1, Ranges
<1>3. Larger(c.content, S) = S /\ Larger(c.cursor, S) = S
  BY <1>1 DEF Larger
<1> HIDE DEF S
<1>4. d = [c EXCEPT !.rehydrate = FALSE, !.content = S, !.shown = Conversation(S),
                    !.twice = {}, !.unread = FALSE]
  <2>1. d = [c EXCEPT !.rehydrate = FALSE, !.content = Larger(@, S), !.shown = Conversation(S),
                      !.twice = {}, !.unread = FALSE]
    BY DEF TakeHistory, S
  <2>2. d = [c EXCEPT !.rehydrate = FALSE, !.content = Larger(c.content, S),
                      !.shown = Conversation(S), !.twice = {}, !.unread = FALSE]
    BY <1>1, <2>1 DEF Client
  <2> QED BY <1>3, <2>2
<1> HIDE DEF d
<1>5. /\ d \in Client /\ d.cursor = c.cursor /\ d.held = c.held /\ d.content = S
      /\ d.epoch = c.epoch /\ d.twice = {} /\ d.shown = Conversation(S)
      /\ d.readAt = c.readAt /\ d.watermark = c.watermark
      /\ d.seen = c.seen /\ d.notes = c.notes /\ d.missed = c.missed
      /\ d.pending = c.pending /\ d.resync = c.resync /\ d.needsSnapshot = c.needsSnapshot
      /\ d.resyncing = c.resyncing
  <2>1. Conversation(S) \in SUBSET Events /\ S \in 0..MaxEvents
    BY <1>1, <1>2 DEF Events
  <2> QED BY <1>1, <1>4, <2>1 DEF Client
<1>6. Shows(d, c.cursor)
  <2>1. c.epoch = Epoch(c.cursor)
    BY DEF Follows, Shows
  <2> QED BY <1>1, <1>2, <1>3, <1>5, <2>1 DEF Shows, Larger
<1>7. ReadsConfig(d, c.cursor) /\ Accounts(d, c.cursor)
  BY <1>5 DEF Follows, ReadsConfig, Accounts, Told
<1>8. Follows(d, d.cursor)
  BY <1>1, <1>5, <1>6, <1>7 DEF Follows, Typed
<1>9. Holds(d)
  BY <1>1, <1>5 DEF Holds, S
<1>10. Owes(c) => Owes(d)
  BY <1>5 DEF Owes
<1> QED BY <1>5, <1>8, <1>9, <1>10 DEF d

\* A read of the mailbox shows what the ring still has and reports the rest.
LEMMA NotesFollow ==
    ASSUME EngineOk, NEW c, Follows(c, c.cursor), Holds(c)
    PROVE  LET d == TakeNotes(c, Now)
           IN  Follows(d, d.cursor) /\ Holds(d) /\ d.held = c.held /\ (Owes(c) => Owes(d))
<1> DEFINE S == Now
           N == NoteNumber(S)
           E == EvictedUpTo(S)
           b == [c EXCEPT !.pending = FALSE, !.missed = c.missed \cup Unaccounted(c, S),
                          !.notes = c.notes \cup (Larger(c.watermark, E) + 1 .. N)]
           w == Larger(c.watermark, N)
           d == WatermarkAt(b, w)
<1>1. /\ MaxEvents \in Nat /\ S \in Nat /\ S <= MaxEvents
      /\ c \in Client /\ c.cursor \in 0..S /\ c.cursor \in Nat /\ c.cursor <= S
      /\ Cardinality(c.seen) <= SeenCapacity /\ c.watermark \in 0..MaxEvents
  BY ConstantsAssumption DEF EngineOk, Now, Follows, Typed, Holds, Client
<1>2. TakeNotes(c, Now) = d
  <2>1. TakeNotes(c, Now) =
          WatermarkAt([c EXCEPT !.pending = FALSE, !.missed = @ \cup Unaccounted(c, S),
                                !.notes = @ \cup (Larger(c.watermark, E) + 1 .. N)], w)
    BY DEF TakeNotes
  <2>2. [c EXCEPT !.pending = FALSE, !.missed = @ \cup Unaccounted(c, S),
                  !.notes = @ \cup (Larger(c.watermark, E) + 1 .. N)] = b
    BY <1>1 DEF Client
  <2> QED BY <2>1, <2>2
<1> HIDE DEF S
<1>3. N \in 0..MaxEvents /\ E \in 0..N /\ NoteNumber(c.cursor) \in Nat /\ NoteNumber(c.cursor) <= N
  <2>1. S <= S /\ c.cursor <= c.cursor
    BY <1>1
  <2>2. N \in 0..S /\ E \in 0..N /\ NoteNumber(c.cursor) <= N
    BY <1>1, <2>1, Ranges
  <2>3. NoteNumber(c.cursor) \in 0..c.cursor
    BY <1>1, <2>1, Ranges
  <2> QED BY <1>1, <2>2, <2>3
<1>4. Unaccounted(c, S) = (c.watermark + 1 .. E) \ c.seen
  BY DEF Unaccounted
<1> HIDE DEF N, E
<1>5. c.seen \subseteq Told(c) /\ 1..c.watermark \subseteq Told(c)
  BY DEF Follows, Accounts
<1>6. /\ b \in Client /\ b.cursor = c.cursor /\ b.held = c.held /\ b.content = c.content
      /\ b.seen = c.seen
      /\ b.epoch = c.epoch /\ b.twice = c.twice /\ b.shown = c.shown /\ b.rehydrate = c.rehydrate
      /\ b.unread = c.unread /\ b.readAt = c.readAt
      /\ b.resync = c.resync /\ b.needsSnapshot = c.needsSnapshot
      /\ b.resyncing = c.resyncing
      /\ Told(b) = Told(c) \cup Unaccounted(c, S) \cup (Larger(c.watermark, E) + 1 .. N)
  <2>1. /\ c.missed \cup Unaccounted(c, S) \in SUBSET Events
        /\ c.notes \cup (Larger(c.watermark, E) + 1 .. N) \in SUBSET Events
    BY <1>1, <1>3, <1>4, SMTT(30) DEF Client, Events, Larger
  <2>2. b \in Client
    BY <1>1, <2>1 DEF Client
  <2> QED BY <1>1, <2>2 DEF Client, Told
<1>7. w \in 0..MaxEvents /\ w >= N
  BY <1>1, <1>3 DEF Larger
<1>8. 1..w \subseteq Told(b) /\ b.seen \subseteq Told(b)
  <2>1. b.seen \subseteq Told(b)
    BY <1>5, <1>6
  <2>2. ASSUME NEW k \in 1..w PROVE k \in Told(b)
    <3>1. CASE k <= c.watermark
      <4>1. k \in 1..c.watermark
        BY <1>1, <1>7, <3>1
      <4> QED BY <1>5, <1>6, <4>1
    <3>2. CASE ~(k <= c.watermark) /\ k <= E
      <4>1. k \in c.watermark + 1 .. E
        BY <1>1, <1>3, <1>7, <3>2
      <4> QED BY <1>4, <1>5, <1>6, <4>1
    <3>3. CASE ~(k <= c.watermark) /\ ~(k <= E)
      <4>1. k \in Larger(c.watermark, E) + 1 .. N
        BY <1>1, <1>3, <1>7, <3>3 DEF Larger
      <4> QED BY <1>6, <4>1
    <3> QED BY <3>1, <3>2, <3>3
  <2> QED BY <2>1, <2>2
<1> HIDE DEF b, w
<1>9. /\ d \in Client /\ Cardinality(d.seen) <= SeenCapacity
      /\ d = [b EXCEPT !.watermark = d.watermark, !.seen = d.seen]
      /\ d.watermark >= w /\ 1..d.watermark \subseteq Told(b)
      /\ d.seen \subseteq b.seen
  <2>1. Cardinality(b.seen) <= SeenCapacity
    BY <1>1, <1>6
  <2> QED BY <1>6, <1>7, <1>8, <2>1, WatermarkMoves
<1> HIDE DEF d
<1>10. /\ d.cursor = c.cursor /\ d.held = c.held /\ d.content = c.content
       /\ d.epoch = c.epoch /\ d.twice = c.twice /\ d.shown = c.shown /\ d.rehydrate = c.rehydrate
       /\ d.unread = c.unread /\ d.readAt = c.readAt
       /\ d.resync = c.resync /\ d.needsSnapshot = c.needsSnapshot
       /\ d.resyncing = c.resyncing
       /\ d.notes = b.notes /\ d.missed = b.missed
  BY <1>6, <1>9 DEF Client
<1>11. Shows(d, c.cursor) /\ ReadsConfig(d, c.cursor)
  BY <1>10 DEF Follows, Shows, ReadsConfig
<1>12. Accounts(d, c.cursor)
  <2>1. Told(d) = Told(b)
    BY <1>10 DEF Told
  <2>2. d.watermark \in Nat
    BY <1>9 DEF Client
  <2>3. 1..NoteNumber(c.cursor) \subseteq 1..d.watermark
    BY <1>1, <1>3, <1>7, <1>9, <2>2
  <2> QED BY <1>8, <1>9, <2>1, <2>3 DEF Accounts
<1>13. Follows(d, d.cursor)
  BY <1>9, <1>10, <1>11, <1>12 DEF Follows, Typed
<1>14. Holds(d)
  BY <1>10 DEF Holds
<1>15. Owes(c) => Owes(d)
  BY <1>10 DEF Owes
<1> QED BY <1>2, <1>10, <1>13, <1>14, <1>15

-----------------------------------------------------------------------------
(* Steps.                                                                  *)

\* What holds of a client holds on while the engine's log grows.
LEMMA FollowsStays ==
    ASSUME log \in Seq(Kinds), \A l \in DOMAIN log : l \in DOMAIN log' /\ log'[l] = log[l],
           NEW c, c.cursor \in 0..Now, c.content \in 0..Now, Follows(c, c.cursor)
    PROVE  Follows(c, c.cursor)'
<1> DEFINE n == c.cursor
           m == Larger(n, c.content)
<1>1. /\ Typed(c) /\ c.epoch = Epoch(n) /\ c.twice = {} /\ c.shown \subseteq 1..m
      /\ (c.rehydrate \/ c.unread \/ c.shown = Conversation(m))
      /\ \A j \in Of({"config"}, n) : j <= c.readAt \/ c.resync \/ c.needsSnapshot
      /\ c.seen \subseteq Told(c) /\ 1..c.watermark \subseteq Told(c)
      /\ (c.pending \/ 1..NoteNumber(n) \subseteq Told(c))
  BY DEF Follows, Shows, ReadsConfig, Accounts
<1>2. n \in 0..Len(log) /\ m \in 0..Len(log)
  BY DEF Now, Larger
<1>3. /\ Of({"config"}, n)' = Of({"config"}, n) /\ Epoch(n)' = Epoch(n)
      /\ NoteNumber(n)' = NoteNumber(n)
  BY <1>2, PastStays
<1>4. Conversation(m)' = Conversation(m)
  BY <1>2, PastStays
<1>5. Shows(c, n)'
  BY <1>1, <1>3, <1>4 DEF Shows
<1>6. ReadsConfig(c, n)'
  BY <1>1, <1>3 DEF ReadsConfig
<1>7. Accounts(c, n)'
  BY <1>1, <1>3 DEF Accounts
<1>8. Typed(c)'
  BY <1>1 DEF Typed
<1> QED BY <1>5, <1>6, <1>7, <1>8 DEF Follows

\* The client moves to a state that follows the engine, which stands still.
LEMMA ClientMoves ==
    ASSUME EngineOk, UNCHANGED engineVars, NEW d, client' = d,
           Follows(d, d.cursor), Holds(d), Owes(d)
    PROVE  EngineOk' /\ Holds(client)' /\ Owes(client)' /\ Follows(client, client.cursor)'
<1>1. log' = log /\ losses' = losses
  BY DEF engineVars
<1>2. EngineOk'
  BY <1>1 DEF EngineOk
<1>3. Holds(client)' /\ Owes(client)'
  BY <1>1 DEF Holds, Now, Owes
<1>4. Follows(d, d.cursor)'
  BY <1>1, FollowsStays DEF EngineOk, Holds
<1>5. Follows(client, client.cursor)'
  BY <1>4
<1> QED BY <1>2, <1>3, <1>5

LEMMA FeedInvStarts == Init => FeedInv
<1> SUFFICES ASSUME Init PROVE FeedInv
  OBVIOUS
<1>1. /\ MaxEvents \in Nat /\ MaxLost \in Nat /\ MaxFailures \in Nat /\ MaxBuffered \in Nat
      /\ SeenCapacity \in Nat
  BY ConstantsAssumption
<1>2. log = <<>> /\ Now = 0 /\ log \in Seq(Kinds) /\ inbound = <<>> /\ inbound \in Seq(1..Now)
  BY DEF Init, Now
<1>3. EngineOk /\ LoopOk
  BY <1>1, <1>2 DEF Init, EngineOk, LoopOk, Now
<1>4. client \in Client
  <2>1. <<>> \in Seq(Events) /\ {} \in SUBSET Events /\ 0 \in 0..MaxEvents
    BY <1>1
  <2> QED BY <2>1 DEF Init, Client
<1>5. /\ client.cursor = 0 /\ client.content = 0 /\ client.epoch = 0 /\ client.held = <<>>
      /\ client.rehydrate /\ client.pending /\ client.resync /\ client.needsSnapshot
      /\ client.twice = {} /\ client.shown = {} /\ client.watermark = 0 /\ client.seen = {}
  BY DEF Init
<1>6. Epoch(0) = 0
  <2>1. Epoch(0) \in 0..0
    BY Ranges
  <2> QED BY <2>1
<1>7. Typed(client)
  BY <1>1, <1>4, <1>5, FS_EmptySet DEF Typed
<1>8. Shows(client, 0) /\ ReadsConfig(client, 0) /\ Accounts(client, 0)
  BY <1>5, <1>6 DEF Shows, ReadsConfig, Accounts
<1>9. Follows(client, client.cursor)
  BY <1>5, <1>7, <1>8 DEF Follows
<1>10. Holds(client) /\ FrameInv /\ Owes(client)
  BY <1>1, <1>2, <1>5 DEF Holds, FrameInv, Increasing, Owes
<1> QED BY <1>3, <1>9, <1>10 DEF FeedInv

LEMMA FeedStep == FeedInv /\ [Next]_vars => FeedInv'
<1> SUFFICES ASSUME FeedInv, [Next]_vars PROVE FeedInv'
  OBVIOUS
<1>1. /\ EngineOk /\ LoopOk /\ FrameInv
      /\ Holds(client) /\ Owes(client) /\ Follows(client, client.cursor)
      /\ log \in Seq(Kinds) /\ Len(log) <= MaxEvents /\ losses \in 0..MaxLost
      /\ Now = Len(log) /\ Now \in Nat /\ MaxLost \in Nat /\ MaxFailures \in Nat
      /\ at \in Reads \cup {"loop"} /\ backoff \subseteq Reads /\ failures \in 0..MaxFailures
  BY ConstantsAssumption DEF FeedInv, EngineOk, LoopOk, Now
<1>2. /\ inbound \in Seq(1..Now) /\ Increasing(inbound)
      /\ \A k \in DOMAIN client.held, l \in DOMAIN inbound : client.held[k] < inbound[l]
      /\ \A k \in DOMAIN client.held : client.held[k] \in 1..Now
  BY <1>1 DEF FrameInv, Holds
\* A step of the loop that takes no frame.
<1>3. ASSUME UNCHANGED <<engineVars, inbound>>, LoopOk', NEW d, client' = d,
             Follows(d, d.cursor), Holds(d), Owes(d),
             \A k \in DOMAIN d.held : \E l \in DOMAIN client.held : d.held[k] = client.held[l]
      PROVE  FeedInv'
  <2>1. EngineOk' /\ Holds(client)' /\ Owes(client)' /\ Follows(client, client.cursor)'
    BY <1>1, <1>3, ClientMoves
  <2>2. log' = log /\ inbound' = inbound /\ client' = d
    BY <1>3 DEF engineVars
  <2>3. FrameInv'
    BY <1>2, <1>3, <2>2 DEF FrameInv, Now
  <2> QED BY <1>3, <2>1, <2>3 DEF FeedInv
<1>4. ASSUME UNCHANGED <<engineVars, inbound, client>>, LoopOk' PROVE FeedInv'
  <2>1. PICK d : d = client
    OBVIOUS
  <2>2. /\ client' = d /\ Follows(d, d.cursor) /\ Holds(d) /\ Owes(d)
        /\ \A k \in DOMAIN d.held : \E l \in DOMAIN client.held : d.held[k] = client.held[l]
    BY <1>1, <1>4, <2>1
  <2> QED BY <1>3, <1>4, <2>2
<1>5. ASSUME NEW r \in Reads PROVE NextPlace(r) \in Reads \cup {"loop"}
  BY <1>5 DEF NextPlace, Reads
<1>6. ASSUME NEW k \in Kinds, Publish(k) PROVE FeedInv'
  <2>1. /\ log' = Append(log, k) /\ Len(log') = Len(log) + 1 /\ log' \in Seq(Kinds)
        /\ Len(log) < MaxEvents /\ Now' = Now + 1 /\ client' = client
        /\ \A l \in DOMAIN log : l \in DOMAIN log' /\ log'[l] = log[l]
        /\ at' = at /\ backoff' = backoff /\ failures' = failures
    BY <1>1, <1>6 DEF Publish, Now, loopVars
  <2>2. MaxEvents \in Nat
    BY ConstantsAssumption
  <2>3. losses' \in 0..MaxLost
    BY <1>1, <1>6 DEF Publish
  <2>4. EngineOk' /\ LoopOk'
    BY <1>1, <2>1, <2>2, <2>3 DEF EngineOk, LoopOk
  <2>5. Holds(client)' /\ Owes(client)'
    <3>1. \A k1 \in DOMAIN client.held : client.held[k1] \in 1..Now + 1
      BY <1>1, <1>2
    <3>2. client.cursor \in 0..Now + 1 /\ client.content \in 0..Now + 1
      BY <1>1 DEF Holds
    <3>3. Owes(client)'
      BY <1>1, <2>1 DEF Owes
    <3> QED BY <1>1, <2>1, <3>1, <3>2, <3>3 DEF Holds
  <2>6. Follows(client, client.cursor)'
    <3>1. PICK d : d = client
      OBVIOUS
    <3>2. Follows(d, d.cursor) /\ d.cursor \in 0..Now /\ d.content \in 0..Now
      BY <1>1, <3>1 DEF Holds
    <3>3. Follows(d, d.cursor)'
      BY <1>1, <2>1, <3>2, FollowsStays
    <3> QED BY <2>1, <3>1, <3>3
  <2>7. FrameInv'
    <3>1. CASE inbound' = inbound
      <4>1. inbound \in Seq(1..Now + 1)
        BY <1>1, <1>2
      <4> QED BY <1>2, <2>1, <3>1, <4>1 DEF FrameInv
    <3>2. CASE inbound' = Append(inbound, Now + 1)
      <4>1. /\ inbound' \in Seq(1..Now + 1) /\ Len(inbound) \in Nat
            /\ DOMAIN inbound = 1..Len(inbound) /\ DOMAIN inbound' = 1..Len(inbound) + 1
            /\ \A l \in 1..Len(inbound) : inbound'[l] = inbound[l] /\ inbound[l] \in 1..Now
            /\ inbound'[Len(inbound) + 1] = Now + 1
        BY <1>1, <1>2, <3>2
      <4>2. Increasing(inbound)'
        <5> SUFFICES ASSUME NEW j \in 1..Len(inbound) + 1, NEW l \in 1..Len(inbound) + 1, j < l
                     PROVE  inbound'[j] < inbound'[l]
          BY <4>1 DEF Increasing
        <5>1. j \in 1..Len(inbound)
          BY <4>1
        <5>2. CASE l \in 1..Len(inbound)
          BY <1>2, <4>1, <5>1, <5>2 DEF Increasing
        <5>3. CASE l = Len(inbound) + 1
          BY <1>1, <4>1, <5>1, <5>3
        <5> QED BY <4>1, <5>2, <5>3, SMTT(30)
      <4>3. ASSUME NEW j \in DOMAIN client.held, NEW l \in 1..Len(inbound) + 1
            PROVE  client.held[j] < inbound'[l]
        <5>1. CASE l \in 1..Len(inbound)
          BY <1>2, <4>1, <5>1
        <5>2. CASE l = Len(inbound) + 1
          BY <1>1, <1>2, <4>1, <5>2
        <5> QED BY <4>1, <5>1, <5>2
      <4> QED BY <2>1, <4>1, <4>2, <4>3 DEF FrameInv
    <3> QED BY <1>1, <1>6, <2>1, <3>1, <3>2 DEF Publish
  <2> QED BY <2>4, <2>5, <2>6, <2>7 DEF FeedInv
<1>7. CASE Receive
  <2> DEFINE n == Len(inbound)
             rest == Tail(inbound)
  <2>1. /\ n \in Nat \ {0} /\ DOMAIN inbound = 1..n /\ Head(inbound) = inbound[1]
        /\ Head(inbound) \in 1..Now /\ rest \in Seq(1..Now) /\ DOMAIN rest = 1..n - 1
        /\ \A l \in 1..n - 1 : rest[l] = inbound[l + 1]
    <3>1. inbound \in Seq(1..Now) /\ inbound # <<>>
      BY <1>2, <1>7 DEF Receive
    <3>2. n \in Nat \ {0} /\ DOMAIN inbound = 1..n /\ 1 \in 1..n
      BY <3>1
    <3>3. Head(inbound) = inbound[1] /\ Head(inbound) \in 1..Now
      <4>1. inbound \in [1..n -> 1..Now]
        <5> DEFINE T == 1..Now
        <5>1. inbound \in Seq(T)
          BY <3>1
        <5> HIDE DEF T
        <5>2. inbound \in [1..Len(inbound) -> T]
          BY <5>1
        <5> QED BY <5>2 DEF T
      <4>2. inbound[1] \in 1..Now
        BY <3>2, <4>1
      <4> QED BY <3>1, <4>2
    <3>4. rest \in Seq(1..Now) /\ Len(rest) = n - 1 /\ DOMAIN rest = 1..n - 1
      BY <3>1, <3>2
    <3>5. \A l \in 1..n - 1 : rest[l] = inbound[l + 1]
      BY <3>1, <3>2
    <3> QED BY <3>2, <3>3, <3>4, <3>5
  <2>2. \A k \in DOMAIN client.held : client.held[k] < Head(inbound)
    BY <1>2, <2>1
  <2>3. PICK d, i : d = Accept(client, Head(inbound)) /\ i = Head(inbound)
    OBVIOUS
  <2>4. PICK c : c = client
    OBVIOUS
  <2>5. /\ i \in 1..Now /\ Follows(c, c.cursor) /\ Holds(c) /\ Owes(c)
        /\ \A k \in DOMAIN c.held : c.held[k] < i
    BY <1>1, <2>1, <2>2, <2>3, <2>4
  <2>6. /\ Follows(d, d.cursor) /\ Holds(d) /\ Owes(d)
        /\ \A k \in DOMAIN d.held : d.held[k] <= i
    BY <1>1, <2>3, <2>4, <2>5, AcceptFollows
  <2>7. /\ client' = d /\ inbound' = rest /\ UNCHANGED engineVars /\ log' = log
        /\ at' = "state" /\ backoff' = backoff /\ failures' = failures
    BY <1>7, <2>3 DEF Receive, engineVars
  <2>8. EngineOk' /\ Holds(client)' /\ Owes(client)' /\ Follows(client, client.cursor)'
    BY <1>1, <2>6, <2>7, ClientMoves
  <2>9. Increasing(rest)
    <3> SUFFICES ASSUME NEW j \in 1..n - 1, NEW l \in 1..n - 1, j < l
                 PROVE  rest[j] < rest[l]
      BY <2>1 DEF Increasing
    <3>1. j + 1 \in 1..n /\ l + 1 \in 1..n /\ j + 1 < l + 1
      BY <2>1
    <3>2. inbound[j + 1] < inbound[l + 1]
      BY <1>2, <2>1, <3>1 DEF Increasing
    <3> QED BY <2>1, <3>2
  <2>10. ASSUME NEW k \in DOMAIN d.held, NEW l \in 1..n - 1 PROVE d.held[k] < rest[l]
    <3>1. 1 \in 1..n /\ l + 1 \in 1..n /\ 1 < l + 1
      BY <2>1
    <3>2. inbound[1] < inbound[l + 1] /\ inbound[1] \in 1..Now /\ inbound[l + 1] \in 1..Now
      <4>1. inbound[1] < inbound[l + 1]
        BY <1>2, <2>1, <3>1 DEF Increasing
      <4>2. inbound[l + 1] \in 1..Now
        <5>1. rest[l] = inbound[l + 1] /\ rest[l] \in 1..Now
          <6> DEFINE T == 1..Now
          <6>1. rest \in Seq(T) /\ l \in DOMAIN rest
            BY <2>1
          <6> HIDE DEF T, rest
          <6>2. rest[l] \in T
            BY <6>1
          <6> QED BY <2>1, <6>2 DEF T
        <5> QED BY <5>1
      <4> QED BY <2>1, <4>1, <4>2
    <3>3. d.held[k] <= i /\ i = inbound[1] /\ d.held[k] \in 1..Now
      BY <2>1, <2>3, <2>6 DEF Holds
    <3> QED BY <1>1, <2>1, <3>2, <3>3
  <2>11. FrameInv'
    BY <2>1, <2>7, <2>9, <2>10 DEF FrameInv, Now
  <2>12. LoopOk'
    BY <1>1, <2>7 DEF LoopOk, Reads
  <2> QED BY <2>8, <2>11, <2>12 DEF FeedInv
<1>8. CASE Wake
  BY <1>1, <1>4, <1>8 DEF Wake, LoopOk, Reads
<1>9. CASE Skip
  BY <1>1, <1>4, <1>5, <1>9 DEF Skip, LoopOk
\* A read that is answered, refused or failed.
<1>10. ASSUME NEW r \in Reads, DueRead(r), UNCHANGED <<engineVars, inbound>>,
              backoff' \subseteq Reads, failures' \in 0..MaxFailures
       PROVE  LoopOk'
  BY <1>5, <1>10 DEF DueRead, LoopOk
<1>11. CASE ReadState
  <2>1. PICK c, d : c = client /\ d = TakeSnapshot(client, Now)
    OBVIOUS
  <2>2. Follows(d, d.cursor) /\ Holds(d) /\ Owes(d) /\ d.held = <<>>
    <3>1. Follows(c, c.cursor) /\ Holds(c)
      BY <1>1, <2>1
    <3>2. /\ Follows(TakeSnapshot(c, Now), TakeSnapshot(c, Now).cursor) /\ Holds(TakeSnapshot(c, Now))
          /\ TakeSnapshot(c, Now).held = <<>> /\ Owes(TakeSnapshot(c, Now))
      BY <1>1, <3>1, SnapshotFollows
    <3> QED BY <2>1, <3>2
  <2>3. /\ client' = d /\ DueRead("state") /\ UNCHANGED <<engineVars, inbound>>
        /\ backoff' \subseteq Reads /\ failures' = failures
    BY <1>1, <1>11, <2>1 DEF ReadState, Answered
  <2>4. LoopOk'
    BY <1>1, <1>10, <2>3 DEF Reads
  <2> QED BY <1>3, <2>2, <2>3, <2>4
<1>12. CASE ReadHistory
  <2>1. PICK c, d : c = client /\ d = TakeHistory(client, Now)
    OBVIOUS
  <2>2. Follows(d, d.cursor) /\ Holds(d) /\ Owes(d) /\ d.held = c.held
    <3>1. Follows(c, c.cursor) /\ Holds(c) /\ Owes(c)
      BY <1>1, <2>1
    <3>2. /\ Follows(TakeHistory(c, Now), TakeHistory(c, Now).cursor) /\ Holds(TakeHistory(c, Now))
          /\ TakeHistory(c, Now).held = c.held /\ Owes(TakeHistory(c, Now))
      BY <1>1, <3>1, HistoryFollows
    <3> QED BY <2>1, <3>2
  <2>3. /\ client' = d /\ DueRead("history") /\ UNCHANGED <<engineVars, inbound>>
        /\ backoff' \subseteq Reads /\ failures' = failures
    BY <1>1, <1>12, <2>1 DEF ReadHistory, Answered
  <2>4. LoopOk'
    BY <1>1, <1>10, <2>3 DEF Reads
  <2> QED BY <1>3, <2>1, <2>2, <2>3, <2>4
<1>13. CASE RefuseHistory
  <2>1. PICK c, d : c = client /\ d = [client EXCEPT !.resync = TRUE]
    OBVIOUS
  <2>2. Follows(c, c.cursor) /\ Holds(c) /\ Owes(c) /\ c \in Client
    BY <1>1, <2>1 DEF Follows, Typed
  <2>3. /\ d \in Client /\ d.held = c.held /\ d.cursor = c.cursor
        /\ d.epoch = c.epoch /\ d.twice = c.twice /\ d.shown = c.shown /\ d.content = c.content
        /\ d.unread = c.unread /\ d.readAt = c.readAt /\ d.watermark = c.watermark
        /\ d.seen = c.seen /\ d.notes = c.notes /\ d.missed = c.missed
        /\ d.rehydrate = c.rehydrate /\ d.pending = c.pending /\ d.resync
        /\ d.resyncing = c.resyncing /\ d.needsSnapshot = c.needsSnapshot
    BY <2>1, <2>2 DEF Client
  <2>4. Follows(d, d.cursor)
    <3>1. Follows(d, c.cursor)
      BY <2>2, <2>3, NeedsArise
    <3> QED BY <2>3, <3>1
  <2>5. Holds(d) /\ Owes(d)
    BY <2>2, <2>3 DEF Holds, Owes
  <2>6. /\ client' = d /\ DueRead("history") /\ UNCHANGED <<engineVars, inbound>>
        /\ backoff' \subseteq Reads /\ failures' = failures
    BY <1>1, <1>13, <2>1 DEF RefuseHistory, Reads
  <2>7. LoopOk'
    BY <1>1, <1>10, <2>6 DEF Reads
  <2> QED BY <1>3, <2>1, <2>3, <2>4, <2>5, <2>6, <2>7
<1>14. CASE ReadNotes
  <2>1. PICK c, d : c = client /\ d = TakeNotes(client, Now)
    OBVIOUS
  <2>2. Follows(d, d.cursor) /\ Holds(d) /\ Owes(d) /\ d.held = c.held
    <3>1. Follows(c, c.cursor) /\ Holds(c) /\ Owes(c)
      BY <1>1, <2>1
    <3>2. /\ Follows(TakeNotes(c, Now), TakeNotes(c, Now).cursor) /\ Holds(TakeNotes(c, Now))
          /\ TakeNotes(c, Now).held = c.held /\ Owes(TakeNotes(c, Now))
      BY <1>1, <3>1, NotesFollow
    <3> QED BY <2>1, <3>2
  <2>3. /\ client' = d /\ DueRead("notes") /\ UNCHANGED <<engineVars, inbound>>
        /\ backoff' \subseteq Reads /\ failures' = failures
    BY <1>1, <1>14, <2>1 DEF ReadNotes, Answered
  <2>4. LoopOk'
    BY <1>1, <1>10, <2>3 DEF Reads
  <2> QED BY <1>3, <2>1, <2>2, <2>3, <2>4
<1>15. ASSUME NEW r \in Reads, FailRead(r) PROVE FeedInv'
  <2>1. /\ DueRead(r) /\ UNCHANGED <<engineVars, inbound>> /\ backoff' \subseteq Reads
        /\ failures' \in 0..MaxFailures
        /\ client' = IF r = "state" THEN AbortResync(client) ELSE client
    BY <1>1, <1>15 DEF FailRead
  <2>2. LoopOk'
    BY <1>10, <2>1
  <2>3. CASE r # "state"
    BY <1>4, <2>1, <2>2, <2>3
  <2>4. CASE r = "state"
    <3>1. PICK c, d : c = client /\ d = AbortResync(client)
      OBVIOUS
    <3>2. /\ Follows(d, d.cursor) /\ Holds(d) /\ Owes(d)
          /\ \A k \in DOMAIN d.held : \E l \in DOMAIN client.held : d.held[k] = client.held[l]
      <4>1. Follows(c, c.cursor) /\ Holds(c)
        BY <1>1, <3>1
      <4>2. /\ Follows(AbortResync(c), AbortResync(c).cursor) /\ Holds(AbortResync(c))
            /\ \A k \in DOMAIN AbortResync(c).held :
                  \E l \in DOMAIN c.held : AbortResync(c).held[k] = c.held[l]
            /\ Owes(AbortResync(c))
        BY <1>1, <4>1, AbortFollows
      <4> QED BY <3>1, <4>2
    <3>3. client' = d
      BY <2>1, <2>4, <3>1
    <3> QED BY <1>3, <2>1, <2>2, <3>2, <3>3
  <2> QED BY <2>3, <2>4
<1>16. ASSUME NEW r \in Reads, BackoffOver(r) PROVE FeedInv'
  <2>1. UNCHANGED <<engineVars, inbound, client>> /\ LoopOk'
    BY <1>1, <1>16 DEF BackoffOver, LoopOk
  <2> QED BY <1>4, <2>1
<1>17. CASE UNCHANGED vars
  <2>1. UNCHANGED <<engineVars, inbound, client>> /\ LoopOk'
    BY <1>1, <1>17 DEF vars, loopVars, LoopOk
  <2> QED BY <1>4, <2>1
<1> QED BY <1>6, <1>7, <1>8, <1>9, <1>11, <1>12, <1>13, <1>14, <1>15, <1>16, <1>17 DEF Next, Settle

-----------------------------------------------------------------------------
(* The invariants of every behaviour.                                      *)

\* The loop holds the fence, the transcript, the configuration and the
\* notifications together in every state it reaches.
THEOREM FeedHolds == Spec => []FeedInv
<1> QED BY FeedInvStarts, FeedStep, PTL DEF Spec

(* The variables stay within their ranges, the hold buffer and the set of  *)
(* notifications received out of order within their capacities.            *)
THEOREM TypeCorrect == Spec => []TypeOK
<1>1. FeedInv => TypeOK
  BY DEF FeedInv, EngineOk, LoopOk, FrameInv, Holds, Follows, Typed, Now, TypeOK
<1> QED BY <1>1, FeedHolds, PTL

(* A configuration change the fence has passed was read from the engine    *)
(* with a snapshot, or such a read is owed.                                *)
THEOREM ConfigIsRead == Spec => []MetadataIsRead
<1>1. FeedInv => MetadataIsRead
  BY DEF FeedInv, Follows, ReadsConfig, MetadataIsRead
<1> QED BY <1>1, FeedHolds, PTL

(* Nothing of the conversation is shown twice, and without an owed history *)
(* read the transcript is the engine's conversation, unless a snapshot has *)
(* passed content over.                                                    *)
THEOREM TranscriptIsExact == Spec => []TranscriptExact
<1>1. FeedInv => TranscriptExact
  BY DEF FeedInv, Follows, Shows, TranscriptExact, Complete
<1> QED BY <1>1, FeedHolds, PTL

(* A notification the fence has passed is shown or reported lost, unless a *)
(* read of the mailbox is owed, and the watermark claims no other.         *)
THEOREM NotesAreAccounted == Spec => []NotesAccounted
<1>1. FeedInv => NotesAccounted
  BY DEF FeedInv, Follows, Accounts, Told, NotesAccounted
<1> QED BY <1>1, FeedHolds, PTL

(* A client that holds frames back owes the state read they wait for.      *)
THEOREM HeldFramesAreOwed == Spec => []HeldIsOwed
<1>1. FeedInv => HeldIsOwed
  BY DEF FeedInv, Owes, Owed, Reads, HeldIsOwed
<1> QED BY <1>1, FeedHolds, PTL
=============================================================================
