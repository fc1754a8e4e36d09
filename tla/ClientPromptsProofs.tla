------------------------- MODULE ClientPromptsProofs -------------------------
(***************************************************************************)
(* Proofs about ClientPrompts, for any number of requests, faults and      *)
(* answers.                                                                *)
(*                                                                         *)
(* The engine's side needs nothing of the client: each request gets one    *)
(* public outcome (EngineInv).  On it rests what lists, frames and queue   *)
(* say of the pending requests (ListsInv), and on that what the answers    *)
(* are worth and that no decision is forgotten (ClientInv).                *)
(***************************************************************************)
EXTENDS ClientPrompts, AscendingProofs

Calls == [at: {"unasked", "asked", "waiting", "granted", "refused"},
          outcome: {"granted", "refused", "none"}]

\* The part of TypeOK that the engine's side rests on.
EngineTyped ==
    /\ log \in Seq(Events)
    /\ registry \subseteq Requests
    /\ issue \in [Requests -> Calls]
    /\ \A a \in answers : a.says \in {"granted", "refused"}

\* A request in the registry was asked, and nobody has sent its outcome.
Waited(r) == r \in registry => issue[r].at # "unasked" /\ issue[r].outcome = "none"

\* The end of a request has been announced once if it has ended, else never.
AnnouncedOnce(r) ==
    /\ issue[r].at = "unasked" \/ r \in registry => Ends(r) = {}
    /\ issue[r].at # "unasked" /\ r \notin registry => \E i \in Ends(r) : Ends(r) = {i}

\* What the call was sent is what was announced, and what it returns as a grant.
Agreed(r) ==
    /\ issue[r].outcome # "none" => \A i \in Ends(r) : log[i].outcome = issue[r].outcome
    /\ issue[r].at = "granted" => issue[r].outcome = "granted"

Settled(r) == Waited(r) /\ AnnouncedOnce(r) /\ Agreed(r)

EngineInv == EngineTyped /\ \A r \in Requests : Settled(r)

-----------------------------------------------------------------------------
(* The log grows by announcements.                                         *)

\* The positions of a concatenation.
LEMMA Concatenation ==
    ASSUME NEW S, NEW s \in Seq(S), NEW t \in Seq(S)
    PROVE  /\ s \o t \in Seq(S)
           /\ Len(s) \in Nat /\ DOMAIN s = 1..Len(s)
           /\ DOMAIN (s \o t) = 1..(Len(s) + Len(t))
           /\ \A i \in 1..Len(s) : (s \o t)[i] = s[i]
           /\ \A k \in 1..Len(t) : (s \o t)[Len(s) + k] = t[k]
<1>1. /\ s \o t \in Seq(S) /\ Len(s) \in Nat /\ Len(t) \in Nat
      /\ Len(s \o t) = Len(s) + Len(t) /\ DOMAIN s = 1..Len(s)
  OBVIOUS
<1>2. DOMAIN (s \o t) = 1..(Len(s) + Len(t))
  BY <1>1
<1>3. ASSUME NEW i \in 1..Len(s) PROVE (s \o t)[i] = s[i]
  BY <1>1
<1>4. ASSUME NEW k \in 1..Len(t) PROVE (s \o t)[Len(s) + k] = t[k]
  <2>1. Len(s) + k \in 1..(Len(s) + Len(t)) /\ Len(s) + k > Len(s) /\ (Len(s) + k) - Len(s) = k
    BY <1>1
  <2> QED BY <1>1, <2>1
<1> QED BY <1>1, <1>2, <1>3, <1>4

\* One more event: only the end of its own request is a new end.
LEMMA OneMore ==
    ASSUME log \in Seq(Events), NEW e \in Events, log' = log \o <<e>>, NEW r
    PROVE  /\ log' \in Seq(Events)
           /\ \A i \in DOMAIN log : log'[i] = log[i]
           /\ Ends(r)' = IF e.kind = "resolved" /\ e.req = r
                         THEN Ends(r) \cup {Len(log) + 1} ELSE Ends(r)
           /\ log'[Len(log) + 1] = e
           /\ Len(log) + 1 \notin Ends(r)
<1>1. /\ log' \in Seq(Events) /\ Len(log) \in Nat /\ Len(log') = Len(log) + 1
      /\ \A i \in 1..Len(log) : log'[i] = log[i]
      /\ log'[Len(log) + 1] = e
  OBVIOUS
<1>2. DOMAIN log = 1..Len(log) /\ DOMAIN log' = 1..(Len(log) + 1)
  BY <1>1
<1>3. \A i : i \in DOMAIN log' <=> i \in DOMAIN log \/ i = Len(log) + 1
  BY <1>1, <1>2
<1>4. \A i : i \in Ends(r)' <=>
            \/ i \in Ends(r)
            \/ i = Len(log) + 1 /\ e.kind = "resolved" /\ e.req = r
  BY <1>1, <1>2, <1>3 DEF Ends
<1>5. Len(log) + 1 \notin Ends(r)
  BY <1>1, <1>2 DEF Ends
<1> QED BY <1>1, <1>2, <1>4, <1>5

\* The registry is drained: each request in it gets one new end.
LEMMA AllDrained ==
    ASSUME EngineTyped,
           NEW drained \in Bijection(1..Cardinality(registry), registry),
           log' = log \o [k \in 1..Cardinality(registry) |-> Resolved(drained[k], "refused", {})],
           NEW r \in Requests
    PROVE  /\ log' \in Seq(Events)
           /\ \A i \in DOMAIN log : log'[i] = log[i] /\ i \in DOMAIN log'
           /\ r \notin registry => Ends(r)' = Ends(r)
           /\ r \in registry /\ Ends(r) = {} =>
                 \E i \in Ends(r)' : Ends(r)' = {i} /\ log'[i].outcome = "refused"
<1> DEFINE n == Cardinality(registry)
           ends == [k \in 1..n |-> Resolved(drained[k], "refused", {})]
<1>1. n \in Nat
  <2>1. MaxRequests \in Nat
    BY ConstantsAssumption
  <2>2. IsFiniteSet(Requests)
    BY <2>1, FS_Interval DEF Requests
  <2> QED BY <2>2, FS_Subset, FS_CardinalityType DEF EngineTyped
<1>2. /\ drained \in [1..n -> registry]
      /\ \A j, k \in 1..n : drained[j] = drained[k] => j = k
      /\ \A q \in registry : \E k \in 1..n : drained[k] = q
  BY DEF Bijection, Injection, Surjection, IsInjective
<1>3. \A k \in 1..n : /\ ends[k] \in Events /\ ends[k].kind = "resolved"
                      /\ ends[k].req = drained[k] /\ ends[k].outcome = "refused"
  BY <1>2 DEF Resolved, Events, EngineTyped
<1>4. ends \in Seq(Events) /\ Len(ends) = n
  BY <1>1, <1>3
<1> HIDE DEF n, ends
<1>5. log' = log \o ends /\ log \in Seq(Events)
  BY DEF n, ends, EngineTyped
<1>6. /\ log' \in Seq(Events) /\ Len(log) \in Nat
      /\ DOMAIN log = 1..Len(log) /\ DOMAIN log' = 1..(Len(log) + n)
      /\ \A i \in 1..Len(log) : log'[i] = log[i]
      /\ \A k \in 1..n : log'[Len(log) + k] = ends[k]
  <2>1. /\ log \o ends \in Seq(Events)
        /\ Len(log) \in Nat /\ DOMAIN log = 1..Len(log)
        /\ DOMAIN (log \o ends) = 1..(Len(log) + Len(ends))
        /\ \A i \in 1..Len(log) : (log \o ends)[i] = log[i]
        /\ \A k \in 1..Len(ends) : (log \o ends)[Len(log) + k] = ends[k]
    <3> HIDE DEF Events
    <3>1. ends \in Seq(Events) /\ log \in Seq(Events)
      BY <1>4, <1>5
    <3> QED BY <3>1, Concatenation
  <2>2. Len(ends) = n
    BY <1>4
  <2> QED BY <1>5, <2>1, <2>2
<1>10. DOMAIN log \subseteq DOMAIN log'
  <2>1. \A i \in 1..Len(log) : i \in 1..(Len(log) + n)
    BY <1>1, <1>6
  <2> QED BY <1>6, <2>1
<1>11. \A i \in DOMAIN log' : i \in DOMAIN log \/ \E k \in 1..n : i = Len(log) + k
  <2> SUFFICES ASSUME NEW i \in 1..(Len(log) + n), i \notin 1..Len(log)
               PROVE  \E k \in 1..n : i = Len(log) + k
    BY <1>6
  <2>1. i - Len(log) \in 1..n /\ i = Len(log) + (i - Len(log))
    BY <1>1, <1>6
  <2> QED BY <2>1
<1>12. \A k \in 1..n : Len(log) + k \in DOMAIN log' /\ Len(log) + k \notin DOMAIN log
  <2> SUFFICES ASSUME NEW k \in 1..n
               PROVE  Len(log) + k \in 1..(Len(log) + n) /\ Len(log) + k \notin 1..Len(log)
    BY <1>6
  <2> QED BY <1>1, <1>6
<1>7. \A i : i \in Ends(r)' <=>
           i \in Ends(r) \/ \E k \in 1..n : i = Len(log) + k /\ drained[k] = r
  <2>1. ASSUME NEW i, i \in Ends(r)'
        PROVE  i \in Ends(r) \/ \E k \in 1..n : i = Len(log) + k /\ drained[k] = r
    <3>1. i \in DOMAIN log' /\ log'[i].kind = "resolved" /\ log'[i].req = r
      BY <2>1 DEF Ends
    <3>2. ASSUME i \in DOMAIN log PROVE i \in Ends(r)
      <4>1. log'[i] = log[i]
        BY <1>6, <3>2
      <4>2. log[i].kind = "resolved" /\ log[i].req = r
        BY <3>1, <4>1
      <4> QED BY <3>2, <4>2 DEF Ends
    <3>3. ASSUME NEW k \in 1..n, i = Len(log) + k PROVE drained[k] = r
      <4>1. log'[i] = ends[k]
        BY <1>6, <3>3
      <4> QED BY <1>3, <3>1, <4>1
    <3> QED BY <1>11, <3>1, <3>2, <3>3
  <2>2. ASSUME NEW i, i \in Ends(r) PROVE i \in Ends(r)'
    BY <1>6, <1>10, <2>2 DEF Ends
  <2>3. ASSUME NEW k \in 1..n, drained[k] = r PROVE Len(log) + k \in Ends(r)'
    BY <1>3, <1>6, <1>12, <2>3 DEF Ends
  <2> QED BY <2>1, <2>2, <2>3
<1>8. r \notin registry => Ends(r)' = Ends(r)
  <2> SUFFICES ASSUME r \notin registry PROVE Ends(r)' = Ends(r)
    OBVIOUS
  <2>1. \A k \in 1..n : drained[k] # r
    BY <1>2
  <2>2. \A i : i \in Ends(r)' <=> i \in Ends(r)
    BY <1>7, <2>1
  <2> QED BY <2>2
<1>9. r \in registry /\ Ends(r) = {} =>
          \E i \in Ends(r)' : Ends(r)' = {i} /\ log'[i].outcome = "refused"
  <2> SUFFICES ASSUME r \in registry, Ends(r) = {}
               PROVE  \E i \in Ends(r)' : Ends(r)' = {i} /\ log'[i].outcome = "refused"
    OBVIOUS
  <2>1. PICK k \in 1..n : drained[k] = r
    BY <1>2
  <2>2. Ends(r)' = {Len(log) + k}
    BY <1>2, <1>7, <2>1
  <2>3. log'[Len(log) + k].outcome = "refused"
    BY <1>3, <1>6
  <2> QED BY <2>2, <2>3
<1> QED BY <1>6, <1>8, <1>9, <1>10

-----------------------------------------------------------------------------
(* One step of the engine's side.                                          *)

LEMMA PublishedLog ==
    ASSUME NEW events, Publish(events) PROVE log' = log \o events
  BY DEF Publish

\* A request that an event is not about, and whose call does not move.
LEMMA StillSettled ==
    ASSUME EngineInv, NEW r \in Requests,
           Ends(r)' = Ends(r), \A i \in DOMAIN log : log'[i] = log[i],
           issue'[r] = issue[r], r \in registry' <=> r \in registry
    PROVE  Settled(r)'
<1>1. \A i \in Ends(r) : log'[i] = log[i]
  BY DEF Ends
<1>2. Waited(r) /\ AnnouncedOnce(r) /\ Agreed(r)
  BY DEF EngineInv, Settled
<1> QED BY <1>1, <1>2 DEF Settled, Waited, AnnouncedOnce, Agreed

\* Nothing of it moves, and no answer is anything but an answer.
LEMMA Untouched ==
    ASSUME EngineInv, UNCHANGED <<log, registry, issue>>,
           \A a \in answers' : a.says \in {"granted", "refused"}
    PROVE  EngineInv'
  BY DEF EngineInv, EngineTyped, Settled, Waited, AnnouncedOnce, Agreed, Ends

\* A pending request leaves the registry with an announcement.
LEMMA OneEnd ==
    ASSUME EngineInv, NEW q \in registry, NEW outcome \in {"granted", "refused"},
           Publish(<<Resolved(q, outcome, registry \ {q})>>)
    PROVE  /\ log' \in Seq(Events)
           /\ \A i \in DOMAIN log : log'[i] = log[i]
           /\ \A r \in Requests \ {q} : Ends(r)' = Ends(r)
           /\ \E i \in Ends(q)' : Ends(q)' = {i} /\ log'[i].outcome = outcome
<1> DEFINE e == Resolved(q, outcome, registry \ {q})
<1>1. /\ log \in Seq(Events) /\ registry \subseteq Requests /\ q \in Requests
      /\ Ends(q) = {}
  BY DEF EngineInv, EngineTyped, Settled, AnnouncedOnce
<1>2. /\ e \in Events /\ e.kind = "resolved" /\ e.req = q /\ e.outcome = outcome
  BY <1>1 DEF Resolved, Events
<1>3. log' = log \o <<e>>
  BY PublishedLog
<1> HIDE DEF e
<1>4. log' \in Seq(Events) /\ (\A i \in DOMAIN log : log'[i] = log[i])
  BY <1>1, <1>2, <1>3, OneMore
<1>5. ASSUME NEW r \in Requests \ {q} PROVE Ends(r)' = Ends(r)
  BY <1>1, <1>2, <1>3, <1>5, OneMore
<1>6. Ends(q)' = Ends(q) \cup {Len(log) + 1} /\ log'[Len(log) + 1] = e
  BY <1>1, <1>2, <1>3, OneMore
<1>7. Ends(q)' = {Len(log) + 1}
  BY <1>1, <1>6
<1> QED BY <1>2, <1>4, <1>5, <1>6, <1>7

\* resolve_inner keeps the invariant, whoever calls it.
LEMMA ResolveSettles ==
    ASSUME EngineInv, NEW q, NEW outcome \in {"granted", "refused"}, Resolve(q, outcome),
           \A a \in answers' : a.says \in {"granted", "refused"}
    PROVE  EngineInv'
<1>1. CASE q \notin registry
  BY <1>1, Untouched DEF Resolve
<1>2. CASE q \in registry
  <2>1. /\ registry' = registry \ {q}
        /\ issue' = [issue EXCEPT ![q].outcome = outcome]
        /\ Publish(<<Resolved(q, outcome, registry \ {q})>>)
    BY <1>2 DEF Resolve
  <2>2. registry \subseteq Requests /\ issue \in [Requests -> Calls] /\ q \in Requests
    BY <1>2 DEF EngineInv, EngineTyped
  <2>3. /\ log' \in Seq(Events)
        /\ \A i \in DOMAIN log : log'[i] = log[i]
        /\ \A r \in Requests \ {q} : Ends(r)' = Ends(r)
        /\ \E i \in Ends(q)' : Ends(q)' = {i} /\ log'[i].outcome = outcome
    BY <1>2, <2>1, OneEnd
  <2>4. issue' \in [Requests -> Calls]
    BY <2>1, <2>2 DEF Calls
  <2>5. issue'[q].outcome = outcome /\ issue'[q].at = issue[q].at
    BY <2>1, <2>2 DEF Calls
  <2>6. issue[q].at # "unasked" /\ issue[q].outcome = "none"
        /\ (issue[q].at = "granted" => issue[q].outcome = "granted")
    BY <1>2, <2>2 DEF EngineInv, Settled, Waited, Agreed
  <2>7. Settled(q)'
    BY <2>1, <2>3, <2>5, <2>6 DEF Settled, Waited, AnnouncedOnce, Agreed
  <2>8. ASSUME NEW r \in Requests \ {q} PROVE Settled(r)'
    <3>1. issue'[r] = issue[r] /\ (r \in registry' <=> r \in registry)
      BY <2>1, <2>2, <2>8
    <3> QED BY <2>3, <2>8, <3>1, StillSettled
  <2> QED BY <2>1, <2>2, <2>3, <2>4, <2>7, <2>8 DEF EngineInv, EngineTyped
<1> QED BY <1>1, <1>2

-----------------------------------------------------------------------------
(* The invariant.                                                          *)

LEMMA Start == Init => EngineInv
<1> SUFFICES ASSUME Init PROVE EngineInv
  OBVIOUS
<1>1. EngineTyped
  BY DEF Init, EngineTyped, Calls
<1>2. \A r \in Requests : issue[r].at = "unasked" /\ issue[r].outcome = "none"
  BY DEF Init
<1>3. \A r : Ends(r) = {}
  BY DEF Init, Ends
<1> QED BY <1>1, <1>2, <1>3 DEF Init, EngineInv, Settled, Waited, AnnouncedOnce, Agreed

\* A step of the invariant that moves one call, and no log.
LEMMA CallMoves ==
    ASSUME EngineInv, NEW q \in Requests, NEW call \in Calls,
           UNCHANGED <<log, registry, answers>>, issue' = [issue EXCEPT ![q] = call],
           call.outcome = issue[q].outcome,
           call.at # "unasked" /\ issue[q].at # "unasked",
           call.at = "granted" => call.outcome = "granted"
    PROVE  EngineInv'
<1>1. registry \subseteq Requests /\ issue \in [Requests -> Calls]
  BY DEF EngineInv, EngineTyped
<1>2. EngineTyped'
  BY <1>1 DEF EngineInv, EngineTyped
<1>3. \A r : Ends(r)' = Ends(r)
  BY DEF Ends
<1>4. Settled(q)'
  BY <1>1, <1>3 DEF EngineInv, Settled, Waited, AnnouncedOnce, Agreed
<1>5. ASSUME NEW r \in Requests \ {q} PROVE Settled(r)'
  BY <1>1, <1>3, <1>5, StillSettled
<1> QED BY <1>2, <1>4, <1>5 DEF EngineInv

LEMMA IssueSettles ==
    ASSUME EngineInv, NEW q \in Requests, Issue(q) PROVE EngineInv'
<1>1. /\ log \in Seq(Events) /\ registry \subseteq Requests /\ issue \in [Requests -> Calls]
      /\ issue[q].at = "unasked" /\ q \notin registry /\ Ends(q) = {}
  BY DEF Issue, EngineInv, EngineTyped, Settled, Waited, AnnouncedOnce
<1>2. /\ issue' = [issue EXCEPT ![q] = [at |-> "asked", outcome |-> "none"]]
      /\ registry' = registry \cup {q}
      /\ log' = log \o <<Pending(q)>>
  BY PublishedLog DEF Issue
<1>3. Pending(q) \in Events /\ Pending(q).kind = "pending"
  BY <1>1 DEF Pending, Events
<1>4. /\ log' \in Seq(Events)
      /\ \A i \in DOMAIN log : log'[i] = log[i]
  BY <1>1, <1>2, <1>3, OneMore
<1>5. ASSUME NEW r PROVE Ends(r)' = Ends(r)
  BY <1>1, <1>2, <1>3, OneMore
<1>6. EngineTyped'
  BY <1>1, <1>2, <1>4 DEF EngineInv, EngineTyped, Issue, Calls
<1>7. issue'[q].at = "asked" /\ issue'[q].outcome = "none" /\ q \in registry'
  BY <1>1, <1>2
<1>8. Settled(q)'
  BY <1>1, <1>5, <1>7 DEF Settled, Waited, AnnouncedOnce, Agreed
<1>9. ASSUME NEW r \in Requests \ {q} PROVE Settled(r)'
  <2>1. issue'[r] = issue[r] /\ (r \in registry' <=> r \in registry)
    BY <1>1, <1>2, <1>9
  <2> QED BY <1>4, <1>5, <1>9, <2>1, StillSettled
<1> QED BY <1>6, <1>8, <1>9 DEF EngineInv

LEMMA GiveUpSettles ==
    ASSUME EngineInv, NEW q \in Requests, GiveUp(q) PROVE EngineInv'
<1> DEFINE call == [issue[q] EXCEPT !.at = "refused"]
<1>1. /\ registry \subseteq Requests /\ issue \in [Requests -> Calls]
      /\ issue[q].at = "waiting"
      /\ issue' = [issue EXCEPT ![q].at = "refused"]
      /\ Withdraw(q) /\ answers' = answers
  BY DEF GiveUp, EngineInv, EngineTyped
<1>2. /\ call \in Calls /\ issue' = [issue EXCEPT ![q] = call]
      /\ call.at = "refused" /\ call.outcome = issue[q].outcome
  BY <1>1 DEF Calls
<1>3. CASE q \notin registry
  <2>1. UNCHANGED <<log, registry, answers>>
    BY <1>1, <1>3 DEF Withdraw
  <2> QED BY <1>1, <1>2, <2>1, CallMoves
<1>4. CASE q \in registry
  <2>1. registry' = registry \ {q} /\ Publish(<<Resolved(q, "refused", registry \ {q})>>)
    BY <1>1, <1>4 DEF Withdraw
  <2>2. /\ log' \in Seq(Events)
        /\ \A i \in DOMAIN log : log'[i] = log[i]
        /\ \A r \in Requests \ {q} : Ends(r)' = Ends(r)
        /\ \E i \in Ends(q)' : Ends(q)' = {i} /\ log'[i].outcome = "refused"
    BY <1>4, <2>1, OneEnd
  <2>3. issue'[q].at = "refused" /\ issue'[q].outcome = "none"
    <3>1. issue[q].outcome = "none"
      BY <1>4 DEF EngineInv, Settled, Waited
    <3> QED BY <1>1, <1>2, <3>1
  <2>4. Settled(q)'
    BY <2>1, <2>2, <2>3 DEF Settled, Waited, AnnouncedOnce, Agreed
  <2>5. ASSUME NEW r \in Requests \ {q} PROVE Settled(r)'
    <3>1. issue'[r] = issue[r] /\ (r \in registry' <=> r \in registry)
      BY <1>1, <2>1, <2>5
    <3> QED BY <2>2, <2>5, <3>1, StillSettled
  <2>6. EngineTyped'
    BY <1>1, <1>2, <2>1, <2>2 DEF EngineInv, EngineTyped
  <2> QED BY <2>4, <2>5, <2>6 DEF EngineInv
<1> QED BY <1>3, <1>4

LEMMA FailAllSettles ==
    ASSUME EngineInv, FailAll PROVE EngineInv'
<1>1. /\ EngineTyped /\ registry \subseteq Requests /\ issue \in [Requests -> Calls]
      /\ registry' = {} /\ answers' = answers
      /\ issue' = [r \in Requests |->
            IF r \in registry THEN [issue[r] EXCEPT !.outcome = "refused"] ELSE issue[r]]
  BY DEF FailAll, EngineInv, EngineTyped
<1>2. PICK drained \in Bijection(1..Cardinality(registry), registry) :
          Publish([k \in 1..Cardinality(registry) |-> Resolved(drained[k], "refused", {})])
  BY DEF FailAll
<1>3. log' = log \o [k \in 1..Cardinality(registry) |-> Resolved(drained[k], "refused", {})]
  BY <1>2, PublishedLog
<1>4. ASSUME NEW r \in Requests
      PROVE  /\ log' \in Seq(Events)
             /\ \A i \in DOMAIN log : log'[i] = log[i] /\ i \in DOMAIN log'
             /\ r \notin registry => Ends(r)' = Ends(r)
             /\ r \in registry /\ Ends(r) = {} =>
                   \E i \in Ends(r)' : Ends(r)' = {i} /\ log'[i].outcome = "refused"
  BY <1>1, <1>3, AllDrained
<1>5. issue' \in [Requests -> Calls]
  BY <1>1 DEF Calls
<1>6. ASSUME NEW r \in Requests \ registry PROVE Settled(r)'
  <2>1. issue'[r] = issue[r] /\ (r \in registry' <=> r \in registry)
    BY <1>1, <1>6
  <2> QED BY <1>4, <1>6, <2>1, StillSettled
<1>7. ASSUME NEW r \in registry PROVE Settled(r)'
  <2>1. r \in Requests
    BY <1>1
  <2>2. /\ Ends(r) = {} /\ issue[r].at # "unasked" /\ issue[r].outcome = "none"
        /\ issue[r].at # "granted"
    BY <2>1 DEF EngineInv, Settled, Waited, AnnouncedOnce, Agreed
  <2>3. \E i \in Ends(r)' : Ends(r)' = {i} /\ log'[i].outcome = "refused"
    BY <1>4, <2>1, <2>2
  <2>4. issue'[r].at = issue[r].at /\ issue'[r].outcome = "refused" /\ r \notin registry'
    BY <1>1, <2>1 DEF Calls
  <2> QED BY <2>2, <2>3, <2>4 DEF Settled, Waited, AnnouncedOnce, Agreed
<1>8. log' \in Seq(Events)
  <2>1. CASE registry = {}
    BY <2>1 DEF FailAll
  <2>2. CASE registry # {}
    BY <1>1, <1>4, <2>2
  <2> QED BY <2>1, <2>2
<1>9. EngineTyped'
  BY <1>1, <1>5, <1>8 DEF EngineInv, EngineTyped
<1> QED BY <1>1, <1>6, <1>7, <1>9 DEF EngineInv

LEMMA EngineStep == EngineInv /\ [Next]_vars => EngineInv'
<1> SUFFICES ASSUME EngineInv, [Next]_vars PROVE EngineInv'
  OBVIOUS
<1>1. /\ issue \in [Requests -> Calls]
      /\ \A a \in answers : a.says \in {"granted", "refused"}
      /\ Says \subseteq {"granted", "refused"}
  BY ConstantsAssumption DEF EngineInv, EngineTyped
<1>2. ASSUME NEW q \in Requests, SendRaw(q) PROVE EngineInv'
  <2> DEFINE call == [issue[q] EXCEPT !.at = "waiting"]
  <2>1. /\ call \in Calls /\ issue' = [issue EXCEPT ![q] = call]
        /\ issue[q].at = "asked" /\ call.at = "waiting" /\ call.outcome = issue[q].outcome
    BY <1>1, <1>2 DEF SendRaw, Calls
  <2> QED BY <1>2, <2>1, CallMoves DEF SendRaw
<1>3. ASSUME NEW q \in Requests, Return(q) PROVE EngineInv'
  <2> DEFINE call == [issue[q] EXCEPT !.at = issue[q].outcome]
  <2>1. /\ call \in Calls /\ issue' = [issue EXCEPT ![q] = call]
        /\ issue[q].at = "waiting" /\ call.at # "unasked"
        /\ call.at = issue[q].outcome /\ call.outcome = issue[q].outcome
    BY <1>1, <1>3 DEF Return, Calls
  <2> QED BY <1>3, <2>1, CallMoves DEF Return
<1>4. ASSUME NEW a, RouteResponse(a) PROVE EngineInv'
  BY <1>1, <1>4, ResolveSettles DEF RouteResponse
<1>5. ASSUME Receive PROVE EngineInv'
  <2>1. \A a \in answers' : a.says \in {"granted", "refused"}
    BY <1>1, <1>5 DEF Receive, Declines
  <2> QED BY <1>5, <2>1, Untouched DEF Receive, engineVars
<1>6. ASSUME ReadState PROVE EngineInv'
  BY <1>1, <1>6, Untouched DEF ReadState, engineVars
<1>7. ASSUME NEW says \in Says, AnswerRaw(says) PROVE EngineInv'
  <2>1. \A a \in answers' : a.says \in {"granted", "refused"}
    BY <1>1, <1>7 DEF AnswerRaw
  <2> QED BY <1>7, <2>1, Untouched DEF AnswerRaw, engineVars
<1>8. ASSUME NEW says \in Says, AnswerRpc(says) PROVE EngineInv'
  <2>1. answers' = answers /\ Resolve(TakeCurrent.req, says)
    BY <1>8 DEF AnswerRpc
  <2> QED BY <1>1, <2>1, ResolveSettles
<1>9. ASSUME NEW says \in Says, AnswerUnacknowledged(says) PROVE EngineInv'
  <2>1. \A a \in answers' : a.says \in {"granted", "refused"}
    BY <1>1, <1>9 DEF AnswerUnacknowledged
  <2> QED BY <1>9, <2>1, Untouched DEF AnswerUnacknowledged, engineVars
<1>10. ASSUME EndTurn PROVE EngineInv'
  BY <1>1, <1>10, Untouched DEF EndTurn
<1>11. CASE UNCHANGED vars
  BY <1>1, <1>11, Untouched DEF vars, engineVars
<1> QED
  BY <1>2, <1>3, <1>4, <1>5, <1>6, <1>7, <1>8, <1>9, <1>10, <1>11,
     IssueSettles, GiveUpSettles, FailAllSettles
     DEF Next, Work, OperatorAnswers

(* Each request has one public outcome, announced when it leaves the       *)
(* registry, and a call returns a grant only if that outcome is a grant:   *)
(* for any number of requests, any answers, duplicates and timeouts, and   *)
(* any client.                                                             *)
THEOREM OneOutcomeAlways == Spec => []OneOutcome
<1>1. EngineInv => OneOutcome
  <2> SUFFICES ASSUME EngineInv, NEW r \in Requests
               PROVE /\ issue[r].at = "unasked" \/ r \in registry => Ends(r) = {}
                     /\ issue[r].at # "unasked" /\ r \notin registry =>
                            \E i \in Ends(r) : Ends(r) = {i}
                     /\ issue[r].at = "granted" => \A i \in Ends(r) : log[i].outcome = "granted"
    BY DEF OneOutcome
  <2> QED BY DEF EngineInv, Settled, AnnouncedOnce, Agreed
<1>2. Spec => []EngineInv
  BY Start, EngineStep, PTL DEF Spec
<1> QED BY <1>1, <1>2, PTL
-----------------------------------------------------------------------------
(* The client's side: the queue of decisions and the screen.               *)

Client == [cursor: Nat, owed: BOOLEAN, queue: Seq(Interaction), screen: Requests \cup {None}]

\* Each request of a queue, with the engine time it was learned at.
Marks(queue) == {<<queue[i].req, queue[i].learned>> : i \in DOMAIN queue}

Distinct(queue) == \A i, j \in DOMAIN queue : queue[i].req = queue[j].req => i = j

\* What is shown is the head of the queue.
Shown(c) == c.screen # None => c.queue # <<>> /\ c.queue[1].req = c.screen

Sane(c) == c \in Client /\ Distinct(c.queue) /\ Shown(c)

LEMMA Nonempty ==
    ASSUME NEW T, NEW s \in Seq(T), s # <<>>
    PROVE  /\ Len(s) \in Nat \ {0} /\ 1 \in DOMAIN s /\ Head(s) = s[1] /\ s[1] \in T
           /\ Tail(s) \in Seq(T) /\ Len(Tail(s)) = Len(s) - 1
           /\ \A k \in DOMAIN Tail(s) : k + 1 \in DOMAIN s /\ Tail(s)[k] = s[k + 1]
           /\ \A i \in DOMAIN s : i # 1 => i - 1 \in DOMAIN Tail(s) /\ Tail(s)[i - 1] = s[i]
<1>1. /\ Len(s) \in Nat \ {0} /\ Head(s) = s[1] /\ DOMAIN s = 1..Len(s)
      /\ Tail(s) \in Seq(T) /\ Len(Tail(s)) = Len(s) - 1
      /\ DOMAIN Tail(s) = 1..(Len(s) - 1)
  OBVIOUS
<1>2. \A k \in 1..(Len(s) - 1) : k + 1 \in 1..Len(s) /\ Tail(s)[k] = s[k + 1]
  BY <1>1
<1>3. ASSUME NEW i \in 1..Len(s), i # 1
      PROVE  i - 1 \in 1..(Len(s) - 1) /\ Tail(s)[i - 1] = s[i]
  <2>1. i - 1 \in 1..(Len(s) - 1) /\ (i - 1) + 1 = i
    BY <1>1, <1>3
  <2> QED BY <1>2, <2>1
<1>4. 1 \in DOMAIN s /\ s[1] \in T
  BY <1>1
<1> QED BY <1>1, <1>2, <1>3, <1>4

LEMMA FunctionIsSeq ==
    ASSUME NEW T, NEW n \in Nat, NEW s \in [1..n -> T]
    PROVE  s \in Seq(T) /\ Len(s) = n /\ DOMAIN s = 1..n
  OBVIOUS

LEMMA ListedByMarks ==
    ASSUME NEW queue, NEW r
    PROVE  r \in Listed(queue) <=> \E m \in Marks(queue) : m[1] = r
<1>1. ASSUME r \in Listed(queue) PROVE \E m \in Marks(queue) : m[1] = r
  <2>1. PICK i \in DOMAIN queue : queue[i].req = r
    BY <1>1 DEF Listed
  <2>2. <<queue[i].req, queue[i].learned>> \in Marks(queue)
    BY DEF Marks
  <2> QED BY <2>1, <2>2
<1>2. ASSUME NEW m \in Marks(queue), m[1] = r PROVE r \in Listed(queue)
  BY <1>2 DEF Marks, Listed
<1> QED BY <1>1, <1>2

\* open_current_prompt shows the head of the queue and moves nothing else.
LEMMA Opened ==
    ASSUME NEW c \in Client, Distinct(c.queue), Shown(c)
    PROVE  /\ Sane(OpenCurrent(c)) /\ OpenCurrent(c).queue = c.queue
           /\ OpenCurrent(c).cursor = c.cursor /\ OpenCurrent(c).owed = c.owed
<1>1. CASE c.screen = None /\ c.queue # <<>>
  <2>1. c.queue \in Seq(Interaction)
    BY DEF Client
  <2>2. Head(c.queue) = c.queue[1] /\ c.queue[1] \in Interaction
    BY <1>1, <2>1, Nonempty
  <2>3. Head(c.queue).req \in Requests
    BY <2>2 DEF Interaction
  <2>4. OpenCurrent(c) = [c EXCEPT !.screen = Head(c.queue).req]
    BY <1>1 DEF OpenCurrent
  <2>5. /\ OpenCurrent(c) \in Client /\ OpenCurrent(c).queue = c.queue
        /\ OpenCurrent(c).cursor = c.cursor /\ OpenCurrent(c).owed = c.owed
        /\ OpenCurrent(c).screen = Head(c.queue).req
    BY <2>3, <2>4 DEF Client
  <2> QED BY <1>1, <2>2, <2>5 DEF Sane, Shown
<1>2. CASE ~(c.screen = None /\ c.queue # <<>>)
  <2>1. OpenCurrent(c) = c
    BY <1>2 DEF OpenCurrent
  <2> QED BY <2>1 DEF Sane
<1> QED BY <1>1, <1>2

\* on_server_request: the request is in the queue, and nothing else changes
\* that a later list could tell.
LEMMA RequestQueued ==
    ASSUME NEW c, Sane(c), NEW r \in Requests
    PROVE  LET d == OnServerRequest(c, r)
           IN  /\ Sane(d) /\ d.cursor = c.cursor /\ d.owed = c.owed
               /\ Marks(d.queue) \subseteq Marks(c.queue) \cup {<<r, None>>}
               /\ Marks(c.queue) \subseteq Marks(d.queue)
               /\ r \in Listed(d.queue)
<1> DEFINE q == c.queue
<1>1. /\ c \in Client /\ q \in Seq(Interaction) /\ Distinct(q) /\ Shown(c)
      /\ Len(q) \in Nat /\ DOMAIN q = 1..Len(q)
  BY DEF Sane, Client
<1>2. CASE r \in Listed(q)
  <2> DEFINE p == [i \in DOMAIN q |->
                     IF q[i].req = r THEN [q[i] EXCEPT !.responder = TRUE] ELSE q[i]]
             e == [c EXCEPT !.queue = p]
  <2>1. OnServerRequest(c, r) = OpenCurrent(e)
    BY <1>2 DEF OnServerRequest
  <2>2. ASSUME NEW i \in DOMAIN q
        PROVE  p[i] \in Interaction /\ p[i].req = q[i].req /\ p[i].learned = q[i].learned
    <3>1. q[i] \in Interaction
      BY <1>1
    <3> QED BY <3>1 DEF Interaction
  <2>3. DOMAIN p = DOMAIN q /\ p \in Seq(Interaction)
    <3>1. DOMAIN p = 1..Len(q)
      BY <1>1
    <3>2. p \in [1..Len(q) -> Interaction]
      <4>1. \A i \in 1..Len(q) : p[i] \in Interaction
        BY <1>1, <2>2
      <4> QED BY <1>1, <4>1
    <3> HIDE DEF Interaction, p
    <3> QED BY <1>1, <3>1, <3>2, FunctionIsSeq
  <2>4. e \in Client /\ e.queue = p /\ e.screen = c.screen /\ e.cursor = c.cursor /\ e.owed = c.owed
    BY <1>1, <2>3 DEF Client
  <2>5. Marks(p) = Marks(q)
    BY <2>2, <2>3 DEF Marks
  <2>6. Distinct(p)
    BY <1>1, <2>2, <2>3 DEF Distinct
  <2>7. Shown(e)
    <3> SUFFICES ASSUME e.screen # None PROVE e.queue # <<>> /\ e.queue[1].req = e.screen
      BY DEF Shown
    <3>1. q # <<>> /\ q[1].req = c.screen
      BY <1>1, <2>4 DEF Shown
    <3>2. 1 \in DOMAIN q
      BY <1>1, <3>1, Nonempty
    <3>3. p[1].req = c.screen /\ p # <<>>
      BY <2>2, <2>3, <3>1, <3>2
    <3> QED BY <2>4, <3>3
  <2>8. r \in Listed(p)
    BY <1>2, <2>5, ListedByMarks
  <2> HIDE DEF e, p
  <2>9. /\ Sane(OpenCurrent(e)) /\ OpenCurrent(e).queue = p
        /\ OpenCurrent(e).cursor = c.cursor /\ OpenCurrent(e).owed = c.owed
    BY <2>4, <2>6, <2>7, Opened
  <2> QED BY <2>1, <2>5, <2>8, <2>9
<1>3. CASE r \notin Listed(q)
  <2> DEFINE x == [req |-> r, learned |-> None, responder |-> TRUE]
             p == Append(q, x)
             e == [c EXCEPT !.queue = p]
  <2>1. OnServerRequest(c, r) = OpenCurrent(e)
    BY <1>3 DEF OnServerRequest
  <2>2. x \in Interaction /\ x.req = r /\ x.learned = None
    BY DEF Interaction, None
  <2> HIDE DEF x
  <2>3. /\ p \in Seq(Interaction) /\ Len(p) = Len(q) + 1 /\ DOMAIN p = 1..(Len(q) + 1)
        /\ \A i \in 1..Len(q) : p[i] = q[i]
        /\ p[Len(q) + 1] = x
    BY <1>1, <2>2
  <2>4. e \in Client /\ e.queue = p /\ e.screen = c.screen /\ e.cursor = c.cursor /\ e.owed = c.owed
    BY <1>1, <2>3 DEF Client
  <2> HIDE DEF e, p
  <2>5. \A i \in DOMAIN p : i \in DOMAIN q \/ i = Len(q) + 1
    BY <1>1, <2>3
  <2>6. \A i \in DOMAIN q : i \in DOMAIN p
    BY <1>1, <2>3
  <2>7. Len(q) + 1 \in DOMAIN p
    BY <1>1, <2>3
  <2>8. \A i \in DOMAIN q : q[i].req # r
    BY <1>3 DEF Listed
  <2>9. Distinct(p)
    <3> SUFFICES ASSUME NEW i \in DOMAIN p, NEW j \in DOMAIN p, p[i].req = p[j].req PROVE i = j
      BY DEF Distinct
    <3> QED BY <1>1, <2>2, <2>3, <2>5, <2>8 DEF Distinct
  <2>10. Marks(p) \subseteq Marks(q) \cup {<<r, None>>}
    BY <1>1, <2>2, <2>3, <2>5 DEF Marks
  <2>11. Marks(q) \subseteq Marks(p)
    <3> SUFFICES ASSUME NEW i \in DOMAIN q PROVE <<q[i].req, q[i].learned>> \in Marks(p)
      BY DEF Marks
    <3>1. i \in DOMAIN p /\ p[i] = q[i]
      BY <1>1, <2>3, <2>6
    <3> QED BY <3>1 DEF Marks
  <2>12. r \in Listed(p)
    BY <2>2, <2>3, <2>7 DEF Listed
  <2>13. Shown(e)
    <3> SUFFICES ASSUME e.screen # None PROVE e.queue # <<>> /\ e.queue[1].req = e.screen
      BY DEF Shown
    <3>1. q # <<>> /\ q[1].req = c.screen
      BY <1>1, <2>4 DEF Shown
    <3>2. 1 \in DOMAIN q
      BY <1>1, <3>1, Nonempty
    <3>3. p[1] = q[1] /\ p # <<>>
      BY <1>1, <2>3, <2>6, <3>2
    <3> QED BY <2>4, <3>1, <3>3
  <2>14. /\ Sane(OpenCurrent(e)) /\ OpenCurrent(e).queue = p
         /\ OpenCurrent(e).cursor = c.cursor /\ OpenCurrent(e).owed = c.owed
    BY <2>4, <2>9, <2>13, Opened
  <2> QED BY <2>1, <2>10, <2>11, <2>12, <2>14
<1> QED BY <1>2, <1>3

\* What a filter leaves of a queue of different requests.
LEMMA Filtered ==
    ASSUME NEW f \in Seq(Interaction), Distinct(f), NEW I \in SUBSET DOMAIN f
    PROVE  /\ At(f, I) \in Seq(Interaction) /\ Distinct(At(f, I))
           /\ \A m \in Marks(At(f, I)) : \E i \in I : m = <<f[i].req, f[i].learned>>
           /\ \A i \in I : f[i].req \in Listed(At(f, I))
           /\ 1 \in I => At(f, I) # <<>> /\ At(f, I)[1] = f[1]
<1> DEFINE K == At(f, I)
           n == Cardinality(I)
<1>1. /\ K \in Seq(Interaction)
      /\ Len(K) = n /\ n \in Nat
      /\ DOMAIN K = 1..n
      /\ \A k \in 1..n : Ascending(I)[k] \in I /\ K[k] = f[Ascending(I)[k]]
      /\ \A i \in I : \E k \in 1..n : Ascending(I)[k] = i /\ K[k] = f[i]
      /\ \A j, k \in 1..n : j < k => Ascending(I)[j] < Ascending(I)[k]
  BY AtKeeps
<1>2. DOMAIN f = 1..Len(f) /\ Len(f) \in Nat
  OBVIOUS
<1>3. I \in SUBSET (1..Len(f))
  BY <1>2
<1> HIDE DEF K, n
<1>4. Distinct(K)
  <2> SUFFICES ASSUME NEW j \in 1..n, NEW k \in 1..n, K[j].req = K[k].req PROVE j = k
    BY <1>1 DEF Distinct
  <2>1. f[Ascending(I)[j]].req = f[Ascending(I)[k]].req
    BY <1>1
  <2>2. Ascending(I)[j] \in DOMAIN f /\ Ascending(I)[k] \in DOMAIN f
    BY <1>1
  <2>3. Ascending(I)[j] = Ascending(I)[k]
    BY <2>1, <2>2 DEF Distinct
  <2>4. Ascending(I)[j] \in Nat
    BY <1>2, <2>2
  <2> QED BY <1>1, <2>3, <2>4
<1>5. ASSUME NEW m \in Marks(K) PROVE \E i \in I : m = <<f[i].req, f[i].learned>>
  <2>1. PICK k \in 1..n : m = <<K[k].req, K[k].learned>>
    BY <1>1 DEF Marks
  <2> QED BY <1>1, <2>1
<1>6. ASSUME NEW i \in I PROVE f[i].req \in Listed(K)
  <2>1. PICK k \in 1..n : K[k] = f[i]
    BY <1>1
  <2> QED BY <1>1, <2>1 DEF Listed
<1>7. 1 \in I => K # <<>> /\ K[1] = f[1]
  <2> SUFFICES ASSUME 1 \in I PROVE K # <<>> /\ K[1] = f[1]
    OBVIOUS
  <2>1. 1 \in 1..n /\ Ascending(I)[1] = 1
    BY <1>2, <1>3, FirstStaysFirst DEF n
  <2>2. 1 \in DOMAIN K
    BY <1>1, <2>1
  <2> QED BY <1>1, <2>1, <2>2
<1> QED BY <1>1, <1>4, <1>5, <1>6, <1>7 DEF K

LEMMA Relearned ==
    ASSUME NEW e \in Interaction, NEW time \in Nat
    PROVE  /\ [e EXCEPT !.learned = time] \in Interaction
           /\ [e EXCEPT !.learned = time].req = e.req
           /\ [e EXCEPT !.learned = time].learned = time
  BY DEF Interaction

\* on_discovered: the queue keeps its order, and the new requests of the list
\* come after it.
LEMMA DiscoveredQueue ==
    ASSUME NEW queue \in Seq(Interaction), Distinct(queue),
           NEW listed \in SUBSET Requests, NEW time \in Nat
    PROVE  LET found == Discovered(queue, listed, time)
           IN  /\ found \in Seq(Interaction) /\ Distinct(found)
               /\ DOMAIN queue \subseteq DOMAIN found
               /\ \A i \in DOMAIN queue :
                     /\ found[i].req = queue[i].req
                     /\ \/ found[i].learned = queue[i].learned
                        \/ (found[i].learned = time /\ queue[i].req \in listed)
               /\ \A i \in DOMAIN found \ DOMAIN queue :
                     found[i].req \in listed /\ found[i].learned = time
               /\ listed \subseteq Listed(found)
<1> DEFINE N == listed \ Listed(queue)
           n == Cardinality(N)
           new == Ascending(N)
           marked == [i \in DOMAIN queue |->
               IF queue[i].req \in listed /\ (queue[i].learned = None \/ queue[i].learned > time)
               THEN [queue[i] EXCEPT !.learned = time] ELSE queue[i]]
           added == [k \in DOMAIN new |-> [req |-> new[k], learned |-> time, responder |-> FALSE]]
           found == marked \o added
<1>1. /\ n \in Nat /\ new \in [1..n -> N]
      /\ \A i, j \in 1..n : i < j => new[i] < new[j]
      /\ \A x \in N : \E k \in 1..n : new[k] = x
  <2>1. MaxRequests \in Nat /\ N \in SUBSET (1..MaxRequests)
    BY ConstantsAssumption DEF Requests
  <2> HIDE DEF N
  <2> QED BY <2>1, AscendingLists
<1>2. DOMAIN queue = 1..Len(queue) /\ Len(queue) \in Nat
  OBVIOUS
<1>3. ASSUME NEW i \in DOMAIN queue
      PROVE  /\ marked[i] \in Interaction /\ marked[i].req = queue[i].req
             /\ \/ marked[i].learned = queue[i].learned
                \/ (marked[i].learned = time /\ queue[i].req \in listed)
  <2>1. queue[i] \in Interaction
    BY <1>2
  <2>2. CASE queue[i].req \in listed /\ (queue[i].learned = None \/ queue[i].learned > time)
    <3> DEFINE x == [queue[i] EXCEPT !.learned = time]
    <3>1. marked[i] = x
      BY <2>2
    <3>2. x \in Interaction /\ x.req = queue[i].req /\ x.learned = time
      BY <2>1, Relearned
    <3> HIDE DEF marked, x
    <3> QED BY <2>2, <3>1, <3>2
  <2>3. CASE ~(queue[i].req \in listed /\ (queue[i].learned = None \/ queue[i].learned > time))
    <3>1. marked[i] = queue[i]
      BY <2>3
    <3> QED BY <2>1, <3>1
  <2> QED BY <2>2, <2>3
<1>4. /\ marked \in Seq(Interaction) /\ Len(marked) = Len(queue)
      /\ DOMAIN marked = DOMAIN queue
  <2>1. marked \in [1..Len(queue) -> Interaction]
    <3>1. \A i \in 1..Len(queue) : marked[i] \in Interaction
      BY <1>2, <1>3
    <3>2. DOMAIN queue = 1..Len(queue)
      BY <1>2
    <3> QED BY <3>1, <3>2
  <2> HIDE DEF marked, Interaction
  <2> QED BY <1>2, <2>1, FunctionIsSeq
<1>5. ASSUME NEW k \in 1..n
      PROVE  /\ added[k] \in Interaction /\ added[k].req = new[k] /\ added[k].req \in N
             /\ added[k].learned = time
  <2>1. new[k] \in N /\ DOMAIN new = 1..n
    BY <1>1
  <2>2. new[k] \in Requests
    BY <2>1
  <2> HIDE DEF n, new, N
  <2> QED BY <2>1, <2>2 DEF Interaction
<1>6. added \in Seq(Interaction) /\ Len(added) = n /\ DOMAIN added = 1..n
  <2>1. added \in [1..n -> Interaction]
    <3>1. \A k \in 1..n : added[k] \in Interaction
      BY <1>5
    <3>2. DOMAIN new = 1..n
      BY <1>1
    <3> HIDE DEF new, n, Interaction
    <3> QED BY <3>1, <3>2
  <2> HIDE DEF added, n, Interaction
  <2> QED BY <1>1, <2>1, FunctionIsSeq
<1> HIDE DEF marked, added, new, n
<1>7. /\ found \in Seq(Interaction)
      /\ DOMAIN found = 1..(Len(queue) + n)
      /\ \A i \in 1..Len(queue) : found[i] = marked[i]
      /\ \A k \in 1..n : found[Len(queue) + k] = added[k]
  <2> HIDE DEF Interaction
  <2>2. marked \in Seq(Interaction) /\ added \in Seq(Interaction)
    BY <1>4, <1>6
  <2>1. /\ marked \o added \in Seq(Interaction)
        /\ DOMAIN (marked \o added) = 1..(Len(marked) + Len(added))
        /\ \A i \in 1..Len(marked) : (marked \o added)[i] = marked[i]
        /\ \A k \in 1..Len(added) : (marked \o added)[Len(marked) + k] = added[k]
    BY <2>2, Concatenation
  <2> QED BY <1>4, <1>6, <2>1
<1> HIDE DEF found
<1>8. DOMAIN queue \subseteq DOMAIN found
  <2>1. \A i \in 1..Len(queue) : i \in 1..(Len(queue) + n)
    BY <1>1, <1>2
  <2> QED BY <1>2, <1>7, <2>1
<1>9. ASSUME NEW i \in DOMAIN found \ DOMAIN queue
      PROVE  \E k \in 1..n : i = Len(queue) + k /\ found[i] = added[k]
  <2>1. i \in 1..(Len(queue) + n) /\ ~(i \in 1..Len(queue))
    BY <1>2, <1>7
  <2>2. i - Len(queue) \in 1..n /\ i = Len(queue) + (i - Len(queue))
    BY <1>1, <1>2, <2>1
  <2> QED BY <1>7, <2>2
<1>10. ASSUME NEW i \in DOMAIN queue
       PROVE  /\ found[i].req = queue[i].req
              /\ \/ found[i].learned = queue[i].learned
                 \/ (found[i].learned = time /\ queue[i].req \in listed)
  BY <1>2, <1>3, <1>7
<1>11. ASSUME NEW i \in DOMAIN found \ DOMAIN queue
       PROVE  found[i].req \in N /\ found[i].learned = time
  BY <1>5, <1>9
<1>12. Distinct(found)
  <2> SUFFICES ASSUME NEW i \in DOMAIN found, NEW j \in DOMAIN found, found[i].req = found[j].req
               PROVE  i = j
    BY DEF Distinct
  <2>1. CASE i \in DOMAIN queue /\ j \in DOMAIN queue
    BY <1>10, <2>1 DEF Distinct
  <2>2. CASE i \in DOMAIN queue /\ j \notin DOMAIN queue
    BY <1>10, <1>11, <2>2 DEF Listed
  <2>3. CASE i \notin DOMAIN queue /\ j \in DOMAIN queue
    BY <1>10, <1>11, <2>3 DEF Listed
  <2>4. CASE i \notin DOMAIN queue /\ j \notin DOMAIN queue
    <3>1. PICK k \in 1..n : i = Len(queue) + k /\ found[i] = added[k]
      BY <1>9, <2>4
    <3>2. PICK l \in 1..n : j = Len(queue) + l /\ found[j] = added[l]
      BY <1>9, <2>4
    <3>3. new[k] = new[l] /\ new[k] \in Nat
      <4>1. N \subseteq Nat
        <5>1. MaxRequests \in Nat
          BY ConstantsAssumption
        <5>2. Requests \subseteq Nat
          BY <5>1 DEF Requests
        <5>3. listed \subseteq Requests
          OBVIOUS
        <5> QED BY <5>2, <5>3
      <4>2. new[k] \in N
        <5> HIDE DEF N
        <5> QED BY <1>1
      <4> QED BY <1>5, <3>1, <3>2, <4>1, <4>2
    <3>4. k = l
      <4> HIDE DEF N
      <4> QED BY <1>1, <3>3
    <3> QED BY <3>1, <3>2, <3>4
  <2> QED BY <2>1, <2>2, <2>3, <2>4
<1>13. ASSUME NEW r \in listed PROVE r \in Listed(found)
  <2>1. CASE r \in Listed(queue)
    <3>1. PICK i \in DOMAIN queue : queue[i].req = r
      BY <2>1 DEF Listed
    <3> QED BY <1>8, <1>10, <3>1 DEF Listed
  <2>2. CASE r \notin Listed(queue)
    <3>1. PICK k \in 1..n : new[k] = r
      BY <1>1, <2>2
    <3>2. Len(queue) + k \in DOMAIN found
      BY <1>1, <1>2, <1>7
    <3>3. found[Len(queue) + k].req = r
      BY <1>5, <1>7, <3>1
    <3> QED BY <3>2, <3>3 DEF Listed
  <2> QED BY <2>1, <2>2
<1>14. Discovered(queue, listed, time) = found
  BY DEF Discovered, found, marked, added, new
<1> QED BY <1>7, <1>8, <1>10, <1>11, <1>12, <1>13, <1>14

\* The first of a queue stays first if it is kept.
HeadStays(queue, kept) ==
    queue # <<>> /\ queue[1].req \in Listed(kept) =>
        kept # <<>> /\ kept[1].req = queue[1].req

\* reconcile keeps what the list names and what it is too old to speak of.
LEMMA KeptQueue ==
    ASSUME NEW queue \in Seq(Interaction), Distinct(queue),
           NEW listed \in SUBSET Requests, NEW time \in Nat, NEW snapshot
    PROVE  LET kept == Kept(queue, listed, time, snapshot)
           IN  /\ kept \in Seq(Interaction) /\ Distinct(kept)
               /\ \A m \in Marks(kept) : m \in Marks(queue) \/ (m[1] \in listed /\ m[2] = time)
               /\ listed \subseteq Listed(kept)
               /\ \A m \in Marks(queue) : m[1] \notin Listed(kept) =>
                     /\ m[1] \notin listed
                     /\ m[2] = None => snapshot
                     /\ m[2] # None => m[2] <= time
               /\ HeadStays(queue, kept)
<1> DEFINE found == Discovered(queue, listed, time)
           I == {i \in DOMAIN found : found[i].req \in listed \/ ~Covers(found[i], time, snapshot)}
           kept == At(found, I)
<1>1. /\ found \in Seq(Interaction) /\ Distinct(found)
      /\ DOMAIN queue \subseteq DOMAIN found
      /\ \A i \in DOMAIN queue :
            /\ found[i].req = queue[i].req
            /\ \/ found[i].learned = queue[i].learned
               \/ (found[i].learned = time /\ queue[i].req \in listed)
      /\ \A i \in DOMAIN found \ DOMAIN queue : found[i].req \in listed /\ found[i].learned = time
      /\ listed \subseteq Listed(found)
  BY DiscoveredQueue
<1>2. Kept(queue, listed, time, snapshot) = kept
  BY DEF Kept
<1>3. I \in SUBSET DOMAIN found
  OBVIOUS
<1>4. \A i : i \in I <=>
          i \in DOMAIN found /\ (found[i].req \in listed \/ ~Covers(found[i], time, snapshot))
  OBVIOUS
<1> HIDE DEF found, I
<1>5. /\ kept \in Seq(Interaction) /\ Distinct(kept)
      /\ \A m \in Marks(kept) : \E i \in I : m = <<found[i].req, found[i].learned>>
      /\ \A i \in I : found[i].req \in Listed(kept)
      /\ 1 \in I => kept # <<>> /\ kept[1] = found[1]
  BY <1>1, <1>3, Filtered
<1> HIDE DEF kept
<1>6. ASSUME NEW m \in Marks(kept)
      PROVE  m \in Marks(queue) \/ (m[1] \in listed /\ m[2] = time)
  <2>1. PICK i \in I : m = <<found[i].req, found[i].learned>>
    BY <1>5
  <2>2. CASE i \notin DOMAIN queue
    BY <1>1, <1>3, <2>1, <2>2
  <2>3. CASE i \in DOMAIN queue
    <3>1. CASE found[i].learned = queue[i].learned
      BY <1>1, <2>1, <2>3, <3>1 DEF Marks
    <3>2. CASE found[i].learned = time /\ queue[i].req \in listed
      BY <1>1, <2>1, <2>3, <3>2
    <3> QED BY <1>1, <2>3, <3>1, <3>2
  <2> QED BY <2>2, <2>3
<1>7. ASSUME NEW r \in listed PROVE r \in Listed(kept)
  <2>1. PICK i \in DOMAIN found : found[i].req = r
    BY <1>1 DEF Listed
  <2> QED BY <1>4, <1>5, <2>1
<1>8. ASSUME NEW m \in Marks(queue), m[1] \notin Listed(kept)
      PROVE  /\ m[1] \notin listed
             /\ m[2] = None => snapshot
             /\ m[2] # None => m[2] <= time
  <2>1. m[1] \notin listed
    BY <1>7, <1>8
  <2>2. PICK i \in DOMAIN queue : m = <<queue[i].req, queue[i].learned>>
    BY DEF Marks
  <2>3. found[i].req = m[1] /\ found[i].learned = m[2] /\ i \in DOMAIN found
    BY <1>1, <2>1, <2>2
  <2>4. i \notin I
    BY <1>5, <1>8, <2>3
  <2>5. Covers(found[i], time, snapshot)
    BY <1>4, <2>3, <2>4
  <2>6. found[i].learned = None => snapshot
    BY <2>5 DEF Covers
  <2>7. found[i].learned # None => found[i].learned <= time
    BY <2>5 DEF Covers
  <2> QED BY <2>1, <2>3, <2>6, <2>7
<1>9. ASSUME queue # <<>>, queue[1].req \in Listed(kept)
      PROVE  kept # <<>> /\ kept[1].req = queue[1].req
  <2>1. 1 \in DOMAIN queue
    BY <1>9, Nonempty
  <2>2. PICK m \in Marks(kept) : m[1] = queue[1].req
    BY <1>9, ListedByMarks
  <2>3. PICK i \in I : found[i].req = queue[1].req
    BY <1>5, <2>2
  <2>4. found[1].req = queue[1].req /\ 1 \in DOMAIN found /\ i \in DOMAIN found
    BY <1>1, <1>3, <2>1
  <2>5. i = 1
    BY <1>1, <2>3, <2>4 DEF Distinct
  <2> QED BY <1>5, <2>3, <2>4, <2>5
<1> QED BY <1>2, <1>5, <1>6, <1>7, <1>8, <1>9 DEF HeadStays

\* reconcile and what its callers do: the screen still shows the head.
LEMMA Reconciled ==
    ASSUME NEW c, Sane(c),
           NEW listed \in SUBSET Requests, NEW time \in Nat, NEW snapshot \in BOOLEAN
    PROVE  LET d == Reconcile(c, listed, time, snapshot)
           IN  /\ Sane(d) /\ d.cursor = c.cursor /\ d.owed = c.owed
               /\ d.queue = Kept(c.queue, listed, time, snapshot)
<1> DEFINE kept   == Kept(c.queue, listed, time, snapshot)
           opened == listed \ Listed(c.queue) # {}
           closed == /\ c.screen # None /\ c.queue # <<>>
                     /\ Head(c.queue).req \notin Listed(kept)
           moved  == [c EXCEPT !.queue = kept, !.screen = IF closed THEN None ELSE @]
<1>1. Reconcile(c, listed, time, snapshot) =
         IF opened \/ closed THEN OpenCurrent(moved) ELSE moved
  BY DEF Reconcile
<1>2. c \in Client /\ c.queue \in Seq(Interaction) /\ Distinct(c.queue) /\ Shown(c)
  BY DEF Sane, Client
<1>3. /\ kept \in Seq(Interaction) /\ Distinct(kept)
      /\ c.queue # <<>> /\ c.queue[1].req \in Listed(kept) =>
            kept # <<>> /\ kept[1].req = c.queue[1].req
  <2>1. kept \in Seq(Interaction) /\ Distinct(kept)
    BY <1>2, KeptQueue
  <2>2. HeadStays(c.queue, kept)
    BY <1>2, KeptQueue
  <2> QED BY <2>1, <2>2 DEF HeadStays
<1> HIDE DEF kept
<1>4. c.screen # None => /\ c.queue # <<>> /\ c.queue[1].req = c.screen
                         /\ Head(c.queue) = c.queue[1]
  BY <1>2, Nonempty DEF Shown
<1>5. /\ moved.queue = kept /\ moved.cursor = c.cursor /\ moved.owed = c.owed
      /\ moved.screen = IF closed THEN None ELSE c.screen
      /\ moved \in Client
  BY <1>2, <1>3 DEF Client
<1> HIDE DEF moved
<1>6. Shown(moved)
  <2> SUFFICES ASSUME moved.screen # None
               PROVE  moved.queue # <<>> /\ moved.queue[1].req = moved.screen
    BY DEF Shown
  <2>1. ~closed /\ moved.screen = c.screen
    BY <1>5
  <2> QED BY <1>3, <1>4, <1>5, <2>1
<1>7. Sane(moved)
  BY <1>3, <1>5, <1>6 DEF Sane
<1>8. /\ Sane(OpenCurrent(moved)) /\ OpenCurrent(moved).queue = kept
      /\ OpenCurrent(moved).cursor = c.cursor /\ OpenCurrent(moved).owed = c.owed
  BY <1>3, <1>5, <1>6, Opened
<1> HIDE DEF opened, closed
<1> QED BY <1>1, <1>5, <1>7, <1>8 DEF kept

\* apply_state_frame on requestResolved: only that request leaves.
LEMMA ResolvedQueue ==
    ASSUME NEW c, Sane(c), NEW r
    PROVE  LET d == OnResolved(c, r)
           IN  /\ Sane(d) /\ d.cursor = c.cursor /\ d.owed = c.owed
               /\ Marks(d.queue) \subseteq Marks(c.queue)
               /\ \A q \in Listed(c.queue) : q # r => q \in Listed(d.queue)
<1> DEFINE onScreen == c.queue # <<>> /\ Head(c.queue).req = r
           I == {i \in DOMAIN c.queue : c.queue[i].req # r}
           rest == At(c.queue, I)
           removed == [c EXCEPT !.queue = rest]
           cleared == [removed EXCEPT !.screen = None]
<1>1. OnResolved(c, r) = IF onScreen THEN OpenCurrent(cleared) ELSE removed
  BY DEF OnResolved
<1>2. c \in Client /\ c.queue \in Seq(Interaction) /\ Distinct(c.queue) /\ Shown(c)
  BY DEF Sane, Client
<1>3. I \in SUBSET DOMAIN c.queue
  OBVIOUS
<1>4. \A i : i \in I <=> i \in DOMAIN c.queue /\ c.queue[i].req # r
  OBVIOUS
<1> HIDE DEF I
<1>5. /\ rest \in Seq(Interaction) /\ Distinct(rest)
      /\ \A m \in Marks(rest) : \E i \in I : m = <<c.queue[i].req, c.queue[i].learned>>
      /\ \A i \in I : c.queue[i].req \in Listed(rest)
      /\ 1 \in I => rest # <<>> /\ rest[1] = c.queue[1]
  BY <1>2, <1>3, Filtered
<1> HIDE DEF rest
<1>6. /\ removed \in Client /\ removed.queue = rest /\ removed.screen = c.screen
      /\ removed.cursor = c.cursor /\ removed.owed = c.owed
      /\ cleared \in Client /\ cleared.queue = rest /\ cleared.screen = None
      /\ cleared.cursor = c.cursor /\ cleared.owed = c.owed
  BY <1>2, <1>5 DEF Client
<1>7. Marks(rest) \subseteq Marks(c.queue)
  BY <1>3, <1>5 DEF Marks
<1>8. ASSUME NEW q \in Listed(c.queue), q # r PROVE q \in Listed(rest)
  <2>1. PICK i \in DOMAIN c.queue : c.queue[i].req = q
    BY DEF Listed
  <2> QED BY <1>4, <1>5, <1>8, <2>1
<1> HIDE DEF removed, cleared
<1>9. CASE onScreen
  <2>1. Shown(cleared)
    BY <1>6 DEF Shown
  <2>2. /\ Sane(OpenCurrent(cleared)) /\ OpenCurrent(cleared).queue = rest
        /\ OpenCurrent(cleared).cursor = c.cursor /\ OpenCurrent(cleared).owed = c.owed
    BY <1>5, <1>6, <2>1, Opened
  <2> QED BY <1>1, <1>7, <1>8, <1>9, <2>2
<1>10. CASE ~onScreen
  <2>1. Shown(removed)
    <3> SUFFICES ASSUME c.screen # None PROVE rest # <<>> /\ rest[1].req = c.screen
      BY <1>6 DEF Shown
    <3>1. c.queue # <<>> /\ c.queue[1].req = c.screen
      BY <1>2 DEF Shown
    <3>2. 1 \in DOMAIN c.queue /\ Head(c.queue) = c.queue[1]
      BY <1>2, <3>1, Nonempty
    <3>3. 1 \in I
      BY <1>4, <1>10, <3>1, <3>2
    <3> QED BY <1>5, <3>1, <3>3
  <2>2. Sane(removed)
    BY <1>5, <1>6, <2>1 DEF Sane
  <2> QED BY <1>1, <1>6, <1>7, <1>8, <1>10, <2>2
<1> QED BY <1>9, <1>10

\* The answered decision leaves, and the next one is shown.
LEMMA AnsweredQueue ==
    ASSUME Sane(client), client.queue # <<>>
    PROVE  /\ Sane(Answered) /\ Answered.cursor = client.cursor /\ Answered.owed = client.owed
           /\ Marks(Answered.queue) \subseteq Marks(client.queue)
           /\ \A q \in Listed(client.queue) :
                 q # TakeCurrent.req => q \in Listed(Answered.queue)
<1> DEFINE q == client.queue
           e == [client EXCEPT !.screen = None, !.queue = Tail(client.queue)]
<1>1. client \in Client /\ q \in Seq(Interaction) /\ Distinct(q)
  BY DEF Sane, Client
<1>2. /\ Tail(q) \in Seq(Interaction) /\ TakeCurrent = q[1]
      /\ \A k \in DOMAIN Tail(q) : k + 1 \in DOMAIN q /\ Tail(q)[k] = q[k + 1]
      /\ \A i \in DOMAIN q : i # 1 => i - 1 \in DOMAIN Tail(q) /\ Tail(q)[i - 1] = q[i]
      /\ DOMAIN Tail(q) \subseteq Nat
  BY <1>1, Nonempty DEF TakeCurrent
<1>3. /\ e \in Client /\ e.queue = Tail(q) /\ e.screen = None
      /\ e.cursor = client.cursor /\ e.owed = client.owed
  BY <1>1, <1>2 DEF Client
<1>4. Distinct(Tail(q))
  <2> SUFFICES ASSUME NEW i \in DOMAIN Tail(q), NEW j \in DOMAIN Tail(q),
                      Tail(q)[i].req = Tail(q)[j].req
               PROVE  i = j
    BY DEF Distinct
  <2>1. i + 1 = j + 1
    BY <1>1, <1>2 DEF Distinct
  <2> QED BY <1>2, <2>1
<1>5. Marks(Tail(q)) \subseteq Marks(q)
  <2> SUFFICES ASSUME NEW k \in DOMAIN Tail(q)
               PROVE  <<Tail(q)[k].req, Tail(q)[k].learned>> \in Marks(q)
    BY DEF Marks
  <2>1. k + 1 \in DOMAIN q /\ Tail(q)[k] = q[k + 1]
    BY <1>2
  <2> QED BY <2>1 DEF Marks
<1>6. ASSUME NEW r \in Listed(q), r # TakeCurrent.req PROVE r \in Listed(Tail(q))
  <2>1. PICK i \in DOMAIN q : q[i].req = r
    BY DEF Listed
  <2>2. i # 1
    BY <1>2, <1>6, <2>1
  <2>3. i - 1 \in DOMAIN Tail(q) /\ Tail(q)[i - 1].req = r
    BY <1>2, <2>1, <2>2
  <2> QED BY <2>3 DEF Listed
<1> HIDE DEF e
<1>7. Shown(e)
  BY <1>3 DEF Shown
<1>8. /\ Sane(OpenCurrent(e)) /\ OpenCurrent(e).queue = Tail(q)
      /\ OpenCurrent(e).cursor = client.cursor /\ OpenCurrent(e).owed = client.owed
  BY <1>3, <1>4, <1>7, Opened
<1>9. Answered = OpenCurrent(e)
  BY DEF Answered, e
<1> QED BY <1>5, <1>6, <1>8, <1>9

-----------------------------------------------------------------------------
(* The client's invariant: what lists, frames, queue and answers say of    *)
(* the requests the engine waits for.                                      *)

Asked(r) == issue[r].at # "unasked"

\* Every list announced at the time t or later names r.
Known(r, t) ==
    \A j \in DOMAIN log : j >= t /\ log[j].kind = "pending" => r \in log[j].listed

\* A pending request that one announcement names is named by all later ones,
\* and by the last in any case.
ListingInv ==
    /\ \A i \in DOMAIN log : log[i].kind = "pending" =>
          /\ \A r \in log[i].listed : Asked(r)
          /\ \A r \in registry \cap log[i].listed : Known(r, i)
    /\ \A r \in registry : Known(r, Len(log))

FrameOk(f) ==
    /\ f.kind = "event" => f.of \in DOMAIN log
    /\ f.kind = "raw" => Asked(f.of)

FrameInv == inbound \in Seq(Frames) /\ \A f \in ToSet(inbound) : FrameOk(f)

\* A queued request was asked; the later lists name it while it is pending.
MarkOk(m) ==
    /\ m[1] \in Requests /\ Asked(m[1])
    /\ m[1] \in registry /\ m[2] # None => Known(m[1], m[2])

QueueOk(c) == Sane(c) /\ \A m \in Marks(c.queue) : MarkOk(m)

\* An answer that may still meet its request is the operator's decision.
AnswerInv ==
    /\ answers \subseteq Answers
    /\ \A a \in answers : Asked(a.req) /\ (a.req \in registry => a \in decided)
    /\ \A r \in Requests :
          issue[r].outcome = "granted" => [req |-> r, says |-> "granted"] \in decided

ListsInv == EngineInv /\ ListingInv /\ FrameInv /\ QueueOk(client)

ClientInv == ListsInv /\ AnswerInv /\ NoDecisionForgotten

-----------------------------------------------------------------------------
(* The engine's steps, as the client may see them: the log grows, a new    *)
(* list names all that is pending, and what was asked stays asked.         *)

Grown ==
    /\ log' \in Seq(Events)
    /\ \A i \in DOMAIN log : i \in DOMAIN log' /\ log'[i] = log[i]
    /\ \A j \in DOMAIN log' \ DOMAIN log : log'[j].kind = "pending" =>
          registry' \subseteq log'[j].listed /\ \A r \in log'[j].listed : Asked(r)'
    /\ \A r \in registry' \ registry : ~Asked(r) /\ Len(log') > Len(log)
    /\ \A r \in Requests : Asked(r) => Asked(r)'
    /\ registry' \subseteq Requests

LEMMA KnownStays ==
    ASSUME Grown, NEW r \in registry', NEW t, Known(r, t) PROVE Known(r, t)'
<1> SUFFICES ASSUME NEW j \in DOMAIN log', j >= t, log'[j].kind = "pending"
             PROVE  r \in log'[j].listed
  BY DEF Known
<1>1. CASE j \in DOMAIN log
  BY <1>1 DEF Known, Grown
<1>2. CASE j \notin DOMAIN log
  BY <1>2 DEF Grown
<1> QED BY <1>1, <1>2

LEMMA ListingStays ==
    ASSUME log \in Seq(Events), ListingInv, Grown PROVE ListingInv'
<1>1. /\ DOMAIN log = 1..Len(log) /\ Len(log) \in Nat
      /\ log' \in Seq(Events)
  BY DEF Grown
<1>2. /\ DOMAIN log' = 1..Len(log') /\ Len(log') \in Nat
      /\ \A i \in DOMAIN log' : log'[i].listed \subseteq Requests
  <2>1. \A i \in DOMAIN log' : log'[i] \in Events
    BY <1>1
  <2> QED BY <1>1, <2>1 DEF Events
<1>3. \A i \in DOMAIN log : log[i].listed \subseteq Requests
  <2>1. \A i \in DOMAIN log : log[i] \in Events
    BY <1>1
  <2> QED BY <2>1 DEF Events
<1>4. ASSUME NEW i \in DOMAIN log', log'[i].kind = "pending"
      PROVE  /\ \A r \in log'[i].listed : Asked(r)'
             /\ \A r \in registry' \cap log'[i].listed : Known(r, i)'
  <2>1. CASE i \in DOMAIN log
    <3>1. log'[i] = log[i]
      BY <2>1 DEF Grown
    <3>2. \A r \in log[i].listed : Asked(r)'
      BY <1>3, <1>4, <2>1, <3>1 DEF ListingInv, Grown
    <3>3. ASSUME NEW r \in registry', r \in log[i].listed PROVE Known(r, i)'
      <4>1. Asked(r)
        BY <1>4, <2>1, <3>1, <3>3 DEF ListingInv
      <4>2. r \in registry
        BY <3>3, <4>1 DEF Grown
      <4>3. Known(r, i)
        BY <1>4, <2>1, <3>1, <3>3, <4>2 DEF ListingInv
      <4> QED BY <3>3, <4>3, KnownStays
    <3> QED BY <3>1, <3>2, <3>3
  <2>2. CASE i \notin DOMAIN log
    <3>1. \A r \in log'[i].listed : Asked(r)'
      BY <1>4, <2>2 DEF Grown
    <3>2. ASSUME NEW r \in registry', NEW j \in DOMAIN log', j >= i, log'[j].kind = "pending"
          PROVE  r \in log'[j].listed
      <4>1. j \notin DOMAIN log
        BY <1>1, <1>2, <2>2, <3>2
      <4> QED BY <3>2, <4>1 DEF Grown
    <3> QED BY <3>1, <3>2 DEF Known
  <2> QED BY <2>1, <2>2
<1>5. ASSUME NEW r \in registry' PROVE Known(r, Len(log))' 
  <2> SUFFICES ASSUME NEW j \in DOMAIN log', j >= Len(log'), log'[j].kind = "pending"
               PROVE  r \in log'[j].listed
    BY DEF Known
  <2>1. CASE j \notin DOMAIN log
    BY <2>1 DEF Grown
  <2>2. CASE j \in DOMAIN log
    <3>1. j >= Len(log) /\ ~(Len(log') > Len(log))
      <4>1. \A i \in 1..Len(log) : i \in 1..Len(log')
        BY <1>1, <1>2 DEF Grown
      <4>2. Len(log) <= Len(log')
        BY <1>1, <1>2, <4>1
      <4> QED BY <1>1, <1>2, <2>2, <4>2
    <3>2. r \in registry
      BY <3>1 DEF Grown
    <3>3. Known(r, Len(log))
      BY <3>2 DEF ListingInv
    <3>4. r \in log[j].listed
      BY <2>2, <3>1, <3>3 DEF Known, Grown
    <3> QED BY <2>2, <3>4 DEF Grown
  <2> QED BY <2>1, <2>2
<1> QED BY <1>4, <1>5 DEF ListingInv

LEMMA MarkStays ==
    ASSUME Grown, NEW m, MarkOk(m) PROVE MarkOk(m)'
<1>1. m[1] \in Requests /\ Asked(m[1]) /\ Asked(m[1])'
  BY DEF MarkOk, Grown
<1>2. ASSUME m[1] \in registry', m[2] # None PROVE Known(m[1], m[2])'
  <2>1. m[1] \in registry
    BY <1>1, <1>2 DEF Grown
  <2>2. Known(m[1], m[2])
    BY <1>2, <2>1 DEF MarkOk
  <2> QED BY <1>2, <2>2, KnownStays
<1> QED BY <1>1, <1>2 DEF MarkOk

LEMMA QueueStays ==
    ASSUME Grown, NEW c, QueueOk(c), client' = c PROVE QueueOk(client)'
<1>1. Sane(c) /\ \A m \in Marks(c.queue) : MarkOk(m)
  BY DEF QueueOk
<1>2. \A m \in Marks(c.queue) : MarkOk(m)'
  BY <1>1, MarkStays
<1>3. Marks(client.queue)' = Marks(c.queue)
  BY DEF Marks
<1>4. Sane(client)'
  BY <1>1 DEF Sane, Client, Distinct, Shown
<1> QED BY <1>2, <1>3, <1>4 DEF QueueOk

LEMMA FrameStays ==
    ASSUME Grown, NEW f \in Frames, FrameOk(f) PROVE FrameOk(f)'
  BY DEF Grown, FrameOk, Frames

\* A step that publishes nothing.
LEMMA NothingPublished ==
    ASSUME EngineInv, log' = log, registry' = registry,
           \A r \in Requests : Asked(r) => Asked(r)'
    PROVE  Grown
  BY DEF Grown, EngineInv, EngineTyped

\* A step that announces the ends of requests.
LEMMA EndsPublished ==
    ASSUME EngineInv, NEW ends \in Seq(Events), log' = log \o ends,
           \A k \in DOMAIN ends : ends[k].kind = "resolved",
           registry' \subseteq registry,
           \A r \in Requests : Asked(r) => Asked(r)'
    PROVE  Grown
<1> HIDE DEF Events
<1>1. log \in Seq(Events) /\ registry \subseteq Requests
  BY DEF EngineInv, EngineTyped
<1>2. /\ log' \in Seq(Events)
      /\ Len(log) \in Nat /\ DOMAIN log = 1..Len(log)
      /\ DOMAIN log' = 1..(Len(log) + Len(ends))
      /\ \A i \in 1..Len(log) : log'[i] = log[i]
      /\ \A k \in 1..Len(ends) : log'[Len(log) + k] = ends[k]
  BY <1>1, Concatenation
<1>3. Len(ends) \in Nat /\ DOMAIN ends = 1..Len(ends)
  OBVIOUS
<1>4. \A i \in DOMAIN log : i \in DOMAIN log' /\ log'[i] = log[i]
  BY <1>2, <1>3
<1>5. ASSUME NEW j \in DOMAIN log' \ DOMAIN log PROVE log'[j].kind = "resolved"
  <2>1. j - Len(log) \in 1..Len(ends) /\ j = Len(log) + (j - Len(log))
    BY <1>2, <1>3
  <2>2. log'[j] = ends[j - Len(log)]
    BY <1>2, <2>1
  <2> QED BY <1>3, <2>1, <2>2
<1> QED BY <1>1, <1>2, <1>4, <1>5 DEF Grown

LEMMA EndPublished ==
    ASSUME EngineInv, NEW q \in registry, NEW outcome \in {"granted", "refused"},
           Publish(<<Resolved(q, outcome, registry \ {q})>>), registry' = registry \ {q},
           \A r \in Requests : Asked(r) => Asked(r)'
    PROVE  Grown
<1> DEFINE e == Resolved(q, outcome, registry \ {q})
<1>1. registry \subseteq Requests
  BY DEF EngineInv, EngineTyped
<1>2. e \in Events /\ e.kind = "resolved"
  BY <1>1 DEF Resolved, Events
<1> HIDE DEF e
<1>3. /\ <<e>> \in Seq(Events) /\ \A k \in DOMAIN <<e>> : <<e>>[k].kind = "resolved"
  BY <1>2
<1>4. log' = log \o <<e>> /\ registry' \subseteq registry
  BY PublishedLog DEF e
<1> QED BY <1>3, <1>4, EndsPublished

LEMMA IssueGrows == ASSUME EngineInv, NEW q \in Requests, Issue(q) PROVE Grown
<1>1. /\ log \in Seq(Events) /\ registry \subseteq Requests /\ issue \in [Requests -> Calls]
      /\ \A r \in registry : Asked(r)
  BY DEF EngineInv, EngineTyped, Settled, Waited, Asked
<1>2. /\ issue[q].at = "unasked"
      /\ issue' = [issue EXCEPT ![q] = [at |-> "asked", outcome |-> "none"]]
      /\ registry' = registry \cup {q}
      /\ log' = log \o <<Pending(q)>>
  BY PublishedLog DEF Issue
<1>3. Pending(q) \in Events /\ Pending(q).listed = registry \cup {q}
  BY <1>1 DEF Pending, Events
<1>4. /\ log' \in Seq(Events) /\ Len(log) \in Nat /\ Len(log') = Len(log) + 1
      /\ \A i \in 1..Len(log) : log'[i] = log[i]
      /\ log'[Len(log) + 1] = Pending(q)
  <2> HIDE DEF Events
  <2> QED BY <1>1, <1>2, <1>3
<1>5. /\ DOMAIN log = 1..Len(log)
      /\ DOMAIN log' = 1..(Len(log) + 1)
  BY <1>1, <1>4
<1>6. \A i \in DOMAIN log : i \in DOMAIN log' /\ log'[i] = log[i]
  BY <1>4, <1>5
<1>7. \A r \in Requests : Asked(r) => Asked(r)'
  BY <1>1, <1>2 DEF Asked
<1>8. Asked(q)'
  BY <1>1, <1>2 DEF Asked
<1>9. ASSUME NEW j \in DOMAIN log' \ DOMAIN log
      PROVE  registry' \subseteq log'[j].listed /\ \A r \in log'[j].listed : Asked(r)'
  <2>1. j = Len(log) + 1
    BY <1>4, <1>5
  <2>2. log'[j].listed = registry \cup {q}
    BY <1>3, <1>4, <2>1
  <2>3. \A r \in registry : Asked(r)'
    BY <1>1, <1>7
  <2> QED BY <1>2, <1>8, <2>2, <2>3
<1>10. \A r \in registry' \ registry : ~Asked(r) /\ Len(log') > Len(log)
  BY <1>2, <1>4 DEF Asked
<1> QED BY <1>1, <1>2, <1>4, <1>6, <1>7, <1>9, <1>10 DEF Grown

LEMMA ResolveGrows ==
    ASSUME EngineInv, NEW q, NEW outcome \in {"granted", "refused"}, Resolve(q, outcome)
    PROVE  Grown /\ registry' = registry \ {q}
<1>1. issue \in [Requests -> Calls] /\ registry \subseteq Requests
  BY DEF EngineInv, EngineTyped
<1>2. CASE q \in registry
  <2>1. /\ registry' = registry \ {q}
        /\ issue' = [issue EXCEPT ![q].outcome = outcome]
        /\ Publish(<<Resolved(q, outcome, registry \ {q})>>)
    BY <1>2 DEF Resolve
  <2>2. \A r \in Requests : Asked(r) => Asked(r)'
    BY <1>1, <2>1 DEF Asked, Calls
  <2> QED BY <1>2, <2>1, <2>2, EndPublished
<1>3. CASE q \notin registry
  <2>1. log' = log /\ registry' = registry /\ issue' = issue
    BY <1>3 DEF Resolve
  <2> QED BY <1>3, <2>1, NothingPublished DEF Asked
<1> QED BY <1>2, <1>3

LEMMA GiveUpGrows ==
    ASSUME EngineInv, NEW q \in Requests, GiveUp(q)
    PROVE  Grown /\ registry' = registry \ {q}
<1>1. /\ issue \in [Requests -> Calls] /\ registry \subseteq Requests
      /\ issue' = [issue EXCEPT ![q].at = "refused"]
      /\ Withdraw(q)
  BY DEF GiveUp, EngineInv, EngineTyped
<1>2. \A r \in Requests : Asked(r) => Asked(r)'
  BY <1>1 DEF Asked, Calls
<1>3. CASE q \in registry
  <2>1. registry' = registry \ {q} /\ Publish(<<Resolved(q, "refused", registry \ {q})>>)
    BY <1>1, <1>3 DEF Withdraw
  <2> QED BY <1>2, <1>3, <2>1, EndPublished
<1>4. CASE q \notin registry
  <2>1. log' = log /\ registry' = registry
    BY <1>1, <1>4 DEF Withdraw
  <2> QED BY <1>2, <1>4, <2>1, NothingPublished
<1> QED BY <1>3, <1>4

LEMMA DrainedEvents ==
    ASSUME registry \subseteq Requests,
           NEW drained \in Bijection(1..Cardinality(registry), registry)
    PROVE  LET ends == [k \in 1..Cardinality(registry) |-> Resolved(drained[k], "refused", {})]
           IN  ends \in Seq(Events) /\ \A k \in DOMAIN ends : ends[k].kind = "resolved"
<1> DEFINE n == Cardinality(registry)
           ends == [k \in 1..n |-> Resolved(drained[k], "refused", {})]
<1>1. n \in Nat
  <2>1. MaxRequests \in Nat
    BY ConstantsAssumption
  <2>2. IsFiniteSet(Requests)
    BY <2>1, FS_Interval DEF Requests
  <2> QED BY <2>2, FS_Subset, FS_CardinalityType
<1>2. drained \in [1..n -> registry]
  BY DEF Bijection, Injection, Surjection
<1>3. \A k \in 1..n : ends[k] \in Events /\ ends[k].kind = "resolved"
  BY <1>2 DEF Resolved, Events
<1>4. ends \in Seq(Events) /\ DOMAIN ends = 1..n
  BY <1>1, <1>3
<1> QED BY <1>3, <1>4

LEMMA FailAllGrows == ASSUME EngineInv, FailAll PROVE Grown
<1>1. /\ registry \subseteq Requests /\ issue \in [Requests -> Calls] /\ registry' = {}
      /\ issue' = [r \in Requests |->
            IF r \in registry THEN [issue[r] EXCEPT !.outcome = "refused"] ELSE issue[r]]
  BY DEF FailAll, EngineInv, EngineTyped
<1>2. PICK drained \in Bijection(1..Cardinality(registry), registry) :
          Publish([k \in 1..Cardinality(registry) |-> Resolved(drained[k], "refused", {})])
  BY DEF FailAll
<1> DEFINE ends == [k \in 1..Cardinality(registry) |-> Resolved(drained[k], "refused", {})]
<1>3. log' = log \o ends
  BY <1>2, PublishedLog
<1>4. ends \in Seq(Events) /\ \A k \in DOMAIN ends : ends[k].kind = "resolved"
  BY <1>1, DrainedEvents
<1>5. \A r \in Requests : Asked(r) => Asked(r)'
  BY <1>1 DEF Asked, Calls
<1> HIDE DEF ends
<1> QED BY <1>1, <1>3, <1>4, <1>5, EndsPublished

LEMMA EngineGrows == ASSUME EngineInv, [Next]_vars PROVE Grown
<1>1. issue \in [Requests -> Calls]
  BY DEF EngineInv, EngineTyped
<1>2. ASSUME NEW q \in Requests, SendRaw(q) PROVE Grown
  <2>1. \A r \in Requests : Asked(r) => Asked(r)'
    BY <1>1, <1>2 DEF SendRaw, Asked, Calls
  <2> QED BY <1>2, <2>1, NothingPublished DEF SendRaw
<1>3. ASSUME NEW q \in Requests, Return(q) PROVE Grown
  <2>1. \A r \in Requests : Asked(r) => Asked(r)'
    BY <1>1, <1>3 DEF Return, Asked, Calls
  <2> QED BY <1>3, <2>1, NothingPublished DEF Return
<1>4. ASSUME NEW a \in answers, RouteResponse(a) PROVE Grown
  <2>1. a.says \in {"granted", "refused"}
    BY DEF EngineInv, EngineTyped
  <2> QED BY <1>4, <2>1, ResolveGrows DEF RouteResponse
<1>5. ASSUME NEW says \in Says, AnswerRpc(says) PROVE Grown
  <2>1. says \in {"granted", "refused"}
    BY ConstantsAssumption
  <2> QED BY <1>5, <2>1, ResolveGrows DEF AnswerRpc
<1>6. ASSUME UNCHANGED <<log, registry, issue>> PROVE Grown
  BY <1>6, NothingPublished DEF Asked
<1>7. Receive => Grown
  BY <1>6 DEF Receive, engineVars
<1>8. ReadState => Grown
  BY <1>6 DEF ReadState, engineVars
<1>9. ASSUME NEW says \in Says, AnswerRaw(says) \/ AnswerUnacknowledged(says) PROVE Grown
  BY <1>6, <1>9 DEF AnswerRaw, AnswerUnacknowledged, engineVars
<1>10. EndTurn => Grown
  BY <1>6 DEF EndTurn
<1>11. UNCHANGED vars => Grown
  BY <1>6 DEF vars, engineVars
<1> QED
  BY <1>2, <1>3, <1>4, <1>5, <1>7, <1>8, <1>9, <1>10, <1>11,
     IssueGrows, GiveUpGrows, FailAllGrows
     DEF Next, Work, OperatorAnswers

-----------------------------------------------------------------------------
(* The frames on their way.                                                *)

LEMMA InSequence ==
    ASSUME NEW s PROVE \A x : x \in ToSet(s) <=> \E k \in DOMAIN s : s[k] = x
  BY DEF ToSet

LEMMA OneMoreFrame ==
    ASSUME NEW s \in Seq(Frames), NEW f \in Frames
    PROVE  Append(s, f) \in Seq(Frames) /\ ToSet(Append(s, f)) = ToSet(s) \cup {f}
<1> HIDE DEF Frames
<1> DEFINE t == Append(s, f)
<1>1. /\ t \in Seq(Frames) /\ Len(s) \in Nat /\ DOMAIN s = 1..Len(s)
      /\ DOMAIN t = 1..(Len(s) + 1)
      /\ \A k \in 1..Len(s) : t[k] = s[k]
      /\ t[Len(s) + 1] = f
  OBVIOUS
<1> HIDE DEF t
<1>2. \A k \in DOMAIN t : k \in DOMAIN s \/ k = Len(s) + 1
  BY <1>1
<1>3. \A k \in DOMAIN s : k \in DOMAIN t
  BY <1>1
<1>4. Len(s) + 1 \in DOMAIN t
  BY <1>1
<1>5. \A x : x \in ToSet(t) <=> x \in ToSet(s) \cup {f}
  BY <1>1, <1>2, <1>3, <1>4, InSequence
<1>6. ToSet(t) = ToSet(s) \cup {f}
  BY <1>5
<1> QED BY <1>1, <1>6 DEF t

\* What is written to the connection is behind what is there, and names events
\* of the log.
LEMMA PublishedFrames ==
    ASSUME log \in Seq(Events), FrameInv, Grown,
           NEW events \in Seq(Events), Publish(events)
    PROVE  FrameInv' /\ ToSet(inbound) \subseteq ToSet(inbound')
<1> HIDE DEF Events
<1> DEFINE span == Len(log) + 1 .. Len(log) + Len(events)
<1>1. PICK gone \in SUBSET span :
          /\ log' = log \o events
          /\ inbound' = inbound \o
                LET sent == Ascending(span \ gone)
                IN  [k \in DOMAIN sent |-> [kind |-> "event", of |-> sent[k]]]
  BY DEF Publish
<1> DEFINE S == span \ gone
           n == Cardinality(S)
           sent == Ascending(S)
           added == [k \in DOMAIN sent |-> [kind |-> "event", of |-> sent[k]]]
<1>2. /\ Len(log) \in Nat /\ Len(events) \in Nat /\ DOMAIN log = 1..Len(log)
      /\ DOMAIN log' = 1..(Len(log) + Len(events))
  BY <1>1, Concatenation
<1>3. S \in SUBSET (1..(Len(log) + Len(events))) /\ Len(log) + Len(events) \in Nat
  BY <1>2
<1> HIDE DEF S
<1>4. n \in Nat /\ sent \in [1..n -> S]
  BY <1>3, AscendingLists
<1> HIDE DEF n, sent
<1>5. \A k \in 1..n : /\ added[k] \in Frames /\ added[k].kind = "event"
                      /\ added[k].of \in DOMAIN log'
  <2>1. \A k \in 1..n : sent[k] \in DOMAIN log' /\ sent[k] \in Nat
    <3> SUFFICES ASSUME NEW k \in 1..n PROVE sent[k] \in DOMAIN log' /\ sent[k] \in Nat
      OBVIOUS
    <3>1. sent[k] \in S
      BY <1>4
    <3>2. sent[k] \in 1..(Len(log) + Len(events))
      BY <1>3, <3>1
    <3> QED BY <1>2, <3>2
  <2> QED BY <1>4, <2>1 DEF Frames
<1>6. DOMAIN added = 1..n
  BY <1>4
<1> HIDE DEF added
<1>7. added \in Seq(Frames) /\ Len(added) = n
  <2> HIDE DEF Frames
  <2>1. added \in [1..n -> Frames]
    <3>1. added = [k \in 1..n |-> added[k]]
      BY <1>6 DEF added
    <3> QED BY <1>5, <3>1
  <2> QED BY <1>4, <2>1, FunctionIsSeq
<1>8. inbound \in Seq(Frames) /\ inbound' = inbound \o added
  BY <1>1 DEF FrameInv, added, sent, S
<1>9. /\ inbound' \in Seq(Frames)
      /\ Len(inbound) \in Nat /\ DOMAIN inbound = 1..Len(inbound)
      /\ DOMAIN inbound' = 1..(Len(inbound) + n)
      /\ \A i \in 1..Len(inbound) : inbound'[i] = inbound[i]
      /\ \A k \in 1..n : inbound'[Len(inbound) + k] = added[k]
  <2> HIDE DEF Frames
  <2>1. /\ inbound \o added \in Seq(Frames)
        /\ Len(inbound) \in Nat /\ DOMAIN inbound = 1..Len(inbound)
        /\ DOMAIN (inbound \o added) = 1..(Len(inbound) + Len(added))
        /\ \A i \in 1..Len(inbound) : (inbound \o added)[i] = inbound[i]
        /\ \A k \in 1..Len(added) : (inbound \o added)[Len(inbound) + k] = added[k]
    <3>1. inbound \in Seq(Frames) /\ added \in Seq(Frames)
      BY <1>7, <1>8
    <3> QED BY <3>1, Concatenation
  <2> QED BY <1>7, <1>8, <2>1
<1>10. ASSUME NEW f \in ToSet(inbound') PROVE FrameOk(f)'
  <2>1. PICK i \in DOMAIN inbound' : inbound'[i] = f
    BY InSequence
  <2>2. CASE i \in DOMAIN inbound
    <3>1. f = inbound[i] /\ f \in Frames /\ f \in ToSet(inbound)
      BY <1>8, <1>9, <2>1, <2>2, InSequence
    <3> QED BY <3>1, FrameStays DEF FrameInv
  <2>3. CASE i \notin DOMAIN inbound
    <3>1. i - Len(inbound) \in 1..n /\ i = Len(inbound) + (i - Len(inbound))
      BY <1>4, <1>9, <2>3
    <3>2. f = added[i - Len(inbound)]
      BY <1>9, <2>1, <3>1
    <3>3. f.kind = "event" /\ f.of \in DOMAIN log'
      BY <1>5, <3>1, <3>2
    <3> QED BY <3>3 DEF FrameOk
  <2> QED BY <2>2, <2>3
<1>11. ToSet(inbound) \subseteq ToSet(inbound')
  <2> SUFFICES ASSUME NEW f \in ToSet(inbound) PROVE f \in ToSet(inbound')
    OBVIOUS
  <2>1. PICK i \in DOMAIN inbound : inbound[i] = f
    BY InSequence
  <2>2. i \in DOMAIN inbound' /\ inbound'[i] = f
    BY <1>4, <1>9, <2>1
  <2> QED BY <2>2, InSequence
<1> QED BY <1>9, <1>10, <1>11 DEF FrameInv

LEMMA EndFrames ==
    ASSUME EngineInv, FrameInv, Grown, NEW q \in registry, NEW outcome \in {"granted", "refused"},
           Publish(<<Resolved(q, outcome, registry \ {q})>>)
    PROVE  FrameInv' /\ ToSet(inbound) \subseteq ToSet(inbound')
<1>1. registry \subseteq Requests /\ log \in Seq(Events)
  BY DEF EngineInv, EngineTyped
<1>2. Resolved(q, outcome, registry \ {q}) \in Events
  BY <1>1 DEF Resolved, Events
<1>3. <<Resolved(q, outcome, registry \ {q})>> \in Seq(Events)
  <2> HIDE DEF Events
  <2> QED BY <1>2
<1> QED BY <1>1, <1>3, PublishedFrames

\* No frame is invented, and none is lost but the one that is taken.
LEMMA FramesKept ==
    ASSUME ListsInv, [Next]_vars, Grown, ~Receive
    PROVE  FrameInv' /\ ToSet(inbound) \subseteq ToSet(inbound')
<1>1. /\ EngineInv /\ FrameInv /\ inbound \in Seq(Frames)
      /\ log \in Seq(Events) /\ registry \subseteq Requests /\ issue \in [Requests -> Calls]
      /\ \A f \in ToSet(inbound) : f \in Frames /\ FrameOk(f)
  <2>1. EngineInv /\ FrameInv /\ inbound \in Seq(Frames)
    BY DEF ListsInv, FrameInv
  <2>2. \A f \in ToSet(inbound) : f \in Frames
    <3> SUFFICES ASSUME NEW k \in DOMAIN inbound PROVE inbound[k] \in Frames
      BY InSequence
    <3> HIDE DEF Frames
    <3> QED BY <2>1
  <2> QED BY <2>1, <2>2 DEF FrameInv, EngineInv, EngineTyped
<1>2. \A f \in ToSet(inbound) : FrameOk(f)'
  BY <1>1, FrameStays
<1>3. ASSUME inbound' = inbound PROVE FrameInv' /\ ToSet(inbound) \subseteq ToSet(inbound')
  BY <1>1, <1>2, <1>3 DEF FrameInv
<1>4. ASSUME NEW f \in Frames, FrameOk(f)', inbound' = Append(inbound, f)
      PROVE  FrameInv' /\ ToSet(inbound) \subseteq ToSet(inbound')
  <2>1. inbound' \in Seq(Frames) /\ ToSet(inbound') = ToSet(inbound) \cup {f}
    BY <1>1, <1>4, OneMoreFrame
  <2> QED BY <1>2, <1>4, <2>1 DEF FrameInv
<1>5. ASSUME NEW q \in Requests, Issue(q)
      PROVE  FrameInv' /\ ToSet(inbound) \subseteq ToSet(inbound')
  <2>1. Pending(q) \in Events
    BY <1>1 DEF Pending, Events
  <2>2. <<Pending(q)>> \in Seq(Events)
    <3> HIDE DEF Events
    <3> QED BY <2>1
  <2> QED BY <1>1, <1>5, <2>2, PublishedFrames DEF Issue
<1>6. ASSUME NEW q \in Requests, SendRaw(q)
      PROVE  FrameInv' /\ ToSet(inbound) \subseteq ToSet(inbound')
  <2> DEFINE f == [kind |-> "raw", of |-> q]
  <2>1. f \in Frames /\ f.kind = "raw" /\ f.of = q
    BY DEF Frames
  <2>2. Asked(q)' /\ inbound' = Append(inbound, f)
    BY <1>1, <1>6 DEF SendRaw, Asked, Calls
  <2>3. FrameOk(f)'
    BY <2>1, <2>2 DEF FrameOk
  <2> HIDE DEF f
  <2> QED BY <1>4, <2>1, <2>2, <2>3
<1>7. ASSUME NEW q, NEW outcome \in {"granted", "refused"}, Resolve(q, outcome)
      PROVE  FrameInv' /\ ToSet(inbound) \subseteq ToSet(inbound')
  BY <1>1, <1>3, <1>7, EndFrames DEF Resolve
<1>8. ASSUME NEW q \in Requests, GiveUp(q)
      PROVE  FrameInv' /\ ToSet(inbound) \subseteq ToSet(inbound')
  BY <1>1, <1>3, <1>8, EndFrames DEF GiveUp, Withdraw
<1>9. ASSUME FailAll
      PROVE  FrameInv' /\ ToSet(inbound) \subseteq ToSet(inbound')
  <2>1. PICK drained \in Bijection(1..Cardinality(registry), registry) :
            Publish([k \in 1..Cardinality(registry) |-> Resolved(drained[k], "refused", {})])
    BY <1>9 DEF FailAll
  <2>2. [k \in 1..Cardinality(registry) |-> Resolved(drained[k], "refused", {})] \in Seq(Events)
    BY <1>1, DrainedEvents
  <2> QED BY <1>1, <2>1, <2>2, PublishedFrames
<1>10. ASSUME EndTurn
       PROVE  FrameInv' /\ ToSet(inbound) \subseteq ToSet(inbound')
  <2> DEFINE f == [kind |-> "turnOver", of |-> None]
  <2>1. f \in Frames /\ f.kind = "turnOver"
    BY DEF Frames
  <2>2. inbound' = Append(inbound, f)
    BY <1>10 DEF EndTurn
  <2>3. FrameOk(f)'
    BY <2>1 DEF FrameOk
  <2> HIDE DEF f
  <2> QED BY <1>4, <2>1, <2>2, <2>3
<1>11. ASSUME NEW a \in answers, RouteResponse(a)
       PROVE  FrameInv' /\ ToSet(inbound) \subseteq ToSet(inbound')
  <2>1. a.says \in {"granted", "refused"}
    BY <1>1 DEF EngineInv, EngineTyped
  <2> QED BY <1>7, <1>11, <2>1 DEF RouteResponse
<1>12. ASSUME NEW says \in Says, AnswerRpc(says)
       PROVE  FrameInv' /\ ToSet(inbound) \subseteq ToSet(inbound')
  <2>1. says \in {"granted", "refused"}
    BY ConstantsAssumption
  <2> QED BY <1>7, <1>12, <2>1 DEF AnswerRpc
<1>13. ASSUME NEW says \in Says, AnswerRaw(says) \/ AnswerUnacknowledged(says)
       PROVE  inbound' = inbound
  BY <1>13 DEF AnswerRaw, AnswerUnacknowledged
<1>14. ASSUME NEW q \in Requests, Return(q) PROVE inbound' = inbound
  BY <1>14 DEF Return
<1>15. ReadState => inbound' = inbound
  BY DEF ReadState
<1>16. UNCHANGED vars => inbound' = inbound
  BY DEF vars
<1> QED
  BY <1>3, <1>5, <1>6, <1>8, <1>9, <1>10, <1>11, <1>12, <1>13, <1>14, <1>15, <1>16
     DEF Next, Work, OperatorAnswers

-----------------------------------------------------------------------------
(* The client's steps: the queue stays right, and it loses no request that *)
(* is pending.                                                             *)

LEMMA SameQueue ==
    ASSUME NEW c, QueueOk(c), NEW d \in Client, d.queue = c.queue,
           d.screen = c.screen \/ d.screen = None
    PROVE  QueueOk(d)
  BY DEF QueueOk, Sane, Shown

\* An announcement that is applied.
LEMMA ApplyKeeps ==
    ASSUME EngineInv, ListingInv, NEW c, QueueOk(c), NEW i \in DOMAIN log
    PROVE  LET d == Apply(c, i)
           IN  /\ QueueOk(d) /\ d.owed = c.owed
               /\ \A r \in registry \cap Listed(c.queue) : r \in Listed(d.queue)
<1>1. /\ log \in Seq(Events) /\ registry \subseteq Requests
      /\ log[i] \in Events /\ i \in Nat
      /\ Sane(c) /\ \A m \in Marks(c.queue) : MarkOk(m)
  <2>1. log \in Seq(Events) /\ registry \subseteq Requests
    BY DEF EngineInv, EngineTyped
  <2>2. log[i] \in Events /\ i \in Nat
    <3> HIDE DEF Events
    <3> QED BY <2>1
  <2> QED BY <2>1, <2>2 DEF QueueOk
<1>2. /\ log[i].kind \in {"pending", "resolved"} /\ log[i].listed \in SUBSET Requests
      /\ log[i].req \in Requests
  BY <1>1 DEF Events
<1>3. c.queue \in Seq(Interaction) /\ Distinct(c.queue)
  BY <1>1 DEF Sane, Client
<1>6. /\ Sane(Reconcile(c, log[i].listed, i, FALSE))
      /\ Reconcile(c, log[i].listed, i, FALSE).owed = c.owed
      /\ Reconcile(c, log[i].listed, i, FALSE).queue = Kept(c.queue, log[i].listed, i, FALSE)
  <2>1. Sane(c)
    BY <1>1
  <2>2. i \in Nat /\ log[i].listed \in SUBSET Requests
    BY <1>1, <1>2
  <2>3. \A l \in SUBSET Requests, t \in Nat :
           /\ Sane(Reconcile(c, l, t, FALSE))
           /\ Reconcile(c, l, t, FALSE).owed = c.owed
           /\ Reconcile(c, l, t, FALSE).queue = Kept(c.queue, l, t, FALSE)
    BY <2>1, Reconciled
  <2> QED BY <2>2, <2>3
<1>4. CASE log[i].kind = "pending"
  <2> DEFINE listed == log[i].listed
             kept == Kept(c.queue, listed, i, FALSE)
             d == Reconcile(c, listed, i, FALSE)
  <2>1. Apply(c, i) = d
    BY <1>4 DEF Apply
  <2>2. listed \in SUBSET Requests
    BY <1>2
  <2>3. /\ \A r \in listed : Asked(r)
        /\ \A r \in registry \cap listed : Known(r, i)
    BY <1>4 DEF ListingInv
  <2>4. \A r, t : Known(r, t) /\ i >= t => r \in listed
    BY <1>4 DEF Known
  <2> HIDE DEF listed
  <2>5. Sane(d) /\ d.owed = c.owed /\ d.queue = kept
    BY <1>6 DEF listed
  <2>6. /\ \A m \in Marks(kept) : m \in Marks(c.queue) \/ (m[1] \in listed /\ m[2] = i)
        /\ \A m \in Marks(c.queue) : m[1] \notin Listed(kept) => m[2] # None /\ m[2] <= i
    <3>1. c.queue \in Seq(Interaction) /\ Distinct(c.queue) /\ i \in Nat
      BY <1>1, <1>3
    <3>2. \A m \in Marks(kept) : m \in Marks(c.queue) \/ (m[1] \in listed /\ m[2] = i)
      BY <2>2, <3>1, KeptQueue, ZenonT(60)
    <3>3. \A m \in Marks(c.queue) : m[1] \notin Listed(kept) => m[2] # None /\ m[2] <= i
      BY <2>2, <3>1, KeptQueue, ZenonT(60)
    <3> QED BY <3>2, <3>3
  <2> HIDE DEF kept, d
  <2>7. \A m \in Marks(kept) : MarkOk(m)
    <3> SUFFICES ASSUME NEW m \in Marks(kept), m[1] \in listed, m[2] = i PROVE MarkOk(m)
      BY <1>1, <2>6
    <3> QED BY <2>2, <2>3 DEF MarkOk
  <2>8. ASSUME NEW r \in registry, r \in Listed(c.queue) PROVE r \in Listed(kept)
    <3> SUFFICES ASSUME r \notin Listed(kept) PROVE FALSE
      OBVIOUS
    <3>1. PICK m \in Marks(c.queue) : m[1] = r
      BY <2>8, ListedByMarks
    <3>2. m[2] # None /\ m[2] <= i
      BY <2>6, <3>1
    <3>3. m[2] \in Nat
      <4>1. PICK k \in DOMAIN c.queue : m = <<c.queue[k].req, c.queue[k].learned>>
        BY DEF Marks
      <4>2. c.queue[k] \in Interaction
        BY <1>3
      <4> QED BY <4>1, <4>2 DEF Interaction
    <3>4. Known(r, m[2])
      BY <1>1, <3>1, <3>2 DEF MarkOk
    <3>5. r \in listed
      BY <1>1, <2>4, <3>2, <3>3, <3>4
    <3>6. listed \subseteq Listed(kept)
      BY <1>1, <1>3, <2>2, KeptQueue DEF kept
    <3> QED BY <3>5, <3>6
  <2> QED BY <2>1, <2>5, <2>7, <2>8 DEF QueueOk
<1>5. CASE log[i].kind = "resolved"
  <2> DEFINE q == log[i].req
             d == OnResolved(c, q)
  <2>1. Apply(c, i) = d
    BY <1>5 DEF Apply
  <2>2. q \notin registry
    <3>1. i \in Ends(q)
      BY <1>5 DEF Ends
    <3> QED BY <1>2, <3>1 DEF EngineInv, Settled, AnnouncedOnce
  <2> HIDE DEF q
  <2>3. /\ Sane(d) /\ d.owed = c.owed
        /\ Marks(d.queue) \subseteq Marks(c.queue)
        /\ \A r \in Listed(c.queue) : r # q => r \in Listed(d.queue)
    BY <1>1, ResolvedQueue
  <2> HIDE DEF d
  <2> QED BY <1>1, <2>1, <2>2, <2>3 DEF QueueOk
<1> QED BY <1>2, <1>4, <1>5

LEMMA TakeKeeps ==
    ASSUME ListsInv, NEW f \in Frames, FrameOk(f)
    PROVE  LET d == Take(client, f)
           IN  /\ QueueOk(d) /\ (client.owed => d.owed)
               /\ \A r \in registry \cap Listed(client.queue) : r \in Listed(d.queue)
               /\ f.kind = "raw" => f.of \in Listed(d.queue)
<1>1. /\ EngineInv /\ ListingInv /\ QueueOk(client) /\ Sane(client) /\ client \in Client
      /\ \A m \in Marks(client.queue) : MarkOk(m)
  BY DEF ListsInv, QueueOk, Sane
<1>2. CASE f.kind = "raw"
  <2> DEFINE r == f.of
             d == OnServerRequest(client, r)
  <2>1. Take(client, f) = d
    BY <1>2 DEF Take
  <2>2. r \in Requests /\ Asked(r)
    BY <1>2 DEF FrameOk, Frames
  <2> HIDE DEF r
  <2>3. /\ Sane(d) /\ d.owed = client.owed
        /\ Marks(d.queue) \subseteq Marks(client.queue) \cup {<<r, None>>}
        /\ Marks(client.queue) \subseteq Marks(d.queue)
        /\ r \in Listed(d.queue)
    BY <1>1, <2>2, RequestQueued
  <2> HIDE DEF d
  <2>4. MarkOk(<<r, None>>)
    BY <2>2 DEF MarkOk
  <2>5. \A q \in Listed(client.queue) : q \in Listed(d.queue)
    BY <2>3, ListedByMarks
  <2> QED BY <1>1, <2>1, <2>3, <2>4, <2>5 DEF QueueOk, r
<1>3. CASE f.kind = "turnOver"
  <2> DEFINE d == [client EXCEPT !.screen = None]
  <2>1. Take(client, f) = d
    BY <1>3 DEF Take
  <2>2. d \in Client /\ d.queue = client.queue /\ d.owed = client.owed /\ d.screen = None
    BY <1>1 DEF Client
  <2> HIDE DEF d
  <2>3. QueueOk(d)
    BY <1>1, <2>2, SameQueue
  <2> QED BY <1>3, <2>1, <2>2, <2>3
<1>4. CASE f.kind = "event"
  <2> DEFINE i == f.of
             owing == [client EXCEPT !.owed = TRUE]
             moved == [client EXCEPT !.cursor = i]
  <2>1. i \in DOMAIN log /\ i \in Nat
    BY <1>4 DEF FrameOk, Frames
  <2>2. \/ Take(client, f) = client
        \/ Take(client, f) = owing
        \/ Take(client, f) = Apply(moved, i)
    BY <1>4 DEF Take, Accept
  <2>3. /\ owing \in Client /\ owing.queue = client.queue /\ owing.owed = TRUE
        /\ owing.screen = client.screen
        /\ moved \in Client /\ moved.queue = client.queue /\ moved.owed = client.owed
        /\ moved.screen = client.screen
    BY <1>1, <2>1 DEF Client
  <2> HIDE DEF i, owing, moved
  <2>4. QueueOk(owing) /\ QueueOk(moved)
    BY <1>1, <2>3, SameQueue
  <2>5. /\ QueueOk(Apply(moved, i)) /\ Apply(moved, i).owed = moved.owed
        /\ \A r \in registry \cap Listed(moved.queue) : r \in Listed(Apply(moved, i).queue)
    BY <1>1, <2>1, <2>4, ApplyKeeps
  <2>6. CASE Take(client, f) = client
    BY <1>1, <1>4, <2>6
  <2>7. CASE Take(client, f) = owing
    BY <1>4, <2>3, <2>4, <2>7
  <2>8. CASE Take(client, f) = Apply(moved, i)
    BY <1>4, <2>3, <2>5, <2>8
  <2> QED BY <2>2, <2>6, <2>7, <2>8
<1>5. f.kind \in {"event", "raw", "turnOver"}
  BY DEF Frames
<1> QED BY <1>2, <1>3, <1>4, <1>5

\* The state that is read: the queue then holds every pending request.
LEMMA ReadKeeps ==
    ASSUME ListsInv, ReadState
    PROVE  QueueOk(client)' /\ registry \subseteq Listed(client'.queue)
<1> DEFINE c == [client EXCEPT !.cursor = Len(log), !.owed = FALSE]
           t == Len(log)
           kept == Kept(c.queue, registry, t, TRUE)
           d == Reconcile(c, registry, t, TRUE)
<1>1. /\ EngineInv /\ ListingInv /\ QueueOk(client) /\ client \in Client
      /\ registry \subseteq Requests /\ t \in Nat
      /\ \A r \in registry : Asked(r) /\ Known(r, t)
  <2>1. EngineInv /\ ListingInv /\ QueueOk(client) /\ client \in Client
    BY DEF ListsInv, QueueOk, Sane
  <2>2. registry \subseteq Requests /\ t \in Nat
    BY <2>1 DEF EngineInv, EngineTyped
  <2> QED BY <2>1, <2>2 DEF EngineInv, Settled, Waited, Asked, ListingInv
<1>2. c \in Client /\ c.queue = client.queue /\ c.screen = client.screen
  BY <1>1 DEF Client
<1>3. client' = d
  BY DEF ReadState
<1> HIDE DEF t, c
<1>4. QueueOk(c)
  BY <1>1, <1>2, SameQueue
<1>5. Sane(c) /\ c.queue \in Seq(Interaction) /\ Distinct(c.queue)
      /\ \A m \in Marks(c.queue) : MarkOk(m)
  BY <1>4 DEF QueueOk, Sane, Client
<1>6. Sane(d) /\ d.queue = kept
  BY <1>1, <1>5, Reconciled
<1>7. /\ \A m \in Marks(kept) : m \in Marks(c.queue) \/ (m[1] \in registry /\ m[2] = t)
      /\ registry \subseteq Listed(kept)
  BY <1>1, <1>5, KeptQueue
<1> HIDE DEF d, kept
<1>8. \A m \in Marks(kept) : MarkOk(m)
  <2> SUFFICES ASSUME NEW m \in Marks(kept), m[1] \in registry, m[2] = t PROVE MarkOk(m)
    BY <1>5, <1>7
  <2> QED BY <1>1 DEF MarkOk
<1>9. QueueOk(d)
  BY <1>6, <1>8 DEF QueueOk
<1>10. Grown
  BY <1>1, NothingPublished DEF ReadState, engineVars, Asked
<1> QED BY <1>3, <1>6, <1>7, <1>9, <1>10, QueueStays

\* The three ways to answer, and what they do to the queue.
LEMMA AnswerKeeps ==
    ASSUME ListsInv, NEW says \in Says,
           AnswerRaw(says) \/ AnswerRpc(says) \/ AnswerUnacknowledged(says)
    PROVE  /\ QueueOk(client')
           /\ client.screen = TakeCurrent.req /\ TakeCurrent.req \in Requests
           /\ Asked(TakeCurrent.req)
           /\ client.owed => client'.owed
           /\ \A r \in Listed(client.queue) :
                 r # TakeCurrent.req => r \in Listed(client'.queue)
<1>1. /\ QueueOk(client) /\ Sane(client) /\ client \in Client
      /\ client.queue \in Seq(Interaction) /\ Shown(client)
      /\ \A m \in Marks(client.queue) : MarkOk(m)
  BY DEF ListsInv, QueueOk, Sane, Client
<1>2. client.screen # None /\ client.queue # <<>>
  BY DEF AnswerRaw, AnswerRpc, AnswerUnacknowledged, Decide
<1>3. TakeCurrent = client.queue[1] /\ 1 \in DOMAIN client.queue
  BY <1>1, <1>2, Nonempty DEF TakeCurrent
<1>4. client.screen = TakeCurrent.req
  BY <1>1, <1>2, <1>3 DEF Shown
<1>5. TakeCurrent.req \in Requests /\ Asked(TakeCurrent.req)
  <2>1. <<client.queue[1].req, client.queue[1].learned>> \in Marks(client.queue)
    BY <1>3 DEF Marks
  <2> QED BY <1>1, <1>3, <2>1 DEF MarkOk
<1> DEFINE d == Answered
           e == [d EXCEPT !.owed = TRUE]
<1>6. /\ Sane(d) /\ d.owed = client.owed
      /\ Marks(d.queue) \subseteq Marks(client.queue)
      /\ \A r \in Listed(client.queue) : r # TakeCurrent.req => r \in Listed(d.queue)
  BY <1>1, <1>2, AnsweredQueue
<1>7. client' = d \/ client' = e
  BY DEF AnswerRaw, AnswerRpc, AnswerUnacknowledged
<1> HIDE DEF d
<1>8. QueueOk(d) /\ d \in Client
  BY <1>1, <1>6 DEF QueueOk, Sane
<1>9. e \in Client /\ e.queue = d.queue /\ e.screen = d.screen /\ e.owed = TRUE
  BY <1>8 DEF Client
<1> HIDE DEF e
<1>10. QueueOk(e)
  BY <1>8, <1>9, SameQueue
<1>11. CASE client' = d
  BY <1>4, <1>5, <1>6, <1>8, <1>11
<1>12. CASE client' = e
  BY <1>4, <1>5, <1>6, <1>9, <1>10, <1>12
<1> QED BY <1>7, <1>11, <1>12

LEMMA HeadFrame ==
    ASSUME FrameInv, inbound # <<>>
    PROVE  /\ Head(inbound) \in Frames /\ FrameOk(Head(inbound))
           /\ Tail(inbound) \in Seq(Frames)
           /\ \A f : f \in ToSet(inbound) <=> f = Head(inbound) \/ f \in ToSet(Tail(inbound))
<1> HIDE DEF Frames
<1>1. inbound \in Seq(Frames)
  BY DEF FrameInv
<1>2. /\ 1 \in DOMAIN inbound /\ Head(inbound) = inbound[1] /\ inbound[1] \in Frames
      /\ Tail(inbound) \in Seq(Frames)
      /\ \A k \in DOMAIN Tail(inbound) :
            k + 1 \in DOMAIN inbound /\ Tail(inbound)[k] = inbound[k + 1]
      /\ \A i \in DOMAIN inbound :
            i # 1 => i - 1 \in DOMAIN Tail(inbound) /\ Tail(inbound)[i - 1] = inbound[i]
  BY <1>1, Nonempty
<1>3. ASSUME NEW f \in ToSet(inbound) PROVE f = Head(inbound) \/ f \in ToSet(Tail(inbound))
  <2>1. PICK i \in DOMAIN inbound : inbound[i] = f
    BY InSequence
  <2> QED BY <1>2, <2>1, InSequence
<1>4. ASSUME NEW f \in ToSet(Tail(inbound)) PROVE f \in ToSet(inbound)
  <2>1. PICK k \in DOMAIN Tail(inbound) : Tail(inbound)[k] = f
    BY InSequence
  <2>2. k + 1 \in DOMAIN inbound /\ inbound[k + 1] = f
    BY <1>2, <2>1
  <2> QED BY <2>2, InSequence
<1>5. Head(inbound) \in ToSet(inbound)
  BY <1>2, InSequence
<1> QED BY <1>2, <1>3, <1>4, <1>5 DEF FrameInv

LEMMA ListsStep == ListsInv /\ [Next]_vars => ListsInv' /\ Grown
<1> SUFFICES ASSUME ListsInv, [Next]_vars PROVE ListsInv' /\ Grown
  OBVIOUS
<1>1. /\ EngineInv /\ ListingInv /\ FrameInv /\ QueueOk(client) /\ log \in Seq(Events)
  BY DEF ListsInv, EngineInv, EngineTyped
<1>2. EngineInv' /\ Grown
  BY <1>1, EngineStep, EngineGrows
<1>3. ListingInv'
  BY <1>1, <1>2, ListingStays
<1>4. FrameInv'
  <2>1. CASE Receive
    <3>1. inbound # <<>> /\ inbound' = Tail(inbound)
      BY <2>1 DEF Receive
    <3>2. /\ Tail(inbound) \in Seq(Frames)
          /\ \A f \in ToSet(Tail(inbound)) : f \in ToSet(inbound)
      BY <1>1, <3>1, HeadFrame
    <3>3. \A f \in ToSet(inbound) : f \in Frames /\ FrameOk(f)
      <4> SUFFICES ASSUME NEW k \in DOMAIN inbound PROVE inbound[k] \in Frames
        BY <1>1, InSequence DEF FrameInv
      <4> HIDE DEF Frames
      <4>1. inbound \in Seq(Frames)
        BY <1>1 DEF FrameInv
      <4> QED BY <4>1
    <3>4. \A f \in ToSet(inbound) : FrameOk(f)'
      BY <1>2, <3>3, FrameStays
    <3> QED BY <3>1, <3>2, <3>4 DEF FrameInv
  <2>2. CASE ~Receive
    BY <1>2, <2>2, FramesKept
  <2> QED BY <2>1, <2>2
<1>5. QueueOk(client)'
  <2>1. CASE client' = client
    BY <1>1, <1>2, <2>1, QueueStays
  <2>2. CASE Receive
    <3>1. inbound # <<>> /\ client' = Take(client, Head(inbound))
      BY <2>2 DEF Receive
    <3>2. QueueOk(Take(client, Head(inbound)))
      BY <1>1, <3>1, HeadFrame, TakeKeeps
    <3> QED BY <1>2, <3>1, <3>2, QueueStays
  <2>3. CASE ReadState
    BY <2>3, ReadKeeps
  <2>4. ASSUME NEW says \in Says,
               AnswerRaw(says) \/ AnswerRpc(says) \/ AnswerUnacknowledged(says)
        PROVE  QueueOk(client)'
    <3>1. PICK c : c = client'
      OBVIOUS
    <3>2. QueueOk(c)
      BY <2>4, <3>1, AnswerKeeps
    <3> QED BY <1>2, <3>1, <3>2, QueueStays
  <2>5. ASSUME NEW q \in Requests, Issue(q) \/ GiveUp(q) \/ SendRaw(q) \/ Return(q)
        PROVE  client' = client
    BY <2>5 DEF Issue, GiveUp, SendRaw, Return
  <2>6. ASSUME NEW a, RouteResponse(a) PROVE client' = client
    BY <2>6 DEF RouteResponse
  <2>7. FailAll \/ EndTurn \/ UNCHANGED vars => client' = client
    BY DEF FailAll, EndTurn, vars
  <2> QED
    BY <2>1, <2>2, <2>3, <2>4, <2>5, <2>6, <2>7 DEF Next, Work, OperatorAnswers
<1> QED BY <1>2, <1>3, <1>4, <1>5 DEF ListsInv

\* Only an answer takes a pending request from the queue.
LEMMA QueueRetains ==
    ASSUME ListsInv, [Next]_vars, ~OperatorAnswers
    PROVE  \A r \in registry \cap Listed(client.queue) : r \in Listed(client'.queue)
<1>1. CASE client' = client
  BY <1>1
<1>2. CASE Receive
  <2>1. inbound # <<>> /\ client' = Take(client, Head(inbound))
    BY <1>2 DEF Receive
  <2>2. Head(inbound) \in Frames /\ FrameOk(Head(inbound))
    BY <2>1, HeadFrame DEF ListsInv
  <2> QED BY <2>1, <2>2, TakeKeeps
<1>3. CASE ReadState
  BY <1>3, ReadKeeps
<1>4. ASSUME NEW q \in Requests, Issue(q) \/ GiveUp(q) \/ SendRaw(q) \/ Return(q)
      PROVE  client' = client
  BY <1>4 DEF Issue, GiveUp, SendRaw, Return
<1>5. ASSUME NEW a, RouteResponse(a) PROVE client' = client
  BY <1>5 DEF RouteResponse
<1>6. FailAll \/ EndTurn \/ UNCHANGED vars => client' = client
  BY DEF FailAll, EndTurn, vars
<1> QED BY <1>1, <1>2, <1>3, <1>4, <1>5, <1>6 DEF Next, Work

LEMMA ListsStart == Init => ListsInv
<1> SUFFICES ASSUME Init PROVE ListsInv
  OBVIOUS
<1>1. EngineInv
  BY Start
<1>2. /\ log = <<>> /\ registry = {} /\ inbound = <<>>
      /\ client = [cursor |-> 0, owed |-> TRUE, queue |-> <<>>, screen |-> None]
  BY DEF Init
<1>3. ListingInv
  BY <1>2 DEF ListingInv
<1>4. FrameInv
  BY <1>2, InSequence DEF FrameInv
<1>5. QueueOk(client)
  <2>1. client \in Client /\ client.queue = <<>> /\ client.screen = None
    BY <1>2 DEF Client, None
  <2>2. Marks(client.queue) = {} /\ Distinct(client.queue)
    BY <2>1 DEF Marks, Distinct
  <2> QED BY <2>1, <2>2 DEF QueueOk, Sane, Shown
<1> QED BY <1>1, <1>3, <1>4, <1>5 DEF ListsInv

(* No list, resolution or turn end retires a decision the engine waits     *)
(* for: for any number of requests, lost events and late answers, a        *)
(* pending request leaves the client's queue only by the operator's        *)
(* answer.                                                                 *)
THEOREM LiveDecisionsStay == Spec => NoLiveDecisionRetired
<1>1. Init => ListsInv
  BY ListsStart
<1>2. ListsInv /\ [Next]_vars => ListsInv'
  BY ListsStep
<1>3. ListsInv /\ [Next]_vars =>
          [\A r \in registry : r \in Listed(client.queue) \ Listed(client'.queue)
               => OperatorAnswers]_vars
  BY QueueRetains
<1> QED BY <1>1, <1>2, <1>3, PTL DEF Spec, NoLiveDecisionRetired

-----------------------------------------------------------------------------
(* Answers and decisions.                                                  *)

\* What a step must show of the answers it adds and of the outcomes it sends.
LEMMA AnswersStay ==
    ASSUME Grown, AnswerInv, decided \subseteq decided', answers' \subseteq Answers,
           \A a \in answers' : \/ a \in answers
                               \/ Asked(a.req) /\ (a.req \in registry => a \in decided'),
           \A r \in Requests : issue'[r].outcome = "granted" =>
               issue[r].outcome = "granted" \/ [req |-> r, says |-> "granted"] \in decided'
    PROVE  AnswerInv'
<1>1. ASSUME NEW a \in answers' PROVE Asked(a.req)' /\ (a.req \in registry' => a \in decided')
  <2>1. a.req \in Requests /\ Asked(a.req) /\ (a.req \in registry => a \in decided')
    BY DEF AnswerInv, Answers
  <2> QED BY <2>1 DEF Grown
<1>2. \A r \in Requests :
         issue'[r].outcome = "granted" => [req |-> r, says |-> "granted"] \in decided'
  BY DEF AnswerInv
<1> QED BY <1>1, <1>2 DEF AnswerInv

\* A resolution grants what the operator decided.
LEMMA ResolvedAnswers ==
    ASSUME ListsInv, AnswerInv, Grown, NEW q, NEW outcome, Resolve(q, outcome),
           decided \subseteq decided', answers' \subseteq answers,
           q \in registry => [req |-> q, says |-> outcome] \in decided'
    PROVE  AnswerInv'
<1>1. issue \in [Requests -> Calls] /\ answers' \subseteq Answers
  BY DEF ListsInv, EngineInv, EngineTyped, AnswerInv
<1>2. ASSUME NEW r \in Requests, issue'[r].outcome = "granted"
      PROVE  issue[r].outcome = "granted" \/ [req |-> r, says |-> "granted"] \in decided'
  <2>1. CASE q \in registry
    <3>1. issue' = [issue EXCEPT ![q].outcome = outcome]
      BY <2>1 DEF Resolve
    <3>2. CASE r = q
      <4>1. issue'[r].outcome = outcome
        BY <1>1, <3>1, <3>2 DEF Calls
      <4> QED BY <1>2, <2>1, <3>2, <4>1
    <3>3. CASE r # q
      BY <1>1, <1>2, <3>1, <3>3
    <3> QED BY <3>2, <3>3
  <2>2. CASE q \notin registry
    BY <1>2, <2>2 DEF Resolve
  <2> QED BY <2>1, <2>2
<1> QED BY <1>1, <1>2, AnswersStay

\* The declines of dropped responders find nothing to decline.
LEMMA DeclinesAreLate ==
    ASSUME ListsInv, [Next]_vars, Receive, NEW a \in Declines(client, client')
    PROVE  a \in Answers /\ Asked(a.req) /\ a.req \notin registry
<1>1. PICK e \in ToSet(client.queue) :
          /\ a = [req |-> e.req, says |-> "refused"]
          /\ e.req \notin Listed(client'.queue)
  BY DEF Declines
<1>2. PICK k \in DOMAIN client.queue : client.queue[k] = e
  BY InSequence
<1>3. /\ <<e.req, e.learned>> \in Marks(client.queue)
      /\ e.req \in Listed(client.queue)
  BY <1>2 DEF Marks, Listed
<1>4. e.req \in Requests /\ Asked(e.req)
  BY <1>3 DEF ListsInv, QueueOk, MarkOk
<1>5. ASSUME e.req \in registry PROVE FALSE
  <2>1. inbound # <<>> /\ client' = Take(client, Head(inbound))
    BY DEF Receive
  <2>2. Head(inbound) \in Frames /\ FrameOk(Head(inbound))
    BY <2>1, HeadFrame DEF ListsInv
  <2> QED BY <1>1, <1>3, <1>5, <2>1, <2>2, TakeKeeps
<1> QED BY <1>1, <1>4, <1>5 DEF Answers

LEMMA AnswerStep ==
    ASSUME ListsInv, AnswerInv, [Next]_vars PROVE AnswerInv'
<1>1. /\ Grown /\ EngineInv /\ issue \in [Requests -> Calls] /\ answers \subseteq Answers
      /\ Says \subseteq {"granted", "refused"}
  BY ListsStep, ConstantsAssumption DEF ListsInv, EngineInv, EngineTyped, AnswerInv
<1>2. ASSUME UNCHANGED <<answers, decided>>,
             \A r \in Requests : issue'[r].outcome = "granted" => issue[r].outcome = "granted"
      PROVE  AnswerInv'
  BY <1>1, <1>2, AnswersStay
<1>3. ASSUME NEW q \in Requests, Issue(q) PROVE AnswerInv'
  BY <1>1, <1>2, <1>3 DEF Issue, Calls
<1>4. ASSUME NEW q \in Requests, SendRaw(q) PROVE AnswerInv'
  BY <1>1, <1>2, <1>4 DEF SendRaw, Calls
<1>5. ASSUME NEW q \in Requests, Return(q) PROVE AnswerInv'
  BY <1>1, <1>2, <1>5 DEF Return, Calls
<1>6. ASSUME NEW q \in Requests, GiveUp(q) PROVE AnswerInv'
  BY <1>1, <1>2, <1>6 DEF GiveUp, Calls
<1>7. FailAll => AnswerInv'
  BY <1>1, <1>2 DEF FailAll, Calls
<1>8. ReadState \/ EndTurn \/ UNCHANGED vars => AnswerInv'
  BY <1>2 DEF ReadState, EndTurn, vars, engineVars
<1>9. ASSUME Receive PROVE AnswerInv'
  <2>1. UNCHANGED <<decided, issue>> /\ answers' \subseteq answers \cup Declines(client, client')
    BY <1>9 DEF Receive, engineVars
  <2>2. \A a \in Declines(client, client') : a \in Answers /\ Asked(a.req) /\ a.req \notin registry
    BY <1>9, DeclinesAreLate
  <2> QED BY <1>1, <2>1, <2>2, AnswersStay
<1>10. ASSUME NEW a \in answers, RouteResponse(a) PROVE AnswerInv'
  <2>1. Resolve(a.req, a.says) /\ decided' = decided /\ answers' \subseteq answers
    BY <1>10 DEF RouteResponse
  <2>2. a = [req |-> a.req, says |-> a.says]
    BY <1>1 DEF Answers
  <2>3. a.req \in registry => a \in decided
    BY DEF AnswerInv
  <2> QED BY <1>1, <2>1, <2>2, <2>3, ResolvedAnswers
<1>11. ASSUME NEW says \in Says, AnswerRpc(says) PROVE AnswerInv'
  <2>1. /\ Resolve(TakeCurrent.req, says) /\ answers' = answers
        /\ decided' = decided \cup {[req |-> client.screen, says |-> says]}
    BY <1>11 DEF AnswerRpc, Decide
  <2>2. client.screen = TakeCurrent.req
    BY <1>11, AnswerKeeps
  <2> QED BY <1>1, <2>1, <2>2, ResolvedAnswers
<1>12. ASSUME NEW says \in Says, AnswerRaw(says) \/ AnswerUnacknowledged(says) PROVE AnswerInv'
  <2> DEFINE a == [req |-> TakeCurrent.req, says |-> says]
  <2>1. /\ answers' \subseteq answers \cup {a} /\ issue' = issue
        /\ decided' = decided \cup {[req |-> client.screen, says |-> says]}
    BY <1>12 DEF AnswerRaw, AnswerUnacknowledged, Decide, engineVars
  <2>2. /\ client.screen = TakeCurrent.req /\ TakeCurrent.req \in Requests
        /\ Asked(TakeCurrent.req)
    BY <1>12, AnswerKeeps
  <2>3. a \in Answers /\ a.req = TakeCurrent.req /\ a \in decided'
    BY <1>1, <2>1, <2>2 DEF Answers
  <2> HIDE DEF a
  <2>4. Asked(a.req) /\ answers' \subseteq Answers /\ decided \subseteq decided'
    BY <1>1, <2>1, <2>2, <2>3
  <2> QED BY <1>1, <2>1, <2>3, <2>4, AnswersStay
<1> QED
  BY <1>3, <1>4, <1>5, <1>6, <1>7, <1>8, <1>9, <1>10, <1>11, <1>12
     DEF Next, Work, OperatorAnswers

-----------------------------------------------------------------------------
(* No decision is forgotten.                                               *)

RawOnTheWay(r) == [kind |-> "raw", of |-> r] \in ToSet(inbound)

Remembered(r) ==
    \/ issue[r].at = "asked"
    \/ RawOnTheWay(r)
    \/ r \in Listed(client.queue)
    \/ \E a \in answers : a.req = r
    \/ client.owed

LEMMA Remembering == NoDecisionForgotten <=> \A r \in registry : Remembered(r)
  BY DEF NoDecisionForgotten, Remembered, RawOnTheWay

\* A step that leaves the client alone and takes no answer away.
LEMMA EngineRemembers ==
    ASSUME ToSet(inbound) \subseteq ToSet(inbound'), client' = client, answers \subseteq answers',
           NEW r, Remembered(r), issue[r].at = "asked" => issue'[r].at = "asked" \/ RawOnTheWay(r)'
    PROVE  Remembered(r)'
  BY DEF Remembered, RawOnTheWay

LEMMA ResolveKeepsCalls ==
    ASSUME EngineInv, NEW q, NEW outcome, Resolve(q, outcome)
    PROVE  \A r \in Requests : issue'[r].at = issue[r].at
<1>1. issue \in [Requests -> Calls]
  BY DEF EngineInv, EngineTyped
<1>2. CASE q \in registry
  BY <1>1, <1>2 DEF Resolve, Calls
<1>3. CASE q \notin registry
  BY <1>3 DEF Resolve
<1> QED BY <1>2, <1>3

\* A frame is taken: its request is in the queue now, and the others stay.
LEMMA ReceiveRemembers ==
    ASSUME ListsInv, Receive, NEW r \in registry, Remembered(r) PROVE Remembered(r)'
<1> DEFINE f == Head(inbound)
<1>1. /\ inbound # <<>> /\ inbound' = Tail(inbound) /\ client' = Take(client, f)
      /\ answers \subseteq answers' /\ issue' = issue
  BY DEF Receive, engineVars
<1>2. /\ f \in Frames /\ FrameOk(f)
      /\ \A g : g \in ToSet(inbound) <=> g = f \/ g \in ToSet(Tail(inbound))
  BY <1>1, HeadFrame DEF ListsInv
<1> HIDE DEF f
<1>3. /\ client.owed => client'.owed
      /\ r \in Listed(client.queue) => r \in Listed(client'.queue)
      /\ f.kind = "raw" => f.of \in Listed(client'.queue)
  BY <1>1, <1>2, TakeKeeps
<1>4. CASE RawOnTheWay(r)
  <2>1. CASE f = [kind |-> "raw", of |-> r]
    <3>1. f.kind = "raw" /\ f.of = r
      BY <2>1
    <3> QED BY <1>3, <3>1 DEF Remembered
  <2>2. CASE f # [kind |-> "raw", of |-> r]
    <3>1. [kind |-> "raw", of |-> r] \in ToSet(inbound')
      BY <1>1, <1>2, <1>4, <2>2 DEF RawOnTheWay
    <3> QED BY <3>1 DEF Remembered, RawOnTheWay
  <2> QED BY <2>1, <2>2
<1>5. CASE ~RawOnTheWay(r)
  BY <1>1, <1>3, <1>5 DEF Remembered
<1> QED BY <1>4, <1>5

LEMMA RememberStep ==
    ASSUME ListsInv, NoDecisionForgotten, [Next]_vars, NEW r \in registry' PROVE Remembered(r)'
<1>1. /\ Grown /\ EngineInv /\ issue \in [Requests -> Calls] /\ registry \subseteq Requests
      /\ inbound \in Seq(Frames) /\ r \in Requests /\ (r \in registry => Remembered(r))
      /\ \A a \in answers : a.says \in {"granted", "refused"}
      /\ Says \subseteq {"granted", "refused"}
  <2>1. Grown /\ EngineInv /\ inbound \in Seq(Frames)
    BY ListsStep DEF ListsInv, FrameInv
  <2> QED BY <2>1, Remembering, ConstantsAssumption DEF EngineInv, EngineTyped, Grown
<1>2. CASE Receive
  <2>1. r \in registry
    BY <1>2 DEF Receive, engineVars
  <2> QED BY <1>1, <1>2, <2>1, ReceiveRemembers
<1> SUFFICES ASSUME ~Receive PROVE Remembered(r)'
  BY <1>2
<1>3. ToSet(inbound) \subseteq ToSet(inbound')
  BY <1>1, FramesKept
<1>4. ASSUME NEW q \in Requests, Issue(q) PROVE Remembered(r)'
  <2>1. /\ issue' = [issue EXCEPT ![q] = [at |-> "asked", outcome |-> "none"]]
        /\ registry' = registry \cup {q} /\ UNCHANGED <<answers, client>>
    BY <1>4 DEF Issue
  <2>2. CASE r = q
    <3>1. issue'[r].at = "asked"
      BY <1>1, <2>1, <2>2
    <3> QED BY <3>1 DEF Remembered
  <2>3. CASE r # q
    <3>1. r \in registry /\ issue'[r] = issue[r]
      BY <1>1, <2>1, <2>3
    <3> QED BY <1>1, <1>3, <2>1, <3>1, EngineRemembers
  <2> QED BY <2>2, <2>3
<1>5. ASSUME NEW q \in Requests, SendRaw(q) PROVE Remembered(r)'
  <2> DEFINE f == [kind |-> "raw", of |-> q]
  <2>1. /\ issue' = [issue EXCEPT ![q].at = "waiting"] /\ inbound' = Append(inbound, f)
        /\ UNCHANGED <<registry, answers, client>>
    BY <1>5 DEF SendRaw
  <2>2. f \in ToSet(inbound')
    <3>1. f \in Frames
      BY DEF Frames
    <3> HIDE DEF f
    <3> QED BY <1>1, <2>1, <3>1, OneMoreFrame
  <2>3. r = q => RawOnTheWay(r)'
    BY <2>2 DEF RawOnTheWay
  <2>4. r # q => issue'[r] = issue[r]
    BY <1>1, <2>1
  <2> QED BY <1>1, <1>3, <2>1, <2>3, <2>4, EngineRemembers
<1>6. ASSUME NEW q \in Requests, Return(q) PROVE Remembered(r)'
  <2>1. /\ issue[q].at = "waiting" /\ UNCHANGED <<registry, answers, client>>
        /\ r # q => issue'[r] = issue[r]
    BY <1>1, <1>6 DEF Return
  <2> QED BY <1>1, <1>3, <2>1, EngineRemembers
<1>7. ASSUME NEW q \in Requests, GiveUp(q) PROVE Remembered(r)'
  <2>1. registry' = registry \ {q}
    BY <1>1, <1>7, GiveUpGrows
  <2>2. UNCHANGED <<answers, client>> /\ issue'[r] = issue[r] /\ r \in registry
    BY <1>1, <1>7, <2>1 DEF GiveUp
  <2> QED BY <1>1, <1>3, <2>2, EngineRemembers
<1>8. ~FailAll
  BY DEF FailAll
<1>9. ASSUME NEW a \in answers, RouteResponse(a) PROVE Remembered(r)'
  <2>1. Resolve(a.req, a.says) /\ answers' = answers \ {a} /\ client' = client
    BY <1>9 DEF RouteResponse
  <2>2. registry' = registry \ {a.req}
    BY <1>1, <2>1, ResolveGrows
  <2>3. r \in registry /\ r # a.req /\ issue'[r].at = issue[r].at
    BY <1>1, <2>1, <2>2, ResolveKeepsCalls
  <2>4. \A b \in answers : b.req = r => b \in answers'
    BY <2>1, <2>3
  <2> QED BY <1>1, <1>3, <2>1, <2>3, <2>4 DEF Remembered, RawOnTheWay
<1>10. ReadState => Remembered(r)'
  <2> SUFFICES ASSUME ReadState PROVE Remembered(r)'
    OBVIOUS
  <2>1. r \in registry
    BY DEF ReadState, engineVars
  <2> QED BY <2>1, ReadKeeps DEF Remembered
<1>11. ASSUME NEW says \in Says, AnswerRpc(says) PROVE Remembered(r)'
  <2>1. Resolve(TakeCurrent.req, says) /\ answers' = answers
    BY <1>11 DEF AnswerRpc
  <2>2. registry' = registry \ {TakeCurrent.req}
    BY <1>1, <2>1, ResolveGrows
  <2>3. r \in registry /\ r # TakeCurrent.req /\ issue'[r].at = issue[r].at
    BY <1>1, <2>1, <2>2, ResolveKeepsCalls
  <2>4. /\ client.owed => client'.owed
        /\ r \in Listed(client.queue) => r \in Listed(client'.queue)
    BY <1>11, <2>3, AnswerKeeps
  <2> QED BY <1>1, <1>3, <2>1, <2>3, <2>4 DEF Remembered, RawOnTheWay
<1>12. ASSUME NEW says \in Says, AnswerRaw(says) PROVE Remembered(r)'
  <2>1. /\ answers' = answers \cup {[req |-> TakeCurrent.req, says |-> says]}
        /\ UNCHANGED <<registry, issue>>
    BY <1>12 DEF AnswerRaw, engineVars
  <2>2. CASE r = TakeCurrent.req
    <3> DEFINE b == [req |-> TakeCurrent.req, says |-> says]
    <3>2. b \in answers' /\ b.req = r
      BY <2>1, <2>2
    <3>1. \E a \in answers' : a.req = r
      BY <3>2
    <3> QED BY <3>1 DEF Remembered
  <2>3. CASE r # TakeCurrent.req
    <3>1. /\ client.owed => client'.owed
          /\ r \in Listed(client.queue) => r \in Listed(client'.queue)
      BY <1>12, <2>3, AnswerKeeps
    <3> QED BY <1>1, <1>3, <2>1, <3>1 DEF Remembered, RawOnTheWay
  <2> QED BY <2>2, <2>3
<1>13. ASSUME NEW says \in Says, AnswerUnacknowledged(says) PROVE Remembered(r)'
  <2>1. client' = [Answered EXCEPT !.owed = TRUE]
    BY <1>13 DEF AnswerUnacknowledged
  <2>2. Answered \in Client
    <3>1. Sane(client) /\ client.queue # <<>>
      BY <1>13 DEF AnswerUnacknowledged, Decide, ListsInv, QueueOk
    <3> QED BY <3>1, AnsweredQueue DEF Sane
  <2>3. client'.owed
    BY <2>1, <2>2 DEF Client
  <2> QED BY <2>3 DEF Remembered
<1>14. EndTurn \/ UNCHANGED vars => Remembered(r)'
  <2> SUFFICES ASSUME EndTurn \/ UNCHANGED vars PROVE Remembered(r)'
    OBVIOUS
  <2>1. UNCHANGED <<registry, issue, answers, client>>
    BY DEF EndTurn, vars, engineVars
  <2> QED BY <1>1, <1>3, <2>1, EngineRemembers
<1> QED
  BY <1>4, <1>5, <1>6, <1>7, <1>8, <1>9, <1>10, <1>11, <1>12, <1>13, <1>14
     DEF Next, Work, OperatorAnswers

LEMMA ClientStart == Init => ClientInv
<1> SUFFICES ASSUME Init PROVE ClientInv
  OBVIOUS
<1>1. AnswerInv
  BY DEF Init, AnswerInv
<1>2. NoDecisionForgotten
  BY DEF Init, NoDecisionForgotten
<1> QED BY <1>1, <1>2, ListsStart DEF ClientInv

LEMMA ClientStep == ClientInv /\ [Next]_vars => ClientInv'
<1> SUFFICES ASSUME ClientInv, [Next]_vars PROVE ClientInv'
  OBVIOUS
<1>1. ListsInv' /\ AnswerInv'
  BY ListsStep, AnswerStep DEF ClientInv
<1>2. \A r \in registry' : Remembered(r)'
  BY RememberStep DEF ClientInv
<1>3. NoDecisionForgotten'
  BY <1>2 DEF NoDecisionForgotten, Remembered, RawOnTheWay
<1> QED BY <1>1, <1>3 DEF ClientInv

LEMMA ClientInvariant == Spec => []ClientInv
  BY ClientStart, ClientStep, PTL DEF Spec

(* An answer that can still take effect, and a grant that a call returns,  *)
(* is what the operator decided on that very request, read on screen: for  *)
(* any number of requests, lists that arrive late or never, dropped        *)
(* responders and unacknowledged answers.                                  *)
THEOREM AnswersAreTheOperators == Spec => []AnswersAreDecisions
<1>1. ClientInv => AnswersAreDecisions
  <2> SUFFICES ASSUME ClientInv PROVE AnswersAreDecisions
    OBVIOUS
  <2>1. AnswerInv /\ EngineInv
    BY DEF ClientInv, ListsInv
  <2>2. \A r \in Requests : issue[r].at = "granted" => issue[r].outcome = "granted"
    BY <2>1 DEF EngineInv, Settled, Agreed
  <2> QED BY <2>1, <2>2 DEF AnswerInv, AnswersAreDecisions
<1> QED BY <1>1, ClientInvariant, PTL

(* A pending request whose frame has been taken is in the client's queue,  *)
(* or its answer is on the way, or a state read is owed.                   *)
THEOREM DecisionsRemembered == Spec => []NoDecisionForgotten
<1>1. ClientInv => NoDecisionForgotten
  BY DEF ClientInv
<1> QED BY <1>1, ClientInvariant, PTL
=============================================================================
