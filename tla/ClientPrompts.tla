----------------------------- MODULE ClientPrompts -----------------------------
(***************************************************************************)
(* The decisions an engine asks of its operator: a tool call waits in      *)
(* PromptChannel::issue, the engine lists the request in its registry and  *)
(* announces it, and the terminal client queues it, shows the oldest one   *)
(* and sends the answer (coda-serve/src/prompts.rs,                        *)
(* coda-serve/src/state/requests.rs, coda-tui/src/api/requests.rs).        *)
(*                                                                         *)
(* A request reaches the client twice: as an announcement, which is an     *)
(* event of the engine, has a number and goes through the client's event   *)
(* fence, and as the raw request/* frame, which has no number and does     *)
(* not.  Both are written to one connection.  The fence is the one of      *)
(* StateFeed with its hold buffer left out: after a hole the cursor stays, *)
(* and no event is applied until a state read succeeds.  That read is one  *)
(* step, as there.                                                         *)
(***************************************************************************)
EXTENDS Naturals, FiniteSets, Sequences, Functions, SequencesExt, Ascending

CONSTANTS
    MaxRequests,    \* bound: requests issued
    MaxFaults,      \* bound: events lost on their way to the client, and answers
                    \* by RPC that are not acknowledged
    Says,           \* what the operator may answer
    Own             \* requests the foreground turn issues, the others are of
                    \* background subagents and scheduled runs

ASSUME ConstantsAssumption ==
    /\ {MaxRequests, MaxFaults} \subseteq Nat
    /\ Says \subseteq {"granted", "refused"}
    /\ Own \subseteq 1..MaxRequests

VARIABLES
    log,        \* events published; event i has the number (seq) i
    registry,   \* requests the engine waits for
    issue,      \* where the call of PromptChannel::issue for each request is
    turn,       \* the foreground turn: "running" or "over"
    inbound,    \* frames on their way to the client
    answers,    \* answers on their way to the engine
    client,     \* fence, queue of decisions and screen of the client
    decided,    \* history: what the operator answered, by the request shown
    faults      \* faults so far

engineVars == <<log, registry, issue, turn>>
vars == <<engineVars, inbound, answers, client, decided, faults>>

Requests == 1..MaxRequests
None == 0       \* no request, no event number

Events == [kind: {"pending", "resolved"}, req: Requests,
           outcome: {"granted", "refused", "none"}, listed: SUBSET Requests]
Frames == [kind: {"event"}, of: Nat] \cup [kind: {"raw"}, of: Requests]
             \cup [kind: {"turnOver"}, of: {None}]
Interaction == [req: Requests, learned: Nat, responder: BOOLEAN]
Answers == [req: Requests, says: {"granted", "refused"}]

Init ==
    /\ log = <<>> /\ registry = {} /\ turn = "running"
    /\ issue = [r \in Requests |-> [at |-> "unasked", outcome |-> "none"]]
    /\ inbound = <<>> /\ answers = {} /\ decided = {}
    /\ client = [cursor |-> 0, owed |-> TRUE, queue |-> <<>>, screen |-> None]
    /\ faults = 0

-----------------------------------------------------------------------------
(* The client.                                                             *)

Listed(queue) == {queue[i].req : i \in DOMAIN queue}

\* open_current_prompt.
OpenCurrent(c) ==
    IF c.screen = None /\ c.queue # <<>> THEN [c EXCEPT !.screen = Head(c.queue).req] ELSE c

\* PendingInteractions::on_server_request: a decision already discovered gains
\* its responder.
OnServerRequest(c, r) ==
    OpenCurrent(
        IF r \in Listed(c.queue)
        THEN [c EXCEPT !.queue = [i \in DOMAIN @ |->
                 IF @[i].req = r THEN [@[i] EXCEPT !.responder = TRUE] ELSE @[i]]]
        ELSE [c EXCEPT !.queue = Append(@, [req |-> r, learned |-> None, responder |-> TRUE])])

\* on_discovered, for the requests of a list with the engine time `time`,
\* oldest first.
Discovered(queue, listed, time) ==
    LET new == Ascending(listed \ Listed(queue))
    IN  [i \in DOMAIN queue |->
            IF queue[i].req \in listed /\ (queue[i].learned = None \/ queue[i].learned > time)
            THEN [queue[i] EXCEPT !.learned = time] ELSE queue[i]]
        \o [k \in DOMAIN new |-> [req |-> new[k], learned |-> time, responder |-> FALSE]]

\* Authority::covers.  An entry without an engine time came by its raw frame;
\* a snapshot was asked for after that, an announcement was not asked for.
Covers(entry, time, snapshot) ==
    IF entry.learned = None THEN snapshot ELSE entry.learned <= time

\* What a list leaves of the queue: every request it names, and what it is too
\* old to speak of.
Kept(queue, listed, time, snapshot) ==
    LET found == Discovered(queue, listed, time)
    IN  At(found, {i \in DOMAIN found :
                      found[i].req \in listed \/ ~Covers(found[i], time, snapshot)})

(* Slip: the entry goes, the modal stays. *)
ReconcileBehindTheScreen(c, listed, time, snapshot) ==
    OpenCurrent([c EXCEPT !.queue = Kept(@, listed, time, snapshot)])

\* reconcile, then close_retired_prompt and open_current_prompt by the caller.
Reconcile(c, listed, time, snapshot) ==
    LET kept   == Kept(c.queue, listed, time, snapshot)
        opened == listed \ Listed(c.queue) # {}
        closed == /\ c.screen # None /\ c.queue # <<>>
                  /\ Head(c.queue).req \notin Listed(kept)
        moved  == [c EXCEPT !.queue = kept, !.screen = IF closed THEN None ELSE @]
    IN  IF opened \/ closed THEN OpenCurrent(moved) ELSE moved

(* Slip: whatever is on screen is the request that was resolved. *)
OnResolvedCurrent(c, r) ==
    IF c.queue = <<>> THEN c
    ELSE OpenCurrent([c EXCEPT !.queue = Tail(@), !.screen = None])

\* apply_state_frame on requestResolved.
OnResolved(c, r) ==
    LET onScreen == c.queue # <<>> /\ Head(c.queue).req = r
        removed  == [c EXCEPT !.queue = At(@, {i \in DOMAIN @ : @[i].req # r})]
    IN  IF onScreen THEN OpenCurrent([removed EXCEPT !.screen = None]) ELSE removed

\* apply_state_frame.
Apply(c, i) ==
    CASE log[i].kind = "pending"  -> Reconcile(c, log[i].listed, i, FALSE)
      [] log[i].kind = "resolved" -> OnResolved(c, log[i].req)

\* ServeView::receive: the event that continues from the cursor is applied.
Accept(c, i) ==
    IF i <= c.cursor THEN c
    ELSE IF i > c.cursor + 1 THEN [c EXCEPT !.owed = TRUE]
    ELSE Apply([c EXCEPT !.cursor = i], i)

(* Slip: the turn takes the queue with it. *)
TakeAndForget(c, frame) ==
    CASE frame.kind = "event"    -> Accept(c, frame.of)
      [] frame.kind = "raw"      -> OnServerRequest(c, frame.of)
      [] frame.kind = "turnOver" -> [c EXCEPT !.screen = None, !.queue = <<>>]

\* on_inbound, and on_turn_finished: the reducer clears the prompt, and `apply`
\* takes the modal down with it.
Take(c, frame) ==
    CASE frame.kind = "event"    -> Accept(c, frame.of)
      [] frame.kind = "raw"      -> OnServerRequest(c, frame.of)
      [] frame.kind = "turnOver" -> [c EXCEPT !.screen = None]

\* A responder that leaves the queue with a resolved request is dropped, and
\* a dropped responder declines.
Declines(c, d) ==
    {[req |-> e.req, says |-> "refused"] :
        e \in {e \in ToSet(c.queue) : e.responder /\ e.req \notin Listed(d.queue)}}

Receive ==
    /\ inbound # <<>>
    /\ LET frame == Head(inbound)
           resolved == frame.kind = "event" /\ log[frame.of].kind = "resolved"
       IN  /\ client' = Take(client, frame)
           /\ answers' = answers \cup IF resolved THEN Declines(client, client') ELSE {}
    /\ inbound' = Tail(inbound)
    /\ UNCHANGED <<engineVars, decided, faults>>

\* resync_paired_at: the answer is made when the engine handles the read, and
\* a retired responder is discarded.
ReadState ==
    /\ client.owed
    /\ client' = Reconcile([client EXCEPT !.cursor = Len(log), !.owed = FALSE],
                           registry, Len(log), TRUE)
    /\ UNCHANGED <<engineVars, inbound, answers, decided, faults>>

-----------------------------------------------------------------------------
(* The engine.                                                             *)

Pending(r) ==
    [kind |-> "pending", req |-> r, outcome |-> "none", listed |-> registry \cup {r}]
Resolved(r, outcome, listed) ==
    [kind |-> "resolved", req |-> r, outcome |-> outcome, listed |-> listed]

\* transact: the events get the next numbers; each reaches the connection or
\* is lost on it.
Publish(events) ==
    \E gone \in SUBSET (Len(log) + 1 .. Len(log) + Len(events)) :
        /\ faults' = faults + Cardinality(gone)
        /\ faults' <= MaxFaults
        /\ log' = log \o events
        /\ inbound' = inbound \o
              LET sent == Ascending((Len(log) + 1 .. Len(log) + Len(events)) \ gone)
              IN  [k \in DOMAIN sent |-> [kind |-> "event", of |-> sent[k]]]

\* issue, up to the registration.
Issue(r) ==
    /\ issue[r].at = "unasked"
    /\ \A q \in 1..(r - 1) : issue[q].at # "unasked"
    /\ r \in Own => turn = "running"
    /\ issue' = [issue EXCEPT ![r] = [at |-> "asked", outcome |-> "none"]]
    /\ registry' = registry \cup {r}
    /\ Publish(<<Pending(r)>>)
    /\ UNCHANGED <<turn, answers, client, decided>>

\* issue, the frame: written whether or not the request is still pending.
SendRaw(r) ==
    /\ issue[r].at = "asked"
    /\ issue' = [issue EXCEPT ![r].at = "waiting"]
    /\ inbound' = Append(inbound, [kind |-> "raw", of |-> r])
    /\ UNCHANGED <<log, registry, turn, answers, client, decided, faults>>

\* resolve_inner with the outcome of the answer.
Resolve(r, outcome) ==
    IF r \in registry
    THEN /\ registry' = registry \ {r}
         /\ issue' = [issue EXCEPT ![r].outcome = outcome]
         /\ Publish(<<Resolved(r, outcome, registry \ {r})>>)
    ELSE UNCHANGED <<log, registry, issue, inbound, faults>>

\* route_response, or session/resolveRequest by a client that no longer waits.
RouteResponse(a) ==
    /\ a \in answers
    /\ answers' = answers \ {a}
    /\ Resolve(a.req, a.says)
    /\ UNCHANGED <<turn, client, decided>>

\* issue returns what the registry sent it.
Return(r) ==
    /\ issue[r].at = "waiting" /\ issue[r].outcome # "none"
    /\ issue' = [issue EXCEPT ![r].at = issue[r].outcome]
    /\ UNCHANGED <<log, registry, turn, inbound, answers, client, decided, faults>>

(* Slip: the withdrawal announces its outcome whoever removed the entry. *)
WithdrawAndAnnounce(r) ==
    /\ registry' = registry \ {r}
    /\ Publish(<<Resolved(r, "refused", registry \ {r})>>)

\* withdraw_and_publish.
Withdraw(r) ==
    IF r \in registry
    THEN /\ registry' = registry \ {r}
         /\ Publish(<<Resolved(r, "refused", registry \ {r})>>)
    ELSE UNCHANGED <<log, registry, inbound, faults>>

\* resolve_locally on a cancellation or a timeout, or the guard's Drop when
\* the future goes away.  Either may win against an answer already there.
GiveUp(r) ==
    /\ issue[r].at = "waiting"
    /\ issue' = [issue EXCEPT ![r].at = "refused"]
    /\ Withdraw(r)
    /\ UNCHANGED <<turn, answers, client, decided>>

\* fail_all, before a planned restart: the entries are drained in any order.
FailAll ==
    /\ registry # {}
    /\ registry' = {}
    /\ issue' = [r \in Requests |->
          IF r \in registry THEN [issue[r] EXCEPT !.outcome = "refused"] ELSE issue[r]]
    /\ \E drained \in Bijection(1..Cardinality(registry), registry) :
          Publish([k \in 1..Cardinality(registry) |-> Resolved(drained[k], "refused", {})])
    /\ UNCHANGED <<turn, answers, client, decided>>

\* The foreground turn ends; the calls it made have ended or were dropped.
EndTurn ==
    /\ turn = "running"
    /\ \A r \in Own : issue[r].at \notin {"asked", "waiting"}
    /\ turn' = "over"
    /\ inbound' = Append(inbound, [kind |-> "turnOver", of |-> None])
    /\ UNCHANGED <<log, registry, issue, answers, client, decided, faults>>


-----------------------------------------------------------------------------
(* The operator answers what is on screen; what is sent is the head of the *)
(* queue.                                                                  *)

Decide(says) ==
    /\ client.screen # None /\ client.queue # <<>>
    /\ decided' = decided \cup {[req |-> client.screen, says |-> says]}

\* take_current.
TakeCurrent == Head(client.queue)

(* Slip: the queue waits for the next request to arrive. *)
AnsweredOnly == [client EXCEPT !.screen = None, !.queue = Tail(@)]

\* PromptAnswered and open_current_prompt around the delivery.
Answered == OpenCurrent([client EXCEPT !.screen = None, !.queue = Tail(@)])

\* deliver_answer with a responder.
AnswerRaw(says) ==
    /\ Decide(says)
    /\ TakeCurrent.responder
    /\ answers' = answers \cup {[req |-> TakeCurrent.req, says |-> says]}
    /\ client' = Answered
    /\ UNCHANGED <<engineVars, inbound, faults>>

\* deliver_answer by RPC: the client waits until the engine has resolved it.
AnswerRpc(says) ==
    /\ Decide(says)
    /\ ~TakeCurrent.responder
    /\ Resolve(TakeCurrent.req, says)
    /\ client' = Answered
    /\ UNCHANGED <<turn, answers>>

\* The acknowledgement does not come in time: the answer is late, or lost.
AnswerUnacknowledged(says) ==
    /\ Decide(says)
    /\ ~TakeCurrent.responder
    /\ faults < MaxFaults
    /\ faults' = faults + 1
    /\ \E late \in SUBSET {[req |-> TakeCurrent.req, says |-> says]} :
          answers' = answers \cup late
    /\ client' = [Answered EXCEPT !.owed = TRUE]
    /\ UNCHANGED <<engineVars, inbound>>

OperatorAnswers == \E says \in Says : AnswerRaw(says) \/ AnswerRpc(says) \/ AnswerUnacknowledged(says)

(* Work goes on: the engine writes frames, handles the answers it receives *)
(* and lets calls return, the client takes frames and settles what it owes *)
(* and the operator answers what is shown.  Each of these runs out by      *)
(* itself.  Nothing makes a request time out: by default none does.        *)
Work ==
    \/ \E r \in Requests : SendRaw(r) \/ Return(r)
    \/ \E a \in answers : RouteResponse(a)
    \/ Receive \/ ReadState \/ OperatorAnswers

Next ==
    \/ Work
    \/ \E r \in Requests : Issue(r) \/ GiveUp(r)
    \/ FailAll \/ EndTurn

Spec == Init /\ [][Next]_vars

FairSpec == Spec /\ WF_vars(Work)

-----------------------------------------------------------------------------
(* Properties.                                                             *)

(* The variables stay within their ranges. *)
TypeOK ==
    /\ log \in Seq(Events) /\ registry \subseteq Requests /\ turn \in {"running", "over"}
    /\ issue \in [Requests -> [at: {"unasked", "asked", "waiting", "granted", "refused"},
                               outcome: {"granted", "refused", "none"}]]
    /\ inbound \in Seq(Frames) /\ answers \subseteq Answers /\ decided \subseteq Answers
    /\ client \in [cursor: Nat, owed: BOOLEAN, queue: Seq(Interaction),
                   screen: Requests \cup {None}]
    /\ faults \in 0..MaxFaults

(* An answer that meets a pending request is what the operator decided     *)
(* about this very request, read on screen, and a call returns a grant     *)
(* only for such a decision: no announcement, snapshot or resolution moves *)
(* the queue under the modal, and the declines that dropped responders     *)
(* send find nothing to decline (requests.rs: "answering resolves exactly  *)
(* the one on screen").                                                    *)
AnswersAreDecisions ==
    /\ \A a \in answers : a.req \in registry => a \in decided
    /\ \A r \in Requests :
          issue[r].at = "granted" => [req |-> r, says |-> "granted"] \in decided

\* The announcements of the end of r.
Ends(r) == {i \in DOMAIN log : log[i].kind = "resolved" /\ log[i].req = r}

(* Each request ends once for the public: its outcome is announced when it *)
(* leaves the registry and never again, however the answer, the            *)
(* cancellation, the timeout and the sweep race; and a call returns a      *)
(* grant only if a grant was announced (prompts.rs, resolve_locally).      *)
OneOutcome ==
    \A r \in Requests :
        /\ issue[r].at = "unasked" \/ r \in registry => Ends(r) = {}
        /\ issue[r].at # "unasked" /\ r \notin registry => \E i \in Ends(r) : Ends(r) = {i}
        /\ issue[r].at = "granted" => \A i \in Ends(r) : log[i].outcome = "granted"

(* No list retires a decision the engine still waits for: a request leaves *)
(* the client's queue while it is pending only by the operator's answer    *)
(* (requests.rs, reconcile: "retiring every absent one discards a live     *)
(* approval").                                                             *)
NoLiveDecisionRetired ==
    [][\A r \in registry : r \in Listed(client.queue) \ Listed(client'.queue)
          => OperatorAnswers]_vars

(* A request whose frame has reached the client is in its queue while the  *)
(* engine waits for it, unless the answer is on its way or its fate is to  *)
(* be read.                                                                *)
NoDecisionForgotten ==
    \A r \in registry :
        \/ issue[r].at = "asked"
        \/ [kind |-> "raw", of |-> r] \in ToSet(inbound)
        \/ r \in Listed(client.queue)
        \/ \E a \in answers : a.req = r
        \/ client.owed

(* There are decisions and none is shown. *)
Hidden == client.queue # <<>> /\ client.screen = None

(* An operator who answers what is shown ends every request, through lost  *)
(* events and lost answers; except that the end of a turn may leave the    *)
(* queue without a screen (DecisionShown).                                 *)
WaiterIsReleased ==
    \A r \in Requests :
        issue[r].at = "waiting" ~> (issue[r].at # "waiting" \/ (Hidden /\ turn = "over"))

(* When everything the engine sent has been taken and no read is owed, a   *)
(* queued decision it waits for is on screen, or another one is: "a queued *)
(* decision [...] takes the screen next rather than being forgotten"       *)
(* (engine.rs, answer_prompt).  The end of a turn breaks it.               *)
DecisionShown ==
    (inbound = <<>> /\ ~client.owed /\ Hidden) =>
        \A r \in registry \cap Listed(client.queue) : issue[r].at # "waiting"
=============================================================================
