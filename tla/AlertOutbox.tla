---------------------------- MODULE AlertOutbox ----------------------------
(***************************************************************************)
(* The durable alert outbox (internal/storage/alerts.go) and the delivery  *)
(* workers that drain it (internal/alerter/alerter.go).                    *)
(*                                                                         *)
(* Several dashboard processes share one SQLite database.  Every storage   *)
(* call is one transaction, hence one action; everything a worker does     *)
(* between two storage calls (waiting for a goroutine, sending over HTTP)  *)
(* interleaves freely.                                                     *)
(*                                                                         *)
(* Time.  The code compares absolute time stamps with time.Now().  Here a  *)
(* stamp in the future is the time remaining until it (it stays at 0 once  *)
(* reached) and a stamp in the past is its age (it stays at AgeCap, the    *)
(* age from which no comparison changes any more).  Tick moves every clock.*)
(***************************************************************************)
EXTENDS Naturals, FiniteSets

CONSTANTS
    Processes,        \* dashboard processes, each with one alerter.Worker
    Edges,            \* (kind, service, target, repository, agent, old, new)
    Occurrences,      \* the occurrence part of a dedupe key
    NumEvents,        \* bound: rows ever inserted into alert_events
    NumSinks,         \* configured sinks
    MaxAttempts,      \* AlertRetryPolicy.MaxAttempts
    InitialInterval,  \* AlertRetryPolicy.InitialInterval
    MaxInterval,      \* AlertRetryPolicy.MaxInterval
    Lease,            \* config.AlertDeliveryLeaseDuration
    Timeout,          \* Sink.Timeout()
    MaxLag,           \* longest delay from stamping a lease to starting the send
    Cooldown,         \* alerting.cooldown
    Horizon,          \* alerting.retention.horizon
    ClaimBatch,       \* Worker.claimBatch
    RetentionBatch,   \* Worker.retentionBatch
    Replay            \* {FALSE}, or BOOLEAN when completions may be repeated

ASSUME ProcessAssumption == "none" \notin Processes
ASSUME SizeAssumption == /\ NumEvents \in Nat
                         /\ NumSinks \in Nat
ASSUME PolicyAssumption == /\ MaxAttempts \in Nat \ {0}
                           /\ InitialInterval \in Nat \ {0}
                           /\ MaxInterval \in Nat
                           /\ InitialInterval <= MaxInterval
ASSUME TimingAssumption == /\ Lease \in Nat \ {0}
                           /\ Timeout \in Nat \ {0}
                           /\ MaxLag \in Nat
                           /\ Cooldown \in Nat
                           /\ Horizon \in Nat
ASSUME BatchAssumption == /\ ClaimBatch \in Nat \ {0}
                          /\ RetentionBatch \in Nat \ {0}
ASSUME ReplayAssumption == Replay \subseteq BOOLEAN

EventIds   == 1..NumEvents
Sinks      == 1..NumSinks
Dispatches == EventIds \X Sinks    \* UNIQUE(event_id, sink)
AgeCap     == IF Cooldown > Horizon THEN Cooldown + 1 ELSE Horizon + 1

VARIABLES
    events,       \* alert_events
    disp,         \* alert_dispatches
    claims,       \* claims issued so far on each dispatch: the next claim_id
    job,          \* what each worker is doing with each dispatch of its batch
    locked,       \* processes whose loaded dedupe key is no longer current
    sent,         \* history: claims under which a send was started
    accepted,     \* history: claims whose send the receiver accepted
    sinceClosed   \* history: time since an event of the edge closed

vars == <<events, disp, claims, job, locked, sent, accepted, sinceClosed>>

-----------------------------------------------------------------------------
(* Rows and states *)

ActiveStatuses   == {"pending", "in_flight"}
TerminalStatuses == {"delivered", "dead_lettered", "skipped"}
ClosedEvents     == {"delivered", "failed", "partial", "reset"}
ResultPhases     == {"delivered", "pending", "skipped"}

\* "none" stands for a row that is not in the table, "pruned" for one that
\* retention has deleted (its edge is kept as history).
EventRow    == [edge : Edges \cup {"none"}, occ : Occurrences \cup {"none"},
                age : Nat,
                status : {"none", "pending", "pruned"} \cup ClosedEvents]
DispatchRow == [status : {"none", "reset"} \cup ActiveStatuses \cup TerminalStatuses,
                worker : Processes \cup {"none"}, claim : Nat, attempts : Nat,
                lease : Nat, next : Nat, age : Nat]
JobState    == [phase : {"none", "claimed", "sending"} \cup ResultPhases,
                claim : Nat, t : Nat]

Event(edge, occ, age, status) ==
    [edge |-> edge, occ |-> occ, age |-> age, status |-> status]
NoEvent         == Event("none", "none", 0, "none")
Tombstone(edge) == Event(edge, "none", 0, "pruned")
WithStatus(e, status) == Event(events[e].edge, events[e].occ, events[e].age, status)

Row(status, worker, claim, attempts, lease, next, age) ==
    [status |-> status, worker |-> worker, claim |-> claim, attempts |-> attempts,
     lease |-> lease, next |-> next, age |-> age]
FreeRow(status, attempts) == Row(status, "none", 0, attempts, 0, 0, 0)
NoDispatch  == FreeRow("none", 0)
NewDispatch == FreeRow("pending", 0)

Job(phase, claim, t) == [phase |-> phase, claim |-> claim, t |-> t]
NoJob       == Job("none", 0, 0)

Active(d)     == disp[d].status \in ActiveStatuses
HasActive(e)  == \E s \in Sinks : Active(<<e, s>>)
SameHash(e, edge, occ) == events[e].edge = edge /\ events[e].occ = occ

\* policy.backoff: doubling from the initial interval, capped.
Backoff(n) == LET b == InitialInterval * 2 ^ (n - 1)
              IN  IF b \in InitialInterval..MaxInterval THEN b ELSE MaxInterval

\* Mutant of SyncStatus: a skipped dispatch is not taken for closed.
SyncStatusNoSkips(f, e) ==
    LET has(S) == \E s \in Sinks : f[<<e, s>>].status \in S
    IN  IF has(ActiveStatuses) THEN "pending"
        ELSE IF has({"delivered"}) THEN (IF has({"dead_lettered"}) THEN "partial" ELSE "delivered")
        ELSE IF has({"reset"}) THEN "reset"
        ELSE "failed"

\* syncAlertEventStatus: the status of event e when its dispatches are f.
SyncStatus(f, e) ==
    LET has(S) == \E s \in Sinks : f[<<e, s>>].status \in S
        closed == has({"delivered", "skipped"})
        dead   == has({"dead_lettered"})
    IN  IF has(ActiveStatuses) THEN "pending"
        ELSE IF closed THEN (IF dead THEN "partial" ELSE "delivered")
        ELSE IF dead THEN "failed"
        ELSE IF has({"reset"}) THEN "reset"
        ELSE "failed"

\* reconcileLegacyAlertEventStatuses: the status every start-up repairs to.
ReconciledStatus(f, e) ==
    LET has(S) == \E s \in Sinks : f[<<e, s>>].status \in S
        closed == has({"delivered", "skipped"})
        dead   == has({"dead_lettered"})
    IN  IF has(ActiveStatuses) THEN "pending"
        ELSE IF has({"reset"}) THEN "reset"
        ELSE IF closed THEN (IF dead THEN "partial" ELSE "delivered")
        ELSE "failed"

\* The receivers of edge have just been told of it by a closing event.
CloseEdges(newEvents) ==
    [x \in Edges |->
        IF \E e \in EventIds : /\ events[e].edge = x
                               /\ events[e].status = "pending"
                               /\ newEvents[e].status \in {"delivered", "partial"}
        THEN 0 ELSE sinceClosed[x]]

-----------------------------------------------------------------------------
(* Producers *)

\* pendingAlertEventForDedupeHash
PendingFor(edge, occ) ==
    {e \in EventIds : /\ SameHash(e, edge, occ)
                      /\ events[e].status = "pending"
                      /\ HasActive(e)}

\* Mutant of Suppressed: the cooldown runs from the creation of the event.
SuppressedSinceCreated(edge) ==
    \E e \in EventIds : /\ events[e].edge = edge
                        /\ events[e].status \in {"delivered", "partial"}
                        /\ ~HasActive(e)
                        /\ events[e].age < Cooldown

\* cooldownSuppressedAlertEventForEvent: an event of the edge closed less than
\* Cooldown ago.  The youngest of its rows carries the closing time.
Suppressed(edge) ==
    \E e \in EventIds, s \in Sinks :
        /\ events[e].edge = edge
        /\ events[e].status \in {"delivered", "partial"}
        /\ ~HasActive(e)
        /\ disp[<<e, s>>].status # "none"
        /\ disp[<<e, s>>].age < Cooldown

\* ensurePendingAlertDispatches: INSERT ... ON CONFLICT(event_id, sink) DO NOTHING
EnsureDispatches(e, sinks) ==
    [d \in Dispatches |->
        IF d[1] = e /\ d[2] \in sinks /\ disp[d].status = "none"
        THEN NewDispatch ELSE disp[d]]

\* An occurrence that is still pending only gains the sinks it lacks.
EnqueueExisting(p, edge, occ, sinks) ==
    /\ p \notin locked
    /\ \E e \in PendingFor(edge, occ) :
          /\ \A f \in PendingFor(edge, occ) : f <= e
          /\ disp' = EnsureDispatches(e, sinks)
    /\ UNCHANGED <<events, claims, job, locked, sent, accepted, sinceClosed>>

\* The unique index on pending dedupe hashes rejects the insert (and the call
\* fails) when a pending row exists that PendingFor did not find.
EnqueueNew(p, edge, occ, sinks) ==
    /\ p \notin locked
    /\ PendingFor(edge, occ) = {}
    /\ ~Suppressed(edge)
    /\ \A e \in EventIds : SameHash(e, edge, occ) => events[e].status # "pending"
    /\ \E e \in EventIds :
          /\ events[e].status = "none"
          /\ \A f \in EventIds : events[f].status = "none" => e <= f
          /\ events' = [events EXCEPT ![e] = Event(edge, occ, 0, "pending")]
          /\ disp' = EnsureDispatches(e, sinks)
    /\ UNCHANGED <<claims, job, locked, sent, accepted, sinceClosed>>

-----------------------------------------------------------------------------
(* The delivery worker of process p *)

\* Mutant of LeaseExpired: any unfinished claim counts as abandoned.
LeaseExpiredAlways(d) == disp[d].status = "in_flight"

LeaseExpired(d) == disp[d].status = "in_flight" /\ disp[d].lease = 0

\* deadLetterExpiredAlertDispatches
Exhausted == {d \in Dispatches : LeaseExpired(d) /\ disp[d].attempts + 1 >= MaxAttempts}

DeadLettered ==
    [d \in Dispatches |->
        IF d \in Exhausted
        THEN FreeRow("dead_lettered", disp[d].attempts + 1)
        ELSE disp[d]]

\* Mutants of Claimable: one claim too many; expired claims are not taken over.
ClaimableOnceMore ==
    {d \in Dispatches :
        \/ disp[d].status = "pending" /\ disp[d].next = 0
        \/ LeaseExpired(d) /\ disp[d].attempts + 1 <= MaxAttempts}
ClaimablePendingOnly ==
    {d \in Dispatches : disp[d].status = "pending" /\ disp[d].next = 0}

Claimable ==
    {d \in Dispatches :
        \/ disp[d].status = "pending" /\ disp[d].next = 0
        \/ LeaseExpired(d) /\ disp[d].attempts + 1 < MaxAttempts}

\* ORDER BY created_at_ns, id, sink LIMIT n
Before(c, d) == c[1] < d[1] \/ (c[1] = d[1] /\ c[2] < d[2])
Claimed      == {d \in Claimable :
                    Cardinality({c \in Claimable : Before(c, d)}) < ClaimBatch}

ClaimRow(p, d) ==
    Row("in_flight", p, claims[d] + 1,
        IF disp[d].status = "in_flight" THEN disp[d].attempts + 1 ELSE disp[d].attempts,
        Lease, 0, 0)

\* pollOnce, first half: claim a batch.  pollOnce waits for every delivery of
\* the previous batch, so a worker with an unfinished job does not poll.
Poll(p) ==
    /\ p \notin locked
    /\ \A d \in Dispatches : job[p][d].phase = "none"
    /\ disp' = [d \in Dispatches |->
                    IF d \in Claimed THEN ClaimRow(p, d) ELSE DeadLettered[d]]
    /\ events' = [e \in EventIds |->
                    IF \E s \in Sinks : <<e, s>> \in Exhausted
                    THEN WithStatus(e, SyncStatus(DeadLettered, e))
                    ELSE events[e]]
    /\ sinceClosed' = CloseEdges(events')
    /\ claims' = [d \in Dispatches |->
                    IF d \in Claimed THEN claims[d] + 1 ELSE claims[d]]
    /\ job' = [q \in Processes |-> [d \in Dispatches |->
                    IF q = p /\ d \in Claimed
                    THEN Job("claimed", claims[d] + 1, 0)
                    ELSE job[q][d]]]
    /\ UNCHANGED <<locked, sent, accepted>>

\* deliverOne: the sink is disabled, or its filter excludes the event.
Skip(p, d) ==
    /\ job[p][d].phase = "claimed"
    /\ job' = [job EXCEPT ![p][d] = Job("skipped", job[p][d].claim, 0)]
    /\ UNCHANGED <<events, disp, claims, locked, sent, accepted, sinceClosed>>

\* deliverOne: sink.Deliver begins, under context.WithTimeout(sink.Timeout()).
StartSend(p, d) ==
    /\ job[p][d].phase = "claimed"
    /\ job' = [job EXCEPT ![p][d] = Job("sending", job[p][d].claim, 0)]
    /\ sent' = [sent EXCEPT ![d] = @ \cup {job[p][d].claim}]
    /\ UNCHANGED <<events, disp, claims, locked, accepted, sinceClosed>>

\* Mutant of EndSend: a request is taken for delivered once it was written.
EndSendUnconfirmed(p, d, outcome, reached) ==
    /\ job[p][d].phase = "sending"
    /\ job' = [job EXCEPT ![p][d] = Job(outcome, job[p][d].claim, 0)]
    /\ accepted' = IF reached
                   THEN [accepted EXCEPT ![d] = @ \cup {job[p][d].claim}]
                   ELSE accepted
    /\ UNCHANGED <<events, disp, claims, locked, sent, sinceClosed>>

\* sink.Deliver returns.  A request that fails may have reached the receiver.
EndSend(p, d, outcome, reached) ==
    /\ job[p][d].phase = "sending"
    /\ outcome = "delivered" => reached
    /\ job' = [job EXCEPT ![p][d] = Job(outcome, job[p][d].claim, 0)]
    /\ accepted' = IF reached
                   THEN [accepted EXCEPT ![d] = @ \cup {job[p][d].claim}]
                   ELSE accepted
    /\ UNCHANGED <<events, disp, claims, locked, sent, sinceClosed>>

\* Mutant of Holds: neither the worker nor the claim is compared.
HoldsAnyClaim(p, d) == disp[d].status = "in_flight" /\ disp[d].lease > 0

\* The conditions of recordAlertDispatchResultOnce's UPDATE.
Holds(p, d) ==
    /\ disp[d].status = "in_flight"
    /\ disp[d].worker = p
    /\ disp[d].claim = job[p][d].claim
    /\ disp[d].lease > 0

\* Mutant of CompletedRow: the retry is promoted one attempt early.
CompletedRowEarly(d, status) ==
    LET n == disp[d].attempts + 1
        result == IF status = "pending" /\ n + 1 >= MaxAttempts
                  THEN "dead_lettered" ELSE status
    IN  Row(result, disp[d].worker, disp[d].claim, n, 0,
            IF result = "pending" THEN Backoff(n) ELSE 0, 0)

\* The row after a completion with the given status: a retry that has used the
\* last attempt is promoted to dead_lettered.
CompletedRow(d, status) ==
    LET n == disp[d].attempts + 1
        result == IF status = "pending" /\ n >= MaxAttempts
                  THEN "dead_lettered" ELSE status
    IN  Row(result, disp[d].worker, disp[d].claim, n, 0,
            IF result = "pending" THEN Backoff(n) ELSE 0, 0)

\* RecordAlertDispatchResult succeeds.  With again, the caller keeps the
\* arguments and repeats the call.
Record(p, d, again) ==
    /\ p \notin locked
    /\ job[p][d].phase \in ResultPhases
    /\ Holds(p, d)
    /\ disp' = [disp EXCEPT ![d] = CompletedRow(d, job[p][d].phase)]
    /\ events' = [events EXCEPT ![d[1]] = WithStatus(d[1], SyncStatus(disp', d[1]))]
    /\ sinceClosed' = CloseEdges(events')
    /\ job' = IF again THEN job ELSE [job EXCEPT ![p][d] = NoJob]
    /\ UNCHANGED <<claims, locked, sent, accepted>>

\* RecordAlertDispatchResult changes nothing: the claim is not held, its lease
\* has expired, the row is already closed or gone, the alert state is locked,
\* the call is a replay, or the database returned an error.
Abandon(p, d) ==
    /\ job[p][d].phase \in ResultPhases
    /\ job' = [job EXCEPT ![p][d] = NoJob]
    /\ UNCHANGED <<events, disp, claims, locked, sent, accepted, sinceClosed>>

-----------------------------------------------------------------------------
(* Retention, restarts, key reset, time *)

Prunable == {e \in EventIds : events[e].status \in ClosedEvents /\ events[e].age > Horizon}

\* One batch of PruneTerminalAlertEvents; dispatches go with ON DELETE CASCADE.
Prune ==
    LET batch == {e \in Prunable :
                     Cardinality({f \in Prunable : f < e}) < RetentionBatch}
    IN  /\ batch # {}
        /\ events' = [e \in EventIds |->
                         IF e \in batch
                         THEN Tombstone(events[e].edge)
                         ELSE events[e]]
        /\ disp' = [d \in Dispatches |->
                       IF d[1] \in batch THEN NoDispatch ELSE disp[d]]
        /\ UNCHANGED <<claims, job, locked, sent, accepted, sinceClosed>>

DropJobs(p) == [q \in Processes |-> [d \in Dispatches |->
                   IF q = p THEN NoJob ELSE job[q][d]]]

\* Process p dies, or is stopped, at any point of its work and starts again.
Restart(p) ==
    /\ job' = DropJobs(p)
    /\ locked' = locked \ {p}
    /\ UNCHANGED <<events, disp, claims, sent, accepted, sinceClosed>>

\* resetAlertStateAfterMissingKey: p starts with a fresh dedupe key and closes
\* everything open; every other process now fails ensureAlertDedupeKeyCurrent.
ResetAlertState(p) ==
    /\ disp' = [d \in Dispatches |->
                   IF Active(d)
                   THEN FreeRow("reset", IF disp[d].attempts = 0 THEN 1 ELSE disp[d].attempts)
                   ELSE disp[d]]
    /\ events' = [e \in EventIds |->
                     IF events[e].status = "pending"
                     THEN WithStatus(e, "reset") ELSE events[e]]
    /\ job' = DropJobs(p)
    /\ locked' = Processes \ {p}
    /\ UNCHANGED <<claims, sent, accepted, sinceClosed>>

Down(n)    == IF n = 0 THEN 0 ELSE n - 1
Up(n, cap) == IF n < cap THEN n + 1 ELSE n

\* A send returns by its timeout and starts at most MaxLag after the claim.
MayTick(p, d) == /\ job[p][d].phase = "sending" => job[p][d].t < Timeout
                 /\ job[p][d].phase = "claimed" => job[p][d].t < MaxLag

Tick ==
    /\ \A p \in Processes, d \in Dispatches : MayTick(p, d)
    /\ events' = [e \in EventIds |->
           IF events[e].status \in {"none", "pruned"} THEN events[e]
           ELSE Event(events[e].edge, events[e].occ, Up(events[e].age, AgeCap), events[e].status)]
    /\ disp' = [d \in Dispatches |->
           Row(disp[d].status, disp[d].worker, disp[d].claim, disp[d].attempts,
               Down(disp[d].lease), Down(disp[d].next),
               IF Active(d) \/ disp[d].status = "none"
               THEN disp[d].age ELSE Up(disp[d].age, AgeCap))]
    /\ job' = [p \in Processes |-> [d \in Dispatches |->
           IF job[p][d].phase \in {"claimed", "sending"}
           THEN Job(job[p][d].phase, job[p][d].claim, job[p][d].t + 1) ELSE job[p][d]]]
    /\ sinceClosed' = [x \in Edges |-> Up(sinceClosed[x], Cooldown)]
    /\ UNCHANGED <<claims, locked, sent, accepted>>

-----------------------------------------------------------------------------

Init ==
    /\ events = [e \in EventIds |-> NoEvent]
    /\ disp = [d \in Dispatches |-> NoDispatch]
    /\ claims = [d \in Dispatches |-> 0]
    /\ job = [p \in Processes |-> [d \in Dispatches |-> NoJob]]
    /\ locked = {}
    /\ sent = [d \in Dispatches |-> {}]
    /\ accepted = [d \in Dispatches |-> {}]
    /\ sinceClosed = [x \in Edges |-> Cooldown]

Enqueue == \E p \in Processes, edge \in Edges, occ \in Occurrences,
              sinks \in (SUBSET Sinks) \ {{}} :
                 \/ EnqueueExisting(p, edge, occ, sinks)
                 \/ EnqueueNew(p, edge, occ, sinks)

Deliver(p, d) ==
    \/ Skip(p, d)
    \/ StartSend(p, d)
    \/ \E outcome \in {"delivered", "pending"}, reached \in BOOLEAN :
          EndSend(p, d, outcome, reached)

Complete(p, d) == (\E again \in Replay : Record(p, d, again)) \/ Abandon(p, d)

Next ==
    \/ Enqueue
    \/ \E p \in Processes : Poll(p) \/ Restart(p) \/ ResetAlertState(p)
    \/ \E p \in Processes, d \in Dispatches : Deliver(p, d) \/ Complete(p, d)
    \/ Prune
    \/ Tick

Spec == Init /\ [][Next]_vars

\* The poll ticker fires again and again, a started delivery runs to its end,
\* and time passes.  Nothing is assumed of producers, retention or restarts.
Fairness ==
    /\ \A p \in Processes : WF_vars(Poll(p))
    /\ \A p \in Processes, d \in Dispatches :
          WF_vars(Deliver(p, d)) /\ WF_vars(Complete(p, d))
    /\ WF_vars(Tick)

FairSpec == Spec /\ Fairness

-----------------------------------------------------------------------------
(* Properties *)

TypeOK ==
    /\ events \in [EventIds -> EventRow]
    /\ disp \in [Dispatches -> DispatchRow]
    /\ claims \in [Dispatches -> Nat]
    /\ job \in [Processes -> [Dispatches -> JobState]]
    /\ locked \subseteq Processes
    /\ sent \in [Dispatches -> SUBSET Nat]
    /\ accepted \in [Dispatches -> SUBSET Nat]
    /\ sinceClosed \in [Edges -> Nat]

InTable(e) == events[e].status \notin {"none", "pruned"}

\* The status kept on alert_events, which syncAlertEventStatus and the key reset
\* maintain incrementally, is the one that the start-up repair
\* (reconcileLegacyAlertEventStatuses) computes from the dispatches: a restart
\* never changes what an event says, and a pending event always has a dispatch
\* some worker can still finish (so EnqueueAlertEvent's "conflict ... without
\* pending row" error cannot occur).
EventStatusAgrees ==
    \A e \in EventIds : InTable(e) => events[e].status = ReconciledStatus(disp, e)

\* attempts counts claims: every claim of a dispatch costs exactly one attempt,
\* however it ends (completion, replayed completion, lost lease, dead-lettering),
\* and a claim still open has not been counted yet.
AttemptsCountClaims ==
    \A d \in Dispatches :
        /\ disp[d].status = "in_flight" => claims[d] = disp[d].attempts + 1
        /\ disp[d].status \in {"pending"} \cup TerminalStatuses
              => claims[d] = disp[d].attempts

\* No receiver is sent the same dispatch more than MaxAttempts times, whatever
\* the workers' crashes, lost leases and repeated completions.
SendsBounded == \A d \in Dispatches : Cardinality(sent[d]) <= MaxAttempts

\* A dispatch marked delivered was accepted by its receiver, under the very claim
\* whose completion marked it.
DeliveredWasAccepted ==
    \A d \in Dispatches :
        disp[d].status = "delivered" => disp[d].claim \in accepted[d]

\* A dispatch is given up only after all its attempts have been used.
DeadLetterExhausted ==
    \A d \in Dispatches :
        disp[d].status = "dead_lettered" => disp[d].attempts = MaxAttempts

\* A closed dispatch or event never changes again, except by being deleted: late
\* completions, replays, claims, enqueues and resets leave it alone.
ClosedStays ==
    /\ \A d \in Dispatches :
          disp[d].status \in TerminalStatuses \cup {"reset"} =>
             disp'[d].status \in {disp[d].status, "none"}
    /\ \A e \in EventIds :
          events[e].status \in ClosedEvents =>
             events'[e].status \in {events[e].status, "pruned"}
ClosedIsFinal == [][ClosedStays]_vars

\* Two workers are never sending the same dispatch at the same time: a lease
\* outlives the send made under it.  This is what config.requiredSinkTimeout is
\* for.
NoOverlappingSends ==
    \A p, q \in Processes, d \in Dispatches :
        job[p][d].phase = "sending" /\ job[q][d].phase = "sending" => p = q

\* Unless retention has deleted an event of the edge, a new one enters the outbox
\* only when Cooldown has passed since one was last closed as delivered or
\* partial, by whichever worker, sink or code path closed it.
CooldownHonoured ==
    [][\A e \in EventIds :
          events[e].status = "none" /\ events'[e].status = "pending" =>
             \/ sinceClosed[events'[e].edge] >= Cooldown
             \/ \E f \in EventIds : /\ events[f].status = "pruned"
                                    /\ events[f].edge = events'[e].edge]_vars

\* Every event is closed in the end, though workers crash and lose leases.
EventuallyClosed ==
    \A e \in EventIds : (events[e].status = "pending") ~> (events[e].status # "pending")

-----------------------------------------------------------------------------
(* Inductive strengthenings of the properties, used by AlertOutboxProofs *)

\* How a row's attempts, status and claim relate to the claims issued on it.
AttemptsInv ==
    \A d \in Dispatches :
        /\ disp[d].status = "in_flight" => /\ disp[d].claim = claims[d]
                                           /\ claims[d] = disp[d].attempts + 1
        /\ disp[d].status \in {"pending"} \cup TerminalStatuses
              => claims[d] = disp[d].attempts
        /\ Active(d) => disp[d].attempts < MaxAttempts
        /\ disp[d].status = "dead_lettered" => disp[d].attempts = MaxAttempts
        /\ claims[d] <= MaxAttempts
        /\ disp[d].status = "none" /\ events[d[1]].status # "pruned" => claims[d] = 0

\* A row needs its event, and a reset leaves nothing of its event open.
EventsInv ==
    \A e \in EventIds :
        /\ InTable(e) => events[e].status = ReconciledStatus(disp, e)
        /\ ~InTable(e) => \A s \in Sinks : disp[<<e, s>>].status = "none"
        /\ (\E s \in Sinks : disp[<<e, s>>].status = "reset") => ~HasActive(e)

\* Jobs and sends use claims that were issued.
JobsInv ==
    /\ \A p \in Processes, d \in Dispatches :
          /\ job[p][d].phase # "none" => job[p][d].claim \in 1..claims[d]
          /\ job[p][d].phase = "delivered" => job[p][d].claim \in accepted[d]
    /\ \A d \in Dispatches : /\ sent[d] \subseteq 1..claims[d]
                             /\ accepted[d] \subseteq 1..claims[d]

OutboxInv == TypeOK /\ AttemptsInv /\ EventsInv /\ JobsInv /\ DeliveredWasAccepted

\* The time since the lease was stamped that a job may have used, at most.
Working(p, d) == job[p][d].phase \in {"claimed", "sending"}
Used(p, d)    == IF job[p][d].phase = "claimed" THEN job[p][d].t ELSE job[p][d].t + MaxLag

\* While a claim is being worked on its lease has not run out, or the key reset
\* closed the row; and nobody else works on that dispatch.
LeaseInv ==
    /\ \A p \in Processes, d \in Dispatches : Working(p, d) =>
          /\ Used(p, d) <= MaxLag + Timeout
          /\ job[p][d].phase = "claimed" => job[p][d].t <= MaxLag
          /\ \/ /\ disp[d].status = "in_flight"
                /\ disp[d].worker = p
                /\ disp[d].lease + Used(p, d) >= Lease
             \/ disp[d].status = "reset"
             \/ disp[d].status = "none" /\ events[d[1]].status = "pruned"
    /\ \A p, q \in Processes, d \in Dispatches : Working(p, d) /\ Working(q, d) => p = q

\* An edge that closed less than Cooldown ago is still vouched for: by a closing
\* event with a row as young as the closing, or by one that retention deleted.
Closing(e)   == events[e].status \in {"delivered", "partial"}
ClosedRow(d) == disp[d].status # "none" /\ ~Active(d)
CooldownInv ==
    \A x \in Edges : sinceClosed[x] < Cooldown =>
        \E e \in EventIds :
            /\ events[e].edge = x
            /\ \/ events[e].status = "pruned"
               \/ Closing(e) /\ \E s \in Sinks : /\ ClosedRow(<<e, s>>)
                                               /\ disp[<<e, s>>].age <= sinceClosed[x]

-----------------------------------------------------------------------------
(* Refinement: the outbox keeps the promise of AlertDelivery *)

StageOf(d) ==
    IF events[d[1]].status = "pruned" THEN "forgotten"
    ELSE IF Active(d) THEN "open"
    ELSE IF disp[d].status = "none" THEN "absent"
    ELSE disp[d].status

Promise == INSTANCE AlertDelivery
              WITH Items <- Dispatches,
                   stage <- [d \in Dispatches |-> StageOf(d)],
                   tries <- claims,
                   told  <- [d \in Dispatches |-> accepted[d] # {}]

\* Claims, leases, crashes, replays and resets together implement the lifecycle
\* that AlertDelivery promises for every dispatch.
KeepsPromise == Promise!DeliverySpec
=============================================================================
