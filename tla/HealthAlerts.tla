---------------------------- MODULE HealthAlerts ----------------------------
(***************************************************************************)
(* Monitor results of one service and the health alerts derived from them  *)
(* (internal/storage/status.go: UpsertStatus, SetMonitorNotApplicable,     *)
(* PruneStatusTargets, produceHealthAlert; internal/storage/agents.go:     *)
(* UpsertAgentReport).                                                     *)
(*                                                                         *)
(* A result is committed in one transaction; only then, in a second one,   *)
(* the service's rollup is read and its alert state moved on.  Several     *)
(* monitors write at once, so the second transaction may see results that  *)
(* others committed in between, and it may not happen at all.              *)
(*                                                                         *)
(* Times are whole units of the clock, from 1; 0 stands for the empty time *)
(* stamp.                                                                  *)
(***************************************************************************)
EXTENDS Naturals

CONSTANTS
    Targets,            \* monitor targets of the service
    Parent, Children,   \* the synthetic "routes" target, and route targets
    Reported,           \* healths that checks report
    Writers,            \* monitors, agents and requests at work at once
    StabilitySamples,   \* alerting.stabilitySamples
    Debounce,           \* alerting.debounce
    MaxLag,             \* longest delay from a check to its observation
    MaxTime,            \* bound: clock
    MaxCommits,         \* bound: transactions that write results
    MaxIncarnations     \* bound: times the service enters the inventory

Healths == {"error", "unhealthy", "degraded", "healthy", "unknown"}
States  == Healths \cup {"not_applicable", "none"}     \* "none": no such row

ASSUME TargetAssumption  == Children \subseteq Targets
ASSUME HealthAssumption  == Reported \subseteq Healths \cup {"not_applicable"}
ASSUME PolicyAssumption  == /\ StabilitySamples \in Nat \ {0}
                            /\ Debounce \in Nat \ {0}
                            /\ MaxLag \in Nat
ASSUME BoundAssumption   == /\ MaxTime \in Nat \ {0}
                            /\ MaxCommits \in Nat
                            /\ MaxIncarnations \in Nat \ {0}

Times        == 0..MaxTime
Incarnations == 0..MaxIncarnations      \* 0: the service is not in the inventory

VARIABLES
    now,
    service,     \* the incarnation of the service's row in services
    lastService, \* incarnations used so far
    status,      \* status_results of the service, by target
    ignored,     \* monitor_overrides of the service
    row,         \* its row in health_alert_states
    outbox,      \* health events ever enqueued
    job,         \* what each writer is doing
    commits,     \* transactions that wrote results so far
    streak,      \* history: the health observed last, and the commits when the
                 \* unbroken run of observations of that health began
                 \* (0 when the state row then had no candidate)
    reported     \* history: by incarnation, the health that is taken as known

vars == <<now, service, lastService, status, ignored, row, outbox, job, commits, streak, reported>>

-----------------------------------------------------------------------------
(* Rows *)

Result(health, at) == [health |-> health, at |-> at]
NoResult  == Result("none", 0)
NoResults == [t \in Targets |-> NoResult]

\* obs is the observation id: the results as they were when last counted.
Row(inc, stable, cand, samples, started, obs, failure) ==
    [inc |-> inc, stable |-> stable, cand |-> cand, samples |-> samples,
     started |-> started, obs |-> obs, failure |-> failure]
Settled(inc, health, failure) == Row(inc, health, health, 0, 0, NoResults, failure)
NoRow == Settled(0, "none", 0)

Streak(health, since) == [health |-> health, since |-> since]

Event(old, new, occ, open) == [old |-> old, new |-> new, occ |-> occ, open |-> open]

Job(phase, target, health, at) ==
    [phase |-> phase, target |-> target, health |-> health, at |-> at]
NoJob        == Job("idle", "none", "none", 0)
Observing(t) == Job("committed", "none", "none", t)

\* aggregateTargetHealth, with healthPriority.
Rollup(results) ==
    LET healths == {results[t].health : t \in Targets} \ {"none", "not_applicable"}
    IN  IF healths = {"healthy"} THEN "healthy"
        ELSE IF "healthy" \in healths THEN "degraded"
        ELSE IF "error" \in healths THEN "error"
        ELSE IF "unhealthy" \in healths THEN "unhealthy"
        ELSE IF "degraded" \in healths THEN "degraded"
        ELSE "unknown"

-----------------------------------------------------------------------------
(* Writing results *)

\* A monitor or an agent has a result for a target.
Check(w, t, health) ==
    /\ job[w].phase = "idle"
    /\ job' = [job EXCEPT ![w] = Job("checked", t, health, now)]
    /\ UNCHANGED <<now, service, lastService, status, ignored, row, outbox, commits, streak, reported>>

\* The results become f, and writer w goes on to observe the rollup at time t.
Write(w, f, t) ==
    /\ commits < MaxCommits
    /\ commits' = commits + 1
    /\ status' = f
    /\ job' = [job EXCEPT ![w] = Observing(t)]
    /\ UNCHANGED <<now, service, lastService, row, outbox, streak, reported>>

\* monitorOverrideState: results of a route are dropped while its parent is ignored.
Shadowed(t) == t \in Children /\ Parent \in ignored

\* UpsertStatus observes at CheckedAt, UpsertAgentReport at the time of receipt.
Commit(w) ==
    LET t == job[w].target
    IN  /\ job[w].phase = "checked"
        /\ ~Shadowed(t)
        /\ \E at \in {job[w].at, now} :
              Write(w, [status EXCEPT ![t] =
                           Result(IF t \in ignored THEN "not_applicable" ELSE job[w].health,
                                  job[w].at)], at)
        /\ UNCHANGED ignored

\* The result is dropped, or the transaction fails.
Drop(w) ==
    /\ job[w].phase = "checked"
    /\ job' = [job EXCEPT ![w] = NoJob]
    /\ UNCHANGED <<now, service, lastService, status, ignored, row, outbox, commits, streak, reported>>

\* SetMonitorNotApplicable(..., true): an ignored parent hides its routes.
Ignore(w, t) ==
    /\ job[w].phase = "idle"
    /\ status[t] # NoResult \/ t \in Children \cup {Parent}
    /\ ignored' = ignored \cup {t}
    /\ Write(w, [u \in Targets |->
                    IF u = t THEN Result("not_applicable", now)
                    ELSE IF t = Parent /\ u \in Children THEN NoResult
                    ELSE status[u]], now)

\* SetMonitorNotApplicable(..., false)
Unignore(w, t) ==
    /\ job[w].phase = "idle"
    /\ status[t] # NoResult
    /\ ignored' = ignored \ {t}
    /\ Write(w, IF status[t].health = "not_applicable"
                THEN [status EXCEPT ![t] = Result("unknown", now)]
                ELSE status, now)

\* PruneStatusTargets: targets that are not configured any more.
PruneTargets(w, gone) ==
    /\ job[w].phase = "idle"
    /\ Write(w, [t \in Targets |-> IF t \in gone THEN NoResult ELSE status[t]], now)
    /\ UNCHANGED ignored

-----------------------------------------------------------------------------
(* produceHealthAlert *)

\* Mutant of Known: the incarnation of the service is not compared.
KnownById == row # NoRow

\* The state row belongs to this incarnation of the service.
Known == row # NoRow /\ row.inc = service

\* The transaction of writer w replaces the state row by r.
Observed(w, r) ==
    /\ job[w].phase = "committed"
    /\ row' = r
    /\ streak' = IF r.cand = r.stable THEN Streak(Rollup(status), 0)
                 ELSE IF streak.health = Rollup(status) THEN streak
                 ELSE Streak(Rollup(status), commits)
    /\ job' = [job EXCEPT ![w] = NoJob]
    /\ UNCHANGED <<now, service, lastService, status, ignored, commits>>

\* The first observation of a service is silent.
ObserveFirst(w) ==
    LET health == Rollup(status)
    IN  /\ ~Known
        /\ Observed(w, Settled(service, health, IF health = "healthy" THEN 0 ELSE job[w].at))
        /\ reported' = [reported EXCEPT ![service] = health]
        /\ UNCHANGED outbox

\* Mutant of ObserveStable: the start of an abandoned candidate stays behind.
ObserveStableFailing(w) ==
    /\ Known
    /\ row.stable = Rollup(status)
    /\ Observed(w, Settled(service, row.stable, row.failure))
    /\ UNCHANGED <<outbox, reported>>

\* The rollup is, or is back at, the stable health.
ObserveStable(w) ==
    /\ Known
    /\ row.stable = Rollup(status)
    /\ Observed(w, Settled(service, row.stable,
                           IF row.stable = "healthy" THEN 0 ELSE row.failure))
    /\ UNCHANGED <<outbox, reported>>

\* Mutant of Candidate: a repeated observation counts again.
CandidateReplayed(health, at) ==
    LET failure == IF row.failure = 0 /\ health # "healthy" THEN at ELSE row.failure
    IN  IF row.cand = health
        THEN Row(service, row.stable, health, row.samples + 1, row.started, status, failure)
        ELSE Row(service, row.stable, health, 1, at, status, failure)

\* The state row with another sample of the candidate health, taken at time at.
\* Results that were counted already do not count again.
Candidate(health, at) ==
    LET failure == IF row.failure = 0 /\ health # "healthy" THEN at ELSE row.failure
        n       == IF row.obs # status THEN row.samples + 1 ELSE row.samples
    IN  IF row.cand = health
        THEN Row(service, row.stable, health, n, row.started, status, failure)
        ELSE Row(service, row.stable, health, 1, at, status, failure)

Confirmed(r, at) == r.samples >= StabilitySamples /\ at >= r.started + Debounce

\* The occurrence in the dedupe key: when the candidate, or the failure, began.
Occurrence(r, at) ==
    LET start == IF r.cand = "healthy" THEN r.failure ELSE r.started
    IN  IF start = 0 THEN at ELSE start

\* A new candidate, or one not confirmed yet.
ObserveCandidate(w) ==
    LET health == Rollup(status)
        r      == Candidate(health, job[w].at)
    IN  /\ Known
        /\ row.stable # health
        /\ ~Confirmed(r, job[w].at)
        /\ Observed(w, r)
        /\ UNCHANGED <<outbox, reported>>

Pending(old, new, occ) == Event(old, new, occ, TRUE) \in outbox
Closed(old, new)       == {e \in outbox : e.old = old /\ e.new = new /\ ~e.open}

\* Mutant of ObserveEdge: the event is enqueued, the state row is not moved on.
ObserveEdgeTwice(w) ==
    LET health == Rollup(status)
        at     == job[w].at
        r      == Candidate(health, at)
        occ    == Occurrence(r, at)
    IN  /\ Known
        /\ row.stable # health
        /\ Confirmed(r, at)
        /\ ~Pending(row.stable, health, occ)
        /\ \/ outbox' = outbox \cup {Event(row.stable, health, occ, TRUE)}
           \/ /\ \E e \in Closed(row.stable, health) : e.occ # occ
              /\ UNCHANGED outbox
        /\ Observed(w, row)
        /\ reported' = [reported EXCEPT ![service] = health]

\* A confirmed candidate: its event is enqueued, or suppressed by the cooldown of
\* an earlier one, in the transaction that makes it the stable health.  When an
\* event with the same key is found instead, the transaction is given up (Lose).
ObserveEdge(w) ==
    LET health == Rollup(status)
        at     == job[w].at
        r      == Candidate(health, at)
        occ    == Occurrence(r, at)
    IN  /\ Known
        /\ row.stable # health
        /\ Confirmed(r, at)
        /\ ~Pending(row.stable, health, occ)
        /\ \/ outbox' = outbox \cup {Event(row.stable, health, occ, TRUE)}
           \/ /\ \E e \in Closed(row.stable, health) : e.occ # occ
              /\ UNCHANGED outbox
        /\ Observed(w, Settled(service, health, IF health = "healthy" THEN 0 ELSE r.failure))
        /\ reported' = [reported EXCEPT ![service] = health]

\* The second transaction does not happen: the alert state is locked, the caller
\* is gone, the database is busy, or the process is stopped.
Lose(w) ==
    /\ job[w].phase = "committed"
    /\ job' = [job EXCEPT ![w] = NoJob]
    /\ UNCHANGED <<now, service, lastService, status, ignored, row, outbox, commits, streak, reported>>

-----------------------------------------------------------------------------
(* The inventory, the outbox and the clock *)

\* The service leaves the inventory.  A scan keeps its results; replacing runtime
\* or configured services deletes them.
Remove(prune) ==
    /\ service # 0
    /\ service' = 0
    /\ IF prune THEN /\ commits < MaxCommits
                     /\ commits' = commits + 1
                     /\ status' = NoResults
                ELSE UNCHANGED <<commits, status>>
    /\ UNCHANGED <<now, lastService, ignored, row, outbox, job, streak, reported>>

\* insertService draws a fresh incarnation.
Add ==
    /\ service = 0
    /\ lastService < MaxIncarnations
    /\ service' = lastService + 1
    /\ lastService' = lastService + 1
    /\ UNCHANGED <<now, status, ignored, row, outbox, job, commits, streak, reported>>

\* reconcileHealthAlertStates, which may come late or fail.
Forget ==
    /\ service = 0
    /\ row # NoRow
    /\ row' = NoRow
    /\ UNCHANGED <<now, service, lastService, status, ignored, outbox, job, commits, streak, reported>>

\* The delivery workers close an event.
Close(e) ==
    /\ e.open
    /\ outbox' = (outbox \ {e}) \cup {Event(e.old, e.new, e.occ, FALSE)}
    /\ UNCHANGED <<now, service, lastService, status, ignored, row, job, commits, streak, reported>>

Tick ==
    /\ now < MaxTime
    /\ \A w \in Writers : job[w] # NoJob => now < job[w].at + MaxLag
    /\ now' = now + 1
    /\ UNCHANGED <<service, lastService, status, ignored, row, outbox, job, commits, streak, reported>>

-----------------------------------------------------------------------------

Init ==
    /\ now = 1
    /\ service = 1
    /\ lastService = 1
    /\ status = NoResults
    /\ ignored = {}
    /\ row = NoRow
    /\ outbox = {}
    /\ job = [w \in Writers |-> NoJob]
    /\ commits = 0
    /\ streak = Streak("none", 0)
    /\ reported = [i \in Incarnations |-> "none"]

Observe(w) == ObserveFirst(w) \/ ObserveStable(w) \/ ObserveCandidate(w) \/ ObserveEdge(w)

Next ==
    \/ \E w \in Writers :
          \/ \E t \in Targets : \/ \E health \in Reported : Check(w, t, health)
                                \/ Ignore(w, t)
                                \/ Unignore(w, t)
          \/ \E gone \in SUBSET Targets : PruneTargets(w, gone)
          \/ Commit(w)
          \/ Drop(w)
          \/ Observe(w)
          \/ Lose(w)
    \/ \E prune \in BOOLEAN : Remove(prune)
    \/ Add
    \/ Forget
    \/ \E e \in outbox : Close(e)
    \/ Tick

Spec == Init /\ [][Next]_vars

-----------------------------------------------------------------------------
(* Properties *)

Results == [Targets -> [health : States, at : Nat]]
Jobs    == [phase : {"idle", "checked", "committed"}, target : Targets \cup {"none"},
            health : States, at : Nat]
Rows    == [inc : Nat, stable : Healths \cup {"none"}, cand : Healths \cup {"none"},
            samples : Nat, started : Nat, obs : Results, failure : Nat]
Events  == [old : Healths, new : Healths, occ : Nat, open : BOOLEAN]

TypeOK ==
    /\ now \in Nat
    /\ service \in Nat
    /\ lastService \in Nat
    /\ status \in Results
    /\ ignored \subseteq Targets
    /\ row \in Rows
    /\ outbox \subseteq Events
    /\ job \in [Writers -> Jobs]
    /\ commits \in Nat
    /\ streak \in [health : Healths \cup {"none"}, since : Nat]
    /\ reported \in [Incarnations -> Healths \cup {"none"}]
    /\ row # NoRow => row.stable # "none" /\ row.cand # "none"

\* The samples of a candidate are consecutive, and each is news: the last
\* observation was of the candidate, and since the first one of this unbroken run
\* every further sample took a transaction of its own, so concurrent observers of
\* one result, repeated reports and a candidate given up before confirm nothing.
SamplesAreNews ==
    row # NoRow /\ row.cand # row.stable =>
        /\ row.cand = streak.health
        /\ row.samples <= 1 + commits - streak.since

\* The beginning of a failure is known as long as the failure lasts, through every
\* change of its kind, and is forgotten with it: a recovery can tell its duration,
\* and the next incident does not inherit it.
FailureStartKnown ==
    row # NoRow =>
        /\ row.stable # "healthy" => row.failure # 0
        /\ row.cand = "healthy" /\ row.stable = "healthy" => row.failure = 0

\* The dedupe key of an edge about to be confirmed has never been used, so the
\* outbox never answers with an older event ("health edge was not persisted").
EdgeIsNew ==
    Known /\ row.cand # row.stable =>
        \A e \in outbox : e.old = row.stable /\ e.new = row.cand
                             => e.occ # Occurrence(row, now)

\* The events of a service link up: each starts from the health where the edge before
\* it ended, whether an event told of that or the cooldown suppressed it, or where the
\* silent first observation of this very incarnation did.
EdgesLinkUp ==
    [][\A e \in outbox' \ outbox : e.open => e.old = reported[service]]_vars

\* An alert is about results that apply: marking targets as not applicable raises
\* none ("mark a target not-applicable [...] verify no extra event", TASK-0022).
NotApplicableIsSilent ==
    [][(\E e \in outbox' \ outbox : e.open)
          => \E t \in Targets : status[t].health \in Healths]_vars
-----------------------------------------------------------------------------
(* The inductive invariant *)

\* Every result in hand, and every observation to come, has a time of the clock.
TimesInv == now # 0 /\ \A w \in Writers : job[w].phase # "idle" => job[w].at # 0

\* What is observed last is the candidate; results other than those counted last
\* have taken a transaction that is not counted yet.
CandidateInv ==
    row # NoRow =>
        /\ row.cand = streak.health
        /\ row.cand # row.stable =>
              /\ row.samples + streak.since <= 1 + commits
              /\ row.obs # status => row.samples + streak.since <= commits

\* The stable health of a row is what its incarnation's events have led to.
KnownInv ==
    /\ service \in Incarnations
    /\ row.inc \in Incarnations
    /\ row # NoRow => reported[row.inc] = row.stable

HealthInv == TypeOK /\ TimesInv /\ CandidateInv /\ FailureStartKnown /\ KnownInv

\* An observation comes at most MaxLag after its time.
LagInv == \A w \in Writers : job[w].phase # "idle" => /\ job[w].at <= now
                                                      /\ now <= job[w].at + MaxLag

\* A confirmed edge is older than its debounce; the failure and the candidate of
\* the row began after every edge they could be taken for.
OccurrenceInv ==
    /\ \A e \in outbox : e.occ + Debounce <= now + MaxLag
    /\ row # NoRow =>
          /\ row.failure <= now
          /\ row.failure # 0 =>
                \A e \in outbox : e.new = "healthy" => e.occ < row.failure
          /\ row.cand # row.stable =>
                /\ row.started # 0
                /\ row.cand = "healthy" => row.failure <= row.started + MaxLag
                /\ \A e \in outbox : e.new # "healthy" => e.occ < row.started
=============================================================================
