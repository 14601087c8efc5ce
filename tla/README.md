# A verification development of gitops-dashboard

gitops-dashboard shows what runs, from where, and how well: it scans git
repositories for services, monitors the runtimes they should run on, stores
everything in one SQLite database, serves a summary of it, and raises alerts.
This directory holds TLA+ modules of its core logic, TLC configurations that
check them on small instances, and TLAPS proofs of what matters most.

Read a module together with the lines that `PROJECT.json` ("map") names for
each of its definitions; definitions keep the names of the code where they can.

## 1. The system

| Component | State it keeps | Operations | What makes it correct |
|---|---|---|---|
| alert outbox (`internal/storage/alerts.go`) | `alert_events`, `alert_dispatches` | enqueue, claim, complete, prune, reset | every alert reaches a final state; a dispatch is sent a bounded number of times, delivered only if accepted, closed for good; the event agrees with its dispatches |
| delivery workers (`internal/alerter`) | goroutines, one per claimed dispatch | poll, send under a timeout, complete | a crash or a late answer neither loses nor multiplies work |
| summary cache (`internal/storage/summary_cache.go`) | one copy, a version | read, build, fill, invalidate | a reader sees what had been written when it asked; nothing expired; other processes' writes in the end |
| status results and health alerts (`internal/storage/status.go`, `agents.go`) | `status_results`, `status_history`, `monitor_overrides`, `health_alert_states` | upsert, override, prune, observe | an alert follows a stable change only, once, and links up with the one before |
| inventory (`internal/storage/services.go`) | `repositories`, `services`, `scans` | start / finish scan, replace and prune services | a failed scan changes nothing but its own row; a service keeps its incarnation |
| route targets (`internal/storage/route_targets.go`) | exclusions, deferred rewrites | move state of a changed route | no state lost, none duplicated, dispatches in flight untouched |
| scanner (`internal/scanner`) | running operations per repository, working trees | scheduled and requested scans, joined per repository | scans of a repository do not overlap; the commit stored is the one parsed |
| monitors (`internal/monitor`) | loops, cache of ping inventories | check, record, back off | results settle on what there is to observe; a failed attempt leaves nothing healthy behind of the services it read, at the target itself; a stop is not taken for failures |
| agent reports (`internal/app/agent_report.go`, `internal/agent`) | connection | validate, store, acknowledge | an agent that reports is known to be there; one that is refused or silent falls stale |
| agent / scan evaluator (`internal/app/alert_evaluator.go`) | baselines in memory | compare, enqueue | an edge is retried until it is enqueued; recovery follows a reported failure only |
| dedupe key and state lock (`internal/storage/storage.go`) | key file, metadata rows, lock messages | load, verify, reset, lock | key and rows match whatever crashes; a reset token works once (with two openings at a time, or when none is interrupted) |
| migrations (`internal/storage/migrations.go`) | schema | steps on start | idempotent, no row lost |
| actions (`internal/app/actions.go`) | running and finished actions | start, finish, drop old ones | one of a kind at a time, bounded history |

Interactions. Monitors, agents and override requests write results; each such
write commits, invalidates the summary (SummaryCache) and then observes the
service's health in a second transaction (HealthAlerts), which may enqueue an
alert (AlertOutbox) in that same transaction. The scanner and the monitors'
inventories add and remove services; the evaluator reads scans and agents and
enqueues alerts. A scan that changes routes moves their alerts, under the same
lock and in the same rows as the workers' claims (RouteMoves). The workers
deliver. Several processes may open one database, and agree on one key file
beside it before any of them uses alerts (StoreOpening).

What is hard here: two transactions where a reader expects one; leases against
timeouts; crashes between a side effect and its record; caches against commits,
of this process and of others; state that outlives its service; time stamps that
arrive out of order. `PROJECT.json` ("hazards") lists these at their lines.

## 2. The modules

### AlertOutbox (and AlertDelivery, AlertOutboxProofs)

`events` and `disp` are the two tables, `job` the goroutines of every
process, the other variables clocks and history. One action per call or
transaction: `EnqueueNew` / `EnqueueExisting` (`EnqueueAlertEvent` with its deduplication, cooldown
and fan-out), `Poll` (claiming, including dead-lettering of exhausted rows),
`Skip`, `StartSend`, `EndSend` (the worker), `Record` (completion, with its
replay), `Abandon`, `Prune`, `Restart` (a process stops anywhere and starts
again, reconciling event states), `ResetAlertState`, and the clock. A sink may
take a message and still answer with a failure.

`AlertDelivery` is what the outbox promises about each dispatch: it is tried at
most `MaxAttempts` times and ends once, as delivered only if its receiver was
told, as dead-lettered only when every try is used. `AlertOutbox` implements it (`KeepsPromise`).

### SummaryCache (and SummaryCacheProofs)

Tables are counters of commits; a build (`Begin`, `ReadVersion`, `Query`,
`Fill`, `Respond`) reads them one after the other, as `buildSummary` does.
Writers `Commit` and then `Invalidate`, as two steps, or `GiveUp` when a
later step of theirs fails; `CommitElsewhere` is another process. Results
`Expire`, the copy ages (`AgeOut`).

### HealthAlerts (and HealthAlertsProofs)

One service. `status` holds its results, `row` its row of
`health_alert_states`, `job` what each writer is doing: a result in hand
(`checked`), or committed and about to observe (`committed`). `Commit` is
`UpsertStatus` or `UpsertAgentReport`; `Ignore` and `Unignore` are
`SetMonitorNotApplicable`; `PruneTargets`, `Remove`, `Add` and `Forget` the
inventory's effects. `ObserveFirst`, `ObserveStable`, `ObserveCandidate` and
`ObserveEdge` are the branches of `produceHealthAlert`; `Lose` is an
observation that does not happen. `outbox` is the part of the outbox the
producer can see: which dedupe keys are pending or closed. Whether a closed event
still suppresses is left open here; AlertOutbox has the cooldown itself.
`commits`, `streak` and `reported` are history only.

### ScanLifecycle (and ScanLifecycleProofs)

One repository: `remote` is what is pushed, `tree` the working tree, `rows` and
`repo` the tables, `found` and `hosts` the stored services with the commit they
are labelled with. Callers are the two scanners (the schedule and the request)
and the two pingers (the loop of a ping target and `POST /api/monitor`); `pc`
is where each is, `flights` are the joined operations of
`repo_singleflight.go`. A synchronisation is detached from who asked for it, so
cancelling or stopping a caller leaves it running; a scan is joined, and ends with
its context. The tree is read after the synchronisation, so another one may move it.
The ping inventory has its cache (`Ask`, `StartRefresh`, `FinishRefresh`), with
one refresh at a time and stale answers meanwhile. `Stop`, `Exit` and `Crash` are
the ends of the process; rows that were `running` stay.

### RouteMoves (and RouteMovesProofs)

Pending alerts of one service at a chain of route targets. `Rescan` replaces the
current target, `Migrate` moves or merges the alerts at it, or, when the alert state
is locked or a dispatch is claimed, keeps the edge in `edges`; `Replay` repeats
the kept edges pass after pass until no alert moves, as
`applyDeferredAlertRouteReconciliations` does on every later scan and unlock. Its
loops over alerts, edges and passes are `Loop`, a function of the round. `Claim`,
`Complete` and `Close` are the workers, reduced to what a merge can disturb;
AlertOutbox has them whole. Edges are taken in the order of their targets, alerts in
that of their ids.

A deferred merge may have moved or closed the rows before the obstacle; the next
replay starts from there, as the code does. It is no move of an alert, so it calls for no
further pass (section 3). Edges of a cycle are kept. A duplicate that
was merged away is `reset`; the reconciliation at the next start would call an
event with such rows failed, which is AlertOutbox's part. No producer in this commit
gives an alert a route as its target: the module models what storage does with
alerts that have one.

### StoreOpening (and StoreOpeningProofs)

What `OpenWithOptions` does with the key of alerts, step by step: read the
marker, read the key file (with retries while another creates it), look for rows that
need it, compare its fingerprint, and then load, lock, create, or reset under the
transaction lock; then hash rows of an older version, end rows of a former key,
and be `up`, with the check that each use of alerts makes (`Current`). `rows[k]` is
what the table knows of one alert under key `k`. `Tamper` is the operator.

Assumed of the operator: the file is touched while no opening is under
way, a copy is put back only if alerts were hashed with it, and the token is changed
only to ask for a further reset. Assumed of time: the retries (about 210 ms)
outlast a living creator. Three races stay visible in the model because the code has
them: a late `Stamp` overwrites the fingerprint of a reset it did not see (the
store then locks), `Wipe` acts on a flag read before the lock, and an opener
that read the marker before a commit opens without the lock. A crash between creating and
filling the file leaves an empty one, which counts as damaged.

### AgentWatch (and AgentWatchProofs)

One agent, one repository and the evaluators of two processes. `session` are
connections at the server: a report is `sent`, stamped, and stored or refused, also
after the agent has given it up. `base` are the evaluators' baselines in memory,
`snap` the row an evaluator is looking at. `Compare` is a look with nothing to
tell, `Tell` enqueues and moves the baseline in one step of memory and
one transaction, `TellFails` does not move it though the transaction may have
committed. `Enqueue` has the deduplication and the cooldown of AlertOutbox.

A recovery whose enqueue is retried may get a newer key, a suppressed failure is still
followed by its recovery, two processes may both tell of a recovery, and an
abandoned session may set the agent's row back. An acknowledgement does not change
anything but whose turn it is.

### Monitors and WorkloadHealth (and MonitorsProofs)

One target of a `kind` that is fixed in the initial state, the loop that checks it
and the request that checks it beside the loop. `try` is the attempt each is at: the
inventory it read (`read`, what a failure covers), the one it checks (`known`), what
it saw (`seen`), what is left to write (`todo`), and the results it was the last to
write (`mine`, which only properties use). The four kinds differ in `Begin`, `Look`,
`Deadline`, `Covered` and `Slot`. `failures` and `wait` are the loop's back-off.
WorkloadHealth holds the verdicts (`dockerStatus`, `kubeHealth`, `checkHTTPRoute`,
`checkPingHost`) as operators.

A ping target has two inventories, and a checker uses both. `store.Services` is read
when the attempt begins (`Begin`), and decides whom a failure is written for
(`pingServicesForTarget`). What is checked comes from the cache, `entry`
(`syncPingTarget`: `Sync`), or from a refresh that is waited for (`Ask`,
`Refreshed`). A refresh replaces the hosts in the table (`Refresh`,
`refreshPingTarget`) and puts them into the cache in a step of its own (`Refreshed`,
`finishRefresh`); in between, `refreshing`, a checker is given the older entry. One
refresh runs at a time. Whether it was begun by a scan or by the checker that found
the cache out of date makes no difference here; ScanLifecycle has the refreshes in
full, with commits, waiting callers and cancellation.

`api` is what the attempt asks. A Docker host that is down fails the attempt
(`Refused`), for its containers are one request. A cluster does so only when its
client cannot be built ("unusable"); one that is down is an error of each service
asked for, of an attempt that otherwise succeeds and does not back off, unless a
deadline ends it.

Services are gone through in a fixed order (`Turn`), but for the checks of routes and
hosts, which workers do. Reads of services and of containers or of existing results
are one step (`Begin`); nothing that either changes depends on the other. Overrides
are in HealthAlerts. The row of a failed attempt at routes stands beside those of
the routes until the next attempt removes it. Results of services that a scan removed
are left behind, as in the code. The age of the cache and of results, images,
digests and the matching of containers to services are left out.

## 3. What the runs show

| Run | Question | Bounds |
|---|---|---|
| `outbox_safety` | one alert, two sinks, two processes: all safety properties and the refinement | two attempts, lease 3, timeout 1, delay 1, so that leases do end under a worker that is late, and the last attempt is reached |
| `outbox_liveness` | every alert is closed in the end; the cooldown | two alerts of one edge, three attempts, one process that may restart: the second alert meets the first one pending, cooling down and past it |
| `outbox_overlap` | (violated) a lease outlives its send | timeout just below the lease, delay 1 |
| `summary_coherence` | answers against writes, expiry and other processes; every commit surfaces | two writers, two tables, a build between them; two commits of each kind are enough for an older copy to overtake a newer one |
| `summary_agents` | (violated) agents and services of one answer agree | one report |
| `health_edges` | results of one target, committed and observed by two writers; edges of two incarnations | five commits: an edge, a new incarnation, the same edge again; a debounce of one and two samples. Routes with their parent, and late results, are left to the theorems of HealthAlertsProofs, which hold for any targets and delay |
| `health_notapplicable` | (violated) not applicable is silent | one target |
| `scan_lifecycle` | joined scans, synchronisations and refreshes; failed scans; what is stored in the end | two callers of each sort, so that one joins the other; two commits, so that the tree moves under a reader, the second without hosts; one fault; three rows, so that retention acts |
| `route_moves` | alerts follow their routes, whatever is claimed or locked | three targets: a chain and a cycle, and an order of edges that needs three passes; two events, which can collide, with two sinks each; three moves and one lock |
| `store_opening` | key, fingerprint, marker and rows explain each other | two processes, two tokens, four keys (each reset makes one), one act of the operator and one fault anywhere |
| `agent_watch` | silence and failed scans are told of once, and retried until told | two processes, two sessions (one abandoned), a clock of two with a TTL of one; two changes make a failure and a recovery; one fault |
| `monitors` | results settle, fail as a whole, and are silent after a stop | two services; an interval of one and a cap of three, so that the cap is met; one change, one request, one fault; whether what is asked answers is free at the start, and so is whether the hosts to ping are in the table yet, so that a refresh can bring them in the middle of an attempt |

Every bound is a constant in the guards (`NumEvents`, `NumCommits`, `MaxTime`,
`MaxCommits`, `MaxIncarnations`, ...) and named in its `.cfg`. Symmetry is used
in runs without liveness only. Deadlock is not checked: with the bounds reached
the model stops, and so does the system when nothing is left to do.

Fairness. `AlertOutbox!FairSpec` assumes that the polling loop keeps polling,
that a send ends (it has a timeout), that a finished send is recorded or its process
stops, and that time passes: the worker's ticker and contexts in
`alerter.go:149-228`. Nothing is assumed about sinks or about crashes.
`SummaryCache!FairSpec` assumes that a request under way is carried on
to its answer (a handler runs to its end), and that a copy reaches its age limit.
`ScanLifecycle` assumes that the schedule and the loops keep starting
(`RunScheduled`, the ping loop), that git commands end (they have timeouts), that
retention runs, and that a process told to stop exits and is started again; requests
may never come. `StoreOpening` assumes
that an opening is carried on once begun. `AgentWatch` assumes of
the evaluators that they run at intervals (`runAlertEvaluatorLoop`), and that time
passes; nothing of agents, sessions or scans. `Monitors`
assumes that the loop's timer fires, attempts are carried on and refreshes end: each
request, git command and write has a timeout. Faults are bounded and never fair.

`Settled` of Monitors says nothing of a service removed by a scan, and its
results are compared without their age: with the back-off at its longest (eight
intervals) an error row outlives its TTL (two intervals) and shows as expired
until the next attempt. `StopIsSilent` excepts an attempt at routes or hosts whose
deadline had passed before the stop, for `statusWriteContext` gives that one a
context of its own. `FailedScanKeeps` is checked with `ReadsFail = FALSE`: when
the read of the last commit fails as well, the code writes that of the failed
attempt (`scanner.go:192-199`), which its comment says is never authoritative, and
the property does not hold.

The three violated runs are disagreements between the code and its own words;
`PROJECT.json` ("findings") quotes both. They are about what a reader of those
words would rely on, not about crashes of the program. Others have no
run:

- `PruneTerminalAlertEvents` deletes by the creation of an event, and its comment
  (`alerts.go:1168-1172`) speaks of the time it reached a terminal status.
- The replay of kept edges repeats "until no mutable alert can advance"
  (`route_targets.go:296-299`). It stops after a pass in which no alert moved, but a
  merge that meets an obstacle has by then moved the dispatches before it
  (`route_targets.go:451-474`), which may be what another alert waited for. With
  three alerts, two edges and two sinks (`MaxEvents = 3` and `MaxLocks = 2` in
  `RouteMoves.cfg`) one stays though it could move, until the next scan.
  `ReplayArrives` says what does hold: an alert that stays meets another one. For the
  same reason the passes allowed may not be enough where a merge is put off
  (`ReplayEnds` has that condition, see section 4); the edges are kept then, and the
  next scan goes on.
- `recordTargetFailure` is to overwrite "any earlier results from the same failed
  attempt" (`monitor.go:366-371`). It writes at the target, for the services it is
  given, and two sorts of results of the attempt are not among those. Those of routes
  are at targets of their own (`http_routes.go:199-203`) and stay as they were. Of
  a ping target the services given are those read when the attempt began
  (`monitor.go:338` with `305-307`, `138` with `187`), while the attempt writes hosts
  of the cache (`ping.go:318`): a host that a refresh brought in between and that was
  written as healthy stays so when a later write fails. `Left` in Monitors names these
  two; without either of its parts `FailureIsWhole` is violated. Both mend with the
  next attempt that succeeds (`Settles`).
- The reset flag "is one-shot" (the repository's `README.md:185-186`). The mode that
  keeps an existing file (`storage.go:376-397`) does not look at the used tokens. When
  one opening has read the marker of a reset, another ends that reset, and a third that had
  found no fingerprint writes its own (`storage.go:324`), the first begins a second
  reset for the token. `TokensAreOneShot` and `TokensUninterrupted` say that it takes
  no less: three openings at once, and one of them interrupted.
- Writers "lock on stale" keys (`README.md:188-190`). An opening stamps and uses
  for old rows (`migrations.go:1433-1519`) the key it has read, without a further look at
  the file: if another opening removed that file and died before it committed, an old
  alert stays pending under a key that is gone (`MaxFaults = 2` in `StoreOpening.cfg`).

## 4. What is proved

`AlertOutboxProofs` proves, for any number of processes, events, sinks and
attempts and any policy that satisfies the module's assumptions: the type
invariant; that events agree with their dispatches; that attempts count claims;
that sends are bounded by attempts; that only what was accepted is delivered;
that only exhausted dispatches are dead-lettered; that closed dispatches stay
closed; and `LeaseOutlivesSend`: with `MaxLag + Timeout < Lease` two workers
never send one dispatch at once, which is what the configuration would have
to guarantee and does not (see `outbox_overlap`). The safety properties are not
inductive alone: `OutboxInv` adds what ties a goroutine to the claim it holds
(its claim was handed out, its attempt number is the row's while it holds the row), what
ties the count of sends to that of claims, and that only rows of events that exist
are in use. Each action has its lemma.

`CooldownIsHonoured` and `OutboxKeepsPromise` rest on `OutboxInv` too. The cooldown
needs `CooldownInv`: an edge that closed less than a cooldown ago has an event that
says so, with a row as young as its closing, or one that retention deleted; so the
query of the rows misses nothing. The refinement is a simulation, one dispatch at a
time: each action leaves the stage, the tries and the told receivers of a dispatch
alone, or is one step of `AlertDelivery`. What the promise is good for follows once, for
whoever keeps it (`PromisesHold`): `Truthful`, what a dispatch looks like says what has
happened to it, and `Irrevocable`, no step tries a closed one, opens it again, changes how it
ended or takes a try back. `OutboxIsTruthful` gives both to the outbox.

`SummaryCacheProofs` proves the type invariant, that answers contain every
write that had returned, that no expired result is shown as live, and that a
usable copy contains all that was invalidated. `FreshInv` carries the argument:
what a build has read is no older than what had returned when it read the
version, and a copy under the current version was built after every
invalidation.

`HealthAlertsProofs` proves, for any number of targets, writers, commits and
incarnations and any alert policy: the type invariant, `FailureStartKnown`,
`SamplesAreNews`, `EdgesLinkUp` and `EdgeIsNew`. `HealthInv` adds to them that whatever
a writer is about to observe has a time of the clock (a failure cannot begin at the
empty time), that a candidate is what was observed last, that results other than
those counted last have taken a transaction which no sample stands for yet
(without this a sample could be counted that exceeds the commits), and that the
stable health of a row is what the events of its incarnation have led to.
`EdgesAreNew` has a hypothesis, `2 * MaxLag < Debounce`: the time from a check to its
observation is below half of the debounce. It is what the times of results
that come late leave room for; the default debounce is 30 seconds
(`config.go:333`), a debounce of zero is not covered. `OccurrenceInv` then says
that every enqueued edge is older than its debounce, and every failure and candidate
of the row younger than the edges they could be taken for.

`MonitorsProofs` proves, for any services, intervals and numbers of faults: the
types with the range of every attempt, `StopIsSilent`, and `FailureIsWhole`.
`MarkedInv` carries the latter. Of an attempt that fails and has lost no write: what it
was the last to write, and has not yet to mark, says "error" where the failure covers
it, whoever checks beside it, and that nothing is checked here where it does not. For
this the invariant follows the attempt from before it fails: it checks what it read,
unless it pings; of a service it does not check it has said no more than that;
and what is left to mark is covered. Routes and late hosts are excepted (`Left`).
`BackOffGrows` says of `nextInterval` that more failures never shorten the wait, as long
as the interval is at most five minutes, and that the counter may stop at four. Of
the verdicts of WorkloadHealth it proves, for counters of every size, that a
workload of which more is ready is never reported as less healthy
(`DeploymentMonotone`, `StatefulSetMonotone`, `DaemonSetMonotone`), that pods of a Job
count against it only once the controller has given it up (`JobMonotone`), that a later
success never makes a CronJob worse and one after the last schedule makes it healthy
(`CronJobSuccessCounts`), and that the health of a service is that of its worst
container (`DockerHealthIsWorst`).

`StoreOpeningProofs` proves, for any processes, tokens, keys and faults: the types
and `KeyInv` (whoever holds a key has one), and `ArmedOpens`, about openings that meet no other
one, among others that do. `Knows` is the heart of it: for each place of an opening,
what it has read before and what is still true of file, fingerprint, marker and rows
because nobody else came between.

Openings that overlap are proved about in two stages. First, without any
hypothesis on who opens when, or crashes, each property can be lost in one way only.
`OldRowsUnlessLate`: old rows stay unmarked only after a `Stamp` that came late
(`StampInTime` says that it did not: no key was used before, or the same one).
`OverlapInv` carries it: whoever is about to hash old rows holds the current key, or a
reset is marked, or there are none left. `TokensUnlessAdopted`: a token is spent twice only
after a reset that was read as marked was taken up though it was completed since
(`AdoptInTime`); `LockInv` says that every other reset has looked at the used tokens
under the lock it still holds. These are the two steps that act on what was read before the
lock was taken.

Then, when those two steps are in time:

- While openings follow one another, `Knows` says so of the first: `OldRowsAreMarked`.
- With at most two at once, whatever fails, for the second: `TokensAreOneShot`.
  `CompletedInv`: who recalls the mark of a completed reset finds its key current, for
  the other opening has seen nothing to reset (`Calm`), and nobody else is there.
- With any number at once and no crash or failed write, for both: `RowsUninterrupted` and
  `TokensUninterrupted`. `UninterruptedInv` says why: before a key was used, all
  openings are led to the same file (`PristineAt`), which one of them fills
  (`FillInv`); with the first fingerprint or the first commit, file and fingerprint agree and
  whoever will store one, recalls a mark or finishes a reset holds that key
  (`Settled`), which no step of an opening changes; and a mark always has a process that will finish
  its reset (`MarkInv`). It was checked with TLC for two processes and three acts
  of the operator, and in parts for three processes, before it was proved.

The hypotheses are needed: section 3 says what a second fault or a third opening can do.
Between them, `store_opening` shows that with two openings at once and one fault
`OldRowsMarked` holds as well.

`AgentWatchProofs` proves, for any processes, sessions, scans and times: the types,
`RecoveriesAnswerFailures`, `ToldOnce` and `EdgesAnnounced`. `WatchInv` ties what an
evaluator holds to what was stored: a failure that was told of has happened (its row
had expired when it was told, its scan has failed), and who remembers a failure finds
one in the outbox, older than the good row or scan it looks at. Of the last ended scan
the least-number principle gives the greatest one.

`ScanLifecycleProofs` proves, for any callers, commits, rows and faults: the types,
`OneAtATime`, `LabelsNotAhead`, `RunningRowsExplained` and `FailedScanKeeps`.
`FlightInv` says that the callers in a flight are those whose place says so, and that
no flight has two; `CommitInv` that what was read from the tree lies between the
answer of the synchronisation and the tree; `RowsInv` counts the rows that stayed
`running` against the faults, a stop counting before its row is left behind, and shows
that retention keeps them. `FailedScanKeepsServices` holds in any case, `FailedScanKeeps`
under `~ReadsFail`, for the reason given in section 3.

`RouteMovesProofs` proves, for any targets, sinks, kinds, alerts, edges, moves
and locks: `RouteInv` (types, every dispatch below an alert that there is, and
`OutboxSound`), `DispatchesKept`, `ReplayArrives` and `ReplayEnds`. `MoveOne` is the step of the
argument: moving or merging one alert keeps tables sound, whether or not the merge
stops at an obstacle, and keeps claims and closings. That carries over to migrations, passes and
replays, whatever the number of rounds: `LoopRuns` shows that a loop has a course,
`LoopKeeps` and `LoopReaches` that what each round keeps, or adds, the loop has in
the end, by looking at the least round where they would fail. `ReplaysArrive`
(`ReplayArrives`) follows the last pass alert by alert and edge by edge: as no alert
moved in it, each stood where it stands now when its turn came, and met a pending one
(`MoveOneStays`, `MigrateStays`, `PassStays`); `EdgeFound` shows that every edge had
its turn. `ReplaysEnd` (`ReplayEnds`): without a circle the targets have ranks that
grow along the edges, and each pass brings every alert that can still move past at
least one of the edges above it (`Above`), so that one pass more than there are edges
moves none. Alerts that meet are merged and only make the rest easier, unless a merge
is put off because both have been claimed or told at the same sink; `Unhindered` excludes
that. The condition is needed: of tables that are merely sound, there are some with six alerts
and three edges, found by a search, where what one merge leaves undone lets another one
through only a pass after the last. Whether a run of the system leads to such tables is not
known; no harm would come of it, as the edges are kept for the next scan.

Induction here is that of behaviours or, for loops, the least-number principle over the
naturals, which the provers can be given as a lemma; the induction theorems of the
library, which take an operator, are not used.

Only model-checked: liveness (`EventuallyClosed`, `CommitsSurface`, `Settles` of
ScanLifecycle and of Monitors, `ResetFinished`, `BaselinesSettle`), which is out
of the prover's reach. Every invariant and every action property that a passing run
checks is a theorem as well, those of openings and replays under the conditions above.

## 5. What is not modelled, and the plan

Left out for good: git, container and HTTP clients (external), parsers,
configuration and redaction (conversion of text and validation of a file),
authentication (a comparison without state), the web interface, and the command-line
tools for releases, which run outside of the service and alone.

Left out of components that are modelled in part: the history of results, its
pruning and the uptime statistics (queries over a log); moving overrides and
results of a replaced route (renames in the scan's transaction) and how
replacements are derived from two sets of routes; the lock messages of the
health alerts' cleanup, whose order a counter under one mutex decides; the
bounded history of finished actions; image digests; migrations that add
columns and tables.

What is left:

- `OldRowsMarked` for two openings at once and one fault, which TLC checks and no theorem
  states: the argument would have to count what one crash can leave behind.
- A closed form of the outbox's back-off (`2^n` times the base interval, cut at
  the maximum): an induction over data.
- `EdgesAreNew` where results may come later than half of the debounce: the run has none
  that come late, and the theorem excludes them.
