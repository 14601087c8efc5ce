------------------------------ MODULE Monitors ------------------------------
(***************************************************************************)
(* One runtime target and those who check it: the loop of its own, which   *)
(* backs off while checks fail, and POST /api/monitor, which runs CheckAll *)
(* beside it.  Each attempt reads the services first, then observes and    *)
(* writes them one by one.  An attempt that fails writes an error for      *)
(* every service it covers; one whose context is cancelled writes nothing  *)
(* more.  Scans change the services meanwhile, and the process may be told *)
(* to stop at any point.                                                   *)
(*                                                                         *)
(* The target is of any kind: a Docker host, a cluster, HTTP routes, or    *)
(* hosts to ping.  The kinds differ in what they read at once, in what a   *)
(* deadline makes of an attempt, and in where its results go: those of     *)
(* routes have targets of their own, an error of the attempt has not.      *)
(* Hosts to ping are not those of the services read, but those of a cache  *)
(* that is refreshed with the table apart from that read.                  *)
(***************************************************************************)
EXTENDS Integers, FiniteSets, WorkloadHealth, FiniteSetsExt

CONSTANTS
    Services,       \* services of the inventory
    Interval,       \* the target's check interval
    IntervalCap,    \* five minutes, in the same unit
    MaxChanges,     \* bound on changes of the world and of the inventory
    MaxRequests,    \* bound on requests of POST /api/monitor
    MaxFaults       \* bound on failed reads, failed writes and missed deadlines

ASSUME MonitorsAssumption ==
    /\ Interval \in Nat \ {0} /\ IntervalCap \in Nat \ {0}
    /\ MaxChanges \in Nat /\ MaxRequests \in Nat /\ MaxFaults \in Nat

Kinds    == {"docker", "kubernetes", "routes", "ping"}
Checkers == {"loop", "all"}
Healths  == {"healthy", "degraded", "unhealthy", "unknown", "error", "not_applicable"}

VARIABLES
    kind,       \* the kind of the target
    world,      \* what there is to observe
    api,        \* the Docker API or the cluster: "up", "down", or no client can be built
    inventory,  \* per service "here", "other" (not checked at this target), or "gone"
    entry,      \* the hosts of the ping inventory cache: a set of none or one set of them
    refreshing, \* the table has hosts that a refresh has not yet put into the cache
    rows,       \* per service the results at the target itself and at its route
    live,       \* the context of the monitors is not cancelled
    try,        \* per checker the attempt it is at
    failures,   \* failed attempts of the loop in a row
    wait,       \* time until its next one
    changes, requests, faults

vars == <<kind, world, api, inventory, entry, refreshing, rows, live, try, failures,
          wait, changes, requests, faults>>

environment == <<kind, world, api, inventory, entry, refreshing, live, changes, requests>>

NoRows == [target |-> "none", route |-> "none"]

\* An attempt: where it is, the inventory as it read it (a failure covers that), the
\* inventory it checks, the results it is to remove, the services it has left to
\* write, what it saw of each, the results it was the last to write, whether its
\* deadline has passed, how it failed, and whether a write of its failure was lost.
Idle == [pc |-> "idle", read |-> [s \in Services |-> "gone"],
         known |-> [s \in Services |-> "gone"], old |-> {},
         todo |-> {}, seen |-> [s \in Services |-> "none"], mine |-> {}, late |-> FALSE,
         error |-> "none", spoiled |-> FALSE]

Fault == faults < MaxFaults /\ faults' = faults + 1

-----------------------------------------------------------------------------
(* What a check sees, and of what *)

Container(state, health) == [state |-> state, health |-> health]

Worlds(k) ==
    IF k = "docker" THEN {{Container("running", "")},
                          {Container("running", ""), Container("exited", "")}}
    ELSE IF k = "kubernetes" THEN
        {[kind |-> "Deployment", desired |-> 2, current |-> 2, ready |-> r, available |-> r] : r \in {1, 2}}
    ELSE IF k = "routes" THEN {[head |-> 405, get |-> 200], [head |-> Blocked, get |-> Blocked]}
    ELSE {"reply", "silent"}

\* What may be wrong with what is asked: a Docker host can be down; a cluster too, and
\* besides, its kubeconfig may be of no use.
Apis(k) == IF k = "docker" THEN {"up", "down"}
           ELSE IF k = "kubernetes" THEN {"up", "down", "unusable"}
           ELSE {"up"}

Verdict == IF kind = "docker" THEN DockerHealth(world)
           ELSE IF kind = "kubernetes" THEN KubeHealth(world)
           ELSE IF kind = "routes" THEN RouteHealth(world)
           ELSE PingHealth(world)

\* What a request for one service can make of it.  A request that fails is an error of
\* that service alone; a client built before its kubeconfig broke may or may not go on.
Observable == (IF api = "down" THEN {} ELSE {Verdict}) \cup (IF api = "up" THEN {} ELSE {"error"})

\* An attempt can ask for nothing at all: the containers of a Docker host are one
\* request, and of a cluster the client cannot be built.
Refused == IF kind = "docker" THEN api = "down" ELSE api = "unusable"

\* Where the results of a check go.
Slot == IF kind = "routes" THEN "route" ELSE "target"

Here(inv) == {s \in Services : inv[s] = "here"}

\* The inventory of a ping target that has the hosts h.
Hosts(h) == [s \in Services |-> IF s \in h THEN "here" ELSE "gone"]

\* The services an attempt writes: also those that are not checked here, to remove
\* the results they may have, or, in a cluster, to say so.
Written(inv) == {s \in Services : inv[s] # "gone"}

\* Of routes, the results that are no longer wanted: of a service that is not checked
\* here all of them, of the others the error of an earlier attempt.
Outdated(inv) ==
    {o \in Services \X {"target", "route"} :
        /\ inv[o[1]] # "gone" /\ rows[o[1]][o[2]] # "none"
        /\ o[2] = "target" \/ inv[o[1]] = "other"}

\* The services of those read that a failure of the attempt covers: of a cluster,
\* unless a deadline was missed, also those of kinds that are not monitored.
Covered(inv, e) ==
    IF kind = "kubernetes" /\ e = "error" THEN {s \in Services : inv[s] # "gone"} ELSE Here(inv)

-----------------------------------------------------------------------------
(* The interval to the next attempt *)

\* nextInterval: doubled from the second failure on, eightfold at most.
NextInterval(n) ==
    IF n < 2 THEN Interval ELSE Min({IntervalCap, Interval * 2 ^ Min({n - 1, 3})})

\* More failures than this make no difference to NextInterval.
Enough  == 4
OneMore == Min({failures + 1, Enough})

\* The attempt is over.
Finish(x) == try' = [try EXCEPT ![x] = Idle]

\* Mutant of Reschedule: every interval is the longest.
RescheduleFlat(x, n) ==
    IF x = "loop" THEN failures' = n /\ wait' = NextInterval(Enough)
    ELSE UNCHANGED <<failures, wait>>

\* The loop counts its failures and sets its timer.
Reschedule(x, n) ==
    IF x = "loop" THEN failures' = n /\ wait' = NextInterval(n)
    ELSE UNCHANGED <<failures, wait>>

\* Mutant of Due: a loop ends with its first failed attempt.
DueUntilFailed(x) == IF x = "loop" THEN wait = 0 /\ failures = 0 /\ UNCHANGED requests
                     ELSE requests < MaxRequests /\ requests' = requests + 1

\* The loop's timer, or a request.  One request runs at a time: startAction.
Due(x) == IF x = "loop" THEN wait = 0 /\ UNCHANGED requests
          ELSE requests < MaxRequests /\ requests' = requests + 1

Tick ==
    /\ live /\ wait > 0 /\ try["loop"].pc = "idle" /\ wait' = wait - 1
    /\ UNCHANGED <<environment, rows, try, failures, faults>>

-----------------------------------------------------------------------------
(* Around the monitors *)

WorldChanges ==
    /\ live /\ changes < MaxChanges /\ changes' = changes + 1
    /\ \/ world' \in Worlds(kind) \ {world} /\ UNCHANGED api
       \/ api' \in Apis(kind) \ {api} /\ UNCHANGED world
    /\ UNCHANGED <<kind, inventory, entry, refreshing, rows, live, try, failures, wait,
                   requests, faults>>

\* A scan replaces the services.  It leaves the results of those that are gone.
Rescan ==
    /\ live /\ kind # "ping" /\ changes < MaxChanges /\ changes' = changes + 1
    /\ \E s \in Services : \E place \in {"here", "other", "gone"} \ {inventory[s]} :
           inventory' = [inventory EXCEPT ![s] = place]
    /\ UNCHANGED <<kind, world, api, entry, refreshing, rows, live, try, failures, wait,
                   requests, faults>>

\* A refresh, by a scan or by a checker that found the cache out of date, replaces the
\* hosts in the table by others.  One refresh runs at a time: startRefresh.
Refresh ==
    /\ live /\ kind = "ping" /\ ~refreshing /\ refreshing' = TRUE
    /\ changes < MaxChanges /\ changes' = changes + 1
    /\ inventory' \in {Hosts(h) : h \in SUBSET Services} \ {inventory}
    /\ UNCHANGED <<kind, world, api, entry, rows, live, try, failures, wait, requests, faults>>

\* finishRefresh: its hosts are put into the cache, and who waits for them gets them.
Refreshed ==
    /\ refreshing /\ refreshing' = FALSE /\ entry' = {Here(inventory)}
    /\ UNCHANGED <<kind, world, api, inventory, rows, live, try, failures, wait, changes,
                   requests, faults>>

\* The process is told to stop: the contexts are cancelled, the goroutines go on
\* until they notice.
Stop ==
    /\ live /\ live' = FALSE
    /\ UNCHANGED <<kind, world, api, inventory, entry, refreshing, rows, try, failures, wait,
                   changes, requests, faults>>

-----------------------------------------------------------------------------
(* An attempt *)

\* Mutant of Fail: only what the attempt had not written before is marked.
FailRest(x, e) ==
    try' = [try EXCEPT ![x] = [@ EXCEPT !.pc = "fail", !.error = e, !.late = FALSE,
                                        !.old = {}, !.seen = Idle.seen,
                                        !.todo = Covered(try[x].read, e) \cap @]]

\* It ends in an error: what it covers of the services read is to be marked.
Fail(x, e) ==
    try' = [try EXCEPT ![x] = [@ EXCEPT !.pc = "fail", !.error = e, !.late = FALSE,
                                        !.old = {}, !.seen = Idle.seen,
                                        !.todo = Covered(try[x].read, e)]]

\* It has written the results of service s at the slots.
Done(x, s, slots) ==
    try' = [y \in Checkers |->
        IF y = x THEN [try[x] EXCEPT !.todo = @ \ {s}, !.seen[s] = "none",
                                     !.old  = {o \in @ : o[1] # s},
                                     !.mine = @ \cup ({s} \X slots)]
                 ELSE [try[y] EXCEPT !.mine = @ \ ({s} \X slots)]]

\* Where an attempt begins, and what it then has to write: it knows the hosts to ping
\* only from the cache.
FirstStep == IF Refused THEN "fail" ELSE IF kind = "routes" THEN "prune"
             ELSE IF kind = "ping" THEN "sync" ELSE "check"
FirstTodo == IF Refused THEN Covered(inventory, "error")
             ELSE IF kind = "ping" THEN {} ELSE Written(inventory)

\* Whose turn it is: services are gone through in the order they were read in, but
\* for the checks of routes and hosts, which several workers do.
Turn(x, s) ==
    /\ s \in try[x].todo
    /\ \/ kind \in {"routes", "ping"} /\ try[x].pc = "check"
       \/ s = CHOOSE t \in try[x].todo : TRUE

\* The services are read.  Of a Docker host the containers are read at once, of
\* routes the results that there are; an attempt that can ask for nothing fails.
Begin(x) ==
    /\ live /\ try[x].pc = "idle" /\ Due(x)
    /\ try' = [try EXCEPT ![x] =
           [Idle EXCEPT !.pc    = FirstStep,
                        !.read  = inventory,
                        !.known = inventory,
                        !.old   = IF kind = "routes" THEN Outdated(inventory) ELSE {},
                        !.todo  = FirstTodo,
                        !.seen  = IF kind = "docker" /\ ~Refused THEN [s \in Services |-> Verdict] ELSE @,
                        !.error = IF Refused THEN "error" ELSE "none"]]
    /\ UNCHANGED <<kind, world, api, inventory, entry, refreshing, live, rows, failures, wait,
                   changes, faults>>

\* The services cannot be read: there is none to write an error for.
BeginFails(x) ==
    /\ live /\ try[x].pc = "idle" /\ Due(x) /\ Fault
    /\ Reschedule(x, OneMore)
    /\ UNCHANGED <<kind, world, api, inventory, entry, refreshing, live, rows, try, changes>>

\* Ping: there is nothing in the cache, and a refresh is started.  It finds the hosts
\* that the table has, or others: Refresh.
Ask(x) ==
    /\ live /\ try[x].pc = "sync" /\ entry = {} /\ ~refreshing /\ refreshing' = TRUE
    /\ UNCHANGED <<kind, world, api, inventory, entry, live, changes, requests, rows, try,
                   failures, wait, faults>>

\* syncPingTarget: the hosts of the cache, while a refresh runs those from before it,
\* are checked, whatever services were read.
Sync(x) ==
    /\ live /\ try[x].pc = "sync"
    /\ \E h \in entry :
           try' = [try EXCEPT ![x].pc = "check", ![x].known = Hosts(h), ![x].todo = h]
    /\ UNCHANGED <<environment, rows, failures, wait, faults>>

\* The refresh, or the question whether the cache is out of date, fails.
SyncFails(x) ==
    /\ live /\ try[x].pc = "sync" /\ Fault
    /\ Fail(x, "error")
    /\ UNCHANGED <<environment, rows, failures, wait>>

\* Routes: the outdated results it read are removed first.
Prune(x, s) ==
    /\ live /\ try[x].pc = "prune" /\ Turn(x, s)
    /\ rows' = [rows EXCEPT ![s] = [slot \in DOMAIN @ |-> IF <<s, slot>> \in try[x].old THEN "none" ELSE @[slot]]]
    /\ Done(x, s, {slot \in {"target", "route"} : <<s, slot>> \in try[x].old})
    /\ UNCHANGED <<environment, failures, wait, faults>>

Pruned(x) ==
    /\ try[x].pc = "prune" /\ try[x].todo = {}
    /\ try' = [try EXCEPT ![x].pc = "check", ![x].todo = Here(try[x].known)]
    /\ UNCHANGED <<environment, rows, failures, wait, faults>>

\* A workload of a cluster, a route or a host is asked for.
Look(x, s) ==
    /\ live /\ kind # "docker" /\ try[x].pc = "check" /\ Turn(x, s)
    /\ try[x].known[s] = "here" /\ try[x].seen[s] = "none"
    /\ \E health \in Observable : try' = [try EXCEPT ![x].seen[s] = health]
    /\ UNCHANGED <<environment, rows, failures, wait, faults>>

\* What an attempt says of a service that is not checked here: of a Docker host it
\* removes the result, of a cluster it says that none is to be expected.
Elsewhere == IF kind = "docker" THEN "none" ELSE "not_applicable"

\* A result is written: under the attempt's context, or, when its deadline has
\* passed, under one that nothing cancels.
Writable(x) == live \/ try[x].late

Put(x, s) ==
    /\ Writable(x) /\ try[x].pc = "check" /\ Turn(x, s)
    /\ try[x].known[s] = "here" => try[x].seen[s] # "none"
    /\ rows' = [rows EXCEPT ![s][Slot] =
           IF try[x].known[s] = "here" THEN try[x].seen[s] ELSE Elsewhere]
    /\ Done(x, s, {Slot})
    /\ UNCHANGED <<environment, failures, wait, faults>>

\* A write that fails ends the attempt, with some results written.
PutFails(x) ==
    /\ Writable(x) /\ try[x].pc \in {"prune", "check"} /\ try[x].todo # {} /\ Fault
    /\ Fail(x, "error")
    /\ UNCHANGED <<environment, rows, failures, wait>>

\* The time of the attempt, or of a request to a cluster, is over.  A cluster's
\* attempt is given up, as often as a cluster that is down makes it wait.  For routes
\* and hosts an error is the result of each check that has none, and it is written
\* all the same.  At a Docker host only requests have a timeout.
Deadline(x) ==
    /\ live /\ try[x].pc = "check" /\ try[x].todo # {} /\ ~try[x].late
    /\ \/ kind = "kubernetes" /\ Fail(x, "deadline") /\ (Fault \/ (api = "down" /\ UNCHANGED faults))
       \/ /\ kind \in {"routes", "ping"} /\ Fault
          /\ try' = [try EXCEPT ![x].late = TRUE,
                                ![x].seen = [s \in Services |-> IF @[s] = "none" THEN "error" ELSE @[s]]]
    /\ UNCHANGED <<environment, rows, failures, wait>>

Succeed(x) ==
    /\ try[x].pc = "check" /\ try[x].todo = {}
    /\ Finish(x) /\ Reschedule(x, 0)
    /\ UNCHANGED <<environment, rows, faults>>

\* recordTargetFailure: one error per service; a write that fails is logged.
Mark(x, s) ==
    /\ live /\ try[x].pc = "fail" /\ Turn(x, s)
    /\ rows' = [rows EXCEPT ![s].target = "error"]
    /\ Done(x, s, {"target"})
    /\ UNCHANGED <<environment, failures, wait, faults>>

MarkFails(x, s) ==
    /\ live /\ try[x].pc = "fail" /\ Turn(x, s) /\ Fault
    /\ try' = [try EXCEPT ![x].todo = @ \ {s}, ![x].spoiled = TRUE]
    /\ UNCHANGED <<environment, rows, failures, wait>>

EndFail(x) ==
    /\ try[x].pc = "fail" /\ try[x].todo = {}
    /\ Finish(x) /\ Reschedule(x, OneMore)
    /\ UNCHANGED <<environment, rows, faults>>

\* Mutant of Interrupted: its requests are written as the failures they look like.
InterruptedWritten(x) ==
    /\ ~Writable(x) /\ try[x].pc # "idle"
    /\ rows' = [s \in Services |-> IF s \in try[x].todo THEN [rows[s] EXCEPT ![Slot] = "error"] ELSE rows[s]]
    /\ Finish(x)
    /\ UNCHANGED <<environment, failures, wait, faults>>

\* The context is cancelled.  The requests it interrupts look like failures and are
\* not written: statusWriteContext refuses a cancelled context, the other writes
\* fail under it, and a cancelled attempt marks nothing.
Interrupted(x) ==
    /\ ~Writable(x) /\ try[x].pc # "idle"
    /\ Finish(x)
    /\ UNCHANGED <<environment, rows, failures, wait, faults>>

-----------------------------------------------------------------------------
Init ==
    /\ kind \in Kinds /\ world \in Worlds(kind)
    /\ api \in Apis(kind)
    /\ inventory \in IF kind = "ping" THEN {Hosts(Services), Hosts({})} ELSE {Hosts(Services)}
    /\ entry = {} /\ refreshing = FALSE
    /\ rows = [s \in Services |-> NoRows]
    /\ live = TRUE
    /\ try = [x \in Checkers |-> Idle]
    /\ failures = 0 /\ wait = 0
    /\ changes = 0 /\ requests = 0 /\ faults = 0

\* What a checker does of its own accord once an attempt has begun.
Step(x) == \/ Ask(x) \/ Sync(x) \/ Pruned(x) \/ Succeed(x) \/ EndFail(x) \/ Interrupted(x)
           \/ \E s \in Services : Prune(x, s) \/ Look(x, s) \/ Put(x, s) \/ Mark(x, s)

Next ==
    \/ WorldChanges \/ Rescan \/ Refresh \/ Refreshed \/ Stop \/ Tick
    \/ \E x \in Checkers : \/ Begin(x) \/ BeginFails(x) \/ Step(x)
                           \/ SyncFails(x) \/ PutFails(x) \/ Deadline(x)
                           \/ \E s \in Services : MarkFails(x, s)

Spec == Init /\ [][Next]_vars

\* The loop's timer runs, its attempts are carried on and refreshes end: every request,
\* git command and write in them has a timeout.  Nothing is assumed of requests.
FairSpec == /\ Spec
            /\ WF_vars(Tick) /\ WF_vars(Begin("loop")) /\ WF_vars(Refreshed)
            /\ \A x \in Checkers : WF_vars(Step(x))

-----------------------------------------------------------------------------
(* Properties *)

Result == Healths \cup {"none"}

\* The type of the state; a loop that backs off is never further from its next
\* attempt than nextInterval says.
TypeOK ==
    /\ kind \in Kinds /\ api \in Apis(kind) /\ live \in BOOLEAN
    /\ inventory \in [Services -> {"here", "other", "gone"}]
    /\ entry \subseteq SUBSET Services /\ refreshing \in BOOLEAN
    /\ rows \in [Services -> [target : Result, route : Result]]
    /\ \A x \in Checkers :
           /\ try[x].pc \in {"idle", "sync", "prune", "check", "fail"}
           /\ try[x].read \in [Services -> {"here", "other", "gone"}]
           /\ try[x].known \in [Services -> {"here", "other", "gone"}]
           /\ try[x].todo \subseteq Services
           /\ try[x].seen \in [Services -> Result]
           /\ try[x].mine \subseteq Services \X {"target", "route"}
           /\ (try[x].pc = "fail") = (try[x].error # "none")
           /\ try[x].late => kind \in {"routes", "ping"} /\ try[x].pc = "check"
    /\ failures \in 0..Enough /\ wait \in 0..NextInterval(failures)

\* A process that has been told to stop changes no result any more, for the requests
\* that it interrupts look like failures of what they asked for.  Only an attempt
\* whose deadline had passed by then still writes that.
StopIsSilent == [][~live /\ rows' # rows => \E x \in Checkers : try[x].late]_vars

\* Results that the failure of attempt x leaves as they are: those of routes, whose
\* errors have a target of their own, and of hosts that were not yet among the services
\* read, which a refresh brought before they were checked.
Left(x, o) == o[2] = "route" \/ (kind = "ping" /\ try[x].read[o[1]] # "here")

\* An attempt that failed leaves no result that it wrote before it failed: what its
\* failure covers says "error", and of a service it does not cover there is no more
\* than that it is not checked here.  Excepted is what another checker has written
\* since, an attempt of which a write of the failure was lost, and what is Left:
\* recordTargetFailure is to overwrite any earlier results of the attempt, but it
\* is given the services read first, and writes at the target alone.
FailureIsWhole ==
    [][\A x \in Checkers : (live /\ try[x].pc = "fail" /\ try'[x].pc = "idle" /\ ~try[x].spoiled) =>
          \A o \in try[x].mine :
              \/ Left(x, o)
              \/ IF o[1] \in Covered(try[x].read, try[x].error) THEN rows[o[1]][o[2]] = "error"
                 ELSE rows[o[1]][o[2]] \in {"none", "not_applicable"}]_vars

\* However far the loop has backed off, and whichever checker wrote last from an
\* older observation, the results settle on what there is to observe, without the
\* errors of earlier attempts and the results of services checked elsewhere.
Settled == \A s \in Services :
    /\ inventory[s] = "here" =>
           rows[s] = [NoRows EXCEPT ![Slot] = IF api = "up" THEN Verdict ELSE "error"]
    /\ inventory[s] = "other" /\ api = "up" /\ kind \in {"docker", "routes"} => rows[s] = NoRows

\* The results of a running process settle.
Settles == <>[](live => Settled)

-----------------------------------------------------------------------------
(* The inductive invariant of the safety properties *)

Places   == {"here", "other", "gone"}
Attempts == [pc : {"idle", "sync", "prune", "check", "fail"}, read : [Services -> Places],
             known : [Services -> Places], old : SUBSET (Services \X {"target", "route"}),
             todo : SUBSET Services, seen : [Services -> Result],
             mine : SUBSET (Services \X {"target", "route"}), late : BOOLEAN,
             error : {"none", "error", "deadline"}, spoiled : BOOLEAN]

\* Every attempt has all of its fields.
TypeInv == TypeOK /\ try \in [Checkers -> Attempts]

\* What a checker may have said of a service that it does not check.
Modest(o) == rows[o[1]][o[2]] \in {"none", "not_applicable"}

\* Before an attempt fails, what it checks is what it read, but for hosts, and it said
\* nothing much of services it does not check.  Of one that fails and has lost no
\* write so far: what it was the last to write says so, unless it is yet to be
\* marked, not covered, or Left.
MarkedInv ==
    \A x \in Checkers :
        /\ try[x].pc = "sync" => kind = "ping" /\ try[x].mine = {}
        /\ try[x].pc \in {"prune", "check"} =>
               /\ kind # "ping" => try[x].known = try[x].read
               /\ \A o \in try[x].mine :
                      o[2] = "route" \/ try[x].known[o[1]] = "here" \/ Modest(o)
        /\ try[x].pc = "fail" => try[x].todo \subseteq Covered(try[x].read, try[x].error)
        /\ (try[x].pc = "fail" /\ ~try[x].spoiled) =>
               \A o \in try[x].mine :
                   \/ Left(x, o) \/ o[1] \in try[x].todo
                   \/ IF o[1] \in Covered(try[x].read, try[x].error)
                      THEN rows[o[1]][o[2]] = "error" ELSE Modest(o)
=============================================================================
