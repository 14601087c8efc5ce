----------------------------- MODULE AgentWatch -----------------------------
(***************************************************************************)
(* How the dashboard notices that an agent fell silent or that a           *)
(* repository can no longer be scanned, and tells of it once.              *)
(*                                                                         *)
(* An agent collects, dials, sends one report and waits for one            *)
(* acknowledgement; it gives up after ten seconds, while its session may   *)
(* go on at the server.  A session checks the report, stamps it with the   *)
(* time of its receipt, and stores the agent's row, before it answers.     *)
(* The alert evaluator of each process reads the rows and the newest ended *)
(* scans at intervals, compares them with what it saw before, and enqueues *)
(* one event for an edge.  Its baselines live in memory: an enqueue that   *)
(* fails leaves them as they are, a restart loses them.                    *)
(***************************************************************************)
EXTENDS Integers, Sequences, FiniteSets, FiniteSetsExt

CONSTANTS
    Processes,  \* dashboard processes over one database, each with an evaluator
    Slots,      \* sessions that may be open at once
    Flaws,      \* what may be wrong with a report: sets of members of AllFlaws
    TTL,        \* how long a report counts: twice the target's interval
    Cooldown,   \* alerting.cooldown
    MaxTime,    \* bound on the clock
    MaxChanges, \* bound on reports sent and scans started, taken together
    MaxFaults   \* bound on failed transactions, failed reads and restarts

AllFlaws == {"binary", "schema", "semantic", "target"}

ASSUME WatchAssumption ==
    /\ TTL \in Nat \ {0} /\ Cooldown \in Nat
    /\ MaxTime \in Nat \ {0} /\ MaxChanges \in Nat /\ MaxFaults \in Nat
    /\ Flaws \subseteq SUBSET AllFlaws
    /\ Slots \cap {"ok", "failed"} = {}

VARIABLES
    now,        \* the clock, which all processes share
    turn,       \* whether the agent's ticker has fired
    agent,      \* the session the agent waits for, or how its last send ended
    session,    \* the server's sessions
    row,        \* the agent's row, NoRow before the first report
    scans,      \* the rows of the repository's scans, by id
    pc,         \* where each evaluator is: "agents" (at rest), "agent", "scans", "scan"
    snap,       \* what each evaluator read last
    base,       \* its baselines, per subject
    events,     \* the alert events stored, by id
    changes,    \* reports and scans so far
    faults      \* faults so far

agentVars == <<turn, agent, session, row>>
evalVars  == <<pc, snap, base, events>>
vars == <<now, agentVars, scans, evalVars, changes, faults>>

Subjects == {"agent", "repository"}

NoRow   == [seen |-> 0, stale |-> 0]
Free    == [stage |-> "free", flaws |-> {}, at |-> 0]
Unknown == [known |-> FALSE, seen |-> 0, key |-> 0, ok |-> FALSE]
Unset   == [established |-> FALSE, good |-> FALSE, handled |-> FALSE]

Change == changes < MaxChanges /\ changes' = changes + 1
Fault == faults < MaxFaults /\ faults' = faults + 1

-----------------------------------------------------------------------------
(* The agent *)

\* Run and sendOnce: the report is collected before the connection is opened; the
\* send succeeds, or ends with a logged failure, and the next one waits for the
\* ticker.
Send(s) ==
    /\ turn /\ agent \notin Slots /\ session[s] = Free /\ Change
    /\ \E f \in Flaws : session' = [session EXCEPT ![s] = [@ EXCEPT !.stage = "sent", !.flaws = f]]
    /\ turn' = FALSE /\ agent' = s
    /\ UNCHANGED <<now, row, scans, evalVars, faults>>

SendFails ==
    /\ turn /\ agent \notin Slots
    /\ turn' = FALSE /\ agent' = "failed"
    /\ UNCHANGED <<now, session, row, scans, evalVars, faults, changes>>

\* The read deadline passes or the connection breaks: the agent does not know
\* what became of its report, and the session may go on without it.
GiveUp ==
    /\ agent \in Slots
    /\ agent' = "failed"
    /\ UNCHANGED <<now, turn, session, row, scans, evalVars, faults, changes>>

\* One acknowledgement alone is a success, any other is a rejection.
Outcome(code) == IF code = "persisted" THEN "ok" ELSE "failed"

-----------------------------------------------------------------------------
(* The server's session: one report, one acknowledgement *)

\* The checks of handleAgentReport and ApplyAgentReport, in their order.
Verdict(f) ==
    IF "binary" \in f \/ "schema" \in f \/ "semantic" \in f THEN "invalid_report"
    ELSE IF "target" \in f THEN "unauthorized_target"
    ELSE "none"

\* The acknowledgement ends the session; an agent that has gone does not hear it.
Answer(s, code) ==
    /\ session' = [session EXCEPT ![s] = Free]
    /\ agent' = IF agent = s THEN Outcome(code) ELSE agent

Refuse(s) ==
    /\ session[s].stage = "sent" /\ Verdict(session[s].flaws) # "none"
    /\ Answer(s, Verdict(session[s].flaws))
    /\ UNCHANGED <<now, turn, row, scans, evalVars, faults, changes>>

\* ApplyAgentReport: the receipt is the server's time, whatever the agent's clock says.
Stamp(s) ==
    /\ session[s].stage = "sent" /\ Verdict(session[s].flaws) = "none"
    /\ session' = [session EXCEPT ![s] = [@ EXCEPT !.stage = "stamped", !.at = now]]
    /\ UNCHANGED <<now, turn, agent, row, scans, evalVars, faults, changes>>

\* UpsertAgentReport: the row is overwritten, whichever receipt it held.
Store(s) ==
    /\ session[s].stage = "stamped"
    /\ row' = [seen |-> session[s].at, stale |-> session[s].at + TTL]
    /\ Answer(s, "persisted")
    /\ UNCHANGED <<now, turn, scans, evalVars, faults, changes>>

StoreFails(s) ==
    /\ session[s].stage = "stamped" /\ Fault
    /\ Answer(s, "persistence_failed")
    /\ UNCHANGED <<now, turn, row, scans, evalVars, changes>>

-----------------------------------------------------------------------------
(* The repository's scans, which ScanLifecycle details *)

StartScan ==
    /\ Change
    /\ scans' = Append(scans, "running")
    /\ UNCHANGED <<now, agentVars, evalVars, faults>>

EndScan(i) ==
    /\ scans[i] = "running"
    /\ \E r \in {"ok", "error"} : scans' = [scans EXCEPT ![i] = r]
    /\ UNCHANGED <<now, agentVars, evalVars, faults, changes>>

\* LatestTerminalScansByRepository: the greatest id that has ended, 0 for none.
LatestTerminal(rows) == Max({0} \cup {i \in DOMAIN rows : rows[i] # "running"})

-----------------------------------------------------------------------------
(* Enqueueing an event *)

SameKind(e, f) == e.subject = f.subject /\ e.kind = f.kind

\* The delivered event of this kind that was closed last suppresses a new one
\* for the cooldown; one whose deliveries were all given up does not.
Suppressed(e) ==
    \E i \in DOMAIN events : /\ SameKind(events[i], e) /\ events[i].status = "delivered"
                             /\ e.at < events[i].closed + Cooldown

Duplicate(e) == \E i \in DOMAIN events : /\ SameKind(events[i], e) /\ events[i].key = e.key
                                         /\ events[i].status = "pending"

\* Mutant of Enqueue: a pending alert of the same kind and key does not count.
EnqueueNoDedupe(e) ==
    IF Suppressed(e) THEN UNCHANGED events ELSE events' = Append(events, e)

\* EnqueueAlertEvent without an error: stored, or known already, or suppressed.
Enqueue(e) ==
    IF Duplicate(e) \/ Suppressed(e) THEN UNCHANGED events ELSE events' = Append(events, e)

\* The delivery workers close an event, delivered or given up.
Close(i) ==
    /\ events[i].status = "pending"
    /\ \E r \in {"delivered", "dead"} :
           events' = [events EXCEPT ![i] = [@ EXCEPT !.status = r, !.closed = now]]
    /\ UNCHANGED <<now, agentVars, scans, pc, snap, base, faults, changes>>

-----------------------------------------------------------------------------
(* The evaluator *)

\* One sequential evaluation, agents first.  A snapshot is read before anything
\* is compared; a failed read leaves that part out of this evaluation.
ReadAgents(p) ==
    /\ pc[p] = "agents"
    /\ snap' = [snap EXCEPT ![p] = [known |-> row # NoRow, seen |-> row.seen,
                                    key |-> row.stale, ok |-> FALSE]]
    /\ pc' = [pc EXCEPT ![p] = "agent"]
    /\ UNCHANGED <<now, agentVars, scans, base, events, faults, changes>>

ReadScans(p) ==
    /\ pc[p] = "scans"
    /\ LET id == LatestTerminal(scans)
       IN snap' = [snap EXCEPT ![p] = [known |-> id # 0, seen |-> id, key |-> id,
                                       ok |-> id # 0 /\ scans[id] = "ok"]]
    /\ pc' = [pc EXCEPT ![p] = "scan"]
    /\ UNCHANGED <<now, agentVars, scans, base, events, faults, changes>>

SubjectOf(p) == IF pc[p] = "agent" THEN "agent" ELSE "repository"
After(p)     == IF pc[p] \in {"agents", "agent"} THEN "scans" ELSE "agents"

\* The read fails, or the five seconds of this evaluation are over.
ReadFails(p) ==
    /\ pc[p] \in {"agents", "scans"} /\ Fault
    /\ pc' = [pc EXCEPT ![p] = After(p)]
    /\ snap' = [snap EXCEPT ![p] = Unknown]
    /\ UNCHANGED <<now, agentVars, scans, base, events, changes>>

\* The classification uses the clock as it is when the row is compared, not when
\* it was read.
Good(p) == IF pc[p] = "agent" THEN now < snap[p].key ELSE snap[p].ok

\* The event of an edge: a failure is keyed by the moment the row expired or the
\* id of the scan, a recovery by the receipt or the id of the scan.
EventOf(p) ==
    [subject |-> SubjectOf(p), kind |-> IF Good(p) THEN "recovery" ELSE "failure",
     key |-> IF Good(p) THEN snap[p].seen ELSE snap[p].key,
     at |-> now, status |-> "pending", closed |-> 0]

IsEdge(p) ==
    LET b == base[p][SubjectOf(p)] IN snap[p].known /\ b.established /\ b.good # Good(p)

\* Mutant of IsSilent: a recovery is told of whatever came before it.
IsSilentNever(p) == FALSE

\* A recovery is told of only after a failure that this process saw to.
IsSilent(p) == Good(p) /\ ~base[p][SubjectOf(p)].handled

\* Mutant of Advance: a failure once seen to stays so.
AdvanceKeepingHandled(p) ==
    base' = [base EXCEPT ![p] = [@ EXCEPT ![SubjectOf(p)] =
                [established |-> TRUE, good |-> Good(p),
                 handled |-> @.handled \/ (IsEdge(p) /\ ~Good(p))]]]

Advance(p) ==
    base' = [base EXCEPT ![p] = [@ EXCEPT ![SubjectOf(p)] =
                [established |-> TRUE, good |-> Good(p),
                 handled |-> IsEdge(p) /\ ~Good(p)]]]

Continue(p) ==
    /\ pc' = [pc EXCEPT ![p] = After(p)]
    /\ snap' = [snap EXCEPT ![p] = Unknown]

\* Mutant of Compare: an edge that is not told of leaves the baseline behind.
CompareWaiting(p) ==
    /\ pc[p] \in {"agent", "scan"}
    /\ IsEdge(p) => IsSilent(p)
    /\ IF snap[p].known /\ ~base[p][SubjectOf(p)].established THEN Advance(p) ELSE UNCHANGED base
    /\ Continue(p)
    /\ UNCHANGED <<now, agentVars, scans, events, faults, changes>>

\* Nothing to tell: the subject is unknown, seen for the first time, unchanged, or
\* back from a failure that nobody was told of.
Compare(p) ==
    /\ pc[p] \in {"agent", "scan"}
    /\ IsEdge(p) => IsSilent(p)
    /\ IF snap[p].known /\ (IsEdge(p) \/ ~base[p][SubjectOf(p)].established)
       THEN Advance(p)
       ELSE UNCHANGED base
    /\ Continue(p)
    /\ UNCHANGED <<now, agentVars, scans, events, faults, changes>>

Tell(p) ==
    /\ pc[p] \in {"agent", "scan"} /\ IsEdge(p) /\ ~IsSilent(p)
    /\ Enqueue(EventOf(p))
    /\ Advance(p)
    /\ Continue(p)
    /\ UNCHANGED <<now, agentVars, scans, faults, changes>>

\* Mutant of TellFails: the baseline moves on although nothing was enqueued.
TellFailsAdvancing(p) ==
    /\ pc[p] \in {"agent", "scan"} /\ IsEdge(p) /\ ~IsSilent(p)
    /\ Fault
    /\ UNCHANGED events \/ Enqueue(EventOf(p))
    /\ Advance(p)
    /\ Continue(p)
    /\ UNCHANGED <<now, agentVars, scans, changes>>

\* The enqueue fails, or its commit is lost on the way back: the baseline stays,
\* so that the next evaluation sees the edge again.
TellFails(p) ==
    /\ pc[p] \in {"agent", "scan"} /\ IsEdge(p) /\ ~IsSilent(p)
    /\ Fault
    /\ UNCHANGED events \/ Enqueue(EventOf(p))
    /\ Continue(p)
    /\ UNCHANGED <<now, agentVars, scans, base, changes>>

\* A process is replaced: its baselines are gone, and so are the sessions it held.
Restart(p) ==
    /\ Fault
    /\ pc' = [pc EXCEPT ![p] = "agents"]
    /\ snap' = [snap EXCEPT ![p] = Unknown]
    /\ base' = [base EXCEPT ![p] = [s \in Subjects |-> Unset]]
    /\ \E held \in SUBSET {s \in Slots : session[s] # Free} :
           session' = [s \in Slots |-> IF s \in held THEN Free ELSE session[s]]
    /\ UNCHANGED <<now, turn, agent, row, scans, events, changes>>

-----------------------------------------------------------------------------
\* A second passes, and the agent's ticker may fire.
Tick ==
    /\ now < MaxTime /\ now' = now + 1
    /\ turn' \in {turn, TRUE}
    /\ UNCHANGED <<agent, session, row, scans, evalVars, faults, changes>>

Init ==
    /\ now = 1 /\ turn = TRUE /\ agent = "failed"
    /\ session = [s \in Slots |-> Free]
    /\ row = NoRow /\ scans = <<>>
    /\ pc = [p \in Processes |-> "agents"]
    /\ snap = [p \in Processes |-> Unknown]
    /\ base = [p \in Processes |-> [s \in Subjects |-> Unset]]
    /\ events = <<>> /\ changes = 0 /\ faults = 0

Evaluate(p) == ReadAgents(p) \/ ReadScans(p) \/ Compare(p) \/ Tell(p)

Next ==
    \/ Tick
    \/ SendFails \/ GiveUp
    \/ \E s \in Slots : Send(s) \/ Refuse(s) \/ Stamp(s) \/ Store(s) \/ StoreFails(s)
    \/ StartScan \/ \E i \in DOMAIN scans : EndScan(i)
    \/ \E i \in DOMAIN events : Close(i)
    \/ \E p \in Processes : Evaluate(p) \/ ReadFails(p) \/ TellFails(p) \/ Restart(p)

Spec == Init /\ [][Next]_vars

\* The evaluators run at intervals for ever, and what they call returns: their
\* context ends after five seconds.
FairSpec == Spec /\ WF_vars(Tick) /\ \A p \in Processes : WF_vars(Evaluate(p))

-----------------------------------------------------------------------------
(* Properties *)

Times == 0..MaxTime

\* The type of the state of the agents, the evaluators and the outbox they feed.
TypeOK ==
    /\ now \in Times /\ turn \in BOOLEAN
    /\ agent \in Slots \cup {"ok", "failed"}
    /\ session \in [Slots -> [stage : {"free", "sent", "stamped"}, flaws : Flaws \cup {{}}, at : Times]]
    /\ row = NoRow \/ (row.seen \in Times /\ row.stale = row.seen + TTL)
    /\ scans \in Seq({"running", "ok", "error"})
    /\ pc \in [Processes -> {"agents", "agent", "scans", "scan"}]
    /\ \A p \in Processes : snap[p] # Unknown => pc[p] \in {"agent", "scan"}
    /\ base \in [Processes -> [Subjects -> [established : BOOLEAN, good : BOOLEAN, handled : BOOLEAN]]]
    /\ \A p \in Processes, s \in Subjects : base[p][s].handled => ~base[p][s].good
    /\ \A i \in DOMAIN events : events[i].subject \in Subjects /\ events[i].at \in Times
    /\ changes \in 0..MaxChanges /\ faults \in 0..MaxFaults

\* A baseline that turns bad has told of it: the store holds a failure of this
\* subject that is waiting for its deliveries, or one that was delivered so
\* recently that the cooldown suppresses another.  An enqueue that failed must be
\* repeated, and one whose commit got lost on the way back must not be forgotten.
Announced(s) == \E i \in DOMAIN events' : /\ events'[i].subject = s /\ events'[i].kind = "failure"
                                          /\ \/ events'[i].status = "pending"
                                             \/ events'[i].status = "delivered" /\ now < events'[i].closed + Cooldown
EdgesAnnounced ==
    [][\A p \in Processes, s \in Subjects :
          (base[p][s].established /\ base[p][s].good /\ base'[p][s].established /\ ~base'[p][s].good)
             => Announced(s)]_vars

\* Nobody is told of a recovery without having been told of the failure it ends:
\* an older event says that the agent had expired before this receipt expires, or
\* that an earlier scan failed.  Two processes, restarts, late sessions and scans
\* that end out of order do not turn this around.
Older(f, e) == IF e.subject = "agent" THEN f.key <= e.key + TTL ELSE f.key < e.key
RecoveriesAnswerFailures ==
    \A j \in DOMAIN events : events[j].kind = "recovery" =>
        \E i \in 1..(j - 1) : /\ events[i].subject = events[j].subject /\ events[i].kind = "failure"
                              /\ Older(events[i], events[j])

\* One occurrence is told of once, whichever process saw it and however often an
\* enqueue was repeated: again only after all its deliveries were given up, or the
\* cooldown since they succeeded has passed.
ToldOnce ==
    \A i, j \in DOMAIN events :
        (i < j /\ SameKind(events[i], events[j]) /\ events[i].key = events[j].key) =>
            \/ events[i].status = "dead"
            \/ events[i].status = "delivered" /\ events[j].at >= events[i].closed + Cooldown

\* Once nothing changes any more, every evaluator has taken in what is stored.
Classified(s) == IF s = "agent" THEN row # NoRow ELSE LatestTerminal(scans) # 0
IsGood(s)     == IF s = "agent" THEN now < row.stale ELSE scans[LatestTerminal(scans)] = "ok"
BaselinesSettle ==
    <>[](\A p \in Processes, s \in Subjects :
            Classified(s) => base[p][s].established /\ base[p][s].good = IsGood(s))

-----------------------------------------------------------------------------
(* The inductive invariant of the safety properties *)

Snapshots == [known : BOOLEAN, seen : Nat, key : Nat, ok : BOOLEAN]
Events == [subject : Subjects, kind : {"failure", "recovery"}, key : Nat,
           at : Times, status : {"pending", "delivered", "dead"}, closed : Times]

TypeInv ==
    /\ TypeOK
    /\ row \in [seen : Times, stale : Nat]
    /\ snap \in [Processes -> Snapshots]
    /\ events \in Seq(Events)

\* What is compared is what was stored: a receipt and its expiry, or an ended scan.
SnapInv ==
    \A p \in Processes : snap[p].known =>
        /\ pc[p] = "agent" => snap[p].key = snap[p].seen + TTL
        /\ pc[p] = "scan" => /\ snap[p].seen \in DOMAIN scans /\ snap[p].key = snap[p].seen
                             /\ scans[snap[p].seen] = IF snap[p].ok THEN "ok" ELSE "error"

IsFailure(i, s) == events[i].subject = s /\ events[i].kind = "failure"

\* A failure that was told of has happened: the row had expired, the scan has failed.
FailuresInv ==
    \A i \in DOMAIN events :
        /\ events[i].at <= now
        /\ IsFailure(i, "agent") => events[i].key <= events[i].at
        /\ IsFailure(i, "repository") => events[i].key \in DOMAIN scans /\ scans[events[i].key] = "error"

\* A process that saw to a failure finds one stored, from before the good scan that
\* it has read since.
HandledInv ==
    \A p \in Processes :
        /\ \A s \in Subjects : base[p][s].handled => \E i \in DOMAIN events : IsFailure(i, s)
        /\ pc[p] = "scan" /\ snap[p].known /\ snap[p].ok /\ base[p]["repository"].handled =>
               \E i \in DOMAIN events : IsFailure(i, "repository") /\ events[i].key < snap[p].seen

WatchInv == TypeInv /\ SnapInv /\ FailuresInv /\ HandledInv /\ RecoveriesAnswerFailures /\ ToldOnce
=============================================================================
