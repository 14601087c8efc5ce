----------------------------- MODULE RouteMoves -----------------------------
(***************************************************************************)
(* Alerts of a service whose route is replaced                             *)
(* (internal/storage/route_targets.go), with the producers and workers of  *)
(* internal/storage/alerts.go that use the same rows meanwhile.            *)
(*                                                                         *)
(* A successful scan may prove that a route of a service has become        *)
(* another one.  The alerts that are still open or have failed then take   *)
(* the new route, which is part of their dedupe key, so that two alerts    *)
(* may turn out to be the same.  What cannot be done at once, for a worker *)
(* holds a dispatch or the alert state is locked, is kept as an edge from  *)
(* the old target to the new one, for the next successful scan.            *)
(*                                                                         *)
(* One service and one route monitor; a target is a number, for edges are  *)
(* replayed in the order of their targets.                                 *)
(***************************************************************************)
EXTENDS Naturals, Sequences, SequencesExt, FiniteSets, FiniteSetsExt

CONSTANTS
    NumTargets,     \* routes the service may have
    Kinds,          \* what else the dedupe keys of its alerts are made of
    Sinks,          \* configured sinks
    MaxEvents,      \* bound: rows of alert_events
    MaxMoves,       \* bound: replacements
    MaxLocks        \* bound: times the alert state is found locked

ASSUME RouteAssumption == /\ NumTargets \in Nat \ {0}
                          /\ IsFiniteSet(Sinks)
                          /\ MaxEvents \in Nat /\ MaxMoves \in Nat /\ MaxLocks \in Nat

Targets == 1..NumTargets

VARIABLES
    current,        \* the route of the service, as the last successful scan has it
    events,         \* alert_events, by id
    disp,           \* alert_dispatches, by id
    edges,          \* deferred_alert_route_reconciliations
    locked,         \* the alert state of this process is locked
    moves,          \* replacements so far
    locks           \* times it was locked

vars == <<current, events, disp, edges, locked, moves, locks>>

-----------------------------------------------------------------------------
(* Rows *)

Event(target, kind, status)   == [target |-> target, kind |-> kind, status |-> status]
Dispatch(event, sink, status) == [event |-> event, sink |-> sink, status |-> status]

ActiveStatuses == {"pending", "in_flight"}
ClosedStatuses == {"delivered", "skipped"}
Mutable(event) == event.status \in {"pending", "failed"}

RowsOf(ds, e)       == {d \in DOMAIN ds : ds[d].event = e}
ActiveRowsOf(ds, e) == {d \in RowsOf(ds, e) : ds[d].status \in ActiveStatuses}

\* syncAlertEventStatus
SyncStatus(ds, e) ==
    LET has(S) == \E d \in RowsOf(ds, e) : ds[d].status \in S
    IN  IF has(ActiveStatuses) THEN "pending"
        ELSE IF has(ClosedStatuses) THEN (IF has({"dead_lettered"}) THEN "partial" ELSE "delivered")
        ELSE IF has({"reset"}) /\ ~has({"dead_lettered"}) THEN "reset"
        ELSE "failed"

-----------------------------------------------------------------------------
(* Two pending alerts become one.  A state to fold over is made of the      *)
(* tables and of whether an alert has moved.                                *)

State(ev, ds, ed, moved) == [events |-> ev, disp |-> ds, edges |-> ed, moved |-> moved]

\* alertDispatchForEventSink
HasSink(ds, e, sink)    == \E d \in RowsOf(ds, e) : ds[d].sink = sink
ClosedSink(ds, e, sink) == \E d \in RowsOf(ds, e) : ds[d].sink = sink /\ ds[d].status \in ClosedStatuses

\* Mutant: the row of the duplicate is given up whatever its state is.
ObstacleNone(ds, keeper, d) == FALSE

\* A row of the duplicate that can be neither moved to the keeper nor closed.
Obstacle(ds, keeper, d) ==
    /\ HasSink(ds, keeper, ds[d].sink)
    /\ ~(ds[d].status = "pending" /\ ClosedSink(ds, keeper, ds[d].sink))

\* mergeRouteAlertCollisionDispatches: a claimed row whose sink the keeper has stops
\* the merge before it begins, another obstacle where the merge meets it, in the
\* order of the rows.
Handled(ds, keeper, dup) ==
    LET rows      == ActiveRowsOf(ds, dup)
        obstacles == {d \in rows : Obstacle(ds, keeper, d)}
    IN  IF \E d \in obstacles : ds[d].status = "in_flight" THEN {}
        ELSE {d \in rows : \A o \in obstacles : d < o}

MergedRow(ds, keeper, d) ==
    IF HasSink(ds, keeper, ds[d].sink) THEN Dispatch(ds[d].event, ds[d].sink, "reset")
    ELSE Dispatch(keeper, ds[d].sink, ds[d].status)

Merged(ds, keeper, dup) ==
    [d \in DOMAIN ds |-> IF d \in Handled(ds, keeper, dup) THEN MergedRow(ds, keeper, d) ELSE ds[d]]

\* What must wait for the workers.
Deferred(ds, keeper, dup) == \E d \in ActiveRowsOf(ds, dup) : Obstacle(ds, keeper, d)

-----------------------------------------------------------------------------
(* Moving alerts from one target to another *)

Retarget(ev, e, target) == [ev EXCEPT ![e] = Event(target, ev[e].kind, ev[e].status)]
WithStatus(ev, e, status) == [ev EXCEPT ![e] = Event(ev[e].target, ev[e].kind, status)]

\* Pending alerts that already have the key which alert e takes on target.
Colliding(ev, e, target) ==
    {f \in DOMAIN ev \ {e} : /\ ev[f].target = target
                             /\ ev[f].kind = ev[e].kind
                             /\ ev[f].status = "pending"}

\* Mutant: the duplicate stays open.
MoveOneKeepsOpen(st, e, old, new) ==
    LET colliding == IF st.events[e].status = "pending" THEN Colliding(st.events, e, new) ELSE {}
        dup       == Min(colliding)
    IN  IF colliding = {} THEN State(Retarget(st.events, e, new), st.disp, st.edges, TRUE)
        ELSE IF Deferred(st.disp, e, dup)
             THEN State(st.events, st.disp, st.edges \cup {<<old, new>>}, st.moved)
             ELSE State(Retarget(st.events, e, new), Merged(st.disp, e, dup), st.edges, TRUE)

\* One alert of migrateAlertRouteIdentity, with reconcilePendingAlertRouteCollision.
MoveOne(st, e, old, new) ==
    IF st.events[e].status # "pending" \/ Colliding(st.events, e, new) = {}
    THEN State(Retarget(st.events, e, new), st.disp, st.edges, TRUE)
    ELSE LET dup == Min(Colliding(st.events, e, new))
             ds  == Merged(st.disp, e, dup)
         IN  IF Deferred(st.disp, e, dup)
             THEN State(st.events, ds, st.edges \cup {<<old, new>>}, st.moved)
             ELSE State(Retarget(WithStatus(st.events, dup, "reset"), e, new), ds, st.edges, TRUE)

\* The alerts that migrateAlertRouteIdentity finds.
MutableAt(ev, target) == {e \in DOMAIN ev : ev[e].target = target /\ Mutable(ev[e])}

\* A loop of n rounds.  It has one outcome; S and what Round makes of it are the sets
\* of it, so that each round starts from the outcome of the one before.
Loop(n, S, Round(_, _)) ==
    LET after[k \in 0..n] == IF k = 0 THEN S ELSE Round(k, after[k - 1])
    IN  after[n]

\* migrateAlertRouteIdentity: the alerts that it has found before the first one moves,
\* in the order of their ids.
Migrate(st, old, new) ==
    LET Round(e, S) == IF e \in MutableAt(st.events, old)
                       THEN {MoveOne(s, e, old, new) : s \in S}
                       ELSE S
    IN  Loop(Len(st.events), {st}, Round)

-----------------------------------------------------------------------------
(* Replaying the edges *)

\* The pairs of targets in the order in which edges are queried, which is that of
\* their first targets and then of their second ones.
NumEdges == NumTargets * NumTargets
Edge(k)  == <<((k - 1) \div NumTargets) + 1, ((k - 1) % NumTargets) + 1>>

\* One pass over the edges of a queue.
Pass(st, queue) ==
    LET Round(k, S) == IF Edge(k) \in queue
                       THEN UNION {Migrate(s, Edge(k)[1], Edge(k)[2]) : s \in S}
                       ELSE S
    IN  Loop(NumEdges, {State(st.events, st.disp, st.edges, FALSE)}, Round)

\* Edges that have no alert to move are dropped.
Dropped(st) == State(st.events, st.disp,
                     {edge \in st.edges : MutableAt(st.events, edge[1]) # {}}, FALSE)

\* Mutant: one pass is enough.
ReplayOnce(st) == {Dropped(s) : s \in Pass(st, st.edges)}

\* Mutant: no pass is left to find that nothing moves.
PassesOneLess(st) ==
    LET Round(n, S) == UNION {IF s.moved THEN Pass(s, st.edges) ELSE {s} : s \in S}
    IN  Loop(Cardinality(st.edges), {State(st.events, st.disp, st.edges, TRUE)}, Round)

\* The passes over the edges: until no alert moves, or one more than there are edges.
Passes(st) ==
    LET Round(n, S) == UNION {IF s.moved THEN Pass(s, st.edges) ELSE {s} : s \in S}
    IN  Loop(Cardinality(st.edges) + 1, {State(st.events, st.disp, st.edges, TRUE)}, Round)

\* applyDeferredAlertRouteReconciliations: only when nothing moves any more is an edge
\* given up.
Replay(st) == {IF s.moved THEN s ELSE Dropped(s) : s \in Passes(st)}

-----------------------------------------------------------------------------
(* Steps *)

Now == State(events, disp, edges, FALSE)

Becomes(st) == /\ events' = st.events
               /\ disp' = st.disp
               /\ edges' = st.edges

\* A successful scan that has found no replacement.
Rescan ==
    /\ ~locked
    /\ \E st \in Replay(Now) : Becomes(st)
    /\ UNCHANGED <<current, locked, moves, locks>>

\* A successful scan that has proved that the route has become another one: with
\* the alert state locked (deferAlertRouteReconciliations), and without.
Replace(new) ==
    /\ moves < MaxMoves /\ moves' = moves + 1
    /\ new # current /\ current' = new
    /\ IF locked
       THEN edges' = edges \cup {<<current, new>>} /\ UNCHANGED <<events, disp>>
       ELSE \E st \in UNION {Migrate(s, current, new) : s \in Replay(Now)} : Becomes(st)
    /\ UNCHANGED <<locked, locks>>

\* enqueueAlertEventInTx, for an alert about the present route.
Enqueue(kind, sinks) ==
    /\ ~locked
    /\ LET same == {e \in DOMAIN events : /\ events[e].target = current
                                          /\ events[e].kind = kind
                                          /\ events[e].status = "pending"}
           rows(e) == {s \in sinks : ~HasSink(disp, e, s)}
           AddRows(e) == disp' = disp \o SetToSeq({Dispatch(e, s, "pending") : s \in rows(e)})
       IN  \/ /\ same = {}
              /\ Len(events) < MaxEvents
              /\ events' = Append(events, Event(current, kind, "pending"))
              /\ AddRows(Len(events'))
           \/ /\ \E e \in same : /\ ActiveRowsOf(disp, e) # {}
                                 /\ rows(e) # {}
                                 /\ AddRows(e)
              /\ UNCHANGED events
    /\ UNCHANGED <<current, edges, locked, moves, locks>>

Claim(d) ==
    /\ ~locked
    /\ disp[d].status = "pending"
    /\ disp' = [disp EXCEPT ![d] = Dispatch(disp[d].event, disp[d].sink, "in_flight")]
    /\ UNCHANGED <<current, events, edges, locked, moves, locks>>

\* RecordAlertDispatchResult, or the end of the last lease: the alert that the row
\* belongs to by now gets its status from its rows.
Complete(d, status) ==
    /\ ~locked
    /\ disp[d].status = "in_flight"
    /\ disp' = [disp EXCEPT ![d] = Dispatch(disp[d].event, disp[d].sink, status)]
    /\ events' = WithStatus(events, disp[d].event, SyncStatus(disp', disp[d].event))
    /\ UNCHANGED <<current, edges, locked, moves, locks>>

\* A safety check of the alert state fails, or has been repaired and the process
\* was started again.
Lock   == /\ ~locked /\ locked' = TRUE
          /\ locks < MaxLocks /\ locks' = locks + 1
          /\ UNCHANGED <<current, events, disp, edges, moves>>
Unlock == /\ locked /\ locked' = FALSE
          /\ UNCHANGED <<current, events, disp, edges, moves, locks>>

Init ==
    /\ current = 1
    /\ events = <<>> /\ disp = <<>>
    /\ edges = {}
    /\ locked = FALSE
    /\ moves = 0 /\ locks = 0

Close(d) == \E status \in {"delivered", "skipped", "dead_lettered"} : Complete(d, status)

Next ==
    \/ Rescan
    \/ \E new \in Targets : Replace(new)
    \/ \E kind \in Kinds, sinks \in (SUBSET Sinks) \ {{}} : Enqueue(kind, sinks)
    \/ \E d \in DOMAIN disp : Claim(d) \/ Close(d) \/ Complete(d, "pending")
    \/ Lock \/ Unlock

Spec == Init /\ [][Next]_vars

-----------------------------------------------------------------------------
(* Properties *)

EventStatuses    == {"pending", "failed", "partial", "delivered", "reset"}
DispatchStatuses == ActiveStatuses \cup ClosedStatuses \cup {"dead_lettered", "reset"}

EventRows    == [target : Targets, kind : Kinds, status : EventStatuses]
DispatchRows == [event : 1..MaxEvents, sink : Sinks, status : DispatchStatuses]

EventTables    == Seq(EventRows)
DispatchTables == Seq(DispatchRows)

\* The type of the state: an alert stands at a route that there is, its dispatches at
\* sinks of the configuration.
TypeOK ==
    /\ current \in Targets
    /\ events \in EventTables
    /\ disp \in DispatchTables
    /\ edges \subseteq Targets \X Targets
    /\ locked \in BOOLEAN
    /\ moves \in 0..MaxMoves /\ locks \in 0..MaxLocks

PendingUnique(ev) ==
    \A e, f \in DOMAIN ev : ev[e].status = "pending" /\ ev[e] = ev[f] => e = f

OneRowPerSink(ds) ==
    \A c, d \in DOMAIN ds : ds[c].event = ds[d].event /\ ds[c].sink = ds[d].sink => c = d

PendingHasWork(ev, ds) ==
    \A e \in DOMAIN ev : ev[e].status = "pending" <=> ActiveRowsOf(ds, e) # {}

Sound(ev, ds) == PendingUnique(ev) /\ OneRowPerSink(ds) /\ PendingHasWork(ev, ds)

\* After any series of moves, merges and reopened locks the outbox is one that the
\* workers could have left: no two pending alerts have the same key, which the unique
\* index would reject together with the whole scan; an alert has one dispatch for each
\* sink; and it is pending exactly while a worker can still finish a dispatch of it, so
\* that a merge neither strands a dispatch below a closed alert nor leaves an open one
\* empty.
OutboxSound == Sound(events, disp)

\* Only its worker changes what a claimed dispatch says: a merge moves it to another
\* alert at most, and no claim is ever copied or given back.
ClaimUntouched(d) ==
    (disp[d].status = "in_flight" /\ disp'[d] # disp[d]) =>
        \/ Complete(d, disp'[d].status)
        \/ disp'[d].status = "in_flight" /\ disp'[d].sink = disp[d].sink

\* A dispatch is given up only when its sink has been told of the same alert.
NotDropped(d) ==
    (disp[d].status # "reset" /\ disp'[d].status = "reset") =>
        \E c \in DOMAIN disp :
            /\ disp[c].sink = disp[d].sink /\ disp[c].status \in ClosedStatuses
            /\ events[disp[c].event].kind = events[disp[d].event].kind

\* What moves and merges do to dispatches: a claim is left to its worker, and what is
\* given up has been delivered.
DispatchesKept == [][\A d \in DOMAIN disp : ClaimUntouched(d) /\ NotDropped(d)]_vars

\* When the passes have come to their end, an alert that is left at the beginning of
\* an edge is one that meets another pending alert at the end of it: none has been
\* forgotten because its edge came too early in a pass.  (An alert may stay although
\* its obstacle has gone: a merge that is put off moves the dispatches before its own
\* obstacle, which may be what another alert waits for, and no pass follows, because no
\* alert has moved.)
Waits(st, e, new) == st.events[e].status = "pending" /\ Colliding(st.events, e, new) # {}
AllWait(st, queue) ==
    \A edge \in queue : \A e \in MutableAt(st.events, edge[1]) : Waits(st, e, edge[2])
ReplayArrives == \A st \in Replay(Now) : st.moved \/ AllWait(st, edges)

\* Any two pending alerts of a kind could become one at once, if they met.
Unhindered(ev, ds) ==
    \A e, f \in DOMAIN ev :
        (e # f /\ ev[e].kind = ev[f].kind /\ ev[e].status = "pending" /\ ev[f].status = "pending")
            => ~Deferred(ds, e, f)

\* One pass more than there are edges is enough, in whatever order the edges are
\* replayed and however many alerts meet on their way, unless the edges go round in a
\* circle or a merge is put off.  (When merges are put off more passes may be needed:
\* what one leaves undone may let another one through a pass later.)
Acyclic(ed) == \E rank \in [Targets -> Targets] : \A edge \in ed : rank[edge[1]] < rank[edge[2]]
ReplayEnds == Acyclic(edges) /\ Unhindered(events, disp) => \A st \in Replay(Now) : ~st.moved

-----------------------------------------------------------------------------
(* The inductive invariant behind the theorems of RouteMovesProofs. *)

\* Dispatches belong to alerts that there are.
Belong(ev, ds) == Len(ev) <= MaxEvents /\ \A d \in DOMAIN ds : ds[d].event \in DOMAIN ev

\* What a worker, a producer, a move or a scan finds in the tables.
RouteInv == TypeOK /\ Belong(events, disp) /\ OutboxSound

=============================================================================
