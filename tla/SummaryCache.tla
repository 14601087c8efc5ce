---------------------------- MODULE SummaryCache ----------------------------
(***************************************************************************)
(* The dashboard summary and its cache (internal/storage/summary_cache.go, *)
(* Summary and buildSummary of internal/storage/services.go, and the       *)
(* GET /api/summary handler of internal/app/app.go).                       *)
(*                                                                         *)
(* A summary is built by one query per table, with no transaction around   *)
(* them; writers commit at any time and invalidate the cache afterwards.   *)
(* What a table holds is abstracted to the number of the commit that wrote *)
(* it last, and a summary to the numbers its queries met.  Time is not     *)
(* counted: a status may expire, and the cached copy reach its maximal     *)
(* age, at any moment.                                                     *)
(***************************************************************************)
EXTENDS Naturals

CONSTANTS
    NumParts,      \* tables that buildSummary queries, in this order
    StatusPart,    \* the one of them that StatusResults reads
    Readers,       \* concurrent requests for the summary
    Writers,       \* concurrent writing calls on this process's Store
    WriteSets,     \* sets of tables that one transaction writes
    NumCommits     \* bound: transactions committed

ASSUME PartAssumption   == NumParts \in Nat \ {0} /\ StatusPart \in 1..NumParts
ASSUME CommitAssumption == NumCommits \in Nat

AgentsTable == 0                \* read by the handler, not by buildSummary
Parts       == 1..NumParts
Tables      == Parts \cup {AgentsTable}
Revisions   == 0..NumCommits

\* UpsertAgentReport writes agents and the service rows derived from the report.
ASSUME WriteAssumption ==
    \A T \in WriteSets : T \subseteq Tables /\ (AgentsTable \in T => StatusPart \in T)

VARIABLES
    tables,     \* for each table the last commit that wrote it
    commits,    \* commits so far
    expired,    \* commits whose status results have passed their ExpiresAt
    version,    \* Store.summaryVersion
    cache,      \* Store.summaryCache
    aged,       \* summaryCacheTTL has passed since cachedAt
    pc,         \* where each request is
    asOf,       \* the version it read before it began to build
    next,       \* the part it queries next
    seen,       \* what its queries met, table by table
    live,       \* whether it shows the status results as live
    pending,    \* tables each writer has committed and not yet invalidated
    done,       \* history: writes whose calls have returned, table by table
    floor,      \* history: done when the request began
    dead        \* history: expired when the request began

vars == <<tables, commits, expired, version, cache, aged, pc, asOf, next, seen, live,
          pending, done, floor, dead>>

reader == <<pc, asOf, next, seen, live, floor, dead>>
store  == <<tables, commits, pending, done>>

-----------------------------------------------------------------------------

Nothing == [t \in Tables |-> 0]

\* summaryCache holds the five parts; agents are never cached.
Cached(v, parts, alive) == [valid |-> TRUE, version |-> v, seen |-> parts, live |-> alive]
NoCache == [valid |-> FALSE, version |-> 0, seen |-> Nothing, live |-> FALSE]

Larger(m, n) == IF m < n THEN n ELSE m

\* Mutants of Usable: the age of the copy, the expiry of its statuses ignored.
UsableAtAnyAge == /\ cache.valid
                  /\ cache.version = version
                  /\ ~(cache.live /\ cache.seen[StatusPart] \in expired)
UsableExpired  == cache.valid /\ cache.version = version /\ ~aged

\* cachedSummary answers from the cache.  A status that was already stale when
\* the copy was built has no expiry any more.
Usable == /\ cache.valid
          /\ cache.version = version
          /\ ~aged
          /\ ~(cache.live /\ cache.seen[StatusPart] \in expired)

-----------------------------------------------------------------------------
(* Requests *)

Begin(r) ==
    /\ pc[r] \in {"idle", "responded"}
    /\ floor' = [floor EXCEPT ![r] = done]
    /\ dead' = [dead EXCEPT ![r] = expired]

\* Summary: cachedSummary hits.
Hit(r) ==
    /\ Begin(r)
    /\ Usable
    /\ pc' = [pc EXCEPT ![r] = "merging"]
    /\ seen' = [seen EXCEPT ![r] = cache.seen]
    /\ live' = [live EXCEPT ![r] = cache.live]
    /\ UNCHANGED <<store, expired, version, cache, aged, asOf, next>>

\* Summary: cachedSummary misses.
Miss(r) ==
    /\ Begin(r)
    /\ ~Usable
    /\ pc' = [pc EXCEPT ![r] = "missed"]
    /\ seen' = [seen EXCEPT ![r] = Nothing]
    /\ live' = [live EXCEPT ![r] = FALSE]
    /\ UNCHANGED <<store, expired, version, cache, aged, asOf, next>>

\* Summary: currentSummaryVersion.
ReadVersion(r) ==
    /\ pc[r] = "missed"
    /\ pc' = [pc EXCEPT ![r] = "reading"]
    /\ asOf' = [asOf EXCEPT ![r] = version]
    /\ next' = [next EXCEPT ![r] = 1]
    /\ UNCHANGED <<store, expired, version, cache, aged, seen, live, floor, dead>>

\* buildSummary: one query.  StatusResults shows expired statuses as stale.
Query(r) ==
    /\ pc[r] = "reading"
    /\ next[r] \in Parts
    /\ seen' = [seen EXCEPT ![r] = [@ EXCEPT ![next[r]] = tables[next[r]]]]
    /\ live' = IF next[r] = StatusPart
               THEN [live EXCEPT ![r] = tables[StatusPart] \notin expired]
               ELSE live
    /\ next' = [next EXCEPT ![r] = @ + 1]
    /\ UNCHANGED <<store, expired, version, cache, aged, pc, asOf, floor, dead>>

\* Mutant of Fill: the version is not compared before the copy is kept.
FillAnyVersion(r) ==
    /\ pc[r] = "reading"
    /\ next[r] = NumParts + 1
    /\ cache' = Cached(version, seen[r], live[r])
    /\ aged' = FALSE
    /\ pc' = [pc EXCEPT ![r] = "merging"]
    /\ asOf' = [asOf EXCEPT ![r] = 0]
    /\ next' = [next EXCEPT ![r] = 1]
    /\ UNCHANGED <<store, expired, version, seen, live, floor, dead>>

\* cacheSummary: kept only if nothing was invalidated since ReadVersion.
Fill(r) ==
    /\ pc[r] = "reading"
    /\ next[r] = NumParts + 1
    /\ IF asOf[r] = version
       THEN /\ cache' = Cached(version, seen[r], live[r])
            /\ aged' = FALSE
       ELSE UNCHANGED <<cache, aged>>
    /\ pc' = [pc EXCEPT ![r] = "merging"]
    /\ asOf' = [asOf EXCEPT ![r] = 0]
    /\ next' = [next EXCEPT ![r] = 1]
    /\ UNCHANGED <<store, expired, version, seen, live, floor, dead>>

\* The handler adds the agents and answers.
Respond(r) ==
    /\ pc[r] = "merging"
    /\ seen' = [seen EXCEPT ![r] = [@ EXCEPT ![AgentsTable] = tables[AgentsTable]]]
    /\ pc' = [pc EXCEPT ![r] = "responded"]
    /\ UNCHANGED <<store, expired, version, cache, aged, asOf, next, live, floor, dead>>

\* A query fails, or the client goes away: the request ends without an answer.
Fail(r) ==
    /\ pc[r] \in {"reading", "merging"}
    /\ pc' = [pc EXCEPT ![r] = "idle"]
    /\ asOf' = [asOf EXCEPT ![r] = 0]
    /\ next' = [next EXCEPT ![r] = 1]
    /\ seen' = [seen EXCEPT ![r] = Nothing]
    /\ live' = [live EXCEPT ![r] = FALSE]
    /\ floor' = [floor EXCEPT ![r] = Nothing]
    /\ dead' = [dead EXCEPT ![r] = {}]
    /\ UNCHANGED <<store, expired, version, cache, aged>>

-----------------------------------------------------------------------------
(* Writers *)

Written(T) == [t \in Tables |-> IF t \in T THEN commits + 1 ELSE tables[t]]

\* A transaction of this process commits.  EnsureRepositories commits several
\* before it invalidates.
Commit(w, T) ==
    /\ commits < NumCommits
    /\ commits' = commits + 1
    /\ tables' = Written(T)
    /\ pending' = [pending EXCEPT ![w] =
                      [t \in Tables |-> IF t \in T THEN commits + 1 ELSE @[t]]]
    /\ UNCHANGED <<expired, version, cache, aged, reader, done>>

\* Mutant of Invalidate: the cache is dropped, the version stays.
InvalidateCacheOnly(w) ==
    /\ pending[w] # Nothing
    /\ cache' = NoCache
    /\ done' = [t \in Tables |-> Larger(done[t], pending[w][t])]
    /\ pending' = [pending EXCEPT ![w] = Nothing]
    /\ UNCHANGED <<tables, commits, expired, version, aged, reader>>

\* invalidateSummary, and the writing call returns.
Invalidate(w) ==
    /\ pending[w] # Nothing
    /\ version' = version + 1
    /\ cache' = NoCache
    /\ done' = [t \in Tables |-> Larger(done[t], pending[w][t])]
    /\ pending' = [pending EXCEPT ![w] = Nothing]
    /\ UNCHANGED <<tables, commits, expired, aged, reader>>

\* EnsureRepositories returns an error after some of its statements.
GiveUp(w) ==
    /\ pending[w] # Nothing
    /\ pending' = [pending EXCEPT ![w] = Nothing]
    /\ UNCHANGED <<tables, commits, expired, version, cache, aged, reader, done>>

\* Another process commits to the same database: nothing is invalidated here.
CommitElsewhere(T) ==
    /\ commits < NumCommits
    /\ commits' = commits + 1
    /\ tables' = Written(T)
    /\ UNCHANGED <<expired, version, cache, aged, reader, pending, done>>

-----------------------------------------------------------------------------
(* Time *)

\* The ExpiresAt of the status results written by commit c is reached.
Expire(c) ==
    /\ c \in {tables[StatusPart], cache.seen[StatusPart]} \ expired
    /\ expired' = expired \cup {c}
    /\ UNCHANGED <<store, version, cache, aged, reader>>

\* The cached copy reaches summaryCacheTTL.
AgeOut ==
    /\ cache.valid /\ ~aged
    /\ aged' = TRUE
    /\ UNCHANGED <<store, expired, version, cache, reader>>

-----------------------------------------------------------------------------

Init ==
    /\ tables = Nothing
    /\ commits = 0
    /\ expired = {}
    /\ version = 0
    /\ cache = NoCache
    /\ aged = FALSE
    /\ pc = [r \in Readers |-> "idle"]
    /\ asOf = [r \in Readers |-> 0]
    /\ next = [r \in Readers |-> 1]
    /\ seen = [r \in Readers |-> Nothing]
    /\ live = [r \in Readers |-> FALSE]
    /\ pending = [w \in Writers |-> Nothing]
    /\ done = Nothing
    /\ floor = [r \in Readers |-> Nothing]
    /\ dead = [r \in Readers |-> {}]

Build(r) == ReadVersion(r) \/ Query(r) \/ Fill(r)

Next ==
    \/ \E r \in Readers : Hit(r) \/ Miss(r) \/ Build(r) \/ Respond(r) \/ Fail(r)
    \/ \E w \in Writers : (\E T \in WriteSets : Commit(w, T)) \/ Invalidate(w) \/ GiveUp(w)
    \/ \E T \in WriteSets : CommitElsewhere(T)
    \/ \E c \in Revisions : Expire(c)
    \/ AgeOut

Spec == Init /\ [][Next]_vars

\* A request that has begun runs on, and the cached copy grows older.
FairSpec == Spec /\ (\A r \in Readers : WF_vars(Build(r) \/ Respond(r))) /\ WF_vars(AgeOut)

-----------------------------------------------------------------------------
(* Properties *)

TypeOK ==
    /\ tables \in [Tables -> Nat]
    /\ commits \in Nat
    /\ expired \subseteq Nat
    /\ version \in Nat
    /\ cache \in [valid : BOOLEAN, version : Nat, seen : [Tables -> Nat], live : BOOLEAN]
    /\ aged \in BOOLEAN
    /\ pc \in [Readers -> {"idle", "missed", "reading", "merging", "responded"}]
    /\ asOf \in [Readers -> Nat]
    /\ next \in [Readers -> 1..(NumParts + 1)]
    /\ seen \in [Readers -> [Tables -> Nat]]
    /\ live \in [Readers -> BOOLEAN]
    /\ pending \in [Writers -> [Tables -> Nat]]
    /\ done \in [Tables -> Nat]
    /\ floor \in [Readers -> [Tables -> Nat]]
    /\ dead \in [Readers -> SUBSET Nat]

\* Read your writes: a summary shows, in every table, at least the writes whose
\* calls on this process had returned when the request came in, though builds,
\* commits and invalidations interleave at will.
ReadsReturnedWrites ==
    \A r \in Readers : pc[r] = "responded" =>
        \A t \in Tables : floor[r][t] <= seen[r][t]

\* A health that had expired when the request came in is not shown as current,
\* whether the summary was built or taken from the cache.
ExpiredIsNotLive ==
    \A r \in Readers : pc[r] = "responded" /\ live[r] => seen[r][StatusPart] \notin dead[r]

\* The copy that may be handed out is as new as every write that has returned; a
\* part of it may be older than its table only by a commit still unreported, one
\* given up, or one made elsewhere.
CacheIsCurrent == Usable => \A t \in Parts : done[t] <= cache.seen[t]

\* "[...] so a summary cannot expose fresh agent state with old tiles" (comment on
\* UpsertAgentReport): whoever sees a report's agent row sees its service rows.
AgentsNotAhead ==
    \A r \in Readers : pc[r] = "responded" => seen[r][AgentsTable] <= seen[r][StatusPart]

\* Every commit, also another process's, ends up in the copy handed out, and stays.
CommitsSurface ==
    \A t \in Parts, c \in Revisions \ {0} :
        (tables[t] >= c) ~> [](Usable => cache.seen[t] >= c)

-----------------------------------------------------------------------------
(* Inductive strengthening, used by SummaryCacheProofs *)

\* Nothing that returned, or was committed, is missing from the tables.
TablesInv ==
    /\ \A t \in Tables : done[t] <= tables[t] /\ tables[t] <= commits
    /\ \A w \in Writers, t \in Tables : pending[w][t] <= tables[t]

\* Nothing that returned is missing from a copy of the current version.
CopyInv ==
    cache.valid /\ cache.version = version => \A t \in Parts : done[t] <= cache.seen[t]

\* What request r has read is as new as what had returned when it came in and, as
\* long as nothing was invalidated since, as what has returned by now.
RequestInv(r) ==
    /\ asOf[r] <= version
    /\ \A t \in Tables : floor[r][t] <= done[t]
    /\ dead[r] \subseteq expired
    /\ pc[r] = "missed" => ~live[r]
    /\ pc[r] = "reading" => \A t \in Parts : t < next[r] =>
          /\ floor[r][t] <= seen[r][t]
          /\ asOf[r] = version => done[t] <= seen[r][t]
    /\ pc[r] \in {"merging", "responded"} => \A t \in Parts : floor[r][t] <= seen[r][t]
    /\ pc[r] = "responded" => floor[r][AgentsTable] <= seen[r][AgentsTable]
    /\ pc[r] \in {"reading", "merging", "responded"} /\ live[r]
          => seen[r][StatusPart] \notin dead[r]

FreshInv == TypeOK /\ TablesInv /\ CopyInv /\ \A r \in Readers : RequestInv(r)
=============================================================================
