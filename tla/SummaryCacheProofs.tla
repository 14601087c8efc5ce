------------------------- MODULE SummaryCacheProofs -------------------------
(***************************************************************************)
(* Proofs about SummaryCache for every number of tables, requests, writers *)
(* and commits.                                                            *)
(***************************************************************************)
EXTENDS SummaryCache, TLAPS

-----------------------------------------------------------------------------
(* Types *)

\* A summary that has met nothing yet.
LEMMA NothingType == Nothing \in [Tables -> Nat] /\ \A t \in Tables : Nothing[t] = 0
  BY DEF Nothing

\* The parts, and the status part among them, are tables.
LEMMA PartsAreTables ==
    /\ Parts \subseteq Tables /\ StatusPart \in Parts
    /\ AgentsTable \in Tables /\ AgentsTable \notin Parts
  BY PartAssumption DEF Parts, Tables, AgentsTable

\* One step of any request, writer or clock keeps the types.
LEMMA StepTypeOK == TypeOK /\ [Next]_vars => TypeOK'
  <1> SUFFICES ASSUME TypeOK, [Next]_vars PROVE TypeOK'
    OBVIOUS
  <1> USE PartAssumption, NothingType, PartsAreTables DEF TypeOK, store, reader
  <1>1. ASSUME NEW r \in Readers, Hit(r) \/ Miss(r) PROVE TypeOK'
    <2>1. cache.seen \in [Tables -> Nat] /\ cache.live \in BOOLEAN
      OBVIOUS
    <2>2. live' \in [Readers -> BOOLEAN]
      <3>1. live' = [live EXCEPT ![r] = cache.live] \/ live' = [live EXCEPT ![r] = FALSE]
        BY <1>1 DEF Hit, Miss
      <3> QED
        BY <2>1, <3>1, Zenon
    <2>3. seen' \in [Readers -> [Tables -> Nat]]
      BY <1>1, <2>1 DEF Hit, Miss
    <2>4. dead' \in [Readers -> SUBSET Nat] /\ floor' \in [Readers -> [Tables -> Nat]]
      <3>1. floor' = [floor EXCEPT ![r] = done] /\ dead' = [dead EXCEPT ![r] = expired]
        BY <1>1 DEF Hit, Miss, Begin
      <3>2. dead' \in [Readers -> SUBSET Nat]
        BY <3>1, Zenon
      <3> QED
        BY <3>1, <3>2
    <2>5. pc' \in [Readers -> {"idle", "missed", "reading", "merging", "responded"}]
      BY <1>1 DEF Hit, Miss
    <2>6. UNCHANGED <<store, expired, version, cache, aged, asOf, next>>
      BY <1>1 DEF Hit, Miss
    <2> QED
      BY <2>2, <2>3, <2>4, <2>5, <2>6
  <1>2. ASSUME NEW r \in Readers, ReadVersion(r) PROVE TypeOK'
    BY <1>2 DEF ReadVersion
  <1>3. ASSUME NEW r \in Readers, Query(r) PROVE TypeOK'
    <2>1. next[r] \in Parts /\ next[r] + 1 \in 1..(NumParts + 1)
      BY <1>3 DEF Query, Parts
    <2>2. [seen[r] EXCEPT ![next[r]] = tables[next[r]]] \in [Tables -> Nat]
      BY <2>1
    <2>3. seen' \in [Readers -> [Tables -> Nat]]
      BY <1>3, <2>2 DEF Query
    <2>4. live' \in [Readers -> BOOLEAN]
      <3>1. live' = live \/ live' = [live EXCEPT ![r] = TRUE] \/ live' = [live EXCEPT ![r] = FALSE]
        BY <1>3 DEF Query
      <3> QED
        BY <3>1, Zenon
    <2>5. next' \in [Readers -> 1..(NumParts + 1)]
      BY <1>3, <2>1 DEF Query
    <2> QED
      BY <1>3, <2>3, <2>4, <2>5 DEF Query
  <1>4. ASSUME NEW r \in Readers, Fill(r) PROVE TypeOK'
    <2>1. 1 \in 1..(NumParts + 1) /\ seen[r] \in [Tables -> Nat] /\ live[r] \in BOOLEAN
      OBVIOUS
    <2>2. cache' \in [valid : BOOLEAN, version : Nat, seen : [Tables -> Nat], live : BOOLEAN]
      <3>1. Cached(version, seen[r], live[r]) \in
               [valid : BOOLEAN, version : Nat, seen : [Tables -> Nat], live : BOOLEAN]
        BY <2>1, Zenon DEF Cached
      <3> QED
        BY <1>4, <3>1 DEF Fill
    <2> QED
      BY <1>4, <2>1, <2>2 DEF Fill
  <1>5. ASSUME NEW r \in Readers, Respond(r) PROVE TypeOK'
    BY <1>5 DEF Respond
  <1>6. ASSUME NEW r \in Readers, Fail(r) PROVE TypeOK'
    BY <1>6 DEF Fail
  <1>7. ASSUME NEW w \in Writers, NEW T \in WriteSets, Commit(w, T) PROVE TypeOK'
    BY <1>7 DEF Commit, Written
  <1>8. ASSUME NEW w \in Writers, Invalidate(w) PROVE TypeOK'
    BY <1>8 DEF Invalidate, NoCache, Larger
  <1>9. ASSUME NEW w \in Writers, GiveUp(w) PROVE TypeOK'
    BY <1>9 DEF GiveUp
  <1>10. ASSUME NEW T \in WriteSets, CommitElsewhere(T) PROVE TypeOK'
    BY <1>10 DEF CommitElsewhere, Written
  <1>11. ASSUME NEW c \in Revisions, Expire(c) PROVE TypeOK'
    BY <1>11, CommitAssumption DEF Expire, Revisions
  <1>12. CASE AgeOut
    BY <1>12 DEF AgeOut
  <1>13. CASE UNCHANGED vars
    BY <1>13 DEF vars
  <1> QED
    BY <1>1, <1>2, <1>3, <1>4, <1>5, <1>6, <1>7, <1>8, <1>9, <1>10, <1>11, <1>12, <1>13
    DEF Next, Build

\* The initial state is well typed.
LEMMA InitTypeOK == Init => TypeOK
  <1> SUFFICES ASSUME Init PROVE TypeOK
    OBVIOUS
  <1>1. next \in [Readers -> 1..(NumParts + 1)]
    BY PartAssumption DEF Init
  <1>2. live \in [Readers -> BOOLEAN]
    BY Zenon DEF Init
  <1>3. cache \in [valid : BOOLEAN, version : Nat, seen : [Tables -> Nat], live : BOOLEAN]
    BY NothingType DEF Init, NoCache
  <1>4. aged \in BOOLEAN /\ pc \in [Readers -> {"idle", "missed", "reading", "merging", "responded"}]
    BY DEF Init
  <1> QED
    BY <1>1, <1>2, <1>3, <1>4, NothingType DEF Init, TypeOK

\* Every reachable state is well typed.
THEOREM TypeCorrect == Spec => []TypeOK
  <1>1. Init => TypeOK
    BY InitTypeOK
  <1>2. TypeOK /\ [Next]_vars => TypeOK'
    BY StepTypeOK
  <1> QED
    BY <1>1, <1>2, PTL DEF Spec

-----------------------------------------------------------------------------
(* The inductive invariant *)

\* A step of request r leaves the other requests as they were.
LEMMA OtherRequests ==
    ASSUME FreshInv, TypeOK', NEW r \in Readers, TablesInv', CopyInv', RequestInv(r)',
           UNCHANGED <<store, expired, version>>,
           \A q \in Readers \ {r} :
              /\ pc'[q] = pc[q] /\ asOf'[q] = asOf[q] /\ next'[q] = next[q]
              /\ seen'[q] = seen[q] /\ live'[q] = live[q]
              /\ floor'[q] = floor[q] /\ dead'[q] = dead[q]
    PROVE  FreshInv'
  <1>1. ASSUME NEW q \in Readers PROVE RequestInv(q)'
    <2>1. CASE q = r
      BY <2>1
    <2>2. CASE q # r
      BY <2>2 DEF FreshInv, RequestInv, store
    <2> QED
      BY <2>1, <2>2
  <1> QED
    BY <1>1 DEF FreshInv

\* cachedSummary answers, or sends the request to build.
LEMMA BeginFresh ==
    ASSUME FreshInv, TypeOK', NEW r \in Readers, Hit(r) \/ Miss(r)
    PROVE  FreshInv'
  <1> USE DEF FreshInv
  <1>1. /\ UNCHANGED <<store, expired, version, cache, aged, asOf, next>>
        /\ floor' = [floor EXCEPT ![r] = done] /\ dead' = [dead EXCEPT ![r] = expired]
    BY DEF Hit, Miss, Begin
  <1>2. floor'[r] = done /\ dead'[r] = expired
    BY <1>1 DEF TypeOK
  <1>3. CASE Hit(r)
    <2>1. pc'[r] = "merging" /\ seen'[r] = cache.seen /\ live'[r] = cache.live
      BY <1>3 DEF Hit, TypeOK
    <2>2. /\ \A t \in Parts : done[t] <= cache.seen[t]
          /\ cache.live => cache.seen[StatusPart] \notin expired
      BY <1>3 DEF Hit, Usable, CopyInv
    <2>3. RequestInv(r)'
      BY <1>1, <1>2, <2>1, <2>2 DEF RequestInv, TypeOK, store
    <2> QED
      BY <1>1, <1>3, <2>3, OtherRequests DEF Hit, TablesInv, CopyInv, TypeOK, store
  <1>4. CASE Miss(r)
    <2>1. pc'[r] = "missed" /\ ~live'[r]
      BY <1>4 DEF Miss, TypeOK
    <2>2. RequestInv(r)'
      BY <1>1, <1>2, <2>1 DEF RequestInv, TypeOK, store
    <2>3. \A q \in Readers \ {r} :
             /\ pc'[q] = pc[q] /\ seen'[q] = seen[q] /\ live'[q] = live[q]
             /\ floor'[q] = floor[q] /\ dead'[q] = dead[q]
      BY <1>1, <1>4 DEF Miss
    <2> QED
      BY <1>1, <2>2, <2>3, OtherRequests DEF TablesInv, CopyInv, store
  <1> QED
    BY <1>3, <1>4

\* One query of buildSummary reads at least what had returned.
LEMMA QueryFresh ==
    ASSUME FreshInv, TypeOK', NEW r \in Readers, Query(r)
    PROVE  FreshInv'
  <1> USE DEF FreshInv
  <1> DEFINE k == next[r]
  <1>1. /\ UNCHANGED <<store, expired, version, cache, aged, pc, asOf, floor, dead>>
        /\ pc[r] = "reading" /\ k \in Parts /\ k \in Tables /\ next'[r] = k + 1
    BY PartsAreTables DEF Query, TypeOK
  <1>2. seen'[r][k] = tables[k] /\ \A t \in Tables : t # k => seen'[r][t] = seen[r][t]
    BY <1>1 DEF Query, TypeOK
  <1>3. live'[r] => seen'[r][StatusPart] \notin dead[r]
    <2>1. CASE k = StatusPart
      <3>1. live'[r] = (tables[StatusPart] \notin expired)
        BY <2>1 DEF Query, TypeOK
      <3> QED
        BY <1>2, <2>1, <3>1 DEF RequestInv
    <2>2. CASE k # StatusPart
      <3>1. live'[r] = live[r] /\ seen'[r][StatusPart] = seen[r][StatusPart]
        BY <1>2, <2>2, PartsAreTables DEF Query
      <3> QED
        BY <1>1, <3>1 DEF RequestInv
    <2> QED
      BY <2>1, <2>2
  <1>4. ASSUME NEW t \in Parts, t < k + 1
        PROVE  floor[r][t] <= seen'[r][t] /\ (asOf[r] = version => done[t] <= seen'[r][t])
    <2>0. t \in Tables
      BY PartsAreTables
    <2>1. CASE t = k
      <3>1. /\ floor[r][t] <= done[t] /\ done[t] <= tables[t] /\ seen'[r][t] = tables[t]
            /\ floor[r][t] \in Nat /\ done[t] \in Nat /\ tables[t] \in Nat
        BY <1>2, <2>0, <2>1 DEF RequestInv, TablesInv, TypeOK
      <3> QED
        BY <3>1
    <2>2. CASE t # k
      <3>1. t < k
        BY <1>1, <1>4, <2>2, PartAssumption DEF Parts
      <3> QED
        BY <1>1, <1>2, <2>0, <2>2, <3>1 DEF RequestInv
    <2> QED
      BY <2>1, <2>2
  <1>5. RequestInv(r)'
    BY <1>1, <1>3, <1>4 DEF RequestInv, store
  <1>6. \A q \in Readers \ {r} :
           seen'[q] = seen[q] /\ live'[q] = live[q] /\ next'[q] = next[q]
    BY DEF Query, TypeOK
  <1> QED
    BY <1>1, <1>5, <1>6, OtherRequests DEF TablesInv, CopyInv, store

\* currentSummaryVersion, cacheSummary, the handler's last query, a failure.
LEMMA OtherStepsFresh ==
    ASSUME FreshInv, TypeOK', NEW r \in Readers,
           ReadVersion(r) \/ Fill(r) \/ Respond(r) \/ Fail(r)
    PROVE  FreshInv'
  <1> USE DEF FreshInv
  <1>1. CASE ReadVersion(r)
    <2>1. /\ UNCHANGED <<store, expired, version, cache, aged, seen, live, floor, dead>>
          /\ pc[r] = "missed" /\ pc'[r] = "reading" /\ asOf'[r] = version /\ next'[r] = 1
      BY <1>1 DEF ReadVersion, TypeOK
    <2>2. \A t \in Parts : ~(t < 1)
      BY PartAssumption DEF Parts
    <2>3. RequestInv(r)'
      BY <2>1, <2>2 DEF RequestInv, TypeOK, store
    <2>4. \A q \in Readers \ {r} : pc'[q] = pc[q] /\ asOf'[q] = asOf[q] /\ next'[q] = next[q]
      BY <1>1 DEF ReadVersion, TypeOK
    <2> QED
      BY <2>1, <2>3, <2>4, OtherRequests DEF TablesInv, CopyInv, store
  <1>2. CASE Fill(r)
    <2>1. /\ UNCHANGED <<store, expired, version, seen, live, floor, dead>>
          /\ pc[r] = "reading" /\ next[r] = NumParts + 1
          /\ pc'[r] = "merging" /\ asOf'[r] = 0
      BY <1>2 DEF Fill, TypeOK
    <2>2. \A t \in Parts : t < next[r]
      BY <2>1, PartAssumption DEF Parts
    <2>3. RequestInv(r)'
      BY <2>1, <2>2 DEF RequestInv, TypeOK, store
    <2>4. CopyInv'
      <3>1. CASE asOf[r] = version
        <4>1. cache' = Cached(version, seen[r], live[r])
          BY <1>2, <3>1 DEF Fill
        <4>2. \A t \in Parts : done[t] <= seen[r][t]
          BY <2>1, <2>2, <3>1 DEF RequestInv
        <4> QED
          BY <2>1, <4>1, <4>2 DEF CopyInv, Cached, store
      <3>2. CASE asOf[r] # version
        BY <1>2, <2>1, <3>2 DEF Fill, CopyInv, store
      <3> QED
        BY <3>1, <3>2
    <2>5. \A q \in Readers \ {r} : pc'[q] = pc[q] /\ asOf'[q] = asOf[q] /\ next'[q] = next[q]
      BY <1>2 DEF Fill, TypeOK
    <2> QED
      BY <2>1, <2>3, <2>4, <2>5, OtherRequests DEF TablesInv, store
  <1>3. CASE Respond(r)
    <2>1. /\ UNCHANGED <<store, expired, version, cache, aged, asOf, next, live, floor, dead>>
          /\ pc[r] = "merging" /\ pc'[r] = "responded"
          /\ seen'[r][AgentsTable] = tables[AgentsTable]
          /\ \A t \in Parts : seen'[r][t] = seen[r][t]
      BY <1>3, PartsAreTables DEF Respond, TypeOK
    <2>2. floor[r][AgentsTable] <= tables[AgentsTable]
      <3>1. /\ floor[r][AgentsTable] <= done[AgentsTable]
            /\ done[AgentsTable] <= tables[AgentsTable]
            /\ floor[r][AgentsTable] \in Nat /\ done[AgentsTable] \in Nat
            /\ tables[AgentsTable] \in Nat
        BY PartsAreTables DEF RequestInv, TablesInv, TypeOK
      <3> QED
        BY <3>1
    <2>3. RequestInv(r)'
      BY <2>1, <2>2, PartsAreTables DEF RequestInv, store
    <2>4. \A q \in Readers \ {r} : pc'[q] = pc[q] /\ seen'[q] = seen[q]
      BY <1>3 DEF Respond, TypeOK
    <2> QED
      BY <2>1, <2>3, <2>4, OtherRequests DEF TablesInv, CopyInv, store
  <1>4. CASE Fail(r)
    <2>1. /\ UNCHANGED <<store, expired, version, cache, aged>>
          /\ pc'[r] = "idle" /\ asOf'[r] = 0 /\ floor'[r] = Nothing /\ dead'[r] = {}
      BY <1>4 DEF Fail, TypeOK
    <2>2. RequestInv(r)'
      BY <2>1, NothingType DEF RequestInv, TypeOK, store
    <2>3. \A q \in Readers \ {r} :
             /\ pc'[q] = pc[q] /\ asOf'[q] = asOf[q] /\ next'[q] = next[q]
             /\ seen'[q] = seen[q] /\ live'[q] = live[q]
             /\ floor'[q] = floor[q] /\ dead'[q] = dead[q]
      BY <1>4 DEF Fail
    <2> QED
      BY <2>1, <2>2, <2>3, OtherRequests DEF TablesInv, CopyInv, store
  <1> QED
    BY <1>1, <1>2, <1>3, <1>4

\* A transaction, here or elsewhere, only makes tables newer.
LEMMA CommitFresh ==
    ASSUME FreshInv, TypeOK', NEW T \in WriteSets, commits' = commits + 1,
           tables' = Written(T),
           UNCHANGED <<expired, version, cache, aged, reader, done>>,
           \A w \in Writers, t \in Tables :
              pending'[w][t] = pending[w][t] \/ (t \in T /\ pending'[w][t] = commits + 1)
    PROVE  FreshInv'
  <1> USE DEF FreshInv
  <1>1. \A t \in Tables : tables'[t] = IF t \in T THEN commits + 1 ELSE tables[t]
    BY DEF Written
  <1>2. \A t \in Tables : /\ tables[t] <= tables'[t] /\ tables'[t] <= commits'
                          /\ tables[t] \in Nat /\ tables'[t] \in Nat
    <2> SUFFICES ASSUME NEW t \in Tables
                 PROVE  /\ tables[t] <= tables'[t] /\ tables'[t] <= commits'
                        /\ tables[t] \in Nat /\ tables'[t] \in Nat
      OBVIOUS
    <2>1. tables[t] \in Nat /\ commits \in Nat /\ tables[t] <= commits
      BY DEF TablesInv, TypeOK
    <2>2. tables'[t] = commits + 1 \/ tables'[t] = tables[t]
      BY <1>1
    <2> QED
      BY <2>1, <2>2
  <1>3. \A t \in Tables : done'[t] <= tables'[t]
    BY <1>2 DEF TablesInv, TypeOK
  <1>4. ASSUME NEW w \in Writers, NEW t \in Tables PROVE pending'[w][t] <= tables'[t]
    <2>1. pending[w][t] <= tables[t] /\ pending[w][t] \in Nat
      BY DEF TablesInv, TypeOK
    <2>2. pending[w][t] <= tables'[t]
      BY <1>2, <2>1
    <2>3. commits \in Nat
      BY DEF TypeOK
    <2>4. t \in T => tables'[t] = commits + 1
      BY <1>1
    <2> QED
      BY <2>2, <2>3, <2>4
  <1>5. TablesInv'
    BY <1>2, <1>3, <1>4 DEF TablesInv
  <1>6. CopyInv' /\ \A r \in Readers : RequestInv(r)'
    BY DEF CopyInv, RequestInv, reader
  <1> QED
    BY <1>5, <1>6

\* invalidateSummary outdates every build that is under way.
LEMMA InvalidateFresh ==
    ASSUME FreshInv, TypeOK', NEW w \in Writers, Invalidate(w)
    PROVE  FreshInv'
  <1> USE DEF FreshInv
  <1>1. /\ UNCHANGED <<tables, commits, expired, aged, reader>>
        /\ version' = version + 1 /\ ~cache'.valid
    BY DEF Invalidate, NoCache
  <1>2. ASSUME NEW t \in Tables
        PROVE  done[t] <= done'[t] /\ done'[t] <= tables[t] /\ done[t] \in Nat /\ done'[t] \in Nat
    <2>1. done'[t] = Larger(done[t], pending[w][t])
      BY DEF Invalidate
    <2>2. /\ done[t] <= tables[t] /\ pending[w][t] <= tables[t]
          /\ done[t] \in Nat /\ pending[w][t] \in Nat
      BY DEF TablesInv, TypeOK
    <2> QED
      BY <2>1, <2>2 DEF Larger
  <1>3. ASSUME NEW v \in Writers, NEW t \in Tables PROVE pending'[v][t] <= tables[t]
    <2>1. pending'[v] = IF v = w THEN Nothing ELSE pending[v]
      BY DEF Invalidate, TypeOK
    <2>2. tables[t] \in Nat /\ pending[v][t] <= tables[t]
      BY DEF TablesInv, TypeOK
    <2> QED
      BY <2>1, <2>2, NothingType
  <1>4. TablesInv'
    BY <1>1, <1>2, <1>3 DEF TablesInv
  <1>5. CopyInv'
    BY <1>1 DEF CopyInv
  <1>6. ASSUME NEW r \in Readers PROVE RequestInv(r)'
    <2>1. asOf[r] <= version /\ asOf[r] \in Nat /\ version \in Nat
      BY DEF RequestInv, TypeOK
    <2>2. asOf[r] <= version' /\ asOf[r] # version'
      BY <1>1, <2>1
    <2>3. \A t \in Tables : floor[r][t] <= done'[t]
      <3> SUFFICES ASSUME NEW t \in Tables PROVE floor[r][t] <= done'[t]
        OBVIOUS
      <3>1. floor[r][t] <= done[t] /\ floor[r][t] \in Nat
        BY DEF RequestInv, TypeOK
      <3> QED
        BY <1>2, <3>1
    <2> QED
      BY <1>1, <2>2, <2>3 DEF RequestInv, reader
  <1> QED
    BY <1>4, <1>5, <1>6

\* Every step keeps what has returned visible.
LEMMA StepFresh == FreshInv /\ [Next]_vars => FreshInv'
  <1> SUFFICES ASSUME FreshInv, [Next]_vars PROVE FreshInv'
    OBVIOUS
  <1> TypeOK'
    BY StepTypeOK DEF FreshInv
  <1>1. ASSUME NEW r \in Readers, Hit(r) \/ Miss(r) PROVE FreshInv'
    BY <1>1, BeginFresh
  <1>2. ASSUME NEW r \in Readers, Query(r) PROVE FreshInv'
    BY <1>2, QueryFresh
  <1>3. ASSUME NEW r \in Readers, ReadVersion(r) \/ Fill(r) \/ Respond(r) \/ Fail(r)
        PROVE  FreshInv'
    BY <1>3, OtherStepsFresh
  <1>4. ASSUME NEW w \in Writers, NEW T \in WriteSets, Commit(w, T) PROVE FreshInv'
    <2>1. \A v \in Writers, t \in Tables :
             pending'[v][t] = pending[v][t] \/ (t \in T /\ pending'[v][t] = commits + 1)
      BY <1>4 DEF Commit, FreshInv, TypeOK
    <2> QED
      BY <1>4, <2>1, CommitFresh DEF Commit
  <1>5. ASSUME NEW w \in Writers, Invalidate(w) PROVE FreshInv'
    BY <1>5, InvalidateFresh
  <1>6. ASSUME NEW w \in Writers, GiveUp(w) PROVE FreshInv'
    <2>1. /\ UNCHANGED <<tables, commits, expired, version, cache, aged, reader, done>>
          /\ \A v \in Writers : pending'[v] = pending[v] \/ pending'[v] = Nothing
      BY <1>6 DEF GiveUp, FreshInv, TypeOK
    <2>2. TablesInv'
      <3>1. \A t \in Tables : tables[t] \in Nat /\ Nothing[t] <= tables[t]
        BY NothingType DEF FreshInv, TypeOK
      <3> QED
        BY <2>1, <3>1 DEF FreshInv, TablesInv
    <2> QED
      BY <2>1, <2>2 DEF FreshInv, CopyInv, RequestInv, reader
  <1>7. ASSUME NEW T \in WriteSets, CommitElsewhere(T) PROVE FreshInv'
    BY <1>7, CommitFresh DEF CommitElsewhere
  <1>8. ASSUME NEW c \in Revisions, Expire(c) PROVE FreshInv'
    <2>1. /\ UNCHANGED <<store, version, cache, aged, reader>>
          /\ expired \subseteq expired'
      BY <1>8 DEF Expire
    <2> QED
      BY <2>1 DEF FreshInv, TablesInv, CopyInv, RequestInv, reader, store
  <1>9. CASE AgeOut
    BY <1>9 DEF AgeOut, FreshInv, TablesInv, CopyInv, RequestInv, reader, store
  <1>10. CASE UNCHANGED vars
    BY <1>10 DEF vars, FreshInv, TablesInv, CopyInv, RequestInv
  <1> QED
    BY <1>1, <1>2, <1>3, <1>4, <1>5, <1>6, <1>7, <1>8, <1>9, <1>10 DEF Next, Build

-----------------------------------------------------------------------------
(* The theorems *)

\* The cache, every build under way and every answer keep up with the writes that
\* have returned.
THEOREM Freshness == Spec => []FreshInv
  <1>1. Init => FreshInv
    <2> SUFFICES ASSUME Init PROVE FreshInv
      OBVIOUS
    <2>1. TypeOK
      BY InitTypeOK
    <2>2. TablesInv /\ CopyInv
      BY NothingType DEF Init, TablesInv, CopyInv, NoCache
    <2>3. \A r \in Readers : RequestInv(r)
      BY NothingType DEF Init, RequestInv
    <2> QED
      BY <2>1, <2>2, <2>3 DEF FreshInv
  <1>2. FreshInv /\ [Next]_vars => FreshInv'
    BY StepFresh
  <1> QED
    BY <1>1, <1>2, PTL DEF Spec

\* Read your writes: the answer to GET /api/summary contains every write whose
\* call on this Store had returned before the request, cached or not.
THEOREM WritesAreRead == Spec => []ReadsReturnedWrites
  <1>1. FreshInv => ReadsReturnedWrites
    <2> SUFFICES ASSUME FreshInv, NEW r \in Readers, pc[r] = "responded", NEW t \in Tables
                 PROVE  floor[r][t] <= seen[r][t]
      BY DEF ReadsReturnedWrites
    <2>1. t \in Parts \/ t = AgentsTable
      BY DEF Tables
    <2> QED
      BY <2>1 DEF FreshInv, RequestInv
  <1> QED
    BY <1>1, Freshness, PTL

\* A status that had expired before the request is never answered as live, though
\* cachedSummary hands out copies of earlier builds.
THEOREM ExpiryIsHonoured == Spec => []ExpiredIsNotLive
  <1>1. FreshInv => ExpiredIsNotLive
    BY DEF FreshInv, RequestInv, ExpiredIsNotLive
  <1> QED
    BY <1>1, Freshness, PTL

\* cachedSummary never hands out a copy older than a write that has returned.
THEOREM CopyIsCurrent == Spec => []CacheIsCurrent
  <1>1. FreshInv => CacheIsCurrent
    BY DEF FreshInv, CopyInv, CacheIsCurrent, Usable
  <1> QED
    BY <1>1, Freshness, PTL
=============================================================================
