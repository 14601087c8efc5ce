-------------------------- MODULE RouteMovesProofs --------------------------
(***************************************************************************)
(* Proofs about RouteMoves, for any number of targets, kinds, sinks,       *)
(* alerts, replacements and locks: whatever is moved, merged, deferred and *)
(* replayed, the outbox stays one that the workers could have left, and    *)
(* dispatches are kept.                                                    *)
(*                                                                         *)
(* A replay is three loops, one in the other, around MoveOne.  What MoveOne *)
(* keeps is proved first; the section on loops carries it to the replay.   *)
(***************************************************************************)
EXTENDS RouteMoves, FiniteSetTheorems, SequenceTheorems, WellFoundedInduction, TLAPS

-----------------------------------------------------------------------------
(* Loops *)

\* A set of natural numbers that is not empty has a least element: the library's
\* minimum of a well-founded order, for the order of the naturals.
LEMMA LeastNatural ==
    ASSUME NEW T \in SUBSET Nat, T # {}
    PROVE  \E x \in T : \A y \in T : x <= y
<1> DEFINE R == {ss \in Nat \X Nat : ss[1] < ss[2]}
<1>1. OpToRel(<, Nat) = R  BY Zenon DEF OpToRel
<1>2. IsWellFoundedOn(R, Nat)  BY NatLessThanWellFounded, <1>1, Zenon
<1>3. PICK x \in T : \A y \in T : ~(<<y, x>> \in R)
  <2> HIDE DEF R
  <2> QED  BY <1>2, WFMin
<1>4. ASSUME NEW y \in T PROVE x <= y
  <2>1. ~(<<y, x>> \in R)  BY <1>3
  <2>2. ~(y < x)  BY <2>1
  <2> QED  BY <2>2
<1> QED  BY <1>4

\* What a loop starts with and each of its rounds keeps, it ends with: a round that
\* breaks it would be preceded by a first one.
LEMMA LoopKeeps ==
    ASSUME NEW X, NEW m \in Nat, NEW f,
           f[0] \in X,
           \A n \in 1..m : f[n - 1] \in X => f[n] \in X
    PROVE  f[m] \in X
<1> DEFINE Bad == {n \in 0..m : f[n] \notin X}
<1>1. SUFFICES ASSUME m \in Bad PROVE FALSE  OBVIOUS
<1>2. PICK n \in Bad : \A k \in Bad : n <= k
  <2>1. Bad \in SUBSET Nat /\ Bad # {}  BY <1>1
  <2> HIDE DEF Bad
  <2> QED  BY <2>1, LeastNatural
<1>3. n # 0 /\ n \in 1..m  BY <1>2
<1>4. n - 1 \in 0..m /\ n - 1 \notin Bad  BY <1>2, <1>3
<1> QED  BY <1>2, <1>3, <1>4

\* The same for a loop whose n-th round has reached more than the one before.
LEMMA LoopReaches ==
    ASSUME NEW m \in Nat, NEW f, NEW Y,
           f[0] \subseteq Y[0],
           \A n \in 1..m : f[n - 1] \subseteq Y[n - 1] => f[n] \subseteq Y[n]
    PROVE  f[m] \subseteq Y[m]
<1> DEFINE Bad == {n \in 0..m : ~(f[n] \subseteq Y[n])}
<1>1. SUFFICES ASSUME m \in Bad PROVE FALSE  OBVIOUS
<1>2. PICK n \in Bad : \A k \in Bad : n <= k
  <2>1. Bad \in SUBSET Nat /\ Bad # {}  BY <1>1
  <2> HIDE DEF Bad
  <2> QED  BY <2>1, LeastNatural
<1>3. n # 0 /\ n \in 1..m  BY <1>2
<1>4. n - 1 \in 0..m /\ n - 1 \notin Bad  BY <1>2, <1>3
<1> QED  BY <1>2, <1>3, <1>4

\* What a loop of n rounds has after each of them, where G makes one round.
Course(f, X, b, n, G) ==
    /\ f \in [0..n -> X]
    /\ f[0] = b
    /\ \A i \in 1..n : f[i] = G[<<i, f[i - 1]>>]

\* A loop whose rounds stay within a set has a course.
LEMMA LoopRuns ==
    ASSUME NEW X, NEW b \in X, NEW m \in Nat, NEW G \in [(1..m) \X X -> X]
    PROVE  \E f : Course(f, X, b, m, G)
<1> DEFINE Bad == {n \in 0..m : ~ \E f : Course(f, X, b, n, G)}
<1>1. SUFFICES ASSUME m \in Bad PROVE FALSE  OBVIOUS
<1>2. PICK n \in Bad : \A k \in Bad : n <= k
  <2>1. Bad \in SUBSET Nat /\ Bad # {}  BY <1>1
  <2> HIDE DEF Bad
  <2> QED  BY <2>1, LeastNatural
<1>3. CASE n = 0
  <2>1. Course([i \in 0..0 |-> b], X, b, n, G)  BY <1>3 DEF Course
  <2> QED  BY <2>1, <1>2
<1>4. CASE n # 0
  <2>1. n \in 1..m /\ n - 1 \in 0..m /\ n - 1 \notin Bad  BY <1>2, <1>4
  <2>2. PICK f : Course(f, X, b, n - 1, G)  BY <2>1
  <2>3. f \in [0..(n - 1) -> X]  BY <2>2 DEF Course
  <2> DEFINE g == [i \in 0..n |-> IF i = n THEN G[<<n, f[n - 1]>>] ELSE f[i]]
  <2>4. <<n, f[n - 1]>> \in (1..m) \X X  BY <2>1, <2>3
  <2>5. g \in [0..n -> X]  BY <2>1, <2>3, <2>4
  <2>6. g[0] = b  BY <2>1, <2>2 DEF Course
  <2>7. ASSUME NEW i \in 1..n PROVE g[i] = G[<<i, g[i - 1]>>]
    <3>1. i - 1 \in 0..n /\ i - 1 # n /\ g[i - 1] = f[i - 1]  BY <2>1
    <3>2. CASE i = n  BY <3>1, <3>2
    <3>3. CASE i # n
      <4>1. i \in 1..(n - 1) /\ g[i] = f[i]  BY <2>1, <3>3
      <4> QED  BY <4>1, <3>1, <2>2 DEF Course
    <3> QED  BY <3>2, <3>3
  <2>8. Course(g, X, b, n, G)  BY <2>5, <2>6, <2>7 DEF Course
  <2> QED  BY <2>8, <1>2
<1> QED  BY <1>3, <1>4

\* The loop of migrateAlertRouteIdentity: what it has after each alert.
MigrateCourse(f, st, old, new) ==
    /\ f[0] = {st}
    /\ \A e \in 1..Len(st.events) :
           f[e] = IF e \in MutableAt(st.events, old)
                  THEN {MoveOne(s, e, old, new) : s \in f[e - 1]}
                  ELSE f[e - 1]
    /\ f[Len(st.events)] = Migrate(st, old, new)

\* It has such a course if the move of each alert stays within a set of tables.
LEMMA MigrateRuns ==
    ASSUME NEW X, NEW st \in X, NEW old, NEW new, Len(st.events) \in Nat,
           \A s \in X, e \in MutableAt(st.events, old) : MoveOne(s, e, old, new) \in X
    PROVE  \E f : MigrateCourse(f, st, old, new)
<1> DEFINE m == Len(st.events)
           Round(e, S) == IF e \in MutableAt(st.events, old) THEN {MoveOne(s, e, old, new) : s \in S} ELSE S
           Whole(f) == [e \in 0..m |-> IF e = 0 THEN {st} ELSE Round(e, f[e - 1])]
           after == CHOOSE f : f = Whole(f)
           G == [p \in (1..m) \X SUBSET X |-> Round(p[1], p[2])]
<1>1. Migrate(st, old, new) = after[m]  BY DEF Migrate, Loop
<1>2. ASSUME NEW e \in 1..m, NEW S \in SUBSET X PROVE Round(e, S) \in SUBSET X
  OBVIOUS
<1>3. m \in Nat /\ {st} \in SUBSET X  OBVIOUS
<1> HIDE DEF m, Round
<1>4. G \in [(1..m) \X SUBSET X -> SUBSET X]  BY <1>2
<1>5. \E f : f = Whole(f)
  <2>1. PICK f : Course(f, SUBSET X, {st}, m, G)
    <3> HIDE DEF G
    <3> QED  BY <1>3, <1>4, LoopRuns
  <2>2. /\ f \in [0..m -> SUBSET X] /\ f[0] = {st}
        /\ \A e \in 1..m : f[e] = G[<<e, f[e - 1]>>]
    BY <2>1 DEF Course
  <2>3. ASSUME NEW e \in 1..m PROVE f[e] = Round(e, f[e - 1])
    <3>1. f[e - 1] \in SUBSET X /\ <<e, f[e - 1]>> \in (1..m) \X SUBSET X  BY <1>3, <2>2
    <3> QED  BY <3>1, <2>2
  <2>4. \A e \in 0..m : f[e] = IF e = 0 THEN {st} ELSE Round(e, f[e - 1])
    BY <2>2, <2>3, <1>3
  <2> QED  BY <2>2, <2>4
<1>6. after = Whole(after)
  <2> HIDE DEF Whole
  <2> QED  BY <1>5
<1> HIDE DEF after
<1>7. after[0] = {st}
  <2>1. 0 \in 0..m  BY <1>3
  <2> QED  BY <2>1, <1>6
<1>8. ASSUME NEW e \in 1..m PROVE after[e] = Round(e, after[e - 1])
  <2>1. e \in 0..m /\ e # 0  BY <1>3
  <2> QED  BY <2>1, <1>6
<1>9. MigrateCourse(after, st, old, new)  BY <1>1, <1>7, <1>8 DEF MigrateCourse, m, Round
<1> QED  BY <1>9

\* What is true of the table as it stands, and kept by the move of each alert, is
\* true when migrateAlertRouteIdentity returns.
LEMMA MigrateKeeps ==
    ASSUME NEW X, NEW st \in X, NEW old, NEW new, Len(st.events) \in Nat,
           \A s \in X, e \in MutableAt(st.events, old) : MoveOne(s, e, old, new) \in X
    PROVE  Migrate(st, old, new) \subseteq X
<1>1. PICK f : MigrateCourse(f, st, old, new)  BY MigrateRuns
<1>2. f[0] \in SUBSET X  BY <1>1 DEF MigrateCourse
<1>3. ASSUME NEW e \in 1..Len(st.events), f[e - 1] \in SUBSET X PROVE f[e] \in SUBSET X
  <2>1. CASE e \in MutableAt(st.events, old)
    <3>1. f[e] = {MoveOne(s, e, old, new) : s \in f[e - 1]}  BY <1>1, <2>1 DEF MigrateCourse
    <3>2. \A s \in f[e - 1] : MoveOne(s, e, old, new) \in X  BY <1>3, <2>1
    <3> QED  BY <3>1, <3>2
  <2>2. CASE e \notin MutableAt(st.events, old)
    <3>1. f[e] = f[e - 1]  BY <1>1, <2>2 DEF MigrateCourse
    <3> QED  BY <3>1, <1>3
  <2> QED  BY <2>1, <2>2
<1>4. f[Len(st.events)] \in SUBSET X  BY <1>2, <1>3, LoopKeeps
<1> QED  BY <1>1, <1>4 DEF MigrateCourse

\* The loop over the edges of a queue: what it has after each edge.
PassCourse(f, st, queue) ==
    /\ f[0] = {State(st.events, st.disp, st.edges, FALSE)}
    /\ \A k \in 1..NumEdges :
           f[k] = IF Edge(k) \in queue
                  THEN UNION {Migrate(s, Edge(k)[1], Edge(k)[2]) : s \in f[k - 1]}
                  ELSE f[k - 1]
    /\ f[NumEdges] = Pass(st, queue)

\* There are so many pairs of targets.
LEMMA EdgesCounted == NumEdges \in Nat
<1>1. NumTargets \in Nat  BY RouteAssumption
<1>2. NumTargets * NumTargets \in Nat  BY <1>1
<1> QED  BY <1>2 DEF NumEdges

\* It has such a course if migrations along its edges stay within a set of tables.
LEMMA PassRuns ==
    ASSUME NEW X, NEW st, NEW queue,
           State(st.events, st.disp, st.edges, FALSE) \in X,
           \A s \in X, edge \in queue : Migrate(s, edge[1], edge[2]) \subseteq X
    PROVE  \E f : PassCourse(f, st, queue)
<1> DEFINE m == NumEdges
           start == State(st.events, st.disp, st.edges, FALSE)
           Round(k, S) == IF Edge(k) \in queue
                          THEN UNION {Migrate(s, Edge(k)[1], Edge(k)[2]) : s \in S}
                          ELSE S
           Whole(f) == [k \in 0..m |-> IF k = 0 THEN {start} ELSE Round(k, f[k - 1])]
           after == CHOOSE f : f = Whole(f)
           G == [p \in (1..m) \X SUBSET X |-> Round(p[1], p[2])]
<1>1. Pass(st, queue) = after[m]  BY DEF Pass, Loop
<1>2. ASSUME NEW k \in 1..m, NEW S \in SUBSET X PROVE Round(k, S) \in SUBSET X
  OBVIOUS
<1>3. m \in Nat /\ {start} \in SUBSET X  BY EdgesCounted
<1> HIDE DEF m, Round, start
<1>4. G \in [(1..m) \X SUBSET X -> SUBSET X]  BY <1>2
<1>5. \E f : f = Whole(f)
  <2>1. PICK f : Course(f, SUBSET X, {start}, m, G)
    <3> HIDE DEF G
    <3> QED  BY <1>3, <1>4, LoopRuns
  <2>2. /\ f \in [0..m -> SUBSET X] /\ f[0] = {start}
        /\ \A k \in 1..m : f[k] = G[<<k, f[k - 1]>>]
    BY <2>1 DEF Course
  <2>3. ASSUME NEW k \in 1..m PROVE f[k] = Round(k, f[k - 1])
    <3>1. f[k - 1] \in SUBSET X /\ <<k, f[k - 1]>> \in (1..m) \X SUBSET X  BY <1>3, <2>2
    <3> QED  BY <3>1, <2>2
  <2>4. \A k \in 0..m : f[k] = IF k = 0 THEN {start} ELSE Round(k, f[k - 1])
    BY <2>2, <2>3, <1>3
  <2> QED  BY <2>2, <2>4
<1>6. after = Whole(after)
  <2> HIDE DEF Whole
  <2> QED  BY <1>5
<1> HIDE DEF after
<1>7. after[0] = {start}
  <2>1. 0 \in 0..m  BY <1>3
  <2> QED  BY <2>1, <1>6
<1>8. ASSUME NEW k \in 1..m PROVE after[k] = Round(k, after[k - 1])
  <2>1. k \in 0..m /\ k # 0  BY <1>3
  <2> QED  BY <2>1, <1>6
<1>9. PassCourse(after, st, queue)  BY <1>1, <1>7, <1>8 DEF PassCourse, m, Round, start
<1> QED  BY <1>9

\* One pass over a queue of edges, likewise, if the edges of the queue keep it, and
\* clearing the note that an alert has moved does.
LEMMA PassKeeps ==
    ASSUME NEW X, NEW st, NEW queue,
           State(st.events, st.disp, st.edges, FALSE) \in X,
           \A s \in X, edge \in queue : Migrate(s, edge[1], edge[2]) \subseteq X
    PROVE  Pass(st, queue) \subseteq X
<1>1. PICK f : PassCourse(f, st, queue)  BY PassRuns
<1>2. f[0] \in SUBSET X  BY <1>1 DEF PassCourse
<1>3. ASSUME NEW k \in 1..NumEdges, f[k - 1] \in SUBSET X PROVE f[k] \in SUBSET X
  <2>1. CASE Edge(k) \in queue
    <3>1. f[k] = UNION {Migrate(s, Edge(k)[1], Edge(k)[2]) : s \in f[k - 1]}
      BY <1>1, <2>1 DEF PassCourse
    <3>2. \A s \in f[k - 1] : Migrate(s, Edge(k)[1], Edge(k)[2]) \subseteq X  BY <1>3, <2>1
    <3> QED  BY <3>1, <3>2
  <2>2. CASE Edge(k) \notin queue
    <3>1. f[k] = f[k - 1]  BY <1>1, <2>2 DEF PassCourse
    <3> QED  BY <3>1, <1>3
  <2> QED  BY <2>1, <2>2
<1>4. f[NumEdges] \in SUBSET X  BY <1>2, <1>3, EdgesCounted, LoopKeeps
<1> QED  BY <1>1, <1>4 DEF PassCourse

\* The passes of applyDeferredAlertRouteReconciliations: what it has after each.
PassesCourse(f, st) ==
    /\ f[0] = {State(st.events, st.disp, st.edges, TRUE)}
    /\ \A n \in 1..(Cardinality(st.edges) + 1) :
           f[n] = UNION {IF s.moved THEN Pass(s, st.edges) ELSE {s} : s \in f[n - 1]}
    /\ f[Cardinality(st.edges) + 1] = Passes(st)

\* They have such a course if a pass stays within a set of tables.
LEMMA PassesRun ==
    ASSUME NEW X, NEW st, IsFiniteSet(st.edges),
           State(st.events, st.disp, st.edges, TRUE) \in X,
           \A s \in X : Pass(s, st.edges) \subseteq X
    PROVE  \E f : PassesCourse(f, st)
<1> DEFINE m == Cardinality(st.edges) + 1
           start == State(st.events, st.disp, st.edges, TRUE)
           Round(n, S) == UNION {IF s.moved THEN Pass(s, st.edges) ELSE {s} : s \in S}
           Whole(f) == [n \in 0..m |-> IF n = 0 THEN {start} ELSE Round(n, f[n - 1])]
           after == CHOOSE f : f = Whole(f)
           G == [p \in (1..m) \X SUBSET X |-> Round(p[1], p[2])]
<1>1. Passes(st) = after[m]  BY DEF Passes, Loop
<1>2. ASSUME NEW n \in 1..m, NEW S \in SUBSET X PROVE Round(n, S) \in SUBSET X
  OBVIOUS
<1>3. m \in Nat /\ {start} \in SUBSET X
  <2>1. Cardinality(st.edges) \in Nat  BY FS_CardinalityType
  <2>2. m \in Nat  BY <2>1
  <2>3. {start} \in SUBSET X  OBVIOUS
  <2> QED  BY <2>2, <2>3
<1> HIDE DEF m, Round, start
<1>4. G \in [(1..m) \X SUBSET X -> SUBSET X]  BY <1>2
<1>5. \E f : f = Whole(f)
  <2>1. PICK f : Course(f, SUBSET X, {start}, m, G)
    <3> HIDE DEF G
    <3> QED  BY <1>3, <1>4, LoopRuns
  <2>2. /\ f \in [0..m -> SUBSET X] /\ f[0] = {start}
        /\ \A n \in 1..m : f[n] = G[<<n, f[n - 1]>>]
    BY <2>1 DEF Course
  <2>3. ASSUME NEW n \in 1..m PROVE f[n] = Round(n, f[n - 1])
    <3>1. f[n - 1] \in SUBSET X /\ <<n, f[n - 1]>> \in (1..m) \X SUBSET X  BY <1>3, <2>2
    <3> QED  BY <3>1, <2>2
  <2>4. \A n \in 0..m : f[n] = IF n = 0 THEN {start} ELSE Round(n, f[n - 1])
    BY <2>2, <2>3, <1>3
  <2> QED  BY <2>2, <2>4
<1>6. after = Whole(after)
  <2> HIDE DEF Whole
  <2> QED  BY <1>5
<1> HIDE DEF after
<1>7. after[0] = {start}
  <2>1. 0 \in 0..m  BY <1>3
  <2> QED  BY <2>1, <1>6
<1>8. ASSUME NEW n \in 1..m PROVE after[n] = Round(n, after[n - 1])
  <2>1. n \in 0..m /\ n # 0  BY <1>3
  <2> QED  BY <2>1, <1>6
<1>9. PassesCourse(after, st)  BY <1>1, <1>7, <1>8 DEF PassesCourse, m, Round, start
<1> QED  BY <1>9

\* The passes keep what a pass keeps.
LEMMA PassesKeep ==
    ASSUME NEW X, NEW st, IsFiniteSet(st.edges),
           State(st.events, st.disp, st.edges, TRUE) \in X,
           \A s \in X : Pass(s, st.edges) \subseteq X
    PROVE  Passes(st) \subseteq X
<1>1. PICK f : PassesCourse(f, st)  BY PassesRun
<1> DEFINE m == Cardinality(st.edges) + 1
<1>2. m \in Nat
  <2>1. Cardinality(st.edges) \in Nat  BY FS_CardinalityType
  <2> QED  BY <2>1
<1>3. f[0] \in SUBSET X  BY <1>1 DEF PassesCourse
<1>4. ASSUME NEW n \in 1..m, f[n - 1] \in SUBSET X PROVE f[n] \in SUBSET X
  <2>1. f[n] = UNION {IF s.moved THEN Pass(s, st.edges) ELSE {s} : s \in f[n - 1]}
    BY <1>1 DEF PassesCourse
  <2> QED  BY <2>1, <1>4
<1>5. f[m] \in SUBSET X
  <2> HIDE DEF m
  <2> QED  BY <1>2, <1>3, <1>4, LoopKeeps
<1> QED  BY <1>1, <1>5 DEF PassesCourse

-----------------------------------------------------------------------------
(* A merge *)

\* A table of dispatches is a function of the ids that are taken.
LEMMA DispatchTable ==
    ASSUME NEW ds \in DispatchTables
    PROVE  /\ Len(ds) \in Nat /\ DOMAIN ds = 1..Len(ds)
           /\ ds \in [1..Len(ds) -> DispatchRows]
           /\ \A d \in DOMAIN ds : ds[d] \in DispatchRows
  BY DEF DispatchTables

\* Likewise a table of events.
LEMMA EventTable ==
    ASSUME NEW ev \in EventTables
    PROVE  /\ Len(ev) \in Nat /\ DOMAIN ev = 1..Len(ev)
           /\ ev \in [1..Len(ev) -> EventRows]
           /\ \A e \in DOMAIN ev : ev[e] \in EventRows
  BY DEF EventTables

\* Dispatches of the duplicate that are handled by a merge are waiting or claimed, and
\* if the keeper has the sink already, they wait and their sink has been served.
LEMMA HandledFacts ==
    ASSUME NEW ds \in DispatchTables, NEW k, NEW dup, NEW d \in Handled(ds, k, dup)
    PROVE  /\ d \in DOMAIN ds /\ ds[d].event = dup /\ ds[d].status \in ActiveStatuses
           /\ HasSink(ds, k, ds[d].sink) =>
                  ds[d].status = "pending" /\ ClosedSink(ds, k, ds[d].sink)
<1>1. d \in ActiveRowsOf(ds, dup)  BY DEF Handled
<1>2. d \in Nat  BY <1>1 DEF ActiveRowsOf, RowsOf, DispatchTables
<1>3. ~Obstacle(ds, k, d)  BY <1>1, <1>2 DEF Handled
<1> QED  BY <1>1, <1>3 DEF ActiveRowsOf, RowsOf, Obstacle

\* mergeRouteAlertCollisionDispatches changes rows of the duplicate only: one is moved
\* to the keeper, which has no row for its sink, or is given up as the sink has been
\* served for the keeper.
LEMMA MergedRows ==
    ASSUME NEW ds \in DispatchTables, NEW k \in 1..MaxEvents, NEW dup
    PROVE  /\ Merged(ds, k, dup) \in DispatchTables
           /\ DOMAIN Merged(ds, k, dup) = DOMAIN ds
           /\ \A d \in DOMAIN ds :
                  \/ /\ Merged(ds, k, dup)[d] = ds[d]
                     /\ d \notin Handled(ds, k, dup)
                  \/ /\ d \in Handled(ds, k, dup)
                     /\ ~HasSink(ds, k, ds[d].sink)
                     /\ Merged(ds, k, dup)[d] = Dispatch(k, ds[d].sink, ds[d].status)
                  \/ /\ d \in Handled(ds, k, dup)
                     /\ ds[d].status = "pending"
                     /\ ClosedSink(ds, k, ds[d].sink)
                     /\ Merged(ds, k, dup)[d] = Dispatch(dup, ds[d].sink, "reset")
<1> DEFINE M == Merged(ds, k, dup)
<1>1. M = [d \in DOMAIN ds |-> IF d \in Handled(ds, k, dup) THEN MergedRow(ds, k, d) ELSE ds[d]]
  BY DEF Merged
<1> HIDE DEF M
<1>2. ASSUME NEW d \in DOMAIN ds
      PROVE  /\ \/ M[d] = ds[d] /\ d \notin Handled(ds, k, dup)
                \/ /\ d \in Handled(ds, k, dup)
                   /\ ~HasSink(ds, k, ds[d].sink)
                   /\ M[d] = Dispatch(k, ds[d].sink, ds[d].status)
                \/ /\ d \in Handled(ds, k, dup)
                   /\ ds[d].status = "pending"
                   /\ ClosedSink(ds, k, ds[d].sink)
                   /\ M[d] = Dispatch(dup, ds[d].sink, "reset")
             /\ M[d] \in DispatchRows
  <2>1. ds[d] \in DispatchRows
    BY DispatchTable
  <2>2. CASE d \notin Handled(ds, k, dup)  BY <2>1, <2>2, <1>1
  <2>3. CASE d \in Handled(ds, k, dup)
    <3>1. M[d] = MergedRow(ds, k, d)  BY <2>3, <1>1
    <3>2. ds[d].event = dup  BY <2>3, HandledFacts
    <3>3. CASE HasSink(ds, k, ds[d].sink)
      <4>1. M[d] = Dispatch(dup, ds[d].sink, "reset")  BY <3>1, <3>2, <3>3 DEF MergedRow
      <4>2. ds[d].status = "pending" /\ ClosedSink(ds, k, ds[d].sink)
        BY <2>3, <3>3, HandledFacts
      <4> QED  BY <4>1, <4>2, <2>1, <2>3, <3>2 DEF Dispatch, DispatchStatuses, DispatchRows
    <3>4. CASE ~HasSink(ds, k, ds[d].sink)
      <4>1. M[d] = Dispatch(k, ds[d].sink, ds[d].status)  BY <3>1, <3>4 DEF MergedRow
      <4> QED  BY <4>1, <2>1, <2>3, <3>4 DEF Dispatch, DispatchRows
    <3> QED  BY <3>3, <3>4
  <2> QED  BY <2>2, <2>3
<1>3. DOMAIN M = DOMAIN ds  BY <1>1
<1>4. M \in DispatchTables
  <2>1. Len(ds) \in Nat /\ DOMAIN ds = 1..Len(ds)  BY DEF DispatchTables
  <2>2. M \in [1..Len(ds) -> DispatchRows]
    BY <1>1, <1>2, <2>1
  <2> QED  BY <2>1, <2>2 DEF DispatchTables
<1> QED  BY <1>2, <1>3, <1>4 DEF M

\* A merge leaves an alert with one dispatch for each sink.
LEMMA MergedOneRowPerSink ==
    ASSUME NEW ds \in DispatchTables, NEW k \in 1..MaxEvents, NEW dup, k # dup, OneRowPerSink(ds)
    PROVE  OneRowPerSink(Merged(ds, k, dup))
<1> DEFINE M == Merged(ds, k, dup)
<1>1. DOMAIN M = DOMAIN ds  BY MergedRows
<1>2. ASSUME NEW d \in DOMAIN ds
      PROVE  /\ M[d].sink = ds[d].sink
             /\ \/ M[d].event = ds[d].event
                \/ M[d].event = k /\ ds[d].event = dup /\ ~HasSink(ds, k, ds[d].sink)
  <2>1. CASE M[d] = ds[d]  BY <2>1
  <2>2. CASE d \in Handled(ds, k, dup)
    <3>1. ds[d].event = dup  BY <2>2, HandledFacts
    <3>2. \/ M[d] = Dispatch(k, ds[d].sink, ds[d].status) /\ ~HasSink(ds, k, ds[d].sink)
          \/ M[d] = Dispatch(dup, ds[d].sink, "reset")
      BY <2>2, MergedRows
    <3> QED  BY <3>1, <3>2 DEF Dispatch
  <2> QED  BY <2>1, <2>2, MergedRows
<1> HIDE DEF M
<1>3. ASSUME NEW c \in DOMAIN ds, NEW d \in DOMAIN ds, M[c].event = M[d].event, M[c].sink = M[d].sink
      PROVE  c = d
  <2>1. ds[c].sink = ds[d].sink  BY <1>2, <1>3
  <2>2. ds[c].event = k => HasSink(ds, k, ds[c].sink)  BY DEF HasSink, RowsOf
  <2>3. ds[d].event = k => HasSink(ds, k, ds[d].sink)  BY DEF HasSink, RowsOf
  <2>4. ds[c].event = ds[d].event  BY <1>2, <1>3, <2>1, <2>2, <2>3
  <2> QED  BY <2>1, <2>4 DEF OneRowPerSink
<1>4. OneRowPerSink(M)  BY <1>1, <1>3 DEF OneRowPerSink
<1> QED  BY <1>4 DEF M

\* What a worker can still finish after a merge: the keeper has lost nothing of it, the
\* duplicate has something left exactly if the merge was deferred, and others are as
\* they were.
LEMMA MergedActive ==
    ASSUME NEW ds \in DispatchTables, NEW k \in 1..MaxEvents, NEW dup, k # dup
    PROVE  /\ ActiveRowsOf(ds, k) \subseteq ActiveRowsOf(Merged(ds, k, dup), k)
           /\ ActiveRowsOf(Merged(ds, k, dup), dup) # {} <=> Deferred(ds, k, dup)
           /\ \A e : e \notin {k, dup} => ActiveRowsOf(Merged(ds, k, dup), e) = ActiveRowsOf(ds, e)
<1> DEFINE M == Merged(ds, k, dup)
<1>1. DOMAIN M = DOMAIN ds  BY MergedRows
<1>2. ASSUME NEW d \in DOMAIN ds, ds[d].event # dup
      PROVE  M[d] = ds[d]
  <2>1. d \notin Handled(ds, k, dup)  BY <1>2, HandledFacts
  <2> QED  BY <2>1, MergedRows
<1>3. ASSUME NEW d \in DOMAIN ds, d \in Handled(ds, k, dup)
      PROVE  \/ M[d].event = k
             \/ M[d].event = dup /\ M[d].status = "reset"
  <2>1. M[d] = Dispatch(k, ds[d].sink, ds[d].status) \/ M[d] = Dispatch(dup, ds[d].sink, "reset")
    BY <1>3, MergedRows
  <2> QED  BY <2>1 DEF Dispatch
<1>4. ASSUME NEW d \in DOMAIN ds, d \notin Handled(ds, k, dup)
      PROVE  M[d] = ds[d]
  BY <1>4, MergedRows
<1>5. ASSUME ~Deferred(ds, k, dup) PROVE Handled(ds, k, dup) = ActiveRowsOf(ds, dup)
  <2>1. {d \in ActiveRowsOf(ds, dup) : Obstacle(ds, k, d)} = {}  BY <1>5 DEF Deferred
  <2> QED  BY <2>1 DEF Handled
<1>6. ASSUME NEW o \in ActiveRowsOf(ds, dup), Obstacle(ds, k, o) PROVE o \notin Handled(ds, k, dup)
  <2>1. o \in Nat  BY DispatchTable DEF ActiveRowsOf, RowsOf
  <2> QED  BY <1>6, <2>1 DEF Handled
<1> HIDE DEF M
<1>7. ActiveRowsOf(ds, k) \subseteq ActiveRowsOf(M, k)
  BY <1>1, <1>2 DEF ActiveRowsOf, RowsOf
<1>8. \A e : e \notin {k, dup} => ActiveRowsOf(M, e) = ActiveRowsOf(ds, e)
  <2> SUFFICES ASSUME NEW e, e \notin {k, dup}
               PROVE  \A d \in DOMAIN ds : (M[d].event = e /\ M[d].status \in ActiveStatuses)
                                           <=> (ds[d].event = e /\ ds[d].status \in ActiveStatuses)
    BY <1>1 DEF ActiveRowsOf, RowsOf
  <2> TAKE d \in DOMAIN ds
  <2>1. CASE d \in Handled(ds, k, dup)
    <3>1. ds[d].event = dup  BY <2>1, HandledFacts
    <3> QED  BY <3>1, <2>1, <1>3
  <2>2. CASE d \notin Handled(ds, k, dup)  BY <2>2, <1>4
  <2> QED  BY <2>1, <2>2
<1>9. ASSUME Deferred(ds, k, dup) PROVE ActiveRowsOf(M, dup) # {}
  <2>1. PICK o \in ActiveRowsOf(ds, dup) : Obstacle(ds, k, o)  BY <1>9 DEF Deferred
  <2>2. o \in DOMAIN ds /\ M[o] = ds[o]  BY <2>1, <1>4, <1>6 DEF ActiveRowsOf, RowsOf
  <2> QED  BY <2>1, <2>2, <1>1 DEF ActiveRowsOf, RowsOf
<1>10. ASSUME ~Deferred(ds, k, dup) PROVE ActiveRowsOf(M, dup) = {}
  <2> SUFFICES ASSUME NEW d \in DOMAIN ds, M[d].event = dup, M[d].status \in ActiveStatuses
               PROVE  FALSE
    BY <1>1 DEF ActiveRowsOf, RowsOf
  <2>1. CASE d \in Handled(ds, k, dup)  BY <2>1, <1>3 DEF ActiveStatuses
  <2>2. CASE d \notin Handled(ds, k, dup)
    <3>1. d \in ActiveRowsOf(ds, dup)  BY <2>2, <1>4 DEF ActiveRowsOf, RowsOf
    <3> QED  BY <3>1, <2>2, <1>5, <1>10
  <2> QED  BY <2>1, <2>2
<1> QED  BY <1>7, <1>8, <1>9, <1>10 DEF M

-----------------------------------------------------------------------------
(* The move of an alert *)

\* What a move is given and returns.
Tables == [events : EventTables, disp : DispatchTables,
           edges : SUBSET (Targets \X Targets), moved : BOOLEAN]

\* Tables that the workers could have left.
SoundTables == {s \in Tables : Belong(s.events, s.disp) /\ Sound(s.events, s.disp)}

\* An alert at another target is the same alert otherwise.
LEMMA RetargetFacts ==
    ASSUME NEW ev \in EventTables, NEW e \in DOMAIN ev, NEW new \in Targets
    PROVE  /\ Retarget(ev, e, new) \in EventTables
           /\ DOMAIN Retarget(ev, e, new) = DOMAIN ev
           /\ Len(Retarget(ev, e, new)) = Len(ev)
           /\ Retarget(ev, e, new)[e] = Event(new, ev[e].kind, ev[e].status)
           /\ \A f \in DOMAIN ev : f # e => Retarget(ev, e, new)[f] = ev[f]
           /\ \A f \in DOMAIN ev : /\ Retarget(ev, e, new)[f].kind = ev[f].kind
                                   /\ Retarget(ev, e, new)[f].status = ev[f].status
<1> DEFINE R == Retarget(ev, e, new)
<1>1. R = [ev EXCEPT ![e] = Event(new, ev[e].kind, ev[e].status)]  BY DEF Retarget
<1>2. ev[e] \in EventRows  BY EventTable
<1>3. Event(new, ev[e].kind, ev[e].status) \in EventRows  BY <1>2 DEF Event, EventRows
<1> HIDE DEF R
<1>4. R \in [1..Len(ev) -> EventRows] /\ DOMAIN R = 1..Len(ev)  BY <1>1, <1>3, EventTable
<1>5. R \in EventTables /\ Len(R) = Len(ev) /\ DOMAIN R = DOMAIN ev
  BY <1>4, EventTable DEF EventTables
<1>6. R[e] = Event(new, ev[e].kind, ev[e].status)  BY <1>1, EventTable
<1>7. \A f \in DOMAIN ev : f # e => R[f] = ev[f]  BY <1>1, EventTable
<1>8. ASSUME NEW f \in DOMAIN ev PROVE R[f].kind = ev[f].kind /\ R[f].status = ev[f].status
  BY <1>6, <1>7 DEF Event
<1> QED  BY <1>5, <1>6, <1>7, <1>8 DEF R

\* Likewise an alert with another status.
LEMMA WithStatusFacts ==
    ASSUME NEW ev \in EventTables, NEW e \in DOMAIN ev, NEW status \in EventStatuses
    PROVE  /\ WithStatus(ev, e, status) \in EventTables
           /\ DOMAIN WithStatus(ev, e, status) = DOMAIN ev
           /\ Len(WithStatus(ev, e, status)) = Len(ev)
           /\ WithStatus(ev, e, status)[e] = Event(ev[e].target, ev[e].kind, status)
           /\ \A f \in DOMAIN ev : f # e => WithStatus(ev, e, status)[f] = ev[f]
           /\ \A f \in DOMAIN ev : WithStatus(ev, e, status)[f].kind = ev[f].kind
<1> DEFINE R == WithStatus(ev, e, status)
<1>1. R = [ev EXCEPT ![e] = Event(ev[e].target, ev[e].kind, status)]  BY DEF WithStatus
<1>2. ev[e] \in EventRows  BY EventTable
<1>3. Event(ev[e].target, ev[e].kind, status) \in EventRows  BY <1>2 DEF Event, EventRows
<1> HIDE DEF R
<1>4. R \in [1..Len(ev) -> EventRows] /\ DOMAIN R = 1..Len(ev)  BY <1>1, <1>3, EventTable
<1>5. R \in EventTables /\ Len(R) = Len(ev) /\ DOMAIN R = DOMAIN ev
  BY <1>4, EventTable DEF EventTables
<1>6. R[e] = Event(ev[e].target, ev[e].kind, status)  BY <1>1, EventTable
<1>7. \A f \in DOMAIN ev : f # e => R[f] = ev[f]  BY <1>1, EventTable
<1>8. ASSUME NEW f \in DOMAIN ev PROVE R[f].kind = ev[f].kind
  BY <1>6, <1>7 DEF Event
<1> QED  BY <1>5, <1>6, <1>7, <1>8 DEF R

\* The unique index on pending alerts survives a move that meets no other one.
LEMMA RetargetUnique ==
    ASSUME NEW ev \in EventTables, NEW e \in DOMAIN ev, NEW new \in Targets,
           PendingUnique(ev), ev[e].status # "pending" \/ Colliding(ev, e, new) = {}
    PROVE  PendingUnique(Retarget(ev, e, new))
<1> DEFINE R == Retarget(ev, e, new)
<1>1. /\ DOMAIN R = DOMAIN ev
      /\ R[e] = Event(new, ev[e].kind, ev[e].status)
      /\ \A f \in DOMAIN ev : f # e => R[f] = ev[f]
  BY RetargetFacts
<1> HIDE DEF R
<1>2. ASSUME NEW f \in DOMAIN ev, f # e, R[f] = R[e], R[e].status = "pending" PROVE FALSE
  <2>1. ev[f].target = new /\ ev[f].kind = ev[e].kind /\ ev[f].status = "pending"
        /\ ev[e].status = "pending"
    BY <1>1, <1>2 DEF Event
  <2>2. f \in Colliding(ev, e, new)  BY <2>1, <1>2 DEF Colliding
  <2> QED  BY <2>1, <2>2
<1>3. ASSUME NEW f \in DOMAIN ev, NEW g \in DOMAIN ev, R[f].status = "pending", R[f] = R[g]
      PROVE  f = g
  <2>1. CASE f = e \/ g = e  BY <2>1, <1>2, <1>3
  <2>2. CASE f # e /\ g # e  BY <2>2, <1>1, <1>3 DEF PendingUnique
  <2> QED  BY <2>1, <2>2
<1>4. PendingUnique(R)  BY <1>1, <1>3 DEF PendingUnique
<1> QED  BY <1>4 DEF R

\* reconcilePendingAlertRouteCollision: an alert has one duplicate at most.
LEMMA OneDuplicate ==
    ASSUME NEW ev \in EventTables, NEW e \in DOMAIN ev, NEW new,
           PendingUnique(ev), Colliding(ev, e, new) # {}
    PROVE  Colliding(ev, e, new) = {Min(Colliding(ev, e, new))}
<1> DEFINE S == Colliding(ev, e, new)
<1>1. PICK x : x \in S  OBVIOUS
<1>2. ASSUME NEW y \in S PROVE y = x
  <2>1. /\ x \in DOMAIN ev /\ y \in DOMAIN ev
        /\ ev[x].target = ev[y].target /\ ev[x].kind = ev[y].kind
        /\ ev[x].status = "pending" /\ ev[y].status = "pending"
    BY <1>1 DEF Colliding
  <2>2. ev[x] \in EventRows /\ ev[y] \in EventRows  BY <2>1, EventTable
  <2>3. ev[x] = ev[y]  BY <2>1, <2>2 DEF EventRows
  <2> QED  BY <2>1, <2>3 DEF PendingUnique
<1>3. x \in Nat  BY <1>1, EventTable DEF Colliding
<1> HIDE DEF S
<1>4. S = {x}  BY <1>1, <1>2
<1>5. Min(S) = x
  <2>1. \A z \in S : (\A y \in S : z <= y) => z = x  BY <1>4
  <2>2. x \in S /\ \A y \in S : x <= y  BY <1>3, <1>4
  <2> QED  BY <2>1, <2>2 DEF Min
<1>6. S = {Min(S)}  BY <1>4, <1>5
<1> QED  BY <1>6 DEF S

\* The kind of alert that a dispatch tells of, and whether its sink has been told.
KindOf(s, d) == s.events[s.disp[d].event].kind
Told(s, d)   == \E c \in DOMAIN s.disp : /\ s.disp[c].sink = s.disp[d].sink
                                         /\ s.disp[c].status \in ClosedStatuses
                                         /\ KindOf(s, c) = KindOf(s, d)

\* From tables a to tables s a dispatch has kept its sink, its kind of alert and its
\* status, or has been given up, waiting, as its sink had been told.
RowKept(a, s, d) ==
    /\ s.disp[d].sink = a.disp[d].sink
    /\ KindOf(s, d) = KindOf(a, d)
    /\ \/ s.disp[d].status = a.disp[d].status
       \/ a.disp[d].status = "pending" /\ s.disp[d].status = "reset" /\ Told(a, d)

Kept(a, s) == /\ DOMAIN s.disp = DOMAIN a.disp /\ DOMAIN s.events = DOMAIN a.events
              /\ \A d \in DOMAIN a.disp : RowKept(a, s, d)

\* Nothing that has not been told of becomes told by moves.
LEMMA ToldBefore ==
    ASSUME NEW a, NEW s, Kept(a, s), NEW d \in DOMAIN a.disp, Told(s, d)
    PROVE  Told(a, d)
<1>1. PICK c \in DOMAIN s.disp : /\ s.disp[c].sink = s.disp[d].sink
                                 /\ s.disp[c].status \in ClosedStatuses
                                 /\ KindOf(s, c) = KindOf(s, d)
  BY DEF Told
<1>2. c \in DOMAIN a.disp /\ RowKept(a, s, c) /\ RowKept(a, s, d)  BY <1>1 DEF Kept
<1>3. a.disp[c].status = s.disp[c].status  BY <1>1, <1>2 DEF RowKept, ClosedStatuses
<1> QED  BY <1>1, <1>2, <1>3 DEF RowKept, Told

\* Moves one after the other keep what each of them keeps.
LEMMA KeptTwice ==
    ASSUME NEW a, NEW s, NEW t, Kept(a, s), Kept(s, t)
    PROVE  Kept(a, t)
<1>1. DOMAIN t.disp = DOMAIN a.disp /\ DOMAIN t.events = DOMAIN a.events  BY DEF Kept
<1>2. ASSUME NEW d \in DOMAIN a.disp PROVE RowKept(a, t, d)
  <2>1. RowKept(a, s, d) /\ RowKept(s, t, d)  BY DEF Kept
  <2>2. Told(s, d) => Told(a, d)  BY ToldBefore
  <2>3. t.disp[d].sink = a.disp[d].sink /\ KindOf(t, d) = KindOf(a, d)
    BY <2>1 DEF RowKept
  <2>4. \/ t.disp[d].status = a.disp[d].status
        \/ a.disp[d].status = "pending" /\ t.disp[d].status = "reset" /\ Told(a, d)
    BY <2>1, <2>2 DEF RowKept
  <2> QED  BY <2>3, <2>4 DEF RowKept
<1> QED  BY <1>1, <1>2 DEF Kept

\* An alert that meets no other one is moved, and that is all.
LEMMA MoveAlone ==
    ASSUME NEW s \in SoundTables, NEW e \in DOMAIN s.events, NEW new \in Targets,
           s.events[e].status # "pending" \/ Colliding(s.events, e, new) = {}
    PROVE  LET t == State(Retarget(s.events, e, new), s.disp, s.edges, TRUE)
           IN  t \in SoundTables /\ Kept(s, t)
<1> DEFINE ev == s.events
           ds == s.disp
           R == Retarget(ev, e, new)
           t == State(R, ds, s.edges, TRUE)
<1>1. /\ ev \in EventTables /\ ds \in DispatchTables /\ s.edges \in SUBSET (Targets \X Targets)
      /\ Belong(ev, ds) /\ PendingUnique(ev) /\ OneRowPerSink(ds) /\ PendingHasWork(ev, ds)
  BY DEF SoundTables, Tables, Sound
<1>2. /\ t.events = R /\ t.disp = ds
      /\ R \in EventTables => t \in Tables
  BY <1>1 DEF State, Tables
<1>3. e \in DOMAIN ev /\ (ev[e].status # "pending" \/ Colliding(ev, e, new) = {})  OBVIOUS
<1> HIDE DEF ev, ds
<1>4. /\ R \in EventTables /\ DOMAIN R = DOMAIN ev /\ Len(R) = Len(ev)
      /\ \A f \in DOMAIN ev : R[f].kind = ev[f].kind /\ R[f].status = ev[f].status
  BY <1>1, <1>3, RetargetFacts
<1>5. PendingUnique(R)  BY <1>1, <1>3, RetargetUnique
<1> HIDE DEF R, t
<1>6. PendingHasWork(R, ds)  BY <1>1, <1>4 DEF PendingHasWork
<1>7. Belong(R, ds)  BY <1>1, <1>4 DEF Belong
<1>8. t \in SoundTables  BY <1>1, <1>2, <1>4, <1>5, <1>6, <1>7 DEF SoundTables, Sound
<1>9. Kept(s, t)
  <2>1. s.events = ev /\ s.disp = ds  BY DEF ev, ds
  <2>2. \A d \in DOMAIN ds : R[ds[d].event].kind = ev[ds[d].event].kind
    BY <1>1, <1>4 DEF Belong
  <2> QED  BY <1>2, <1>4, <2>1, <2>2 DEF Kept, RowKept, KindOf
<1> QED  BY <1>8, <1>9 DEF ev, ds, R, t

\* mergeRouteAlertCollisionDispatches keeps dispatches, whatever becomes of the alerts
\* otherwise.
LEMMA MergeKeeps ==
    ASSUME NEW s \in SoundTables, NEW k \in DOMAIN s.events, NEW dup \in DOMAIN s.events,
           s.events[k].kind = s.events[dup].kind,
           NEW t, t.disp = Merged(s.disp, k, dup), DOMAIN t.events = DOMAIN s.events,
           \A f \in DOMAIN s.events : t.events[f].kind = s.events[f].kind
    PROVE  Kept(s, t)
<1> DEFINE ds == s.disp
           M == Merged(ds, k, dup)
<1>1. ds \in DispatchTables /\ s.events \in EventTables /\ Belong(s.events, ds)
  BY DEF SoundTables, Tables
<1>2. k \in 1..MaxEvents  BY <1>1, EventTable, RouteAssumption DEF Belong
<1> HIDE DEF ds
<1>3. DOMAIN M = DOMAIN ds  BY <1>1, <1>2, MergedRows
<1>4. s.disp = ds /\ t.disp = M  BY DEF ds
<1>5. ASSUME NEW d \in DOMAIN ds PROVE RowKept(s, t, d)
  <2>1. ds[d].event \in DOMAIN s.events  BY <1>1 DEF Belong
  <2>2. CASE M[d] = ds[d]
    BY <2>1, <2>2, <1>4 DEF RowKept, KindOf
  <2>3. CASE d \in Handled(ds, k, dup) /\ M[d] = Dispatch(k, ds[d].sink, ds[d].status)
    <3>1. ds[d].event = dup  BY <2>3, <1>1, HandledFacts
    <3>2. M[d].event = k /\ M[d].sink = ds[d].sink /\ M[d].status = ds[d].status
      BY <2>3 DEF Dispatch
    <3> QED  BY <3>1, <3>2, <1>4 DEF RowKept, KindOf
  <2>4. CASE /\ d \in Handled(ds, k, dup) /\ ds[d].status = "pending"
             /\ ClosedSink(ds, k, ds[d].sink) /\ M[d] = Dispatch(dup, ds[d].sink, "reset")
    <3>1. ds[d].event = dup  BY <2>4, <1>1, HandledFacts
    <3>2. M[d].event = dup /\ M[d].sink = ds[d].sink /\ M[d].status = "reset"
      BY <2>4 DEF Dispatch
    <3>3. PICK c \in DOMAIN ds : /\ ds[c].event = k /\ ds[c].sink = ds[d].sink
                                 /\ ds[c].status \in ClosedStatuses
      BY <2>4 DEF ClosedSink, RowsOf
    <3>4. Told(s, d)  BY <3>1, <3>3, <1>4 DEF Told, KindOf
    <3>5. KindOf(t, d) = KindOf(s, d)  BY <3>1, <3>2, <1>4 DEF KindOf
    <3> QED  BY <3>2, <3>4, <3>5, <2>4, <1>4 DEF RowKept
  <2> QED  BY <2>2, <2>3, <2>4, <1>1, <1>2, MergedRows
<1> QED  BY <1>3, <1>4, <1>5 DEF Kept

\* After a merge that is deferred both alerts are open and have work; after one that is
\* not the duplicate is closed and has none.
LEMMA MergedSound ==
    ASSUME NEW s \in SoundTables, NEW k \in DOMAIN s.events, NEW dup \in DOMAIN s.events, k # dup,
           s.events[k].status = "pending", s.events[dup].status = "pending"
    PROVE  /\ Merged(s.disp, k, dup) \in DispatchTables
           /\ Belong(s.events, Merged(s.disp, k, dup))
           /\ OneRowPerSink(Merged(s.disp, k, dup))
           /\ Deferred(s.disp, k, dup) => PendingHasWork(s.events, Merged(s.disp, k, dup))
           /\ ~Deferred(s.disp, k, dup) =>
                  PendingHasWork(WithStatus(s.events, dup, "reset"), Merged(s.disp, k, dup))
<1> DEFINE ev == s.events
           ds == s.disp
           M == Merged(ds, k, dup)
           closed == WithStatus(ev, dup, "reset")
<1>1. /\ ev \in EventTables /\ ds \in DispatchTables
      /\ Belong(ev, ds) /\ OneRowPerSink(ds) /\ PendingHasWork(ev, ds)
      /\ k \in DOMAIN ev /\ dup \in DOMAIN ev /\ ev[k].status = "pending" /\ ev[dup].status = "pending"
  BY DEF SoundTables, Tables, Sound
<1> HIDE DEF ev, ds
<1>2. k \in 1..MaxEvents  BY <1>1, EventTable, RouteAssumption DEF Belong
<1>3. M \in DispatchTables /\ DOMAIN M = DOMAIN ds  BY <1>1, <1>2, MergedRows
<1>4. OneRowPerSink(M)  BY <1>1, <1>2, MergedOneRowPerSink
<1>5. /\ ActiveRowsOf(ds, k) \subseteq ActiveRowsOf(M, k)
      /\ ActiveRowsOf(M, dup) # {} <=> Deferred(ds, k, dup)
      /\ \A e : e \notin {k, dup} => ActiveRowsOf(M, e) = ActiveRowsOf(ds, e)
  BY <1>1, <1>2, MergedActive
<1>6. ASSUME NEW d \in DOMAIN ds PROVE M[d].event \in DOMAIN ev
  <2>1. CASE M[d] = ds[d]  BY <2>1, <1>1 DEF Belong
  <2>2. CASE M[d] # ds[d]
    <3>1. \/ M[d] = Dispatch(k, ds[d].sink, ds[d].status)
          \/ M[d] = Dispatch(dup, ds[d].sink, "reset")
      BY <2>2, <1>1, <1>2, MergedRows
    <3> QED  BY <3>1, <1>1 DEF Dispatch
  <2> QED  BY <2>1, <2>2
<1> HIDE DEF M
<1>7. Belong(ev, M)  BY <1>1, <1>3, <1>6 DEF Belong
<1>8. ActiveRowsOf(M, k) # {}
  <2>1. ActiveRowsOf(ds, k) # {}  BY <1>1 DEF PendingHasWork
  <2> QED  BY <2>1, <1>5
<1>9. ASSUME Deferred(ds, k, dup) PROVE PendingHasWork(ev, M)
  <2> SUFFICES ASSUME NEW f \in DOMAIN ev
               PROVE  ev[f].status = "pending" <=> ActiveRowsOf(M, f) # {}
    BY DEF PendingHasWork
  <2>1. CASE f \in {k, dup}  BY <2>1, <1>1, <1>5, <1>8, <1>9
  <2>2. CASE f \notin {k, dup}  BY <2>2, <1>1, <1>5 DEF PendingHasWork
  <2> QED  BY <2>1, <2>2
<1>10. ASSUME ~Deferred(ds, k, dup) PROVE PendingHasWork(closed, M)
  <2>1. /\ DOMAIN closed = DOMAIN ev
        /\ closed[dup] = Event(ev[dup].target, ev[dup].kind, "reset")
        /\ \A f \in DOMAIN ev : f # dup => closed[f] = ev[f]
    BY <1>1, WithStatusFacts DEF EventStatuses
  <2>2. closed[dup].status = "reset"  BY <2>1 DEF Event
  <2> HIDE DEF closed
  <2> SUFFICES ASSUME NEW f \in DOMAIN ev
               PROVE  closed[f].status = "pending" <=> ActiveRowsOf(M, f) # {}
    BY <2>1 DEF PendingHasWork
  <2>3. CASE f = dup  BY <2>2, <2>3, <1>5, <1>10
  <2>4. CASE f = k  BY <2>1, <2>4, <1>1, <1>8
  <2>5. CASE f \notin {k, dup}  BY <2>1, <2>5, <1>1, <1>5 DEF PendingHasWork
  <2> QED  BY <2>3, <2>4, <2>5
<1> QED  BY <1>3, <1>4, <1>7, <1>9, <1>10 DEF ev, ds, M, closed

\* What a move may leave behind: sound tables that have kept the dispatches of a.
From(a) == {s \in SoundTables : Kept(a, s)}

\* One alert of migrateAlertRouteIdentity.
LEMMA MoveOneKeeps ==
    ASSUME NEW s \in SoundTables, NEW e \in DOMAIN s.events,
           NEW old \in Targets, NEW new \in Targets
    PROVE  MoveOne(s, e, old, new) \in From(s)
<1>1. CASE s.events[e].status # "pending" \/ Colliding(s.events, e, new) = {}
  <2>1. MoveOne(s, e, old, new) = State(Retarget(s.events, e, new), s.disp, s.edges, TRUE)
    BY <1>1 DEF MoveOne
  <2> QED  BY <2>1, <1>1, MoveAlone DEF From
<1>2. CASE s.events[e].status = "pending" /\ Colliding(s.events, e, new) # {}
  <2> DEFINE ev == s.events
             dup == Min(Colliding(ev, e, new))
             M == Merged(s.disp, e, dup)
             closed == WithStatus(ev, dup, "reset")
  <2>1. /\ ev \in EventTables /\ s.disp \in DispatchTables
        /\ s.edges \in SUBSET (Targets \X Targets) /\ s.moved \in BOOLEAN
        /\ PendingUnique(ev) /\ Belong(ev, s.disp)
    BY DEF SoundTables, Tables, Sound
  <2>2. Colliding(ev, e, new) = {dup}  BY <2>1, <1>2, OneDuplicate
  <2>3. /\ dup \in DOMAIN ev /\ dup # e /\ ev[dup].status = "pending"
        /\ ev[dup].kind = ev[e].kind /\ ev[dup].target = new
    <3> HIDE DEF dup
    <3>1. dup \in Colliding(ev, e, new)  BY <2>2
    <3> QED  BY <3>1 DEF Colliding
  <2>4. MoveOne(s, e, old, new) =
          IF Deferred(s.disp, e, dup)
          THEN State(ev, M, s.edges \cup {<<old, new>>}, s.moved)
          ELSE State(Retarget(closed, e, new), M, s.edges, TRUE)
    BY <1>2 DEF MoveOne
  <2> HIDE DEF dup
  <2>5. /\ M \in DispatchTables /\ Belong(ev, M) /\ OneRowPerSink(M)
        /\ Deferred(s.disp, e, dup) => PendingHasWork(ev, M)
        /\ ~Deferred(s.disp, e, dup) => PendingHasWork(closed, M)
    BY <1>2, <2>3, MergedSound
  <2>6. CASE Deferred(s.disp, e, dup)
    <3> DEFINE t == State(ev, M, s.edges \cup {<<old, new>>}, s.moved)
    <3>1. t.events = ev /\ t.disp = M /\ t \in Tables  BY <2>1, <2>5 DEF State, Tables
    <3>2. MoveOne(s, e, old, new) = t  BY <2>4, <2>6
    <3> HIDE DEF t
    <3>3. t \in SoundTables  BY <3>1, <2>1, <2>5, <2>6 DEF SoundTables, Sound
    <3>4. Kept(s, t)  BY <3>1, <2>3, MergeKeeps
    <3> QED  BY <3>2, <3>3, <3>4 DEF From
  <2>7. CASE ~Deferred(s.disp, e, dup)
    <3> DEFINE R == Retarget(closed, e, new)
               t == State(R, M, s.edges, TRUE)
    <3>1. /\ closed \in EventTables /\ DOMAIN closed = DOMAIN ev /\ Len(closed) = Len(ev)
          /\ closed[dup] = Event(ev[dup].target, ev[dup].kind, "reset")
          /\ \A f \in DOMAIN ev : f # dup => closed[f] = ev[f]
          /\ \A f \in DOMAIN ev : closed[f].kind = ev[f].kind
      BY <2>1, <2>3, WithStatusFacts DEF EventStatuses
    <3>2. closed[dup].status = "reset"  BY <3>1 DEF Event
    <3> HIDE DEF closed
    <3>3. PendingUnique(closed)  BY <3>1, <3>2, <2>1 DEF PendingUnique
    <3>4. Colliding(closed, e, new) = {}
      <4> SUFFICES ASSUME NEW f \in Colliding(closed, e, new) PROVE FALSE  OBVIOUS
      <4>1. f # dup  BY <3>2 DEF Colliding
      <4>2. f \in DOMAIN ev /\ closed[f] = ev[f] /\ closed[e] = ev[e]
        BY <4>1, <3>1, <2>3 DEF Colliding
      <4>3. f \in Colliding(ev, e, new)  BY <4>2, <3>1 DEF Colliding
      <4> QED  BY <4>1, <4>3, <2>2
    <3>5. PendingUnique(R)  BY <3>1, <3>3, <3>4, RetargetUnique
    <3>6. /\ R \in EventTables /\ DOMAIN R = DOMAIN ev /\ Len(R) = Len(ev)
          /\ \A f \in DOMAIN ev : R[f].kind = ev[f].kind /\ R[f].status = closed[f].status
      BY <3>1, RetargetFacts
    <3>7. t.events = R /\ t.disp = M /\ t \in Tables  BY <3>6, <2>1, <2>5 DEF State, Tables
    <3>8. MoveOne(s, e, old, new) = t  BY <2>4, <2>7
    <3> HIDE DEF R, t
    <3>9. PendingHasWork(R, M)  BY <3>1, <3>6, <2>5, <2>7 DEF PendingHasWork
    <3>10. Belong(R, M)  BY <3>6, <2>5 DEF Belong
    <3>11. t \in SoundTables  BY <3>5, <3>7, <3>9, <3>10, <2>5 DEF SoundTables, Sound
    <3>12. Kept(s, t)  BY <3>6, <3>7, <2>3, MergeKeeps
    <3> QED  BY <3>8, <3>11, <3>12 DEF From
  <2> QED  BY <2>6, <2>7
<1> QED  BY <1>1, <1>2

-----------------------------------------------------------------------------
(* The loops around it *)

\* Tables that differ in their edges only are as good.
LEMMA SameRows ==
    ASSUME NEW a, NEW s \in From(a), NEW t \in Tables, t.events = s.events, t.disp = s.disp
    PROVE  t \in From(a)
<1>1. t \in SoundTables  BY DEF From, SoundTables
<1>2. Kept(a, t)  BY DEF From, Kept, RowKept, KindOf
<1> QED  BY <1>1, <1>2 DEF From

\* One alert more.
LEMMA OneMoreMove ==
    ASSUME NEW a, NEW s \in From(a), NEW old \in Targets, NEW new \in Targets,
           NEW x \in From(a), NEW e \in MutableAt(s.events, old)
    PROVE  MoveOne(x, e, old, new) \in From(a)
<1>1. x \in SoundTables /\ Kept(a, x) /\ Kept(a, s)  BY DEF From
<1>2. e \in DOMAIN x.events  BY <1>1 DEF MutableAt, Kept
<1>3. MoveOne(x, e, old, new) \in From(x)  BY <1>1, <1>2, MoveOneKeeps
<1>4. MoveOne(x, e, old, new) \in SoundTables /\ Kept(x, MoveOne(x, e, old, new))
  BY <1>3 DEF From
<1> QED  BY <1>1, <1>4, KeptTwice DEF From

\* migrateAlertRouteIdentity.
LEMMA MigrateFrom ==
    ASSUME NEW a, NEW s \in From(a), NEW old \in Targets, NEW new \in Targets
    PROVE  Migrate(s, old, new) \subseteq From(a)
<1>1. s \in SoundTables  BY DEF From
<1>2. Len(s.events) \in Nat
  <2>1. s.events \in EventTables  BY <1>1 DEF SoundTables, Tables
  <2> QED  BY <2>1, EventTable
<1>3. \A x \in From(a), e \in MutableAt(s.events, old) : MoveOne(x, e, old, new) \in From(a)
  BY OneMoreMove
<1> QED  BY <1>2, <1>3, MigrateKeeps

\* One pass over edges between targets.
LEMMA PassFrom ==
    ASSUME NEW a, NEW s \in From(a), NEW queue \in SUBSET (Targets \X Targets)
    PROVE  Pass(s, queue) \subseteq From(a)
<1>1. State(s.events, s.disp, s.edges, FALSE) \in From(a)
  <2> DEFINE t == State(s.events, s.disp, s.edges, FALSE)
  <2>1. t \in Tables /\ t.events = s.events /\ t.disp = s.disp
    BY DEF From, SoundTables, Tables, State
  <2> HIDE DEF t
  <2>2. t \in From(a)  BY <2>1, SameRows
  <2> QED  BY <2>2 DEF t
<1>2. ASSUME NEW x \in From(a), NEW edge \in queue
      PROVE  Migrate(x, edge[1], edge[2]) \subseteq From(a)
  <2>1. edge[1] \in Targets /\ edge[2] \in Targets  OBVIOUS
  <2> QED  BY <2>1, MigrateFrom
<1> QED  BY <1>1, <1>2, PassKeeps

\* There are finitely many edges.
LEMMA FiniteEdges ==
    ASSUME NEW queue \in SUBSET (Targets \X Targets) PROVE IsFiniteSet(queue)
<1>1. 1 \in Int /\ NumTargets \in Int  BY RouteAssumption
<1>2. IsFiniteSet(Targets)  BY <1>1, FS_Interval DEF Targets
<1>3. IsFiniteSet(Targets \X Targets)  BY <1>2, FS_Product
<1> QED  BY <1>3, FS_Subset

\* applyDeferredAlertRouteReconciliations.
LEMMA ReplayFrom ==
    ASSUME NEW a, NEW s \in From(a)
    PROVE  Replay(s) \subseteq From(a)
<1>1. s.edges \in SUBSET (Targets \X Targets)  BY DEF From, SoundTables, Tables
<1>2. IsFiniteSet(s.edges)  BY <1>1, FiniteEdges
<1>3. State(s.events, s.disp, s.edges, TRUE) \in From(a)
  <2> DEFINE t == State(s.events, s.disp, s.edges, TRUE)
  <2>1. t \in Tables /\ t.events = s.events /\ t.disp = s.disp
    BY DEF From, SoundTables, Tables, State
  <2> HIDE DEF t
  <2>2. t \in From(a)  BY <2>1, SameRows
  <2> QED  BY <2>2 DEF t
<1>4. \A x \in From(a) : Pass(x, s.edges) \subseteq From(a)  BY <1>1, PassFrom
<1>5. Passes(s) \subseteq From(a)  BY <1>2, <1>3, <1>4, PassesKeep
<1>6. ASSUME NEW x \in From(a) PROVE Dropped(x) \in From(a)
  <2>1. /\ Dropped(x) \in Tables
        /\ Dropped(x).events = x.events /\ Dropped(x).disp = x.disp
    BY DEF From, SoundTables, Tables, Dropped, State
  <2> QED  BY <2>1, SameRows
<1> QED  BY <1>5, <1>6 DEF Replay

-----------------------------------------------------------------------------
(* What the last pass leaves *)

\* An alert that migrateAlertRouteIdentity does not move meets a pending one.
LEMMA MoveOneStays ==
    ASSUME NEW s \in Tables, NEW e, NEW old, NEW new
    PROVE  LET t == MoveOne(s, e, old, new) IN
           t.moved \/ (~s.moved /\ t.events = s.events /\ Waits(s, e, new))
<1> DEFINE t == MoveOne(s, e, old, new)
<1>1. CASE s.events[e].status # "pending" \/ Colliding(s.events, e, new) = {}
  <2>1. t = State(Retarget(s.events, e, new), s.disp, s.edges, TRUE)  BY <1>1 DEF MoveOne
  <2> QED  BY <2>1 DEF State
<1>2. CASE s.events[e].status = "pending" /\ Colliding(s.events, e, new) # {}
  <2> DEFINE dup == Min(Colliding(s.events, e, new))
             M == Merged(s.disp, e, dup)
  <2>1. t = IF Deferred(s.disp, e, dup)
            THEN State(s.events, M, s.edges \cup {<<old, new>>}, s.moved)
            ELSE State(Retarget(WithStatus(s.events, dup, "reset"), e, new), M, s.edges, TRUE)
    BY <1>2 DEF MoveOne
  <2>2. s.moved \in BOOLEAN  BY DEF Tables
  <2> HIDE DEF t, dup, M
  <2>3. CASE Deferred(s.disp, e, dup)
    <3>1. t.moved = s.moved /\ t.events = s.events  BY <2>1, <2>3 DEF State
    <3> QED  BY <3>1, <2>2, <1>2 DEF Waits, t
  <2>4. CASE ~Deferred(s.disp, e, dup)
    <3>1. t.moved = TRUE  BY <2>1, <2>4 DEF State
    <3> QED  BY <3>1 DEF t
  <2> QED  BY <2>3, <2>4
<1> QED  BY <1>1, <1>2

\* A migration without a move has left the alerts as they were, each of which waits.
LEMMA MigrateStays ==
    ASSUME NEW st \in SoundTables, NEW old \in Targets, NEW new \in Targets,
           NEW t \in Migrate(st, old, new), ~t.moved
    PROVE  /\ ~st.moved /\ t.events = st.events
           /\ \A e \in MutableAt(st.events, old) : Waits(st, e, new)
<1> DEFINE m == Len(st.events)
           Stays(s, k) == /\ ~st.moved /\ s.events = st.events
                          /\ \A e \in MutableAt(st.events, old) : e <= k => Waits(st, e, new)
           Y == [k \in 0..m |-> {s \in From(st) : s.moved \/ Stays(s, k)}]
<1>1. m \in Nat /\ DOMAIN st.events = 1..m
  <2>1. st.events \in EventTables  BY DEF SoundTables, Tables
  <2> QED  BY <2>1, EventTable
<1>2. st \in From(st)  BY DEF From, Kept, RowKept
<1>3. \A s \in From(st), e \in MutableAt(st.events, old) : MoveOne(s, e, old, new) \in From(st)
  BY <1>2, OneMoreMove
<1>4. PICK f : MigrateCourse(f, st, old, new)  BY <1>1, <1>2, <1>3, MigrateRuns
<1>5. f[0] \subseteq Y[0]
  <2>1. \A e \in MutableAt(st.events, old) : ~(e <= 0)  BY <1>1 DEF MutableAt
  <2>2. st.moved \in BOOLEAN  BY DEF SoundTables, Tables
  <2>3. st \in Y[0]  BY <1>1, <1>2, <2>1, <2>2
  <2> QED  BY <2>3, <1>4 DEF MigrateCourse
<1>6. ASSUME NEW k \in 1..m, f[k - 1] \subseteq Y[k - 1] PROVE f[k] \subseteq Y[k]
  <2>1. k \in 0..m /\ k - 1 \in 0..m  BY <1>1
  <2>2. Y[k] = {s \in From(st) : s.moved \/ Stays(s, k)}  BY <2>1
  <2>3. \A s \in f[k - 1] : s \in From(st) /\ (s.moved \/ Stays(s, k - 1))  BY <2>1, <1>6
  <2> HIDE DEF Y
  <2>4. CASE k \in MutableAt(st.events, old)
    <3>1. f[k] = {MoveOne(s, k, old, new) : s \in f[k - 1]}  BY <1>4, <2>4 DEF MigrateCourse, m
    <3>2. ASSUME NEW s \in f[k - 1] PROVE MoveOne(s, k, old, new) \in Y[k]
      <4> DEFINE u == MoveOne(s, k, old, new)
      <4>1. s \in Tables /\ s \in From(st)  BY <2>3 DEF From, SoundTables
      <4>2. u.moved \/ (~s.moved /\ u.events = s.events /\ Waits(s, k, new))  BY <4>1, MoveOneStays
      <4>3. u \in From(st)  BY <4>1, <2>4, <1>3
      <4> HIDE DEF u
      <4>4. ASSUME ~u.moved PROVE Stays(u, k)
        <5>1. Stays(s, k - 1) /\ u.events = s.events /\ Waits(s, k, new)  BY <4>2, <4>4, <2>3
        <5>2. Waits(st, k, new)  BY <5>1 DEF Waits
        <5>3. ASSUME NEW e \in MutableAt(st.events, old), e <= k PROVE Waits(st, e, new)
          <6>1. e \in 1..m  BY <1>1 DEF MutableAt
          <6>2. e <= k - 1 \/ e = k  BY <6>1, <5>3, <1>1
          <6> QED  BY <6>2, <5>1, <5>2
        <5> QED  BY <5>1, <5>3
      <4>5. u \in Y[k]
        <5>1. u.moved \/ Stays(u, k)  BY <4>4
        <5> HIDE DEF Stays
        <5> QED  BY <5>1, <4>3, <2>2
      <4> QED  BY <4>5 DEF u
    <3> QED  BY <3>1, <3>2
  <2>5. CASE k \notin MutableAt(st.events, old)
    <3>1. f[k] = f[k - 1]  BY <1>4, <2>5 DEF MigrateCourse, m
    <3>2. ASSUME NEW s, Stays(s, k - 1) PROVE Stays(s, k)
      <4> SUFFICES ASSUME NEW e \in MutableAt(st.events, old), e <= k PROVE Waits(st, e, new)
        BY <3>2
      <4>1. e \in 1..m /\ e # k  BY <1>1, <2>5 DEF MutableAt
      <4>2. e <= k - 1  BY <4>1, <1>1
      <4> QED  BY <4>2, <3>2
    <3> HIDE DEF Stays
    <3> QED  BY <3>1, <3>2, <2>2, <2>3
  <2> QED  BY <2>4, <2>5
<1>7. f[m] \subseteq Y[m]
  <2> HIDE DEF Y, m
  <2> QED  BY <1>1, <1>5, <1>6, LoopReaches
<1>8. t \in Y[m]  BY <1>4, <1>7 DEF MigrateCourse
<1>9. Stays(t, m)  BY <1>1, <1>8
<1>10. \A e \in MutableAt(st.events, old) : e <= m  BY <1>1 DEF MutableAt
<1> QED  BY <1>9, <1>10

\* Quotient and remainder.
LEMMA Division ==
    ASSUME NEW n \in Nat, n > 0, NEW x \in Nat
    PROVE  x \div n \in Int /\ x % n \in 0..(n - 1) /\ x = n * (x \div n) + (x % n)
<1>1. x \div n \in Int  BY SMT
<1>2. x % n \in 0..(n - 1)  BY SMT
<1>3. x = n * (x \div n) + (x % n)  BY SMT
<1> QED  BY <1>1, <1>2, <1>3

\* Every pair of targets is an edge of a pass.
LEMMA EdgeFound ==
    ASSUME NEW a \in Targets, NEW b \in Targets
    PROVE  \E k \in 1..NumEdges : Edge(k) = <<a, b>>
<1> DEFINE n == NumTargets
           k == n * (a - 1) + b
           q == (k - 1) \div n
           r == (k - 1) % n
<1>1. n \in Nat /\ n > 0 /\ a \in 1..n /\ b \in 1..n  BY RouteAssumption DEF Targets
<1> HIDE DEF n
<1>2. n * (a - 1) \in Nat
  BY <1>1
<1>3. k - 1 = n * (a - 1) + (b - 1) /\ k - 1 \in Nat /\ k >= 1  BY <1>1, <1>2
<1>4. k <= n * n
  <2>1. n * n = n * (a - 1) + n * (n - (a - 1))  BY <1>1
  <2>2. n * (n - (a - 1)) >= n  BY <1>1
  <2> QED  BY <1>1, <1>2, <2>1, <2>2
<1>5. k - 1 = n * q + r /\ q \in Int /\ r \in 0..(n - 1)
  <2> HIDE DEF k
  <2> QED  BY <1>1, <1>3, Division
<1> HIDE DEF q, r, k
<1>6. q = a - 1
  <2>1. CASE q >= a
    <3>1. n * q >= n * a  BY <1>1, <1>5, <2>1
    <3>2. n * a = n * (a - 1) + n  BY <1>1
    <3> QED  BY <3>1, <3>2, <1>1, <1>2, <1>3, <1>5
  <2>2. CASE q <= a - 2
    <3>1. n * q <= n * (a - 2)  BY <1>1, <1>5, <2>2
    <3>2. n * (a - 2) = n * (a - 1) - n  BY <1>1
    <3> QED  BY <3>1, <3>2, <1>1, <1>2, <1>3, <1>5
  <2> QED  BY <2>1, <2>2, <1>1, <1>5
<1>7. r = b - 1  BY <1>1, <1>2, <1>3, <1>5, <1>6
<1>8. Edge(k) = <<a, b>>
  <2>1. Edge(k) = <<q + 1, r + 1>>  BY DEF Edge, q, r, n
  <2> QED  BY <2>1, <1>1, <1>6, <1>7
<1>9. k \in 1..NumEdges  BY <1>1, <1>2, <1>3, <1>4 DEF NumEdges, n, k
<1> QED  BY <1>8, <1>9

\* A pass in which no alert has moved has left every alert, and each at the beginning
\* of an edge waits.
LEMMA PassStays ==
    ASSUME NEW st \in SoundTables, NEW queue \in SUBSET (Targets \X Targets),
           NEW t \in Pass(st, queue), ~t.moved
    PROVE  t.events = st.events /\ AllWait(st, queue)
<1> DEFINE m == NumEdges
           start == State(st.events, st.disp, st.edges, FALSE)
           WaitAt(edge) == \A e \in MutableAt(st.events, edge[1]) : Waits(st, e, edge[2])
           Stays(s, k) == /\ s.events = st.events
                          /\ \A j \in 1..k : Edge(j) \in queue => WaitAt(Edge(j))
           Y == [k \in 0..m |-> {s \in From(st) : s.moved \/ Stays(s, k)}]
<1>1. m \in Nat  BY EdgesCounted
<1>2. start \in From(st) /\ start.events = st.events
  <2>1. start \in Tables /\ start.events = st.events /\ start.disp = st.disp
    BY DEF SoundTables, Tables, State
  <2>2. st \in From(st)  BY DEF From, Kept, RowKept
  <2> HIDE DEF start
  <2> QED  BY <2>1, <2>2, SameRows
<1>3. \A s \in From(st), edge \in queue : Migrate(s, edge[1], edge[2]) \subseteq From(st)
  <2> SUFFICES ASSUME NEW s \in From(st), NEW edge \in queue
               PROVE  Migrate(s, edge[1], edge[2]) \subseteq From(st)
    OBVIOUS
  <2>1. edge[1] \in Targets /\ edge[2] \in Targets  OBVIOUS
  <2> QED  BY <2>1, MigrateFrom
<1>4. PICK f : PassCourse(f, st, queue)  BY <1>2, <1>3, PassRuns
<1>5. f[0] \subseteq Y[0]
  <2>1. f[0] = {start}  BY <1>4 DEF PassCourse
  <2> HIDE DEF start
  <2>2. start \in Y[0]  BY <1>1, <1>2
  <2> QED  BY <2>1, <2>2
<1>6. ASSUME NEW k \in 1..m, f[k - 1] \subseteq Y[k - 1] PROVE f[k] \subseteq Y[k]
  <2>1. k \in 0..m /\ k - 1 \in 0..m  BY <1>1
  <2>2. Y[k] = {s \in From(st) : s.moved \/ Stays(s, k)}  BY <2>1
  <2>3. \A s \in f[k - 1] : s \in From(st) /\ (s.moved \/ Stays(s, k - 1))  BY <2>1, <1>6
  <2>4. \A j \in 1..k : j \in 1..(k - 1) \/ j = k  BY <1>1
  <2> HIDE DEF Y
  <2>5. CASE Edge(k) \in queue
    <3> DEFINE old == Edge(k)[1]
               new == Edge(k)[2]
    <3>1. f[k] = UNION {Migrate(s, old, new) : s \in f[k - 1]}  BY <1>4, <2>5 DEF PassCourse, m
    <3>2. old \in Targets /\ new \in Targets  BY <2>5
    <3>3. ASSUME NEW s \in f[k - 1], NEW u \in Migrate(s, old, new) PROVE u \in Y[k]
      <4>1. s \in From(st) /\ s \in SoundTables  BY <2>3 DEF From
      <4>2. u \in From(st)  BY <4>1, <2>5, <1>3, <3>3
      <4> HIDE DEF old, new
      <4>3. ASSUME ~u.moved PROVE Stays(u, k)
        <5>1. /\ ~s.moved /\ u.events = s.events
              /\ \A e \in MutableAt(s.events, old) : Waits(s, e, new)
          BY <4>1, <4>3, <3>2, <3>3, MigrateStays
        <5>2. Stays(s, k - 1)  BY <5>1, <2>3
        <5>3. \A e \in MutableAt(st.events, old) : Waits(st, e, new)
          BY <5>1, <5>2 DEF Waits
        <5>4. WaitAt(Edge(k))  BY <5>3 DEF old, new
        <5> HIDE DEF WaitAt
        <5> QED  BY <5>1, <5>2, <5>4, <2>4
      <4>4. u.moved \/ Stays(u, k)  BY <4>3
      <4> HIDE DEF Stays
      <4> QED  BY <4>2, <4>4, <2>2
    <3> HIDE DEF old, new
    <3> QED  BY <3>1, <3>3
  <2>6. CASE Edge(k) \notin queue
    <3>1. f[k] = f[k - 1]  BY <1>4, <2>6 DEF PassCourse, m
    <3>2. ASSUME NEW s, Stays(s, k - 1) PROVE Stays(s, k)
      <4> HIDE DEF WaitAt
      <4> QED  BY <3>2, <2>4, <2>6
    <3> HIDE DEF Stays
    <3> QED  BY <3>1, <3>2, <2>2, <2>3
  <2> QED  BY <2>5, <2>6
<1>7. f[m] \subseteq Y[m]
  <2> HIDE DEF Y, m
  <2> QED  BY <1>1, <1>5, <1>6, LoopReaches
<1>8. t \in Y[m]  BY <1>4, <1>7 DEF PassCourse
<1>9. Stays(t, m)
  <2> HIDE DEF Stays
  <2> QED  BY <1>1, <1>8
<1>10. ASSUME NEW edge \in queue PROVE WaitAt(edge)
  <2>1. edge[1] \in Targets /\ edge[2] \in Targets /\ edge = <<edge[1], edge[2]>>  OBVIOUS
  <2>2. PICK k \in 1..m : Edge(k) = edge  BY <2>1, EdgeFound
  <2> QED  BY <2>2, <1>9
<1> QED  BY <1>9, <1>10 DEF AllWait

\* When the passes have come to their end, every alert that is left waits.
LEMMA PassesStay ==
    ASSUME NEW st \in SoundTables, NEW t \in Passes(st), ~t.moved
    PROVE  AllWait(t, st.edges)
<1> DEFINE queue == st.edges
           X == {s \in From(st) : s.moved \/ AllWait(s, queue)}
           start == State(st.events, st.disp, queue, TRUE)
<1>1. queue \in SUBSET (Targets \X Targets) /\ IsFiniteSet(queue)
  BY FiniteEdges DEF SoundTables, Tables
<1>2. start \in X
  <2>1. start \in Tables /\ start.events = st.events /\ start.disp = st.disp /\ start.moved
    BY DEF SoundTables, Tables, State
  <2>2. st \in From(st)  BY DEF From, Kept, RowKept
  <2> HIDE DEF start
  <2> QED  BY <2>1, <2>2, SameRows
<1>3. ASSUME NEW s \in X PROVE Pass(s, queue) \subseteq X
  <2>1. s \in From(st) /\ s \in SoundTables  BY DEF From
  <2>2. Pass(s, queue) \subseteq From(st)  BY <2>1, <1>1, PassFrom
  <2>3. ASSUME NEW u \in Pass(s, queue), ~u.moved PROVE AllWait(u, queue)
    <3>1. u.events = s.events /\ AllWait(s, queue)  BY <2>1, <2>3, <1>1, PassStays
    <3> QED  BY <3>1 DEF AllWait, Waits
  <2> QED  BY <2>2, <2>3
<1> HIDE DEF X
<1>4. Passes(st) \subseteq X  BY <1>1, <1>2, <1>3, PassesKeep
<1> QED  BY <1>4 DEF X

\* applyDeferredAlertRouteReconciliations.
LEMMA ReplayStays ==
    ASSUME NEW st \in SoundTables, NEW t \in Replay(st), ~t.moved
    PROVE  AllWait(t, st.edges)
<1>1. PICK s \in Passes(st) : t = IF s.moved THEN s ELSE Dropped(s)  BY DEF Replay
<1>2. ~s.moved /\ t = Dropped(s)  BY <1>1
<1>3. t.events = s.events  BY <1>2 DEF Dropped, State
<1>4. AllWait(s, st.edges)  BY <1>2, PassesStay
<1> QED  BY <1>3, <1>4 DEF AllWait, Waits

-----------------------------------------------------------------------------
(* The passes are enough: where no merge is put off, every alert at the     *)
(* beginning of an edge moves in each pass, and never back.                 *)

\* Tables in which no merge would be put off.
Free == {s \in SoundTables : Unhindered(s.events, s.disp)}

\* A merge that is not put off stands in the way of no other one.
LEMMA MergedUnhindered ==
    ASSUME NEW ev \in EventTables, NEW ds \in DispatchTables, OneRowPerSink(ds), Unhindered(ev, ds),
           NEW k \in DOMAIN ev, NEW dup \in DOMAIN ev, k # dup, k \in 1..MaxEvents,
           ev[k].kind = ev[dup].kind, ev[k].status = "pending", ev[dup].status = "pending",
           NEW new, DOMAIN new = DOMAIN ev, new[dup].status # "pending",
           \A f \in DOMAIN ev : /\ new[f].kind = ev[f].kind
                                /\ new[f].status = "pending" => ev[f].status = "pending"
    PROVE  Unhindered(new, Merged(ds, k, dup))
<1> DEFINE M == Merged(ds, k, dup)
<1>1. DOMAIN M = DOMAIN ds  BY MergedRows
<1>2. ASSUME NEW d \in DOMAIN ds, M[d].event # dup
      PROVE  \/ M[d] = ds[d]
             \/ /\ M[d].event = k /\ M[d].sink = ds[d].sink /\ M[d].status = ds[d].status
                /\ ds[d].event = dup /\ ds[d].status \in ActiveStatuses
  <2>1. CASE M[d] = ds[d]  BY <2>1
  <2>2. CASE d \in Handled(ds, k, dup) /\ M[d] = Dispatch(k, ds[d].sink, ds[d].status)
    <3>1. ds[d].event = dup /\ ds[d].status \in ActiveStatuses  BY <2>2, HandledFacts
    <3> QED  BY <3>1, <2>2 DEF Dispatch
  <2>3. CASE M[d] = Dispatch(dup, ds[d].sink, "reset")  BY <2>3, <1>2 DEF Dispatch
  <2> QED  BY <2>1, <2>2, <2>3, MergedRows
<1>3. ASSUME NEW d \in DOMAIN ds, ds[d].event # dup PROVE M[d] = ds[d]
  <2>1. d \notin Handled(ds, k, dup)  BY <1>3, HandledFacts
  <2> QED  BY <2>1, MergedRows
<1>4. ASSUME NEW e, e # dup, NEW x, ClosedSink(ds, e, x) PROVE ClosedSink(M, e, x)
  <2>1. PICK c \in DOMAIN ds : ds[c].event = e /\ ds[c].sink = x /\ ds[c].status \in ClosedStatuses
    BY <1>4 DEF ClosedSink, RowsOf
  <2>2. M[c] = ds[c]  BY <2>1, <1>3, <1>4
  <2> HIDE DEF M
  <2> QED  BY <2>1, <2>2, <1>1 DEF ClosedSink, RowsOf
<1> HIDE DEF M
<1> SUFFICES ASSUME NEW e \in DOMAIN ev, NEW f \in DOMAIN ev, e # f, new[e].kind = new[f].kind,
                    new[e].status = "pending", new[f].status = "pending",
                    Deferred(M, e, f)
             PROVE  FALSE
  BY DEF Unhindered, M
<1>5. /\ e # dup /\ f # dup /\ ev[e].kind = ev[f].kind
      /\ ev[e].status = "pending" /\ ev[f].status = "pending"
  OBVIOUS
<1>6. ASSUME NEW a \in DOMAIN ev, NEW b \in DOMAIN ev, a # b, ev[a].kind = ev[b].kind,
             ev[a].status = "pending", ev[b].status = "pending",
             NEW d \in DOMAIN ds, ds[d].event = b, ds[d].status \in ActiveStatuses,
             HasSink(ds, a, ds[d].sink)
      PROVE  ds[d].status = "pending" /\ ClosedSink(ds, a, ds[d].sink)
  <2>1. ~Deferred(ds, a, b)  BY <1>6 DEF Unhindered
  <2>2. d \in ActiveRowsOf(ds, b)  BY <1>6 DEF ActiveRowsOf, RowsOf
  <2>3. ~Obstacle(ds, a, d)  BY <2>1, <2>2 DEF Deferred
  <2> QED  BY <2>3, <1>6 DEF Obstacle
<1>7. PICK d \in DOMAIN ds : /\ M[d].event = f /\ M[d].status \in ActiveStatuses
                             /\ HasSink(M, e, M[d].sink)
                             /\ ~(M[d].status = "pending" /\ ClosedSink(M, e, M[d].sink))
  BY <1>1 DEF Deferred, ActiveRowsOf, RowsOf, Obstacle
<1>8. PICK c \in DOMAIN ds : M[c].event = e /\ M[c].sink = M[d].sink
  BY <1>1, <1>7 DEF HasSink, RowsOf
<1>9. CASE M[d] = ds[d] /\ M[c] = ds[c]
  <2>1. HasSink(ds, e, ds[d].sink)  BY <1>8, <1>9 DEF HasSink, RowsOf
  <2>2. ds[d].status = "pending" /\ ClosedSink(ds, e, ds[d].sink)
    BY <2>1, <1>5, <1>6, <1>7, <1>9
  <2> QED  BY <2>2, <1>4, <1>5, <1>7, <1>9
<1>10. CASE M[d] = ds[d] /\ M[c] # ds[c]
  <2>1. e = k /\ ds[c].event = dup /\ ds[c].sink = ds[d].sink /\ ds[c].status \in ActiveStatuses
    BY <1>2, <1>5, <1>8, <1>10
  <2>2. HasSink(ds, dup, ds[d].sink)  BY <2>1 DEF HasSink, RowsOf
  <2>3. ClosedSink(ds, dup, ds[d].sink)
    BY <2>1, <2>2, <1>5, <1>6, <1>7, <1>10
  <2>4. PICK b \in DOMAIN ds : /\ ds[b].event = dup /\ ds[b].sink = ds[d].sink
                               /\ ds[b].status \in ClosedStatuses
    BY <2>3 DEF ClosedSink, RowsOf
  <2>5. b = c  BY <2>1, <2>4 DEF OneRowPerSink
  <2> QED  BY <2>1, <2>4, <2>5 DEF ActiveStatuses, ClosedStatuses
<1>11. CASE M[d] # ds[d]
  <2>1. /\ f = k /\ ds[d].event = dup /\ ds[d].sink = M[d].sink
        /\ ds[d].status = M[d].status /\ ds[d].status \in ActiveStatuses
    BY <1>2, <1>5, <1>7, <1>11
  <2>2. M[c] = ds[c]  BY <2>1, <1>2, <1>5, <1>8
  <2>3. HasSink(ds, e, ds[d].sink)  BY <2>1, <2>2, <1>8 DEF HasSink, RowsOf
  <2>4. ds[d].status = "pending" /\ ClosedSink(ds, e, ds[d].sink)
    BY <2>1, <2>3, <1>5, <1>6
  <2> QED  BY <2>1, <2>4, <1>4, <1>5, <1>7
<1> QED  BY <1>9, <1>10, <1>11

\* Of the alerts that are still open, only those of E have moved, to target new.
Only(s, t, E, new) ==
    /\ DOMAIN t.events = DOMAIN s.events
    /\ \A f \in DOMAIN s.events : Mutable(t.events[f]) =>
           /\ Mutable(s.events[f])
           /\ t.events[f].target = IF f \in E THEN new ELSE s.events[f].target

\* One alert of migrateAlertRouteIdentity: it moves.
LEMMA MoveOneFree ==
    ASSUME NEW s \in Free, NEW e \in DOMAIN s.events, NEW old \in Targets, NEW new \in Targets
    PROVE  /\ MoveOne(s, e, old, new) \in Free
           /\ Only(s, MoveOne(s, e, old, new), {e}, new)
<1> DEFINE ev == s.events
           t == MoveOne(s, e, old, new)
<1>1. /\ s \in SoundTables /\ ev \in EventTables /\ s.disp \in DispatchTables
      /\ PendingUnique(ev) /\ OneRowPerSink(s.disp) /\ Belong(ev, s.disp) /\ Unhindered(ev, s.disp)
  BY DEF Free, SoundTables, Tables, Sound
<1>2. t \in SoundTables  BY <1>1, MoveOneKeeps DEF From
<1>3. CASE ev[e].status # "pending" \/ Colliding(ev, e, new) = {}
  <2> DEFINE R == Retarget(ev, e, new)
  <2>1. t = State(R, s.disp, s.edges, TRUE)  BY <1>3 DEF MoveOne
  <2>2. t.events = R /\ t.disp = s.disp  BY <2>1 DEF State
  <2>3. /\ DOMAIN R = DOMAIN ev
        /\ R[e] = Event(new, ev[e].kind, ev[e].status)
        /\ \A f \in DOMAIN ev : f # e => R[f] = ev[f]
        /\ \A f \in DOMAIN ev : R[f].kind = ev[f].kind /\ R[f].status = ev[f].status
    BY <1>1, RetargetFacts
  <2>4. R[e].target = new  BY <2>3 DEF Event
  <2> HIDE DEF R, t
  <2>5. Unhindered(R, s.disp)  BY <2>3, <1>1 DEF Unhindered
  <2>6. Only(s, t, {e}, new)  BY <2>2, <2>3, <2>4 DEF Only, Mutable
  <2> QED  BY <2>2, <2>5, <2>6, <1>2 DEF Free, t
<1>4. CASE ev[e].status = "pending" /\ Colliding(ev, e, new) # {}
  <2> DEFINE dup == Min(Colliding(ev, e, new))
             M == Merged(s.disp, e, dup)
             closed == WithStatus(ev, dup, "reset")
             R == Retarget(closed, e, new)
  <2>1. Colliding(ev, e, new) = {dup}  BY <1>1, <1>4, OneDuplicate
  <2>2. t = IF Deferred(s.disp, e, dup)
            THEN State(ev, M, s.edges \cup {<<old, new>>}, s.moved)
            ELSE State(R, M, s.edges, TRUE)
    BY <1>4 DEF MoveOne
  <2> HIDE DEF dup
  <2>3. /\ dup \in DOMAIN ev /\ dup # e /\ ev[dup].status = "pending" /\ ev[dup].kind = ev[e].kind
    <3>1. dup \in Colliding(ev, e, new)  BY <2>1
    <3> QED  BY <3>1 DEF Colliding
  <2>4. ~Deferred(s.disp, e, dup)  BY <1>1, <1>4, <2>3 DEF Unhindered
  <2>5. t = State(R, M, s.edges, TRUE)  BY <2>2, <2>4
  <2>6. t.events = R /\ t.disp = M  BY <2>5 DEF State
  <2>7. /\ closed \in EventTables /\ DOMAIN closed = DOMAIN ev
        /\ closed[dup] = Event(ev[dup].target, ev[dup].kind, "reset")
        /\ \A f \in DOMAIN ev : f # dup => closed[f] = ev[f]
        /\ \A f \in DOMAIN ev : closed[f].kind = ev[f].kind
    <3>1. "reset" \in EventStatuses  BY DEF EventStatuses
    <3> HIDE DEF ev, M, R, t
    <3> QED  BY <3>1, <1>1, <2>3, WithStatusFacts
  <2>8. closed[dup].status = "reset"  BY <2>7 DEF Event
  <2> HIDE DEF closed, t
  <2>9. /\ DOMAIN R = DOMAIN ev
        /\ R[e] = Event(new, closed[e].kind, closed[e].status)
        /\ \A f \in DOMAIN ev : f # e => R[f] = closed[f]
        /\ \A f \in DOMAIN ev : R[f].kind = closed[f].kind /\ R[f].status = closed[f].status
    BY <2>7, RetargetFacts
  <2>10. R[e].target = new  BY <2>9 DEF Event
  <2> HIDE DEF R
  <2>11. e \in 1..MaxEvents  BY <1>1, EventTable, RouteAssumption DEF Belong
  <2>12. Unhindered(R, M)
    <3>1. R[dup].status # "pending"  BY <2>3, <2>8, <2>9
    <3>2. \A f \in DOMAIN ev : /\ R[f].kind = ev[f].kind
                               /\ R[f].status = "pending" => ev[f].status = "pending"
      BY <2>3, <2>7, <2>8, <2>9
    <3> HIDE DEF ev, M
    <3> QED  BY <3>1, <3>2, <1>1, <1>4, <2>3, <2>9, <2>11, MergedUnhindered DEF ev, M
  <2>13. Only(s, t, {e}, new)
    <3> SUFFICES ASSUME NEW f \in DOMAIN ev, Mutable(R[f])
                 PROVE  Mutable(ev[f]) /\ R[f].target = IF f = e THEN new ELSE ev[f].target
      BY <2>6, <2>9 DEF Only
    <3>1. f # dup  BY <2>3, <2>8, <2>9 DEF Mutable
    <3> QED  BY <3>1, <2>7, <2>9, <2>10 DEF Mutable
  <2> QED  BY <2>6, <2>12, <2>13, <1>2 DEF Free, t
<1> QED  BY <1>3, <1>4

\* migrateAlertRouteIdentity: all that it finds move.
LEMMA MigrateFree ==
    ASSUME NEW s \in Free, NEW old \in Targets, NEW new \in Targets, NEW t \in Migrate(s, old, new)
    PROVE  t \in Free /\ Only(s, t, MutableAt(s.events, old), new)
<1> DEFINE m == Len(s.events)
           found == MutableAt(s.events, old)
           upTo(k) == {e \in found : e <= k}
           X == {u \in Free : DOMAIN u.events = DOMAIN s.events}
           Y == [k \in 0..m |-> {u \in X : Only(s, u, upTo(k), new)}]
<1>1. /\ m \in Nat /\ DOMAIN s.events = 1..m
      /\ \A e \in found : e \in DOMAIN s.events /\ e \in Nat /\ 1 <= e /\ e <= m
  <2>1. s.events \in EventTables  BY DEF Free, SoundTables, Tables
  <2>2. m \in Nat /\ DOMAIN s.events = 1..m  BY <2>1, EventTable
  <2> QED  BY <2>2 DEF MutableAt
<1>2. ASSUME NEW u \in X, NEW e \in found
      PROVE  MoveOne(u, e, old, new) \in X /\ Only(u, MoveOne(u, e, old, new), {e}, new)
  <2>1. u \in Free /\ e \in DOMAIN u.events /\ DOMAIN u.events = DOMAIN s.events  BY <1>1, <1>2
  <2>2. /\ MoveOne(u, e, old, new) \in Free
        /\ Only(u, MoveOne(u, e, old, new), {e}, new)
    BY <2>1, MoveOneFree
  <2> QED  BY <2>1, <2>2 DEF Only
<1>3. s \in X  OBVIOUS
<1> HIDE DEF X
<1>4. PICK f : MigrateCourse(f, s, old, new)
  <2>1. \A u \in X, e \in MutableAt(s.events, old) : MoveOne(u, e, old, new) \in X  BY <1>2
  <2> QED  BY <1>1, <1>3, <2>1, MigrateRuns
<1> HIDE DEF found, m
<1>5. f[0] \subseteq Y[0]
  <2>1. f[0] = {s}  BY <1>4 DEF MigrateCourse
  <2>2. upTo(0) = {}  BY <1>1
  <2>3. Only(s, s, {}, new)  BY DEF Only
  <2>4. Only(s, s, upTo(0), new)  BY <2>2, <2>3
  <2> HIDE DEF upTo
  <2>5. s \in Y[0]  BY <1>1, <1>3, <2>4
  <2> QED  BY <2>1, <2>5
<1>6. ASSUME NEW k \in 1..m, f[k - 1] \subseteq Y[k - 1] PROVE f[k] \subseteq Y[k]
  <2>1. k \in 0..m /\ k - 1 \in 0..m  BY <1>1
  <2>2. upTo(k) = IF k \in found THEN upTo(k - 1) \cup {k} ELSE upTo(k - 1)
    <3>1. \A e \in found : e <= k <=> e <= k - 1 \/ e = k  BY <1>1
    <3> QED  BY <3>1, <1>1
  <2> HIDE DEF upTo
  <2>3. Y[k] = {u \in X : Only(s, u, upTo(k), new)}  BY <2>1
  <2>4. \A u \in f[k - 1] : u \in X /\ Only(s, u, upTo(k - 1), new)  BY <2>1, <1>6
  <2> HIDE DEF Y
  <2>5. CASE k \in found
    <3>1. f[k] = {MoveOne(u, k, old, new) : u \in f[k - 1]}
      BY <1>4, <2>5 DEF MigrateCourse, found, m
    <3>2. ASSUME NEW u \in f[k - 1] PROVE MoveOne(u, k, old, new) \in Y[k]
      <4> DEFINE v == MoveOne(u, k, old, new)
      <4>1. v \in X /\ Only(u, v, {k}, new) /\ Only(s, u, upTo(k - 1), new)
        BY <2>4, <2>5, <1>2
      <4> HIDE DEF v
      <4>2. Only(s, v, upTo(k - 1) \cup {k}, new)  BY <4>1 DEF Only
      <4> QED  BY <4>1, <4>2, <2>2, <2>3, <2>5 DEF v
    <3> QED  BY <3>1, <3>2
  <2>6. CASE k \notin found
    <3>1. f[k] = f[k - 1]  BY <1>4, <2>6 DEF MigrateCourse, found, m
    <3> QED  BY <3>1, <2>2, <2>3, <2>4, <2>6
  <2> QED  BY <2>5, <2>6
<1>7. f[m] \subseteq Y[m]
  <2> HIDE DEF Y
  <2> QED  BY <1>1, <1>5, <1>6, LoopReaches
<1>8. t \in X /\ Only(s, t, upTo(m), new)
  <2>1. t \in f[m]  BY <1>4 DEF MigrateCourse, m
  <2>2. m \in 0..m  BY <1>1
  <2> HIDE DEF upTo
  <2> QED  BY <2>1, <2>2, <1>7
<1>9. upTo(m) = found  BY <1>1
<1> QED  BY <1>8, <1>9 DEF X, found

\* An edge without an alert to move changes nothing.
LEMMA MigrateNone ==
    ASSUME NEW s \in SoundTables, NEW old, NEW new, MutableAt(s.events, old) = {}
    PROVE  Migrate(s, old, new) \subseteq {s}
<1>1. Len(s.events) \in Nat  BY EventTable DEF SoundTables, Tables
<1> QED  BY <1>1, MigrateKeeps

\* An order of targets in which edges lead upwards.
Upwards(rank, queue) ==
    /\ rank \in [Targets -> Targets]
    /\ queue \in SUBSET (Targets \X Targets)
    /\ \A edge \in queue : rank[edge[1]] < rank[edge[2]]

Starts(queue, x) == \E edge \in queue : edge[1] = x

\* Of the alerts that are still open, those at the beginning of an edge have moved
\* upwards, and no others have moved.
Onward(s, t, rank, queue) ==
    /\ DOMAIN t.events = DOMAIN s.events
    /\ \A e \in DOMAIN s.events : Mutable(t.events[e]) =>
           /\ Mutable(s.events[e])
           /\ IF Starts(queue, s.events[e].target)
              THEN rank[s.events[e].target] < rank[t.events[e].target]
              ELSE t.events[e].target = s.events[e].target

\* An edge more.
LEMMA OnwardStep ==
    ASSUME NEW s \in Free, NEW u \in Free, NEW v \in Free,
           NEW rank, NEW queue, NEW edge \in Targets \X Targets, Upwards(rank, queue \cup {edge}),
           Onward(s, u, rank, queue), Only(u, v, MutableAt(u.events, edge[1]), edge[2])
    PROVE  Onward(s, v, rank, queue \cup {edge})
<1> DEFINE Q == queue \cup {edge}
<1>1. /\ \A e \in DOMAIN s.events : s.events[e].target \in Targets
      /\ \A e \in DOMAIN u.events : u.events[e].target \in Targets
  <2>1. s.events \in EventTables /\ u.events \in EventTables  BY DEF Free, SoundTables, Tables
  <2> QED  BY <2>1, EventTable DEF EventRows
<1>2. /\ \A x \in Targets : rank[x] \in Nat
      /\ rank[edge[1]] < rank[edge[2]]
      /\ edge[1] \in Targets /\ edge[2] \in Targets
  <2>1. rank \in [Targets -> Targets] /\ rank[edge[1]] < rank[edge[2]]  BY DEF Upwards
  <2>2. Targets \subseteq Nat  BY RouteAssumption DEF Targets
  <2> QED  BY <2>1, <2>2
<1>3. \A x : Starts(Q, x) <=> Starts(queue, x) \/ x = edge[1]  BY DEF Starts
<1> SUFFICES ASSUME NEW e \in DOMAIN s.events, Mutable(v.events[e])
             PROVE  /\ Mutable(s.events[e])
                    /\ IF Starts(Q, s.events[e].target)
                       THEN rank[s.events[e].target] < rank[v.events[e].target]
                       ELSE v.events[e].target = s.events[e].target
  BY DEF Onward, Only
<1> DEFINE x == s.events[e].target
           y == u.events[e].target
           z == v.events[e].target
<1>4. /\ Mutable(u.events[e]) /\ Mutable(s.events[e]) /\ e \in DOMAIN u.events
      /\ z = IF y = edge[1] THEN edge[2] ELSE y
      /\ IF Starts(queue, x) THEN rank[x] < rank[y] ELSE y = x
  BY DEF Onward, Only, MutableAt
<1>5. x \in Targets /\ y \in Targets  BY <1>1, <1>4
<1> HIDE DEF x, y, z
<1>6. rank[x] \in Nat /\ rank[y] \in Nat /\ rank[edge[1]] \in Nat /\ rank[edge[2]] \in Nat
  BY <1>2, <1>5
<1>7. IF Starts(Q, x) THEN rank[x] < rank[z] ELSE z = x
  <2>1. CASE y = edge[1]
    <3>1. z = edge[2] /\ rank[y] < rank[z]  BY <2>1, <1>2, <1>4
    <3>2. rank[x] < rank[z]  BY <3>1, <1>2, <1>4, <1>6
    <3>3. Starts(Q, x)  BY <2>1, <1>3, <1>4
    <3> QED  BY <3>2, <3>3
  <2>2. CASE y # edge[1]
    <3>1. z = y  BY <2>2, <1>4
    <3> QED  BY <3>1, <2>2, <1>3, <1>4
  <2> QED  BY <2>1, <2>2
<1> QED  BY <1>4, <1>7 DEF x, y, z

\* One pass over the edges.
LEMMA PassFree ==
    ASSUME NEW s \in Free, NEW rank, NEW queue, Upwards(rank, queue), NEW t \in Pass(s, queue)
    PROVE  t \in Free /\ Onward(s, t, rank, queue)
<1> DEFINE m == NumEdges
           start == State(s.events, s.disp, s.edges, FALSE)
           done(k) == {edge \in queue : \E j \in 1..k : Edge(j) = edge}
           Y == [k \in 0..m |-> {u \in Free : Onward(s, u, rank, done(k))}]
<1>1. m \in Nat /\ queue \in SUBSET (Targets \X Targets)  BY EdgesCounted DEF Upwards
<1>2. start \in Free /\ start.events = s.events
  <2>1. start \in Tables /\ start.events = s.events /\ start.disp = s.disp
    BY DEF Free, SoundTables, Tables, State
  <2> HIDE DEF start
  <2> QED  BY <2>1 DEF Free, SoundTables
<1> HIDE DEF start
<1>3. \A u \in Free, edge \in queue :
          \A v \in Migrate(u, edge[1], edge[2]) :
              v \in Free /\ Only(u, v, MutableAt(u.events, edge[1]), edge[2])
  <2> SUFFICES ASSUME NEW u \in Free, NEW edge \in queue, NEW v \in Migrate(u, edge[1], edge[2])
               PROVE  v \in Free /\ Only(u, v, MutableAt(u.events, edge[1]), edge[2])
    OBVIOUS
  <2>1. edge[1] \in Targets /\ edge[2] \in Targets  BY <1>1
  <2> QED  BY <2>1, MigrateFree
<1>4. PICK f : PassCourse(f, s, queue)
  <2>1. \A u \in Free, edge \in queue : Migrate(u, edge[1], edge[2]) \subseteq Free  BY <1>3
  <2> QED  BY <1>2, <2>1, PassRuns DEF start
<1>5. f[0] \subseteq Y[0]
  <2>1. f[0] = {start}  BY <1>4 DEF PassCourse, start
  <2>2. done(0) = {}  OBVIOUS
  <2>3. Onward(s, start, rank, {})  BY <1>2 DEF Onward, Starts
  <2> HIDE DEF done
  <2>4. start \in Y[0]  BY <1>1, <1>2, <2>2, <2>3
  <2> QED  BY <2>1, <2>4
<1>6. ASSUME NEW k \in 1..m, f[k - 1] \subseteq Y[k - 1] PROVE f[k] \subseteq Y[k]
  <2>1. k \in 0..m /\ k - 1 \in 0..m  BY <1>1
  <2>2. done(k) = IF Edge(k) \in queue THEN done(k - 1) \cup {Edge(k)} ELSE done(k - 1)
    <3>1. \A j \in 1..k : j \in 1..(k - 1) \/ j = k  BY <1>1
    <3>2. 1..(k - 1) \subseteq 1..k /\ k \in 1..k  BY <1>1
    <3> QED  BY <3>1, <3>2
  <2>3. done(k) \subseteq queue  OBVIOUS
  <2> HIDE DEF done
  <2>4. Y[k] = {u \in Free : Onward(s, u, rank, done(k))}  BY <2>1
  <2>5. \A u \in f[k - 1] : u \in Free /\ Onward(s, u, rank, done(k - 1))  BY <2>1, <1>6
  <2> HIDE DEF Y
  <2>6. CASE Edge(k) \in queue
    <3> DEFINE edge == Edge(k)
    <3>1. f[k] = UNION {Migrate(u, edge[1], edge[2]) : u \in f[k - 1]}
      BY <1>4, <2>6 DEF PassCourse, m
    <3>2. edge \in queue  BY <2>6
    <3> HIDE DEF edge
    <3>3. ASSUME NEW u \in f[k - 1], NEW v \in Migrate(u, edge[1], edge[2]) PROVE v \in Y[k]
      <4>1. u \in Free /\ Onward(s, u, rank, done(k - 1))  BY <2>5
      <4>2. v \in Free /\ Only(u, v, MutableAt(u.events, edge[1]), edge[2])
        BY <4>1, <3>2, <1>3
      <4>3. done(k) = done(k - 1) \cup {edge}  BY <2>2, <2>6 DEF edge
      <4>4. Upwards(rank, done(k - 1) \cup {edge})  BY <4>3, <2>3, <1>1 DEF Upwards
      <4>5. edge \in Targets \X Targets  BY <3>2, <1>1
      <4>6. Onward(s, v, rank, done(k))  BY <4>1, <4>2, <4>3, <4>4, <4>5, OnwardStep
      <4> QED  BY <4>2, <4>6, <2>4
    <3> QED  BY <3>1, <3>3
  <2>7. CASE Edge(k) \notin queue
    <3>1. f[k] = f[k - 1]  BY <1>4, <2>7 DEF PassCourse, m
    <3> QED  BY <3>1, <2>2, <2>4, <2>5, <2>7
  <2> QED  BY <2>6, <2>7
<1>7. f[m] \subseteq Y[m]
  <2> HIDE DEF Y, m
  <2> QED  BY <1>1, <1>5, <1>6, LoopReaches
<1>8. t \in Free /\ Onward(s, t, rank, done(m))  BY <1>1, <1>4, <1>7 DEF PassCourse
<1>9. done(m) = queue
  <2>1. ASSUME NEW edge \in queue PROVE edge \in done(m)
    <3>1. edge[1] \in Targets /\ edge[2] \in Targets /\ edge = <<edge[1], edge[2]>>  BY <1>1
    <3>2. \E j \in 1..m : Edge(j) = edge  BY <3>1, EdgeFound
    <3> QED  BY <3>2
  <2> QED  BY <2>1
<1> QED  BY <1>8, <1>9

\* A pass without an alert to move changes nothing.
LEMMA PassNone ==
    ASSUME NEW s \in SoundTables, NEW queue, NEW t \in Pass(s, queue),
           \A edge \in queue : MutableAt(s.events, edge[1]) = {}
    PROVE  ~t.moved
<1> DEFINE start == State(s.events, s.disp, s.edges, FALSE)
<1>1. start \in SoundTables /\ start.events = s.events /\ ~start.moved
  <2>1. start \in Tables /\ start.events = s.events /\ start.disp = s.disp /\ ~start.moved
    BY DEF SoundTables, Tables, State
  <2> HIDE DEF start
  <2> QED  BY <2>1 DEF SoundTables
<1> HIDE DEF start
<1> DEFINE X == {start}
<1>2. \A u \in X, edge \in queue : Migrate(u, edge[1], edge[2]) \subseteq X
  BY <1>1, MigrateNone
<1>3. State(s.events, s.disp, s.edges, FALSE) \in X  BY DEF start
<1>4. Pass(s, queue) \subseteq X
  <2> HIDE DEF X
  <2> QED  BY <1>2, <1>3, PassKeeps
<1> QED  BY <1>1, <1>4

\* The edges that are not below a target, and a bound on those that an alert which can
\* move has before it.
Above(rank, queue, x) == {edge \in queue : rank[x] <= rank[edge[1]]}

AtMost(s, rank, queue, n) ==
    \A e \in DOMAIN s.events :
        Mutable(s.events[e]) /\ Starts(queue, s.events[e].target)
            => Cardinality(Above(rank, queue, s.events[e].target)) <= n

\* A pass brings each of them past an edge at least.
LEMMA OneLess ==
    ASSUME NEW s \in Free, NEW t \in Free, NEW rank, NEW queue, Upwards(rank, queue),
           Onward(s, t, rank, queue), NEW n \in Nat, AtMost(s, rank, queue, n + 1)
    PROVE  AtMost(t, rank, queue, n)
<1> SUFFICES ASSUME NEW e \in DOMAIN t.events, Mutable(t.events[e]), Starts(queue, t.events[e].target)
             PROVE  Cardinality(Above(rank, queue, t.events[e].target)) <= n
  BY DEF AtMost
<1> DEFINE x == s.events[e].target
           y == t.events[e].target
<1>1. /\ e \in DOMAIN s.events /\ Mutable(s.events[e])
      /\ IF Starts(queue, x) THEN rank[x] < rank[y] ELSE y = x
  BY DEF Onward
<1>2. x \in Targets /\ y \in Targets
  <2>1. s.events \in EventTables /\ t.events \in EventTables  BY DEF Free, SoundTables, Tables
  <2> QED  BY <2>1, <1>1, EventTable DEF EventRows
<1>3. Starts(queue, x) /\ rank[x] < rank[y]  BY <1>1
<1>4. Cardinality(Above(rank, queue, x)) <= n + 1  BY <1>1, <1>3 DEF AtMost
<1> HIDE DEF x, y
<1>5. PICK edge \in queue : edge[1] = x  BY <1>3 DEF Starts
<1>6. \A z \in Targets : rank[z] \in Nat
  <2>1. rank \in [Targets -> Targets]  BY DEF Upwards
  <2>2. Targets \subseteq Nat  BY RouteAssumption DEF Targets
  <2> QED  BY <2>1, <2>2
<1>7. queue \in SUBSET (Targets \X Targets) /\ IsFiniteSet(queue)  BY FiniteEdges DEF Upwards
<1> DEFINE A == Above(rank, queue, x)
           B == Above(rank, queue, y)
<1>8. edge \in A  BY <1>2, <1>5, <1>6 DEF Above
<1>9. B \subseteq A \ {edge}
  <2> SUFFICES ASSUME NEW g \in B PROVE g \in A /\ g # edge  OBVIOUS
  <2>1. g \in queue /\ rank[y] <= rank[g[1]] /\ g[1] \in Targets  BY <1>7 DEF Above
  <2>2. rank[x] \in Nat /\ rank[y] \in Nat /\ rank[g[1]] \in Nat  BY <2>1, <1>2, <1>6
  <2> QED  BY <2>1, <2>2, <1>3, <1>5 DEF Above
<1>10. IsFiniteSet(A)
  <2>1. A \subseteq queue  BY DEF Above
  <2> QED  BY <2>1, <1>7, FS_Subset
<1> HIDE DEF A, B
<1>11. /\ Cardinality(A \ {edge}) = Cardinality(A) - 1 /\ IsFiniteSet(A \ {edge})
       /\ Cardinality(A) \in Nat
  BY <1>8, <1>10, FS_RemoveElement, FS_CardinalityType
<1>12. Cardinality(B) <= Cardinality(A \ {edge}) /\ Cardinality(B) \in Nat
  BY <1>9, <1>11, FS_Subset, FS_CardinalityType
<1> QED  BY <1>4, <1>11, <1>12 DEF A, B, y

\* The passes.
LEMMA PassesEnd ==
    ASSUME NEW st \in Free, NEW rank, Upwards(rank, st.edges), NEW t \in Passes(st)
    PROVE  ~t.moved
<1> DEFINE queue == st.edges
           c == Cardinality(queue)
           m == c + 1
           start == State(st.events, st.disp, queue, TRUE)
           Near(s, k) == k <= c /\ AtMost(s, rank, queue, c - k)
           Y == [k \in 0..m |-> {s \in Free : s.moved => Near(s, k)}]
<1>1. IsFiniteSet(queue) /\ c \in Nat /\ m \in Nat
  <2>1. IsFiniteSet(queue)  BY FiniteEdges DEF Upwards
  <2>2. c \in Nat  BY <2>1, FS_CardinalityType
  <2> QED  BY <2>1, <2>2
<1>2. start \in Free /\ start.events = st.events
  <2>1. start \in Tables /\ start.events = st.events /\ start.disp = st.disp
    BY DEF Free, SoundTables, Tables, State
  <2> HIDE DEF start
  <2> QED  BY <2>1 DEF Free, SoundTables
<1> HIDE DEF start
<1>3. PICK f : PassesCourse(f, st)
  <2>1. \A s \in Free : Pass(s, queue) \subseteq Free  BY PassFree
  <2> QED  BY <1>1, <1>2, <2>1, PassesRun DEF start
<1>4. f[0] \subseteq Y[0]
  <2>1. f[0] = {start}  BY <1>3 DEF PassesCourse, start
  <2>2. AtMost(start, rank, queue, c)
    <3>1. ASSUME NEW x PROVE Cardinality(Above(rank, queue, x)) <= c
      <4>1. Above(rank, queue, x) \subseteq queue  BY DEF Above
      <4> QED  BY <4>1, <1>1, FS_Subset
    <3> QED  BY <3>1 DEF AtMost
  <2>3. Near(start, 0)  BY <1>1, <2>2
  <2> HIDE DEF Near
  <2>4. start \in Y[0]  BY <1>1, <1>2, <2>3
  <2> QED  BY <2>1, <2>4
<1>5. ASSUME NEW k \in 1..m, f[k - 1] \subseteq Y[k - 1] PROVE f[k] \subseteq Y[k]
  <2>1. k \in 0..m /\ k - 1 \in 0..m  BY <1>1
  <2>2. f[k] = UNION {IF s.moved THEN Pass(s, queue) ELSE {s} : s \in f[k - 1]}
    BY <1>3 DEF PassesCourse
  <2>3. ASSUME NEW s \in f[k - 1], s.moved, NEW u \in Pass(s, queue)
        PROVE  u \in Free /\ (u.moved => Near(u, k))
    <3>1. s \in Free /\ Near(s, k - 1)  BY <2>1, <2>3, <1>5
    <3>2. u \in Free /\ Onward(s, u, rank, queue)  BY <3>1, <2>3, PassFree
    <3>3. CASE k <= c
      <4>1. c - k \in Nat /\ AtMost(s, rank, queue, (c - k) + 1)  BY <3>1, <3>3, <1>1
      <4>2. AtMost(u, rank, queue, c - k)
        <5> HIDE DEF queue, c
        <5> QED  BY <4>1, <3>1, <3>2, OneLess DEF queue
      <4> QED  BY <3>2, <3>3, <4>2
    <3>4. CASE k = c + 1
      <4>1. AtMost(s, rank, queue, 0)  BY <3>1, <3>4, <1>1
      <4>2. ASSUME NEW edge \in queue, NEW e \in MutableAt(s.events, edge[1]) PROVE FALSE
        <5> DEFINE A == Above(rank, queue, edge[1])
        <5>1. /\ e \in DOMAIN s.events /\ Mutable(s.events[e]) /\ s.events[e].target = edge[1]
              /\ Starts(queue, edge[1])
          BY <4>2 DEF MutableAt, Starts
        <5>2. Cardinality(A) <= 0  BY <4>1, <5>1 DEF AtMost
        <5>3. edge \in A
          <6>1. edge[1] \in Targets  BY <4>2 DEF Upwards
          <6>2. rank[edge[1]] \in Nat  BY <6>1, RouteAssumption DEF Upwards, Targets
          <6> QED  BY <6>2, <4>2 DEF Above
        <5>4. IsFiniteSet(A)
          <6>1. A \subseteq queue  BY DEF Above
          <6> QED  BY <6>1, <1>1, FS_Subset
        <5> HIDE DEF A
        <5>5. Cardinality(A) \in Nat /\ Cardinality(A) # 0
          BY <5>3, <5>4, FS_CardinalityType, FS_EmptySet
        <5> QED  BY <5>2, <5>5
      <4>3. s \in SoundTables  BY <3>1 DEF Free
      <4>4. ~u.moved  BY <4>2, <4>3, <2>3, PassNone
      <4> QED  BY <3>2, <4>4
    <3> QED  BY <3>3, <3>4, <1>1
  <2>4. ASSUME NEW s \in f[k - 1], ~s.moved PROVE s \in Free
    BY <2>1, <2>4, <1>5
  <2>5. Y[k] = {s \in Free : s.moved => Near(s, k)}  BY <2>1
  <2> HIDE DEF Y, Near, queue
  <2> QED  BY <2>2, <2>3, <2>4, <2>5
<1>6. f[m] \subseteq Y[m]
  <2> HIDE DEF Y, m
  <2> QED  BY <1>1, <1>4, <1>5, LoopReaches
<1>7. t \in Y[m]  BY <1>3, <1>6 DEF PassesCourse
<1> QED  BY <1>1, <1>7

-----------------------------------------------------------------------------
(* New dispatches *)

\* A set of sinks is put in some order.
LEMMA InSomeOrder ==
    ASSUME NEW S, IsFiniteSet(S)
    PROVE  /\ SetToSeq(S) \in Seq(S)
           /\ Len(SetToSeq(S)) = Cardinality(S)
           /\ \A i, j \in DOMAIN SetToSeq(S) : SetToSeq(S)[i] = SetToSeq(S)[j] => i = j
           /\ S # {} => 1 \in DOMAIN SetToSeq(S)
<1> DEFINE n == Cardinality(S)
<1>1. n \in Nat /\ ExistsBijection(1..n, S)  BY FS_CardinalityType
<1>2. S # {} => n # 0  BY FS_EmptySet
<1> HIDE DEF n
<1>3. \E f \in [1..n -> S] : IsInjective(f)
  BY <1>1 DEF ExistsBijection, Bijection, Injection
<1>4. SetToSeq(S) \in [1..n -> S] /\ IsInjective(SetToSeq(S))
  BY <1>3 DEF SetToSeq, n
<1>5. SetToSeq(S) \in Seq(S) /\ Len(SetToSeq(S)) = n /\ DOMAIN SetToSeq(S) = 1..n
  BY <1>1, <1>4
<1> QED  BY <1>1, <1>2, <1>4, <1>5 DEF IsInjective, n

\* The table with a waiting dispatch of alert n for each of some sinks.
WithRows(ds, n, R) == ds \o SetToSeq({Dispatch(n, x, "pending") : x \in R})

\* The fan-out of enqueueAlertEventInTx adds one waiting dispatch for each sink that
\* the alert has none for, and touches no other.
LEMMA FanOut ==
    ASSUME NEW ds \in DispatchTables, NEW n \in 1..MaxEvents, NEW R \in SUBSET Sinks,
           \A x \in R : ~HasSink(ds, n, x), OneRowPerSink(ds)
    PROVE  LET new == WithRows(ds, n, R) IN
           /\ new \in DispatchTables
           /\ DOMAIN ds \subseteq DOMAIN new
           /\ \A d \in DOMAIN ds : new[d] = ds[d]
           /\ \A d \in DOMAIN new : new[d].event = n \/ d \in DOMAIN ds
           /\ OneRowPerSink(new)
           /\ R # {} => ActiveRowsOf(new, n) # {}
           /\ ActiveRowsOf(ds, n) \subseteq ActiveRowsOf(new, n)
           /\ \A e : e # n => ActiveRowsOf(new, e) = ActiveRowsOf(ds, e)
<1> DEFINE T == {Dispatch(n, x, "pending") : x \in R}
           q == SetToSeq(T)
           new == WithRows(ds, n, R)
<1>1. IsFiniteSet(T)
  <2> DEFINE f == [x \in R |-> Dispatch(n, x, "pending")]
  <2>1. IsFiniteSet(R)  BY RouteAssumption, FS_Subset
  <2>2. f \in [R -> T]  OBVIOUS
  <2>3. \A x, y \in R : f[x] = f[y] => x = y  BY DEF Dispatch
  <2>4. \A y \in T : \E x \in R : f[x] = y  OBVIOUS
  <2> HIDE DEF f, T
  <2>5. ExistsBijection(R, T)
    BY <2>2, <2>3, <2>4 DEF ExistsBijection, Bijection, Injection, Surjection, IsInjective
  <2> QED  BY <2>1, <2>5, FS_Bijection
<1>2. T \subseteq DispatchRows
  BY DEF Dispatch, DispatchRows, DispatchStatuses, ActiveStatuses
<1>3. \A r \in T : r.event = n /\ r.sink \in R /\ r.status = "pending"  BY DEF Dispatch
<1>4. \A r \in T, t \in T : r.sink = t.sink => r = t  BY DEF Dispatch
<1>5. R # {} => T # {}  OBVIOUS
<1>6. new = ds \o q  BY DEF WithRows
<1> HIDE DEF new
<1> HIDE DEF T
<1>7. /\ q \in Seq(T)
      /\ \A i, j \in DOMAIN q : q[i] = q[j] => i = j
      /\ T # {} => 1 \in DOMAIN q
  BY <1>1, InSomeOrder
<1> HIDE DEF q
<1>8. q \in Seq(DispatchRows) /\ Len(q) \in Nat /\ DOMAIN q = 1..Len(q)
      /\ \A i \in 1..Len(q) : q[i] \in T
  BY <1>2, <1>7
<1>9. ds \in Seq(DispatchRows) /\ Len(ds) \in Nat /\ DOMAIN ds = 1..Len(ds)
  BY DispatchTable DEF DispatchTables
<1>10. /\ new \in Seq(DispatchRows) /\ Len(new) = Len(ds) + Len(q)
       /\ \A i \in 1..(Len(ds) + Len(q)) : new[i] = IF i <= Len(ds) THEN ds[i] ELSE q[i - Len(ds)]
  <2>1. ds \in Seq(DispatchRows) /\ q \in Seq(DispatchRows)  BY <1>8, <1>9
  <2>2. /\ ds \o q \in Seq(DispatchRows) /\ Len(ds \o q) = Len(ds) + Len(q)
        /\ \A i \in 1..(Len(ds) + Len(q)) :
               (ds \o q)[i] = IF i <= Len(ds) THEN ds[i] ELSE q[i - Len(ds)]
    BY <2>1, ConcatProperties
  <2> QED  BY <2>2, <1>6
<1>11. new \in DispatchTables /\ DOMAIN new = 1..(Len(ds) + Len(q))
  BY <1>8, <1>9, <1>10 DEF DispatchTables
<1>12. DOMAIN ds \subseteq DOMAIN new /\ \A d \in DOMAIN ds : new[d] = ds[d]
  BY <1>8, <1>9, <1>10, <1>11
<1>13. ASSUME NEW d \in DOMAIN new, d \notin DOMAIN ds
       PROVE  d - Len(ds) \in DOMAIN q /\ new[d] = q[d - Len(ds)] /\ new[d] \in T
  <2>1. d \in 1..(Len(ds) + Len(q)) /\ ~(d <= Len(ds))  BY <1>9, <1>11, <1>13, <1>8
  <2>2. d - Len(ds) \in 1..Len(q)  BY <2>1, <1>8, <1>9
  <2>3. new[d] = q[d - Len(ds)]  BY <2>1, <1>10
  <2> QED  BY <2>2, <2>3, <1>8
<1>14. \A d \in DOMAIN new : d \notin DOMAIN ds =>
           new[d].event = n /\ new[d].sink \in R /\ new[d].status = "pending"
  BY <1>13, <1>3
<1>15. OneRowPerSink(new)
  <2> SUFFICES ASSUME NEW c \in DOMAIN new, NEW d \in DOMAIN new,
                      new[c].event = new[d].event, new[c].sink = new[d].sink
               PROVE  c = d
    BY DEF OneRowPerSink
  <2>1. ASSUME NEW x \in DOMAIN ds, NEW y \in DOMAIN new, y \notin DOMAIN ds
        PROVE  ~(new[x].event = new[y].event /\ new[x].sink = new[y].sink)
    <3>1. ASSUME ds[x].event = n PROVE ds[x].sink \notin R
      <4>1. HasSink(ds, n, ds[x].sink)  BY <3>1 DEF HasSink, RowsOf
      <4> QED  BY <4>1
    <3> QED  BY <2>1, <3>1, <1>12, <1>14
  <2>2. CASE c \in DOMAIN ds /\ d \in DOMAIN ds
    BY <2>2, <1>12 DEF OneRowPerSink
  <2>3. CASE c \notin DOMAIN ds /\ d \notin DOMAIN ds
    <3>1. new[c] \in T /\ new[d] \in T  BY <2>3, <1>13
    <3>2. new[c] = new[d]  BY <3>1, <1>4
    <3>3. c - Len(ds) \in DOMAIN q /\ d - Len(ds) \in DOMAIN q
          /\ q[c - Len(ds)] = q[d - Len(ds)]
      BY <2>3, <3>2, <1>13
    <3>4. c - Len(ds) = d - Len(ds)  BY <3>3, <1>7
    <3> QED  BY <3>4, <1>8, <1>9, <1>11
  <2> QED  BY <2>1, <2>2, <2>3
<1>16. ASSUME R # {} PROVE ActiveRowsOf(new, n) # {}
  <2> DEFINE d == Len(ds) + 1
  <2>1. 1 \in 1..Len(q)  BY <1>5, <1>7, <1>8, <1>16
  <2>2. d \in DOMAIN new /\ d \notin DOMAIN ds  BY <2>1, <1>8, <1>9, <1>11
  <2>3. d \in ActiveRowsOf(new, n)
    <3> HIDE DEF d
    <3> QED  BY <2>2, <1>14 DEF ActiveRowsOf, RowsOf, ActiveStatuses
  <2> QED  BY <2>3
<1>17. ActiveRowsOf(ds, n) \subseteq ActiveRowsOf(new, n)
  BY <1>12 DEF ActiveRowsOf, RowsOf
<1>18. \A e : e # n => ActiveRowsOf(new, e) = ActiveRowsOf(ds, e)
  BY <1>12, <1>14 DEF ActiveRowsOf, RowsOf
<1> QED  BY <1>11, <1>12, <1>14, <1>15, <1>16, <1>17, <1>18 DEF new

-----------------------------------------------------------------------------
(* The invariant *)

\* The tables as a move finds them.
LEMMA NowSound ==
    ASSUME RouteInv
    PROVE  /\ Now \in SoundTables /\ Now \in From(Now)
           /\ Now.events = events /\ Now.disp = disp /\ Now.edges = edges
<1>1. Now.events = events /\ Now.disp = disp /\ Now.edges = edges  BY DEF Now, State
<1>2. Now \in SoundTables
  BY <1>1 DEF RouteInv, TypeOK, OutboxSound, SoundTables, Tables, Now, State
<1>3. Kept(Now, Now)  BY DEF Kept, RowKept
<1> QED  BY <1>1, <1>2, <1>3 DEF From

\* What a scan commits.
LEMMA ScanCommits ==
    ASSUME NEW a, NEW st \in From(a), Becomes(st)
    PROVE  /\ events' \in EventTables /\ disp' \in DispatchTables
           /\ edges' \subseteq Targets \X Targets
           /\ Belong(events', disp') /\ Sound(events', disp')
  BY DEF From, SoundTables, Tables, Becomes

\* The outbox is sound at first.
LEMMA InitRouteInv ==
    ASSUME Init PROVE RouteInv
<1>1. TypeOK
  <2>1. <<>> \in EventTables /\ <<>> \in DispatchTables
    BY DEF EventTables, DispatchTables
  <2>2. current \in Targets  BY RouteAssumption DEF Init, Targets
  <2>3. moves \in 0..MaxMoves /\ locks \in 0..MaxLocks  BY RouteAssumption DEF Init
  <2> QED  BY <2>1, <2>2, <2>3 DEF Init, TypeOK
<1>2. Belong(events, disp)  BY RouteAssumption DEF Init, Belong
<1>3. OutboxSound
  BY DEF Init, OutboxSound, Sound, PendingUnique, OneRowPerSink, PendingHasWork
<1> QED  BY <1>1, <1>2, <1>3 DEF RouteInv

\* Rescan.
LEMMA RescanInv ==
    ASSUME RouteInv, Rescan
    PROVE  RouteInv'
<1>1. Replay(Now) \subseteq From(Now)  BY NowSound, ReplayFrom
<1>2. PICK st \in Replay(Now) : Becomes(st)  BY DEF Rescan
<1>3. /\ events' \in EventTables /\ disp' \in DispatchTables
      /\ edges' \subseteq Targets \X Targets
      /\ Belong(events', disp') /\ Sound(events', disp')
  BY <1>1, <1>2, ScanCommits
<1> QED  BY <1>3 DEF Rescan, RouteInv, TypeOK, OutboxSound

\* A scan that moves alerts starts from what the replay has left.
LEMMA ReplaceFrom ==
    ASSUME RouteInv, NEW new \in Targets, Replace(new), ~locked
    PROVE  \E st \in From(Now) : Becomes(st)
<1>1. PICK st \in UNION {Migrate(s, current, new) : s \in Replay(Now)} : Becomes(st)
  BY DEF Replace
<1>2. PICK s \in Replay(Now) : st \in Migrate(s, current, new)  BY <1>1
<1>3. s \in From(Now)  BY <1>2, NowSound, ReplayFrom
<1>4. current \in Targets  BY DEF RouteInv, TypeOK
<1>5. st \in From(Now)  BY <1>2, <1>3, <1>4, MigrateFrom
<1> QED  BY <1>1, <1>5

\* Replace.
LEMMA ReplaceInv ==
    ASSUME RouteInv, NEW new \in Targets, Replace(new)
    PROVE  RouteInv'
<1>1. /\ current' \in Targets /\ moves' \in 0..MaxMoves
      /\ locked' \in BOOLEAN /\ locks' \in 0..MaxLocks
  BY RouteAssumption DEF Replace, RouteInv, TypeOK
<1>2. CASE locked
  <2>1. /\ edges' = edges \cup {<<current, new>>} /\ current \in Targets
        /\ events' = events /\ disp' = disp
    BY <1>2 DEF Replace, RouteInv, TypeOK
  <2>2. edges' \subseteq Targets \X Targets  BY <2>1 DEF RouteInv, TypeOK
  <2> QED  BY <1>1, <2>1, <2>2 DEF RouteInv, TypeOK, OutboxSound
<1>3. CASE ~locked
  <2>1. PICK st \in From(Now) : Becomes(st)  BY <1>3, ReplaceFrom
  <2>2. /\ events' \in EventTables /\ disp' \in DispatchTables
        /\ edges' \subseteq Targets \X Targets
        /\ Belong(events', disp') /\ Sound(events', disp')
    BY <2>1, ScanCommits
  <2> QED  BY <1>1, <2>2 DEF RouteInv, TypeOK, OutboxSound
<1> QED  BY <1>2, <1>3

\* One dispatch that changes its status.
RowWith(ds, d, status) == [ds EXCEPT ![d] = Dispatch(ds[d].event, ds[d].sink, status)]

\* It changes nothing else, and leaves an alert with one dispatch for each sink.
LEMMA RowChange ==
    ASSUME NEW ds \in DispatchTables, NEW d \in DOMAIN ds, NEW status \in DispatchStatuses
    PROVE  LET new == RowWith(ds, d, status) IN
           /\ new \in DispatchTables /\ DOMAIN new = DOMAIN ds
           /\ \A c \in DOMAIN ds : /\ new[c].event = ds[c].event /\ new[c].sink = ds[c].sink
                                   /\ c # d => new[c] = ds[c]
           /\ new[d].status = status
           /\ OneRowPerSink(ds) => OneRowPerSink(new)
<1> DEFINE new == RowWith(ds, d, status)
<1>0. new = [ds EXCEPT ![d] = Dispatch(ds[d].event, ds[d].sink, status)]  BY DEF RowWith
<1> HIDE DEF new
<1>1. ds[d] \in DispatchRows  BY DispatchTable
<1>2. Dispatch(ds[d].event, ds[d].sink, status) \in DispatchRows
  BY <1>1 DEF Dispatch, DispatchRows
<1>3. new \in [1..Len(ds) -> DispatchRows] /\ DOMAIN new = DOMAIN ds
  BY <1>0, <1>2, DispatchTable
<1>4. new \in DispatchTables  BY <1>3, DispatchTable DEF DispatchTables
<1>5. new[d] = Dispatch(ds[d].event, ds[d].sink, status)  BY <1>0, DispatchTable
<1>6. new[d].event = ds[d].event /\ new[d].sink = ds[d].sink /\ new[d].status = status
  BY <1>5 DEF Dispatch
<1>7. \A c \in DOMAIN ds : c # d => new[c] = ds[c]  BY <1>0, DispatchTable
<1>8. \A c \in DOMAIN ds : /\ new[c].event = ds[c].event /\ new[c].sink = ds[c].sink
                           /\ c # d => new[c] = ds[c]
  BY <1>6, <1>7
<1>9. OneRowPerSink(ds) => OneRowPerSink(new)  BY <1>3, <1>8 DEF OneRowPerSink
<1> QED  BY <1>3, <1>4, <1>6, <1>8, <1>9 DEF new

\* Claim.
LEMMA ClaimInv ==
    ASSUME RouteInv, NEW d \in DOMAIN disp, Claim(d)
    PROVE  RouteInv'
<1>1. /\ disp \in DispatchTables /\ disp[d].status = "pending"
      /\ disp' = RowWith(disp, d, "in_flight")
      /\ OneRowPerSink(disp)
  BY DEF Claim, RowWith, RouteInv, TypeOK, OutboxSound, Sound
<1>2. /\ disp' \in DispatchTables /\ DOMAIN disp' = DOMAIN disp /\ OneRowPerSink(disp')
      /\ \A c \in DOMAIN disp : disp'[c].event = disp[c].event /\ (c # d => disp'[c] = disp[c])
      /\ disp'[d].status = "in_flight"
  <2>1. "in_flight" \in DispatchStatuses  BY DEF DispatchStatuses, ActiveStatuses
  <2> QED  BY <1>1, <2>1, RowChange
<1>3. \A e : ActiveRowsOf(disp', e) = ActiveRowsOf(disp, e)
  BY <1>1, <1>2 DEF ActiveRowsOf, RowsOf, ActiveStatuses
<1>4. UNCHANGED <<current, events, edges, locked, moves, locks>>  BY DEF Claim
<1>5. TypeOK'  BY <1>2, <1>4 DEF RouteInv, TypeOK
<1>6. Belong(events, disp)'  BY <1>2, <1>4 DEF RouteInv, Belong
<1>7. OutboxSound'
  BY <1>2, <1>3, <1>4 DEF RouteInv, OutboxSound, Sound, PendingUnique, PendingHasWork
<1> QED  BY <1>5, <1>6, <1>7 DEF RouteInv

\* syncAlertEventStatus: an alert is pending while something of it is active.
LEMMA SyncFacts ==
    ASSUME NEW ds, NEW e
    PROVE  /\ SyncStatus(ds, e) \in EventStatuses
           /\ SyncStatus(ds, e) = "pending" <=> ActiveRowsOf(ds, e) # {}
  BY DEF SyncStatus, EventStatuses, ActiveRowsOf

\* Complete, for the statuses it is called with.
LEMMA CompleteInv ==
    ASSUME RouteInv, NEW d \in DOMAIN disp,
           NEW status \in {"pending", "delivered", "skipped", "dead_lettered"}, Complete(d, status)
    PROVE  RouteInv'
<1> DEFINE e == disp[d].event
           now == SyncStatus(disp', e)
<1>1. /\ disp \in DispatchTables /\ events \in EventTables /\ disp[d].status = "in_flight"
      /\ disp' = RowWith(disp, d, status)
      /\ events' = WithStatus(events, e, now)
      /\ OneRowPerSink(disp) /\ Belong(events, disp) /\ e \in DOMAIN events
      /\ PendingUnique(events) /\ PendingHasWork(events, disp)
  BY DEF Complete, RowWith, RouteInv, TypeOK, OutboxSound, Sound, Belong
<1>2. /\ disp' \in DispatchTables /\ DOMAIN disp' = DOMAIN disp /\ OneRowPerSink(disp')
      /\ \A c \in DOMAIN disp : disp'[c].event = disp[c].event /\ (c # d => disp'[c] = disp[c])
  <2>1. status \in DispatchStatuses  BY DEF DispatchStatuses, ActiveStatuses, ClosedStatuses
  <2> QED  BY <1>1, <2>1, RowChange
<1>3. now \in EventStatuses /\ (now = "pending" <=> ActiveRowsOf(disp', e) # {})
  BY SyncFacts
<1>4. events[e].status = "pending"
  <2>1. d \in ActiveRowsOf(disp, e)  BY <1>1 DEF ActiveRowsOf, RowsOf, ActiveStatuses
  <2> QED  BY <2>1, <1>1 DEF PendingHasWork
<1>5. \A f : f # e => ActiveRowsOf(disp', f) = ActiveRowsOf(disp, f)
  BY <1>2 DEF ActiveRowsOf, RowsOf
<1> HIDE DEF now
<1>6. /\ events' \in EventTables /\ DOMAIN events' = DOMAIN events /\ Len(events') = Len(events)
      /\ events'[e] = Event(events[e].target, events[e].kind, now)
      /\ \A f \in DOMAIN events : f # e => events'[f] = events[f]
  BY <1>1, <1>3, WithStatusFacts
<1>7. events'[e].status = now  BY <1>6 DEF Event
<1>8. UNCHANGED <<current, edges, locked, moves, locks>>  BY DEF Complete
<1>9. TypeOK'  BY <1>2, <1>6, <1>8 DEF RouteInv, TypeOK
<1>10. Belong(events, disp)'  BY <1>1, <1>2, <1>6 DEF Belong
<1>11. PendingUnique(events)'
  <2>1. CASE now = "pending"
    <3>1. events[e] \in EventRows  BY <1>1, EventTable
    <3>2. events'[e] = events[e]  BY <1>4, <1>6, <2>1, <3>1 DEF Event, EventRows
    <3> QED  BY <3>2, <1>1, <1>6 DEF PendingUnique
  <2>2. CASE now # "pending"  BY <2>2, <1>1, <1>6, <1>7 DEF PendingUnique
  <2> QED  BY <2>1, <2>2
<1>12. PendingHasWork(events, disp)'
  <2> SUFFICES ASSUME NEW f \in DOMAIN events
               PROVE  events'[f].status = "pending" <=> ActiveRowsOf(disp', f) # {}
    BY <1>6 DEF PendingHasWork
  <2>1. CASE f = e  BY <2>1, <1>3, <1>7
  <2>2. CASE f # e  BY <2>2, <1>1, <1>5, <1>6 DEF PendingHasWork
  <2> QED  BY <2>1, <2>2
<1> QED  BY <1>2, <1>9, <1>10, <1>11, <1>12 DEF RouteInv, OutboxSound, Sound

\* A new alert has a key that no pending alert has, and all of its dispatches to come.
LEMMA EnqueueNewInv ==
    ASSUME RouteInv, NEW kind \in Kinds, NEW sinks \in SUBSET Sinks, sinks # {},
           {e \in DOMAIN events : /\ events[e].target = current
                                  /\ events[e].kind = kind
                                  /\ events[e].status = "pending"} = {},
           Len(events) < MaxEvents,
           events' = Append(events, Event(current, kind, "pending")),
           disp' = WithRows(disp, Len(events'), {y \in sinks : ~HasSink(disp, Len(events'), y)})
    PROVE  /\ events' \in EventTables /\ disp' \in DispatchTables
           /\ Belong(events', disp') /\ Sound(events', disp')
           /\ DOMAIN disp \subseteq DOMAIN disp' /\ \A d \in DOMAIN disp : disp'[d] = disp[d]
<1> DEFINE fresh == Event(current, kind, "pending")
           n == Len(events')
           R == {y \in sinks : ~HasSink(disp, n, y)}
<1>1. /\ disp \in DispatchTables /\ events \in EventTables /\ current \in Targets
      /\ OneRowPerSink(disp) /\ Belong(events, disp)
      /\ PendingUnique(events) /\ PendingHasWork(events, disp)
  BY DEF RouteInv, TypeOK, OutboxSound, Sound
<1>2. fresh \in EventRows  BY <1>1 DEF Event, EventRows, EventStatuses
<1>3. fresh.target = current /\ fresh.kind = kind /\ fresh.status = "pending"  BY DEF Event
<1> HIDE DEF fresh
<1>4. /\ events' \in EventTables /\ Len(events') = Len(events) + 1
      /\ \A e \in 1..Len(events) : events'[e] = events[e]
      /\ events'[Len(events) + 1] = fresh
  <2>1. events \in Seq(EventRows)  BY <1>1 DEF EventTables
  <2>2. events' = Append(events, fresh)  BY DEF fresh
  <2>3. /\ Append(events, fresh) \in Seq(EventRows)
        /\ Len(Append(events, fresh)) = Len(events) + 1
        /\ \A e \in 1..Len(events) : Append(events, fresh)[e] = events[e]
        /\ Append(events, fresh)[Len(events) + 1] = fresh
    BY <2>1, <1>2, AppendProperties
  <2> QED  BY <2>2, <2>3 DEF EventTables
<1>5. /\ DOMAIN events = 1..Len(events) /\ Len(events) \in Nat
      /\ DOMAIN events' = 1..(Len(events) + 1)
      /\ n = Len(events) + 1 /\ n \in 1..MaxEvents /\ n \notin DOMAIN events
      /\ events'[n] = fresh
      /\ \A e \in DOMAIN events : events'[e] = events[e]
  <2>1. DOMAIN events = 1..Len(events) /\ Len(events) \in Nat  BY <1>1, EventTable
  <2>2. DOMAIN events' = 1..(Len(events) + 1)  BY <1>4, EventTable
  <2> QED  BY <2>1, <2>2, <1>4, RouteAssumption
<1>6. RowsOf(disp, n) = {}  BY <1>1, <1>5 DEF RowsOf, Belong
<1>7. R = sinks /\ R \in SUBSET Sinks /\ R # {} /\ \A x \in R : ~HasSink(disp, n, x)
  BY <1>6 DEF HasSink
<1>8. disp' = WithRows(disp, n, R)  OBVIOUS
<1> HIDE DEF R, n
<1>9. /\ disp' \in DispatchTables
      /\ DOMAIN disp \subseteq DOMAIN disp' /\ \A d \in DOMAIN disp : disp'[d] = disp[d]
      /\ \A d \in DOMAIN disp' : disp'[d].event = n \/ d \in DOMAIN disp
      /\ OneRowPerSink(disp')
      /\ ActiveRowsOf(disp', n) # {}
      /\ \A e : e # n => ActiveRowsOf(disp', e) = ActiveRowsOf(disp, e)
  <2> DEFINE more == WithRows(disp, n, R)
  <2>1. n \in 1..MaxEvents  BY <1>5
  <2>2. /\ more \in DispatchTables
        /\ DOMAIN disp \subseteq DOMAIN more /\ \A d \in DOMAIN disp : more[d] = disp[d]
        /\ \A d \in DOMAIN more : more[d].event = n \/ d \in DOMAIN disp
        /\ OneRowPerSink(more)
        /\ R # {} => ActiveRowsOf(more, n) # {}
        /\ \A e : e # n => ActiveRowsOf(more, e) = ActiveRowsOf(disp, e)
    BY <1>1, <1>7, <2>1, FanOut
  <2> HIDE DEF more
  <2>3. disp' = more  BY <1>8 DEF more
  <2> QED  BY <2>2, <2>3, <1>7
<1>10. Belong(events', disp')
  <2>1. ASSUME NEW d \in DOMAIN disp' PROVE disp'[d].event \in DOMAIN events'
    <3>1. d \in DOMAIN disp => disp'[d].event \in DOMAIN events  BY <1>1, <1>9 DEF Belong
    <3> QED  BY <3>1, <1>5, <1>9
  <2>2. Len(events') <= MaxEvents  BY <1>4, <1>5, RouteAssumption
  <2> QED  BY <2>1, <2>2 DEF Belong
<1>11. PendingUnique(events')
  <2>1. ASSUME NEW e \in DOMAIN events, events[e].status = "pending" PROVE events[e] # fresh
    BY <2>1, <1>3
  <2> QED  BY <2>1, <1>1, <1>3, <1>5 DEF PendingUnique
<1>12. PendingHasWork(events', disp')
  <2> SUFFICES ASSUME NEW e \in DOMAIN events'
               PROVE  events'[e].status = "pending" <=> ActiveRowsOf(disp', e) # {}
    BY DEF PendingHasWork
  <2>1. CASE e = n  BY <2>1, <1>3, <1>5, <1>9
  <2>2. CASE e # n
    <3>1. e \in DOMAIN events  BY <2>2, <1>5
    <3> QED  BY <3>1, <2>2, <1>1, <1>5, <1>9 DEF PendingHasWork
  <2> QED  BY <2>1, <2>2
<1> QED  BY <1>4, <1>9, <1>10, <1>11, <1>12 DEF Sound

\* A pending alert gets the dispatches that it has not.
LEMMA EnqueueMoreInv ==
    ASSUME RouteInv, NEW sinks \in SUBSET Sinks, NEW n \in DOMAIN events,
           events[n].status = "pending", events' = events,
           disp' = WithRows(disp, n, {y \in sinks : ~HasSink(disp, n, y)})
    PROVE  /\ disp' \in DispatchTables
           /\ Belong(events', disp') /\ Sound(events', disp')
           /\ DOMAIN disp \subseteq DOMAIN disp' /\ \A d \in DOMAIN disp : disp'[d] = disp[d]
<1> DEFINE R == {y \in sinks : ~HasSink(disp, n, y)}
<1>1. /\ disp \in DispatchTables /\ events \in EventTables
      /\ OneRowPerSink(disp) /\ Belong(events, disp)
      /\ PendingUnique(events) /\ PendingHasWork(events, disp)
  BY DEF RouteInv, TypeOK, OutboxSound, Sound
<1>2. n \in 1..MaxEvents  BY <1>1, EventTable, RouteAssumption DEF Belong
<1>3. R \in SUBSET Sinks /\ \A x \in R : ~HasSink(disp, n, x)  OBVIOUS
<1>4. disp' = WithRows(disp, n, R)  OBVIOUS
<1> HIDE DEF R
<1>5. /\ disp' \in DispatchTables
      /\ DOMAIN disp \subseteq DOMAIN disp' /\ \A d \in DOMAIN disp : disp'[d] = disp[d]
      /\ \A d \in DOMAIN disp' : disp'[d].event = n \/ d \in DOMAIN disp
      /\ OneRowPerSink(disp')
      /\ ActiveRowsOf(disp, n) \subseteq ActiveRowsOf(disp', n)
      /\ \A e : e # n => ActiveRowsOf(disp', e) = ActiveRowsOf(disp, e)
  BY <1>1, <1>2, <1>3, <1>4, FanOut
<1>6. Belong(events, disp')  BY <1>1, <1>5 DEF Belong
<1>7. PendingHasWork(events, disp')
  <2> SUFFICES ASSUME NEW e \in DOMAIN events
               PROVE  events[e].status = "pending" <=> ActiveRowsOf(disp', e) # {}
    BY DEF PendingHasWork
  <2>1. CASE e = n
    <3>1. ActiveRowsOf(disp, n) # {}  BY <1>1 DEF PendingHasWork
    <3> QED  BY <3>1, <2>1, <1>5
  <2>2. CASE e # n  BY <2>2, <1>1, <1>5 DEF PendingHasWork
  <2> QED  BY <2>1, <2>2
<1> QED  BY <1>1, <1>5, <1>6, <1>7 DEF Sound

\* Enqueue.
LEMMA EnqueueInv ==
    ASSUME RouteInv, NEW kind \in Kinds, NEW sinks \in (SUBSET Sinks) \ {{}}, Enqueue(kind, sinks)
    PROVE  /\ RouteInv'
           /\ DOMAIN disp \subseteq DOMAIN disp' /\ \A d \in DOMAIN disp : disp'[d] = disp[d]
<1> DEFINE same == {e \in DOMAIN events : /\ events[e].target = current
                                          /\ events[e].kind = kind
                                          /\ events[e].status = "pending"}
           More(n) == WithRows(disp, n, {y \in sinks : ~HasSink(disp, n, y)})
<1>1. \/ /\ same = {} /\ Len(events) < MaxEvents
         /\ events' = Append(events, Event(current, kind, "pending"))
         /\ disp' = More(Len(events'))
      \/ /\ \E n \in same : disp' = More(n)
         /\ events' = events
  BY DEF Enqueue, WithRows
<1>2. UNCHANGED <<current, edges, locked, moves, locks>>  BY DEF Enqueue
<1>3. events \in EventTables  BY DEF RouteInv, TypeOK
<1>4. /\ events' \in EventTables /\ disp' \in DispatchTables
      /\ Belong(events', disp') /\ Sound(events', disp')
      /\ DOMAIN disp \subseteq DOMAIN disp' /\ \A d \in DOMAIN disp : disp'[d] = disp[d]
  <2>1. CASE /\ same = {} /\ Len(events) < MaxEvents
             /\ events' = Append(events, Event(current, kind, "pending"))
             /\ disp' = More(Len(events'))
    BY <2>1, EnqueueNewInv
  <2>2. CASE (\E n \in same : disp' = More(n)) /\ events' = events
    <3>1. PICK n \in same : disp' = More(n)  BY <2>2
    <3>2. n \in DOMAIN events /\ events[n].status = "pending"  OBVIOUS
    <3> QED  BY <3>1, <3>2, <2>2, <1>3, EnqueueMoreInv
  <2> QED  BY <1>1, <2>1, <2>2
<1> QED  BY <1>2, <1>4 DEF RouteInv, TypeOK, OutboxSound

\* Every step keeps the invariant.
LEMMA StepRouteInv ==
    ASSUME RouteInv, [Next]_vars
    PROVE  RouteInv'
<1>1. CASE Rescan  BY <1>1, RescanInv
<1>2. CASE \E new \in Targets : Replace(new)  BY <1>2, ReplaceInv
<1>3. CASE \E kind \in Kinds, sinks \in (SUBSET Sinks) \ {{}} : Enqueue(kind, sinks)
  BY <1>3, EnqueueInv
<1>4. CASE \E d \in DOMAIN disp : Claim(d)  BY <1>4, ClaimInv
<1>5. CASE \E d \in DOMAIN disp : Close(d) \/ Complete(d, "pending")
  <2>1. PICK d \in DOMAIN disp : Close(d) \/ Complete(d, "pending")  BY <1>5
  <2>2. PICK status \in {"pending", "delivered", "skipped", "dead_lettered"} : Complete(d, status)
    BY <2>1 DEF Close
  <2> QED  BY <2>2, CompleteInv
<1>6. CASE Lock \/ Unlock
  <2>1. UNCHANGED <<current, events, disp, edges, moves>> /\ locked' \in BOOLEAN
    BY <1>6 DEF Lock, Unlock
  <2>2. locks \in 0..MaxLocks /\ MaxLocks \in Nat  BY RouteAssumption DEF RouteInv, TypeOK
  <2>3. CASE Lock
    <3>1. locks < MaxLocks /\ locks' = locks + 1  BY <2>3 DEF Lock
    <3>2. locks' \in 0..MaxLocks  BY <2>2, <3>1
    <3> QED  BY <2>1, <3>2 DEF RouteInv, TypeOK, OutboxSound
  <2>4. CASE Unlock
    <3>1. locks' = locks  BY <2>4 DEF Unlock
    <3> QED  BY <2>1, <2>2, <3>1 DEF RouteInv, TypeOK, OutboxSound
  <2> QED  BY <1>6, <2>3, <2>4
<1>7. CASE UNCHANGED vars  BY <1>7 DEF vars, RouteInv, TypeOK, OutboxSound
<1> QED  BY <1>1, <1>2, <1>3, <1>4, <1>5, <1>6, <1>7 DEF Next

\* The tables of alerts and dispatches are always ones that the workers could have left.
THEOREM RouteIsSound == Spec => []RouteInv
<1>1. Init => RouteInv  BY InitRouteInv
<1>2. RouteInv /\ [Next]_vars => RouteInv'  BY StepRouteInv
<1> QED  BY <1>1, <1>2, PTL DEF Spec

\* The type invariant: alerts stand at routes that there are, dispatches at configured
\* sinks.
THEOREM TypesHold == Spec => []TypeOK
<1>1. RouteInv => TypeOK  BY DEF RouteInv
<1> QED  BY <1>1, RouteIsSound, PTL

\* migrateRouteTargetReplacements, with deferred replacements replayed in any state of
\* the workers: no two pending alerts have one key, an alert has one dispatch for each
\* sink, and is pending exactly while a worker can still finish one.
THEOREM OutboxStaysSound == Spec => []OutboxSound
<1>1. RouteInv => OutboxSound  BY DEF RouteInv
<1> QED  BY <1>1, RouteIsSound, PTL

-----------------------------------------------------------------------------
(* What becomes of dispatches *)

\* Moves leave a claim with its worker and give up what has been told of only.
LEMMA FromKeeps ==
    ASSUME RouteInv, NEW st \in From(Now), Becomes(st), NEW d \in DOMAIN disp
    PROVE  ClaimUntouched(d) /\ NotDropped(d)
<1>1. Now.disp = disp /\ Now.events = events  BY NowSound
<1>2. RowKept(Now, st, d)  BY <1>1 DEF From, Kept
<1>3. st.disp = disp'  BY DEF Becomes
<1>4. ClaimUntouched(d)  BY <1>1, <1>2, <1>3 DEF RowKept, ClaimUntouched
<1>5. NotDropped(d)
  BY <1>1, <1>2, <1>3 DEF RowKept, NotDropped, Told, KindOf
<1> QED  BY <1>4, <1>5

\* What keeps a dispatch as it is keeps it.
LEMMA SameKeeps ==
    ASSUME NEW d, disp'[d] = disp[d]
    PROVE  ClaimUntouched(d) /\ NotDropped(d)
  BY DEF ClaimUntouched, NotDropped

\* A worker changes its own row, and does not give it up.
LEMMA WorkerKeeps ==
    ASSUME RouteInv, NEW d \in DOMAIN disp, NEW c \in DOMAIN disp,
           NEW status \in {"pending", "delivered", "skipped", "dead_lettered"},
           Claim(c) \/ Complete(c, status)
    PROVE  ClaimUntouched(d) /\ NotDropped(d)
<1>1. disp \in DispatchTables  BY DEF RouteInv, TypeOK
<1>2. CASE d # c
  <2>1. disp'[d] = disp[d]  BY <1>1, <1>2, DispatchTable DEF Claim, Complete
  <2> QED  BY <2>1, SameKeeps
<1>3. CASE d = c /\ Claim(c)
  <2>1. disp[d].status = "pending"  BY <1>3 DEF Claim
  <2>2. disp' = RowWith(disp, d, "in_flight")  BY <1>3 DEF Claim, RowWith
  <2>3. disp'[d].status = "in_flight"
    BY <1>1, <2>2, RowChange DEF DispatchStatuses, ActiveStatuses
  <2> QED  BY <2>1, <2>3 DEF ClaimUntouched, NotDropped
<1>4. CASE d = c /\ Complete(c, status)
  <2>1. status \in DispatchStatuses  BY DEF DispatchStatuses, ActiveStatuses, ClosedStatuses
  <2>2. disp' = RowWith(disp, d, status)  BY <1>4 DEF Complete, RowWith
  <2>3. disp'[d].status = status  BY <1>1, <2>1, <2>2, RowChange
  <2> QED  BY <1>4, <2>3 DEF ClaimUntouched, NotDropped
<1> QED  BY <1>2, <1>3, <1>4

\* Every step keeps every dispatch.
LEMMA StepKeeps ==
    ASSUME RouteInv, [Next]_vars, NEW d \in DOMAIN disp
    PROVE  ClaimUntouched(d) /\ NotDropped(d)
<1>1. CASE Rescan
  <2>1. PICK st \in Replay(Now) : Becomes(st)  BY <1>1 DEF Rescan
  <2>2. st \in From(Now)  BY <2>1, NowSound, ReplayFrom
  <2> QED  BY <2>1, <2>2, FromKeeps
<1>2. CASE \E new \in Targets : Replace(new)
  <2>1. PICK new \in Targets : Replace(new)  BY <1>2
  <2>2. CASE locked
    <3>1. disp' = disp  BY <2>1, <2>2 DEF Replace
    <3> QED  BY <3>1, SameKeeps
  <2>3. CASE ~locked
    <3>1. PICK st \in From(Now) : Becomes(st)  BY <2>1, <2>3, ReplaceFrom
    <3> QED  BY <3>1, FromKeeps
  <2> QED  BY <2>2, <2>3
<1>3. CASE \E kind \in Kinds, sinks \in (SUBSET Sinks) \ {{}} : Enqueue(kind, sinks)
  <2>1. disp'[d] = disp[d]  BY <1>3, EnqueueInv
  <2> QED  BY <2>1, SameKeeps
<1>4. CASE \E c \in DOMAIN disp : Claim(c) \/ Close(c) \/ Complete(c, "pending")
  <2>1. PICK c \in DOMAIN disp : Claim(c) \/ Close(c) \/ Complete(c, "pending")  BY <1>4
  <2>2. \E status \in {"pending", "delivered", "skipped", "dead_lettered"} :
            Claim(c) \/ Complete(c, status)
    BY <2>1 DEF Close
  <2> QED  BY <2>2, WorkerKeeps
<1>5. CASE Lock \/ Unlock \/ UNCHANGED vars
  <2>1. disp' = disp  BY <1>5 DEF Lock, Unlock, vars
  <2> QED  BY <2>1, SameKeeps
<1> QED  BY <1>1, <1>2, <1>3, <1>4, <1>5 DEF Next

\* applyDeferredAlertRouteReconciliations: for any number of alerts, edges and passes,
\* once the replay has seen a pass in which no alert moved, every alert that is left at
\* the beginning of an edge meets a pending one at the end of it.
THEOREM ReplaysArrive == Spec => []ReplayArrives
<1>1. RouteInv => ReplayArrives
  <2> SUFFICES ASSUME RouteInv, NEW st \in Replay(Now), ~st.moved PROVE AllWait(st, edges)
    BY DEF ReplayArrives
  <2>1. AllWait(st, Now.edges)  BY NowSound, ReplayStays
  <2> QED  BY <2>1, NowSound
<1> QED  BY <1>1, RouteIsSound, PTL

\* migrateAlertRouteIdentity and mergeRouteAlertCollisionDispatches: a claimed dispatch
\* is changed by its worker only, and one is given up only when its sink has been told
\* of the same alert.
THEOREM DispatchesAreKept == Spec => DispatchesKept
<1>1. RouteInv /\ [Next]_vars => [\A d \in DOMAIN disp : ClaimUntouched(d) /\ NotDropped(d)]_vars
  BY StepKeeps
<1> QED  BY <1>1, RouteIsSound, PTL DEF Spec, DispatchesKept
\* The passes of applyDeferredAlertRouteReconciliations are enough for edges that do not
\* go round in a circle, however many alerts meet on their way, as long as no merge has
\* to be put off.
THEOREM ReplaysEnd == Spec => []ReplayEnds
<1>1. RouteInv => ReplayEnds
  <2> SUFFICES ASSUME RouteInv, Acyclic(edges), Unhindered(events, disp), NEW t \in Replay(Now)
               PROVE  ~t.moved
    BY DEF ReplayEnds
  <2>1. Now \in SoundTables /\ Now.events = events /\ Now.disp = disp /\ Now.edges = edges
    BY NowSound
  <2>2. Now \in Free  BY <2>1 DEF Free
  <2>3. PICK rank : Upwards(rank, Now.edges)
    <3>1. edges \in SUBSET (Targets \X Targets)  BY DEF RouteInv, TypeOK
    <3> QED  BY <3>1, <2>1 DEF Acyclic, Upwards
  <2>4. PICK s \in Passes(Now) : t = IF s.moved THEN s ELSE Dropped(s)  BY DEF Replay
  <2>5. ~s.moved  BY <2>2, <2>3, PassesEnd
  <2> QED  BY <2>4, <2>5 DEF Dropped, State
<1> QED  BY <1>1, RouteIsSound, PTL

=============================================================================
