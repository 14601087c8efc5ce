--------------------------- MODULE AgentWatchProofs ---------------------------
(***************************************************************************)
(* Proofs about AgentWatch, for every number of processes and sessions,    *)
(* every interval and cooldown, and every bound: the types, that the       *)
(* greatest ended scan is well defined, that recoveries answer failures,   *)
(* that one occurrence is told of once, and that no edge is lost.          *)
(***************************************************************************)
EXTENDS AgentWatch, SequenceTheorems, WellFoundedInduction, TLAPS

-----------------------------------------------------------------------------
(* The greatest element of a bounded set of numbers *)

\* A set of natural numbers that is not empty has a least element: the library's
\* minimum of a well-founded order, for the order of the naturals.
LEMMA LeastNatural ==
    ASSUME NEW T \in SUBSET Nat, T # {}
    PROVE  \E x \in T : \A y \in T : x <= y
<1> DEFINE R == {ss \in Nat \X Nat : ss[1] < ss[2]}
<1>1. OpToRel(<, Nat) = R  BY Zenon DEF OpToRel
<1>2. IsWellFoundedOn(R, Nat)  BY NatLessThanWellFounded, <1>1, Zenon
<1>3. PICK x \in T : \A y \in T : ~(<<y, x>> \in R)
  <2> HIDE DEF R
  <2> QED  BY <1>2, WFMin
<1>4. ASSUME NEW y \in T PROVE x <= y
  <2>1. ~(<<y, x>> \in R)  BY <1>3
  <2>2. ~(y < x)  BY <2>1
  <2> QED  BY <2>2
<1> QED  BY <1>4

\* Max, by which LatestTerminal is defined, is what it says on a set that has a
\* bound and is not empty: the least of the bounds is a member.
LEMMA GreatestOf ==
    ASSUME NEW n \in Nat, NEW S \in SUBSET (0..n), S # {}
    PROVE  Max(S) \in S /\ \A y \in S : y <= Max(S)
<1> DEFINE Bounds == {u \in Nat : \A y \in S : y <= u}
<1>1. n \in Bounds  OBVIOUS
<1>2. PICK u \in Bounds : \A v \in Bounds : u <= v
  <2>1. Bounds \in SUBSET Nat /\ Bounds # {}  BY <1>1
  <2> HIDE DEF Bounds
  <2> QED  BY <2>1, LeastNatural
<1>3. u \in S
  <2> SUFFICES ASSUME u \notin S PROVE FALSE  OBVIOUS
  <2>1. PICK y \in S : TRUE  OBVIOUS
  <2>2. \A z \in S : z <= u - 1  BY <1>2
  <2>3. u - 1 \in Bounds  BY <2>1, <2>2
  <2> QED  BY <1>2, <2>3
<1>4. u \in S /\ \A y \in S : u >= y  BY <1>2, <1>3
<1>5. Max(S) \in S /\ \A y \in S : Max(S) >= y  BY <1>4 DEF Max
<1> QED  BY <1>5

\* LatestTerminalScansByRepository answers with an ended scan, if there is one,
\* and no ended scan is newer.
LEMMA LatestTerminalFacts ==
    ASSUME NEW rows \in Seq({"running", "ok", "error"})
    PROVE  /\ LatestTerminal(rows) \in 0..Len(rows)
           /\ LatestTerminal(rows) # 0 => rows[LatestTerminal(rows)] \in {"ok", "error"}
           /\ \A i \in DOMAIN rows : rows[i] # "running" => i <= LatestTerminal(rows)
<1> DEFINE S == {0} \cup {i \in DOMAIN rows : rows[i] # "running"}
<1>1. Len(rows) \in Nat /\ DOMAIN rows = 1..Len(rows)  OBVIOUS
<1>2. S \in SUBSET (0..Len(rows)) /\ S # {}  BY <1>1
<1>3. Max(S) \in S /\ \A y \in S : y <= Max(S)
  <2> HIDE DEF S
  <2> QED  BY <1>1, <1>2, GreatestOf
<1>4. LatestTerminal(rows) = Max(S)  BY DEF LatestTerminal
<1>5. \A i \in DOMAIN rows : rows[i] \in {"running", "ok", "error"}  OBVIOUS
<1>6. \A m \in S : m \in 0..Len(rows) /\ (m # 0 => rows[m] \in {"ok", "error"})  BY <1>1, <1>5
<1>7. \A i \in DOMAIN rows : rows[i] # "running" => i \in S  OBVIOUS
<1> HIDE DEF S
<1> QED  BY <1>3, <1>4, <1>6, <1>7

-----------------------------------------------------------------------------
(* The types, by the parts of the state *)

Results == {"running", "ok", "error"}
Sessions == [stage : {"free", "sent", "stamped"}, flaws : Flaws \cup {{}}, at : Times]
Baselines == [established : BOOLEAN, good : BOOLEAN, handled : BOOLEAN]

ClockOK == now \in Times /\ changes \in 0..MaxChanges /\ faults \in 0..MaxFaults

AgentOK ==
    /\ turn \in BOOLEAN /\ agent \in Slots \cup {"ok", "failed"}
    /\ session \in [Slots -> Sessions]
    /\ row \in [seen : Times, stale : Nat]
    /\ row = NoRow \/ row.stale = row.seen + TTL

StoreOK == scans \in Seq(Results) /\ events \in Seq(Events)

EvalOK ==
    /\ pc \in [Processes -> {"agents", "agent", "scans", "scan"}]
    /\ snap \in [Processes -> Snapshots]
    /\ \A p \in Processes : snap[p] # Unknown => pc[p] \in {"agent", "scan"}
    /\ base \in [Processes -> [Subjects -> Baselines]]
    /\ \A p \in Processes, s \in Subjects : base[p][s].handled => ~base[p][s].good

\* TypeInv says of each part what it must.
LEMMA TypeParts == TypeInv <=> ClockOK /\ AgentOK /\ StoreOK /\ EvalOK
<1>1. ASSUME TypeInv PROVE ClockOK /\ AgentOK /\ StoreOK /\ EvalOK
  <2>1. ClockOK  BY <1>1 DEF TypeInv, TypeOK, ClockOK
  <2>2. AgentOK  BY <1>1 DEF TypeInv, TypeOK, AgentOK, Sessions
  <2>3. StoreOK  BY <1>1 DEF TypeInv, TypeOK, StoreOK, Results
  <2>4. EvalOK  BY <1>1 DEF TypeInv, TypeOK, EvalOK, Baselines
  <2> QED  BY <2>1, <2>2, <2>3, <2>4
<1>2. ASSUME ClockOK, AgentOK, StoreOK, EvalOK PROVE TypeInv
  <2>1. \A i \in DOMAIN events : events[i].subject \in Subjects /\ events[i].at \in Times
    <3>1. \A i \in DOMAIN events : events[i] \in Events  BY <1>2 DEF StoreOK
    <3> QED  BY <3>1 DEF Events
  <2>2. row = NoRow \/ (row.seen \in Times /\ row.stale = row.seen + TTL)  BY <1>2 DEF AgentOK
  <2>3. TypeOK  BY <1>2, <2>1, <2>2 DEF TypeOK, ClockOK, AgentOK, StoreOK, EvalOK, Sessions, Results, Baselines
  <2> QED  BY <1>2, <2>3 DEF TypeInv, AgentOK, StoreOK, EvalOK
<1> QED  BY <1>1, <1>2

\* What is not touched keeps its type.
LEMMA Unchanged ==
    /\ ClockOK /\ UNCHANGED <<now, changes, faults>> => ClockOK'
    /\ AgentOK /\ UNCHANGED agentVars => AgentOK'
    /\ StoreOK /\ UNCHANGED <<scans, events>> => StoreOK'
    /\ EvalOK /\ UNCHANGED <<pc, snap, base>> => EvalOK'
<1>1. ClockOK /\ UNCHANGED <<now, changes, faults>> => ClockOK'  BY DEF ClockOK, Times
<1>2. AgentOK /\ UNCHANGED agentVars => AgentOK'  BY DEF AgentOK, agentVars, Times
<1>3. StoreOK /\ UNCHANGED <<scans, events>> => StoreOK'  BY DEF StoreOK
<1>4. EvalOK /\ UNCHANGED <<pc, snap, base>> => EvalOK'  BY DEF EvalOK
<1> QED  BY <1>1, <1>2, <1>3, <1>4

\* A change or a fault is counted up to its bound.
LEMMA Counted ==
    /\ ClockOK /\ Change /\ UNCHANGED <<now, faults>> => ClockOK'
    /\ ClockOK /\ Fault /\ UNCHANGED <<now, changes>> => ClockOK'
BY WatchAssumption DEF ClockOK, Change, Fault, Times

-----------------------------------------------------------------------------
(* What the helpers of the actions do *)

\* The acknowledgement frees the session and may end the agent's wait.
LEMMA AnswerEffect ==
    ASSUME AgentOK, NEW s \in Slots, NEW code, Answer(s, code),
           UNCHANGED turn, row' \in [seen : Times, stale : Nat],
           row' = NoRow \/ row'.stale = row'.seen + TTL
    PROVE  AgentOK'
<1>1. Free \in Sessions  BY WatchAssumption DEF Free, Sessions, Times
<1>2. session' \in [Slots -> Sessions]  BY <1>1 DEF AgentOK, Answer
<1>3. agent' \in Slots \cup {"ok", "failed"}  BY DEF AgentOK, Answer, Outcome
<1>4. turn' \in BOOLEAN  BY DEF AgentOK
<1> QED  BY <1>2, <1>3, <1>4 DEF AgentOK, Times

\* Whether a row is good is a matter of yes or no.
LEMMA GoodIsBoolean ==
    ASSUME ClockOK, EvalOK, NEW p \in Processes
    PROVE  Good(p) \in BOOLEAN
<1>1. snap[p].ok \in BOOLEAN /\ snap[p].key \in Nat  BY DEF EvalOK, Snapshots
<1>2. now \in Int  BY WatchAssumption DEF ClockOK, Times
<1>3. (now < snap[p].key) \in BOOLEAN  BY <1>1, <1>2
<1> QED  BY <1>1, <1>3, Zenon DEF Good

\* The baseline of what is compared is set to what was read, and no other is.
LEMMA AdvanceEffect ==
    ASSUME ClockOK, EvalOK, NEW p \in Processes, Advance(p)
    PROVE  /\ base' \in [Processes -> [Subjects -> Baselines]]
           /\ \A q \in Processes, s \in Subjects :
                  base'[q][s] = IF q = p /\ s = SubjectOf(p)
                                THEN [established |-> TRUE, good |-> Good(p), handled |-> IsEdge(p) /\ ~Good(p)]
                                ELSE base[q][s]
           /\ \A q \in Processes, s \in Subjects : base'[q][s].handled => ~base'[q][s].good
           /\ base'[p][SubjectOf(p)].handled => IsEdge(p) /\ ~Good(p)
<1> DEFINE b == [established |-> TRUE, good |-> Good(p), handled |-> IsEdge(p) /\ ~Good(p)]
<1>1. b \in Baselines /\ (b.handled => ~b.good)
  <2>1. Good(p) \in BOOLEAN  BY GoodIsBoolean
  <2>2. (IsEdge(p) /\ ~Good(p)) \in BOOLEAN  OBVIOUS
  <2> QED  BY <2>1, <2>2 DEF Baselines
<1>2. SubjectOf(p) \in Subjects  BY DEF SubjectOf, Subjects
<1>3. base' = [base EXCEPT ![p] = [base[p] EXCEPT ![SubjectOf(p)] = b]]  BY DEF Advance, EvalOK
<1>4. base \in [Processes -> [Subjects -> Baselines]]  BY DEF EvalOK
<1> HIDE DEF b
<1>5. base' \in [Processes -> [Subjects -> Baselines]]  BY <1>1, <1>2, <1>3, <1>4
<1>6. \A q \in Processes, s \in Subjects :
          base'[q][s] = IF q = p /\ s = SubjectOf(p) THEN b ELSE base[q][s]  BY <1>2, <1>3, <1>4
<1>7. \A q \in Processes, s \in Subjects : base'[q][s].handled => ~base'[q][s].good
  BY <1>1, <1>6 DEF EvalOK
<1>8. b.handled => IsEdge(p) /\ ~Good(p)  BY Zenon DEF b
<1>9. base'[p][SubjectOf(p)] = b  BY <1>2, <1>6
<1>10. base'[p][SubjectOf(p)].handled => IsEdge(p) /\ ~Good(p)  BY <1>8, <1>9
<1> QED  BY <1>5, <1>6, <1>7, <1>10 DEF b

\* After a comparison the evaluator goes on, and has forgotten what it read.
LEMMA ContinueEffect ==
    ASSUME EvalOK, NEW p \in Processes, Continue(p)
    PROVE  /\ pc' \in [Processes -> {"agents", "agent", "scans", "scan"}]
           /\ snap' \in [Processes -> Snapshots]
           /\ \A q \in Processes : q # p => pc'[q] = pc[q] /\ snap'[q] = snap[q]
           /\ pc'[p] \in {"agents", "scans"} /\ snap'[p] = Unknown
           /\ \A q \in Processes : snap'[q] # Unknown => pc'[q] \in {"agent", "scan"}
<1>1. Unknown \in Snapshots  BY DEF Unknown, Snapshots
<1>2. After(p) \in {"agents", "scans"}  BY DEF After
<1> QED  BY <1>1, <1>2 DEF EvalOK, Continue

\* The event of an edge is one the store takes, of the time that is now.
LEMMA EventIsEvent ==
    ASSUME ClockOK, EvalOK, NEW p \in Processes
    PROVE  EventOf(p) \in Events
<1>1. snap[p].seen \in Nat /\ snap[p].key \in Nat  BY DEF EvalOK, Snapshots
<1>2. now \in Times /\ 0 \in Times  BY WatchAssumption DEF ClockOK, Times
<1>3. SubjectOf(p) \in Subjects  BY DEF SubjectOf, Subjects
<1> QED  BY <1>1, <1>2, <1>3 DEF EventOf, Events

\* An enqueue without an error leaves the event behind, pending and last, or finds
\* one of the same kind that is pending or was delivered within the cooldown.
LEMMA EnqueueEffect ==
    ASSUME StoreOK, NEW e \in Events, Enqueue(e)
    PROVE  \/ UNCHANGED events /\ (Duplicate(e) \/ Suppressed(e))
           \/ /\ ~Duplicate(e) /\ ~Suppressed(e)
              /\ events' \in Seq(Events) /\ Len(events') = Len(events) + 1
              /\ events'[Len(events')] = e
              /\ \A i \in DOMAIN events : events'[i] = events[i]
<1>1. CASE Duplicate(e) \/ Suppressed(e)  BY <1>1 DEF Enqueue
<1>2. CASE ~(Duplicate(e) \/ Suppressed(e))
  <2>1. events' = Append(events, e) /\ events \in Seq(Events)  BY <1>2 DEF Enqueue, StoreOK
  <2>2. Len(events) \in Nat /\ DOMAIN events = 1..Len(events)  BY <2>1
  <2>3. /\ events' \in Seq(Events) /\ Len(events') = Len(events) + 1
        /\ \A i \in 1..Len(events) : events'[i] = events[i]
        /\ events'[Len(events) + 1] = e
    BY <2>1, AppendProperties
  <2> QED  BY <1>2, <2>2, <2>3
<1> QED  BY <1>1, <1>2

\* What an enqueue does to the type.
LEMMA EnqueueType ==
    ASSUME ClockOK, EvalOK, StoreOK, NEW p \in Processes, Enqueue(EventOf(p)), UNCHANGED scans
    PROVE  StoreOK'
<1>1. EventOf(p) \in Events  BY EventIsEvent
<1>2. events' \in Seq(Events)  BY <1>1, EnqueueEffect DEF StoreOK
<1> QED  BY <1>2 DEF StoreOK

-----------------------------------------------------------------------------
(* Type correctness *)

\* A dashboard over an empty database: no report, no scan, no baseline, no event.
LEMMA InitType == ASSUME Init PROVE TypeInv
<1>1. ClockOK
  BY WatchAssumption DEF Init, ClockOK, Times
<1>2. AgentOK
  <2>1. Free \in Sessions  BY WatchAssumption DEF Free, Sessions, Times
  <2>2. NoRow \in [seen : Times, stale : Nat]  BY WatchAssumption DEF NoRow, Times
  <2> QED  BY <2>1, <2>2 DEF Init, AgentOK
<1>3. StoreOK
  BY EmptySeq DEF Init, StoreOK
<1>4. EvalOK
  <2>1. Unknown \in Snapshots /\ Unset \in Baselines /\ ~Unset.handled
    BY DEF Unknown, Snapshots, Unset, Baselines
  <2> QED  BY <2>1 DEF Init, EvalOK
<1> QED  BY <1>1, <1>2, <1>3, <1>4, TypeParts

\* The steps of the clock, the agent and the sessions.
LEMMA AgentTypes ==
    ASSUME TypeInv,
           \/ Tick \/ SendFails \/ GiveUp
           \/ \E s \in Slots : Send(s) \/ Refuse(s) \/ Stamp(s) \/ Store(s) \/ StoreFails(s)
    PROVE  TypeInv'
<1>0. ClockOK /\ AgentOK /\ StoreOK /\ EvalOK  BY TypeParts
<1>1. StoreOK' /\ EvalOK'
  <2>1. UNCHANGED <<scans, evalVars>>
    BY DEF Tick, SendFails, GiveUp, Send, Refuse, Stamp, Store, StoreFails
  <2> QED  BY <1>0, <2>1, Unchanged DEF evalVars
<1>2. ClockOK'
  <2>1. CASE Tick  BY <1>0, <2>1, WatchAssumption DEF Tick, ClockOK, Times
  <2>2. CASE SendFails \/ GiveUp  BY <1>0, <2>2, Unchanged DEF SendFails, GiveUp
  <2>3. ASSUME NEW s \in Slots, Send(s) PROVE ClockOK'  BY <1>0, <2>3, Counted DEF Send
  <2>4. ASSUME NEW s \in Slots, Refuse(s) \/ Stamp(s) \/ Store(s) PROVE ClockOK'
    BY <1>0, <2>4, Unchanged DEF Refuse, Stamp, Store
  <2>5. ASSUME NEW s \in Slots, StoreFails(s) PROVE ClockOK'  BY <1>0, <2>5, Counted DEF StoreFails
  <2> QED  BY <2>1, <2>2, <2>3, <2>4, <2>5
<1>3. AgentOK'
  <2>1. CASE Tick  BY <1>0, <2>1 DEF Tick, AgentOK, Times
  <2>2. CASE SendFails \/ GiveUp  BY <1>0, <2>2 DEF SendFails, GiveUp, AgentOK, Times
  <2>3. ASSUME NEW s \in Slots, Send(s) PROVE AgentOK'
    <3>1. PICK f \in Flaws : session' = [session EXCEPT ![s] = [session[s] EXCEPT !.stage = "sent", !.flaws = f]]
      BY <2>3 DEF Send
    <3>2. session' \in [Slots -> Sessions]  BY <1>0, <3>1 DEF AgentOK, Sessions
    <3> QED  BY <1>0, <2>3, <3>2 DEF Send, AgentOK, Times
  <2>4. ASSUME NEW s \in Slots, Refuse(s) PROVE AgentOK'
    BY <1>0, <2>4, AnswerEffect DEF Refuse, AgentOK
  <2>5. ASSUME NEW s \in Slots, Stamp(s) PROVE AgentOK'
    <3>1. session' \in [Slots -> Sessions]  BY <1>0, <2>5 DEF Stamp, AgentOK, Sessions, ClockOK
    <3> QED  BY <1>0, <2>5, <3>1 DEF Stamp, AgentOK, Times
  <2>6. ASSUME NEW s \in Slots, Store(s) PROVE AgentOK'
    <3>1. session[s].at \in Times  BY <1>0 DEF AgentOK, Sessions
    <3>2. row' \in [seen : Times, stale : Nat] /\ row'.stale = row'.seen + TTL
      BY <2>6, <3>1, WatchAssumption DEF Store, Times
    <3> QED  BY <1>0, <2>6, <3>2, AnswerEffect DEF Store
  <2>7. ASSUME NEW s \in Slots, StoreFails(s) PROVE AgentOK'
    BY <1>0, <2>7, AnswerEffect DEF StoreFails, AgentOK
  <2> QED  BY <2>1, <2>2, <2>3, <2>4, <2>5, <2>6, <2>7
<1> QED  BY <1>1, <1>2, <1>3, TypeParts, PTL

\* The steps of the scans and of the delivery workers.
LEMMA StoreTypes ==
    ASSUME TypeInv,
           \/ StartScan \/ \E i \in DOMAIN scans : EndScan(i)
           \/ \E i \in DOMAIN events : Close(i)
    PROVE  TypeInv'
<1>0. ClockOK /\ AgentOK /\ StoreOK /\ EvalOK  BY TypeParts
<1>1. AgentOK' /\ EvalOK'
  <2>1. UNCHANGED <<agentVars, pc, snap, base>>  BY DEF StartScan, EndScan, Close, evalVars
  <2> QED  BY <1>0, <2>1, Unchanged
<1>2. ClockOK'
  <2>1. CASE StartScan  BY <1>0, <2>1, Counted DEF StartScan
  <2>2. CASE ~StartScan  BY <1>0, <2>2, Unchanged DEF EndScan, Close
  <2> QED  BY <2>1, <2>2
<1>3. StoreOK'
  <2>1. CASE StartScan
    <3>1. scans' \in Seq(Results)
      BY <1>0, <2>1, AppendProperties DEF StartScan, StoreOK, Results
    <3> QED  BY <1>0, <2>1, <3>1 DEF StartScan, StoreOK, evalVars
  <2>2. ASSUME NEW i \in DOMAIN scans, EndScan(i) PROVE StoreOK'
    <3>1. PICK r \in Results : scans' = [scans EXCEPT ![i] = r]  BY <2>2 DEF EndScan, Results
    <3>2. i \in 1..Len(scans) /\ scans \in Seq(Results)  BY <1>0 DEF StoreOK
    <3>3. scans' \in Seq(Results)  BY <3>1, <3>2, ExceptSeq
    <3> QED  BY <1>0, <2>2, <3>3 DEF EndScan, StoreOK, evalVars
  <2>3. ASSUME NEW i \in DOMAIN events, Close(i) PROVE StoreOK'
    <3>1. i \in 1..Len(events) /\ events \in Seq(Events)  BY <1>0 DEF StoreOK
    <3>2. events[i] \in Events  BY <3>1
    <3>3. PICK r \in {"delivered", "dead"} :
              events' = [events EXCEPT ![i] = [events[i] EXCEPT !.status = r, !.closed = now]]
      BY <2>3 DEF Close
    <3>4. [events[i] EXCEPT !.status = r, !.closed = now] \in Events
      BY <1>0, <3>2 DEF Events, ClockOK
    <3>5. events' \in Seq(Events)  BY <3>1, <3>3, <3>4, ExceptSeq
    <3> QED  BY <1>0, <2>3, <3>5 DEF Close, StoreOK
  <2> QED  BY <2>1, <2>2, <2>3
<1> QED  BY <1>1, <1>2, <1>3, TypeParts, PTL

\* What the evaluators read.
LEMMA ReadsTypes ==
    ASSUME TypeInv, NEW p \in Processes, ReadAgents(p) \/ ReadScans(p) \/ ReadFails(p)
    PROVE  TypeInv'
<1>0. ClockOK /\ AgentOK /\ StoreOK /\ EvalOK  BY TypeParts
<1>1. AgentOK' /\ StoreOK'
  <2>1. UNCHANGED <<agentVars, scans, events>>  BY DEF ReadAgents, ReadScans, ReadFails
  <2> QED  BY <1>0, <2>1, Unchanged
<1>2. ClockOK'
  <2>1. CASE ReadFails(p)  BY <1>0, <2>1, Counted DEF ReadFails
  <2>2. CASE ~ReadFails(p)  BY <1>0, <2>2, Unchanged DEF ReadAgents, ReadScans
  <2> QED  BY <2>1, <2>2
<1>3. EvalOK'
  <2>1. CASE ReadAgents(p)
    <3> DEFINE r == [known |-> row # NoRow, seen |-> row.seen, key |-> row.stale, ok |-> FALSE]
    <3>1. row.seen \in Nat /\ row.stale \in Nat /\ (row # NoRow) \in BOOLEAN
      BY <1>0 DEF AgentOK, Times
    <3>2. r \in Snapshots  BY <3>1 DEF Snapshots
    <3>3. snap' = [snap EXCEPT ![p] = r] /\ pc' = [pc EXCEPT ![p] = "agent"] /\ base' = base
      BY <2>1 DEF ReadAgents
    <3> HIDE DEF r
    <3> QED  BY <1>0, <3>2, <3>3 DEF EvalOK
  <2>2. CASE ReadScans(p)
    <3> DEFINE id == LatestTerminal(scans)
               r == [known |-> id # 0, seen |-> id, key |-> id, ok |-> id # 0 /\ scans[id] = "ok"]
    <3>1. id \in Nat  BY <1>0, LatestTerminalFacts DEF StoreOK, Results
    <3>2. r \in Snapshots  BY <3>1 DEF Snapshots
    <3>3. snap' = [snap EXCEPT ![p] = r] /\ pc' = [pc EXCEPT ![p] = "scan"] /\ base' = base
      BY <2>2 DEF ReadScans
    <3> HIDE DEF r
    <3> QED  BY <1>0, <3>2, <3>3 DEF EvalOK
  <2>3. CASE ReadFails(p)
    <3>1. Unknown \in Snapshots  BY DEF Unknown, Snapshots
    <3>2. snap' = [snap EXCEPT ![p] = Unknown] /\ pc' = [pc EXCEPT ![p] = After(p)] /\ base' = base
      BY <2>3 DEF ReadFails
    <3>3. After(p) \in {"agents", "scans"}  BY DEF After
    <3> QED  BY <1>0, <3>1, <3>2, <3>3 DEF EvalOK
  <2> QED  BY <2>1, <2>2, <2>3
<1> QED  BY <1>1, <1>2, <1>3, TypeParts, PTL

\* What the evaluators conclude and tell of.
LEMMA ComparesTypes ==
    ASSUME TypeInv, NEW p \in Processes, Compare(p) \/ Tell(p) \/ TellFails(p)
    PROVE  TypeInv'
<1>0. ClockOK /\ AgentOK /\ StoreOK /\ EvalOK  BY TypeParts
<1>1. AgentOK'  BY <1>0, Unchanged DEF Compare, Tell, TellFails
<1>2. ClockOK'
  <2>1. CASE TellFails(p)  BY <1>0, <2>1, Counted DEF TellFails
  <2>2. CASE ~TellFails(p)  BY <1>0, <2>2, Unchanged DEF Compare, Tell
  <2> QED  BY <2>1, <2>2
<1>3. StoreOK'
  <2>1. CASE Enqueue(EventOf(p))  BY <1>0, <2>1, EnqueueType DEF Compare, Tell, TellFails
  <2>2. CASE ~Enqueue(EventOf(p))  BY <1>0, <2>2, Unchanged DEF Compare, Tell, TellFails
  <2> QED  BY <2>1, <2>2
<1>4. EvalOK'
  <2>1. Continue(p) /\ (Advance(p) \/ UNCHANGED base)  BY DEF Compare, Tell, TellFails
  <2>2. /\ base' \in [Processes -> [Subjects -> Baselines]]
        /\ \A q \in Processes, s \in Subjects : base'[q][s].handled => ~base'[q][s].good
    <3>1. CASE Advance(p)  BY <1>0, <3>1, AdvanceEffect
    <3>2. CASE UNCHANGED base  BY <1>0, <3>2 DEF EvalOK
    <3> QED  BY <2>1, <3>1, <3>2
  <2> QED  BY <1>0, <2>1, <2>2, ContinueEffect DEF EvalOK
<1> QED  BY <1>1, <1>2, <1>3, <1>4, TypeParts, PTL

\* A process that is replaced begins with nothing.
LEMMA RestartTypes == ASSUME TypeInv, NEW p \in Processes, Restart(p) PROVE TypeInv'
<1>0. ClockOK /\ AgentOK /\ StoreOK /\ EvalOK  BY TypeParts
<1>1. ClockOK' /\ StoreOK'  BY <1>0, Counted, Unchanged DEF Restart
<1>2. AgentOK'
  <2>1. PICK held \in SUBSET Slots : session' = [s \in Slots |-> IF s \in held THEN Free ELSE session[s]]
    BY DEF Restart
  <2>2. Free \in Sessions  BY WatchAssumption DEF Free, Sessions, Times
  <2>3. session' \in [Slots -> Sessions]  BY <1>0, <2>1, <2>2 DEF AgentOK
  <2> QED  BY <1>0, <2>3 DEF Restart, AgentOK, Times
<1>3. EvalOK'
  <2>1. Unknown \in Snapshots /\ Unset \in Baselines /\ ~Unset.handled
    BY DEF Unknown, Snapshots, Unset, Baselines
  <2>2. /\ snap' = [snap EXCEPT ![p] = Unknown] /\ pc' = [pc EXCEPT ![p] = "agents"]
        /\ base' = [base EXCEPT ![p] = [s \in Subjects |-> Unset]]
    BY DEF Restart
  <2> QED  BY <1>0, <2>1, <2>2 DEF EvalOK
<1> QED  BY <1>1, <1>2, <1>3, TypeParts, PTL

\* No step of the agent, the sessions, the scans, the workers or the evaluators
\* leaves the types.
LEMMA StepType == ASSUME TypeInv, [Next]_vars PROVE TypeInv'
<1>1. CASE UNCHANGED vars
  <2>1. ClockOK /\ AgentOK /\ StoreOK /\ EvalOK  BY TypeParts
  <2>2. ClockOK' /\ AgentOK' /\ StoreOK' /\ EvalOK'
    BY <1>1, <2>1, Unchanged DEF vars, evalVars
  <2> QED  BY <2>2, TypeParts, PTL
<1>2. CASE Next
  BY <1>2, AgentTypes, StoreTypes, ReadsTypes, ComparesTypes, RestartTypes DEF Next, Evaluate
<1> QED  BY <1>1, <1>2

\* In every behaviour of the agents, the scans and the evaluators, the state has
\* the types of TypeOK, and the outbox holds events.
THEOREM TypeCorrect == Spec => []TypeInv
<1>1. Init => TypeInv  BY InitType
<1>2. TypeInv /\ [Next]_vars => TypeInv'  BY StepType
<1> QED  BY <1>1, <1>2, PTL DEF Spec

\* TypeOK holds: what the sessions, the evaluators and the workers write is of the
\* types the run checks, and a failure that was seen to is a failure.
THEOREM TypesHold == Spec => []TypeOK
<1>1. TypeInv => TypeOK  BY DEF TypeInv
<1> QED  BY <1>1, TypeCorrect, PTL

-----------------------------------------------------------------------------
(* What a step does to the outbox and to the scans *)

\* e says the same as f, whatever became of its deliveries.
SameEvent(e, f) == e.subject = f.subject /\ e.kind = f.kind /\ e.key = f.key /\ e.at = f.at

\* Events and ended scans stay what they were, and time does not run backwards.
Keeps ==
    /\ now <= now'
    /\ \A i \in DOMAIN events : i \in DOMAIN events' /\ SameEvent(events'[i], events[i])
    /\ \A i \in DOMAIN events : events[i].status # "pending" => events'[i] = events[i]
    /\ \A i \in DOMAIN scans : i \in DOMAIN scans'
    /\ \A i \in DOMAIN scans : scans[i] # "running" => scans'[i] = scans[i]

\* The step adds an event: an evaluator tells of an edge that the outbox did not
\* suppress.
Adds(p) ==
    /\ pc[p] \in {"agent", "scan"} /\ IsEdge(p) /\ ~IsSilent(p)
    /\ ~Duplicate(EventOf(p)) /\ ~Suppressed(EventOf(p))
    /\ EventOf(p) \in Events
    /\ Len(events') = Len(events) + 1 /\ events'[Len(events) + 1] = EventOf(p)
    /\ UNCHANGED <<now, scans>>

\* When an evaluator tells of an edge, events are kept, or one is added at the end.
LEMMA TellKeeps ==
    ASSUME TypeInv, NEW p \in Processes, Tell(p) \/ TellFails(p)
    PROVE  Keeps /\ (DOMAIN events' = DOMAIN events \/ Adds(p))
<1>0. ClockOK /\ AgentOK /\ StoreOK /\ EvalOK  BY TypeParts
<1>1. now \in Nat /\ now' = now /\ scans' = scans
  BY <1>0, WatchAssumption DEF ClockOK, Times, Tell, TellFails
<1>2. EventOf(p) \in Events  BY <1>0, EventIsEvent
<1>3. Len(events) \in Nat /\ DOMAIN events = 1..Len(events)  BY <1>0 DEF StoreOK
<1>4. UNCHANGED events \/ Enqueue(EventOf(p))  BY DEF Tell, TellFails
<1>5. CASE UNCHANGED events
  BY <1>1, <1>5 DEF Keeps, SameEvent
<1>6. CASE /\ ~Duplicate(EventOf(p)) /\ ~Suppressed(EventOf(p))
           /\ events' \in Seq(Events) /\ Len(events') = Len(events) + 1
           /\ events'[Len(events')] = EventOf(p)
           /\ \A i \in DOMAIN events : events'[i] = events[i]
  <2>1. DOMAIN events' = 1..(Len(events) + 1)  BY <1>6
  <2>2. Keeps  BY <1>1, <1>3, <1>6, <2>1 DEF Keeps, SameEvent
  <2>3. pc[p] \in {"agent", "scan"} /\ IsEdge(p) /\ ~IsSilent(p)  BY DEF Tell, TellFails
  <2>4. Adds(p)  BY <1>1, <1>2, <1>6, <2>3 DEF Adds
  <2> QED  BY <2>2, <2>4
<1>7. UNCHANGED events \/ (/\ ~Duplicate(EventOf(p)) /\ ~Suppressed(EventOf(p))
                           /\ events' \in Seq(Events) /\ Len(events') = Len(events) + 1
                           /\ events'[Len(events')] = EventOf(p)
                           /\ \A i \in DOMAIN events : events'[i] = events[i])
  BY <1>0, <1>2, <1>4, EnqueueEffect
<1> QED  BY <1>5, <1>6, <1>7

\* Every step keeps what is stored, and only an evaluator's telling adds to it.
LEMMA StepKeeps ==
    ASSUME TypeInv, [Next]_vars
    PROVE  /\ Keeps
           /\ DOMAIN events' = DOMAIN events \/ \E p \in Processes : (Tell(p) \/ TellFails(p)) /\ Adds(p)
<1>0. ClockOK /\ AgentOK /\ StoreOK /\ EvalOK  BY TypeParts
<1>1. now \in Nat  BY <1>0, WatchAssumption DEF ClockOK, Times
<1>2. ASSUME NEW p \in Processes, Tell(p) \/ TellFails(p)
      PROVE  Keeps /\ (DOMAIN events' = DOMAIN events \/ Adds(p))
  BY <1>2, TellKeeps
<1>3. ASSUME UNCHANGED <<scans, events>>, now' \in {now, now + 1}
      PROVE  Keeps /\ DOMAIN events' = DOMAIN events
  BY <1>1, <1>3 DEF Keeps, SameEvent
<1>4. CASE \/ UNCHANGED vars \/ Tick \/ SendFails \/ GiveUp
           \/ \E s \in Slots : Send(s) \/ Refuse(s) \/ Stamp(s) \/ Store(s) \/ StoreFails(s)
           \/ \E p \in Processes : ReadAgents(p) \/ ReadScans(p) \/ Compare(p) \/ ReadFails(p) \/ Restart(p)
  <2>1. UNCHANGED <<scans, events>> /\ now' \in {now, now + 1}
    BY <1>4 DEF vars, evalVars, Tick, SendFails, GiveUp, Send, Refuse, Stamp, Store, StoreFails,
                ReadAgents, ReadScans, Compare, ReadFails, Restart
  <2> QED  BY <1>3, <2>1
<1>5. CASE StartScan
  <2>1. scans \in Seq(Results) /\ scans' = Append(scans, "running") /\ UNCHANGED <<now, events>>
    BY <1>0, <1>5 DEF StoreOK, StartScan, evalVars
  <2>2. "running" \in Results  BY DEF Results
  <2>3. Len(scans) \in Nat /\ DOMAIN scans = 1..Len(scans)  BY <2>1
  <2>4. scans' \in Seq(Results) /\ Len(scans') = Len(scans) + 1 /\ \A i \in 1..Len(scans) : scans'[i] = scans[i]
    BY <2>1, <2>2, AppendProperties
  <2>5. DOMAIN scans' = 1..(Len(scans) + 1)  BY <2>4
  <2> QED  BY <1>1, <2>1, <2>3, <2>4, <2>5 DEF Keeps, SameEvent
<1>6. ASSUME NEW k \in DOMAIN scans, EndScan(k) PROVE Keeps /\ DOMAIN events' = DOMAIN events
  <2>1. PICK r : scans' = [scans EXCEPT ![k] = r]  BY <1>6 DEF EndScan
  <2>2. scans[k] = "running" /\ UNCHANGED <<now, events>>  BY <1>6 DEF EndScan, evalVars
  <2> QED  BY <1>1, <2>1, <2>2 DEF Keeps, SameEvent
<1>7. ASSUME NEW k \in DOMAIN events, Close(k) PROVE Keeps /\ DOMAIN events' = DOMAIN events
  <2>1. PICK r : events' = [events EXCEPT ![k] = [events[k] EXCEPT !.status = r, !.closed = now]]
    BY <1>7 DEF Close
  <2>2. events[k].status = "pending" /\ UNCHANGED <<now, scans>>  BY <1>7 DEF Close
  <2>3. \A i \in DOMAIN events : events[i] \in Events  BY <1>0 DEF StoreOK
  <2>4. \A i \in DOMAIN events : i # k => events'[i] = events[i]  BY <2>1
  <2>5. SameEvent(events'[k], events[k])  BY <2>1, <2>3 DEF SameEvent, Events
  <2>6. \A i \in DOMAIN events : SameEvent(events'[i], events[i])  BY <2>4, <2>5 DEF SameEvent
  <2> QED  BY <1>1, <2>1, <2>2, <2>4, <2>6 DEF Keeps
<1> QED  BY <1>2, <1>4, <1>5, <1>6, <1>7 DEF Next, Evaluate

-----------------------------------------------------------------------------
(* What was read, and the failures that were told of *)

\* A step of the evaluator of p, after which it has forgotten what it read.
Forgets(p) == Compare(p) \/ Tell(p) \/ TellFails(p) \/ ReadFails(p) \/ Restart(p)

\* What an evaluator has read changes only when it reads, compares or begins anew.
LEMMA StepEvaluator ==
    ASSUME TypeInv, [Next]_vars, NEW p \in Processes
    PROVE  \/ pc'[p] = pc[p] /\ snap'[p] = snap[p] /\ base'[p] = base[p]
           \/ ReadAgents(p) \/ ReadScans(p)
           \/ Forgets(p) /\ snap'[p] = Unknown
<1>0. EvalOK  BY TypeParts
<1>1. CASE UNCHANGED vars  BY <1>1 DEF vars, evalVars
<1>2. CASE UNCHANGED <<pc, snap, base>>  BY <1>2
<1>3. ASSUME NEW q \in Processes, ReadAgents(q) \/ ReadScans(q)
      PROVE  q = p \/ (pc'[p] = pc[p] /\ snap'[p] = snap[p] /\ base'[p] = base[p])
  BY <1>0, <1>3 DEF ReadAgents, ReadScans, EvalOK
<1>4. ASSUME NEW q \in Processes, ReadFails(q) \/ Restart(q)
      PROVE  \/ pc'[p] = pc[p] /\ snap'[p] = snap[p] /\ base'[p] = base[p]
             \/ q = p /\ snap'[p] = Unknown
  BY <1>0, <1>4 DEF ReadFails, Restart, EvalOK
<1>5. ASSUME NEW q \in Processes, Compare(q) \/ Tell(q) \/ TellFails(q)
      PROVE  \/ pc'[p] = pc[p] /\ snap'[p] = snap[p] /\ base'[p] = base[p]
             \/ q = p /\ snap'[p] = Unknown
  <2>1. Continue(q) /\ (Advance(q) \/ UNCHANGED base)  BY <1>5 DEF Compare, Tell, TellFails
  <2>2. q # p => base'[p] = base[p]  BY <1>0, <2>1 DEF Advance, EvalOK
  <2> QED  BY <1>0, <2>1, <2>2, ContinueEffect
<1>6. CASE Next
  <2>1. \/ UNCHANGED <<pc, snap, base>>
        \/ \E q \in Processes : \/ ReadAgents(q) \/ ReadScans(q) \/ ReadFails(q) \/ Restart(q)
                                \/ Compare(q) \/ Tell(q) \/ TellFails(q)
    BY <1>6 DEF Next, Evaluate, evalVars, Tick, SendFails, GiveUp, Send, Refuse, Stamp, Store, StoreFails,
                StartScan, EndScan, Close
  <2> QED  BY <1>2, <1>3, <1>4, <1>5, <2>1 DEF Forgets
<1> QED  BY <1>1, <1>6

\* What is read from the store is what SnapInv says, and it stays so.
LEMMA StepSnapInv == ASSUME TypeInv, SnapInv, [Next]_vars PROVE SnapInv'
<1> SUFFICES ASSUME NEW p \in Processes, snap'[p].known
             PROVE  /\ pc'[p] = "agent" => snap'[p].key = snap'[p].seen + TTL
                    /\ pc'[p] = "scan" =>
                          /\ snap'[p].seen \in DOMAIN scans' /\ snap'[p].key = snap'[p].seen
                          /\ scans'[snap'[p].seen] = IF snap'[p].ok THEN "ok" ELSE "error"
  BY DEF SnapInv
<1>0. AgentOK /\ StoreOK /\ EvalOK  BY TypeParts
<1>1. CASE pc'[p] = pc[p] /\ snap'[p] = snap[p]
  <2>1. Keeps  BY StepKeeps
  <2>2. snap[p].ok \in BOOLEAN  BY <1>0 DEF EvalOK, Snapshots
  <2>3. pc[p] = "agent" => snap[p].key = snap[p].seen + TTL  BY <1>1 DEF SnapInv
  <2>4. CASE pc[p] = "scan"
    <3>1. /\ snap[p].seen \in DOMAIN scans /\ snap[p].key = snap[p].seen
          /\ scans[snap[p].seen] = IF snap[p].ok THEN "ok" ELSE "error"
      BY <1>1, <2>4 DEF SnapInv
    <3>2. snap[p].seen \in DOMAIN scans' /\ scans'[snap[p].seen] = scans[snap[p].seen]
      BY <2>1, <3>1 DEF Keeps
    <3> QED  BY <1>1, <2>4, <3>1, <3>2
  <2> QED  BY <1>1, <2>3, <2>4
<1>2. CASE ReadAgents(p)
  <2>1. pc'[p] = "agent" /\ snap'[p].known = (row # NoRow) /\ snap'[p].seen = row.seen /\ snap'[p].key = row.stale
    BY <1>0, <1>2 DEF ReadAgents, EvalOK
  <2> QED  BY <1>0, <2>1 DEF AgentOK
<1>3. CASE ReadScans(p)
  <2> DEFINE id == LatestTerminal(scans)
  <2>1. /\ pc'[p] = "scan" /\ snap'[p].known = (id # 0) /\ snap'[p].seen = id /\ snap'[p].key = id
        /\ snap'[p].ok = (id # 0 /\ scans[id] = "ok") /\ scans' = scans
    BY <1>0, <1>3 DEF ReadScans, EvalOK
  <2>2. id \in 0..Len(scans) /\ (id # 0 => scans[id] \in {"ok", "error"})
    BY <1>0, LatestTerminalFacts DEF StoreOK, Results
  <2>3. Len(scans) \in Nat /\ DOMAIN scans = 1..Len(scans)  BY <1>0 DEF StoreOK
  <2> HIDE DEF id
  <2>4. id # 0 /\ id \in DOMAIN scans
    <3>1. id # 0  BY <2>1
    <3> QED  BY <2>2, <2>3, <3>1
  <2>5. scans[id] = IF snap'[p].ok THEN "ok" ELSE "error"  BY <2>1, <2>2, <2>4
  <2> QED  BY <2>1, <2>4, <2>5
<1>4. CASE snap'[p] = Unknown  BY <1>4 DEF Unknown
<1> QED  BY <1>1, <1>2, <1>3, <1>4, StepEvaluator

\* A failure that is told of is one of what was read: an expired row or a scan
\* that has failed.
LEMMA TellsWhatHappened ==
    ASSUME TypeInv, SnapInv, NEW p \in Processes, IsEdge(p), pc[p] \in {"agent", "scan"}, ~Good(p)
    PROVE  /\ EventOf(p).kind = "failure" /\ EventOf(p).subject = SubjectOf(p) /\ EventOf(p).at = now
           /\ pc[p] = "agent" => SubjectOf(p) = "agent" /\ EventOf(p).key <= now
           /\ pc[p] = "scan" => /\ SubjectOf(p) = "repository"
                                /\ EventOf(p).key \in DOMAIN scans /\ scans[EventOf(p).key] = "error"
<1>0. ClockOK /\ EvalOK  BY TypeParts
<1>1. now \in Nat /\ snap[p].key \in Nat
  BY <1>0, WatchAssumption DEF ClockOK, Times, EvalOK, Snapshots
<1>2. snap[p].known  BY DEF IsEdge
<1>3. /\ EventOf(p).kind = "failure" /\ EventOf(p).key = snap[p].key
      /\ EventOf(p).subject = SubjectOf(p) /\ EventOf(p).at = now
  BY DEF EventOf
<1>4. CASE pc[p] = "agent"
  <2>1. ~(now < snap[p].key)  BY <1>4 DEF Good
  <2> QED  BY <1>1, <1>3, <1>4, <2>1 DEF SubjectOf
<1>5. CASE pc[p] = "scan"
  <2>1. ~snap[p].ok  BY <1>5 DEF Good
  <2> QED  BY <1>2, <1>3, <1>5, <2>1 DEF SubjectOf, SnapInv
<1> QED  BY <1>3, <1>4, <1>5

\* What was told of has happened, and that cannot be undone.
LEMMA StepFailuresInv == ASSUME TypeInv, SnapInv, FailuresInv, [Next]_vars PROVE FailuresInv'
<1>0. ClockOK /\ StoreOK /\ EvalOK  BY TypeParts
<1>1. Keeps  BY StepKeeps
<1>2. now \in Nat /\ now' \in Nat /\ now <= now'
  <2>1. ClockOK'  BY StepType, TypeParts, PTL
  <2> QED  BY <1>0, <1>1, <2>1, WatchAssumption DEF ClockOK, Times, Keeps
<1>3. ASSUME NEW i \in DOMAIN events
      PROVE  /\ events'[i].at <= now'
             /\ IsFailure(i, "agent")' => events'[i].key <= events'[i].at
             /\ IsFailure(i, "repository")' => events'[i].key \in DOMAIN scans' /\ scans'[events'[i].key] = "error"
  <2>1. SameEvent(events'[i], events[i])  BY <1>1 DEF Keeps
  <2>2. events[i] \in Events  BY <1>0 DEF StoreOK
  <2>3. events[i].at \in Nat  BY <2>2, WatchAssumption DEF Events, Times
  <2>4. events[i].at <= now /\ (IsFailure(i, "agent") => events[i].key <= events[i].at)
    BY DEF FailuresInv
  <2>5. IsFailure(i, "repository") =>
            events[i].key \in DOMAIN scans' /\ scans'[events[i].key] = "error"
    BY <1>1 DEF FailuresInv, Keeps
  <2>6. \A s : IsFailure(i, s)' <=> IsFailure(i, s)  BY <2>1 DEF IsFailure, SameEvent
  <2> QED  BY <1>2, <2>1, <2>3, <2>4, <2>5, <2>6 DEF SameEvent
<1>4. ASSUME NEW p \in Processes, Adds(p), NEW i, i = Len(events) + 1
      PROVE  /\ events'[i].at <= now'
             /\ IsFailure(i, "agent")' => events'[i].key <= events'[i].at
             /\ IsFailure(i, "repository")' => events'[i].key \in DOMAIN scans' /\ scans'[events'[i].key] = "error"
  <2>1. events'[i] = EventOf(p) /\ UNCHANGED <<now, scans>>  BY <1>4 DEF Adds
  <2>2. EventOf(p).at = now /\ EventOf(p).subject = SubjectOf(p)  BY DEF EventOf
  <2>3. CASE Good(p)
    <3>1. EventOf(p).kind = "recovery"  BY <2>3 DEF EventOf
    <3> QED  BY <1>2, <2>1, <2>2, <3>1 DEF IsFailure
  <2>4. CASE ~Good(p)
    <3>1. IsEdge(p) /\ pc[p] \in {"agent", "scan"}  BY <1>4 DEF Adds
    <3>2. pc[p] = "agent" => SubjectOf(p) = "agent" /\ EventOf(p).key <= now
      BY <2>4, <3>1, TellsWhatHappened
    <3>3. pc[p] = "scan" => /\ SubjectOf(p) = "repository"
                            /\ EventOf(p).key \in DOMAIN scans /\ scans[EventOf(p).key] = "error"
      BY <2>4, <3>1, TellsWhatHappened
    <3> QED  BY <1>2, <2>1, <2>2, <3>1, <3>2, <3>3 DEF IsFailure
  <2> QED  BY <2>3, <2>4
<1>5. ASSUME NEW i \in DOMAIN events'
      PROVE  i \in DOMAIN events \/ \E p \in Processes : Adds(p) /\ i = Len(events) + 1
  <2>1. DOMAIN events' = DOMAIN events \/ \E p \in Processes : Adds(p)  BY StepKeeps
  <2>2. StoreOK'  BY StepType, TypeParts, PTL
  <2>3. /\ Len(events) \in Nat /\ DOMAIN events = 1..Len(events)
        /\ DOMAIN events' = 1..Len(events')
    BY <1>0, <2>2 DEF StoreOK
  <2>4. CASE DOMAIN events' = DOMAIN events  BY <2>4
  <2>5. ASSUME NEW p \in Processes, Adds(p) PROVE i \in DOMAIN events \/ i = Len(events) + 1
    <3>1. Len(events') = Len(events) + 1  BY <2>5 DEF Adds
    <3> QED  BY <2>3, <3>1
  <2> QED  BY <2>1, <2>4, <2>5
<1> QED  BY <1>3, <1>4, <1>5 DEF FailuresInv

\* A process that saw to a failure, and told of it or found it told of.
LEMMA TellLeavesFailure ==
    ASSUME TypeInv, NEW p \in Processes, Tell(p), ~Good(p), NEW s, s = SubjectOf(p)
    PROVE  \E i \in DOMAIN events' : IsFailure(i, s)'
<1>0. ClockOK /\ StoreOK /\ EvalOK  BY TypeParts
<1>1. EventOf(p) \in Events /\ Enqueue(EventOf(p))  BY <1>0, EventIsEvent DEF Tell
<1>2. EventOf(p).kind = "failure" /\ EventOf(p).subject = SubjectOf(p)  BY DEF EventOf
<1>3. CASE UNCHANGED events /\ (Duplicate(EventOf(p)) \/ Suppressed(EventOf(p)))
  <2>1. PICK i \in DOMAIN events : SameKind(events[i], EventOf(p))
    BY <1>3 DEF Duplicate, Suppressed
  <2> QED  BY <1>2, <1>3, <2>1 DEF SameKind, IsFailure
<1>4. CASE /\ events' \in Seq(Events) /\ Len(events') = Len(events) + 1
           /\ events'[Len(events')] = EventOf(p)
  <2>1. Len(events) \in Nat /\ DOMAIN events' = 1..Len(events')  BY <1>0, <1>4 DEF StoreOK
  <2>2. Len(events') \in DOMAIN events'  BY <1>4, <2>1
  <2> QED  BY <1>2, <1>4, <2>2 DEF IsFailure
<1> QED  BY <1>0, <1>1, <1>3, <1>4, EnqueueEffect

\* Whoever saw to a failure finds one stored; whoever has read a good scan after it
\* has read a later one than the scan that failed.
LEMMA StepHandledInv ==
    ASSUME TypeInv, SnapInv, FailuresInv, HandledInv, [Next]_vars
    PROVE  HandledInv'
<1>0. StoreOK /\ EvalOK  BY TypeParts
<1>k. Keeps  BY StepKeeps
<1>s. ASSUME NEW i \in DOMAIN events, NEW s, IsFailure(i, s)
      PROVE  i \in DOMAIN events' /\ IsFailure(i, s)' /\ events'[i].key = events[i].key
  BY <1>k, <1>s DEF Keeps, SameEvent, IsFailure
<1>1. ASSUME NEW p \in Processes, NEW s \in Subjects, base'[p][s].handled
      PROVE  \E i \in DOMAIN events' : IsFailure(i, s)'
  <2>1. CASE base'[p][s] = base[p][s]
    <3>1. PICK i \in DOMAIN events : IsFailure(i, s)  BY <1>1, <2>1 DEF HandledInv
    <3> QED  BY <1>s, <3>1
  <2>2. CASE ReadAgents(p) \/ ReadScans(p) \/ TellFails(p) \/ ReadFails(p)
    BY <2>1, <2>2 DEF ReadAgents, ReadScans, TellFails, ReadFails
  <2>3. CASE Restart(p)
    BY <1>0, <1>1, <2>3 DEF Restart, EvalOK, Unset
  <2>4. CASE Compare(p)
    <3>1. UNCHANGED base \/ Advance(p)  BY <2>4 DEF Compare
    <3>2. CASE Advance(p) /\ s = SubjectOf(p)
      <4>1. ClockOK  BY TypeParts
      <4>2. IsEdge(p) /\ ~Good(p)  BY <1>0, <1>1, <3>2, <4>1, AdvanceEffect
      <4>3. IsEdge(p) => Good(p)  BY <2>4 DEF Compare, IsSilent
      <4> QED  BY <1>1, <4>2, <4>3
    <3>3. CASE Advance(p) /\ s # SubjectOf(p)
      <4>1. ClockOK  BY TypeParts
      <4> QED  BY <1>0, <2>1, <3>3, <4>1, AdvanceEffect
    <3> QED  BY <2>1, <3>1, <3>2, <3>3
  <2>5. CASE Tell(p)
    <3>1. ClockOK /\ Advance(p)  BY <2>5, TypeParts DEF Tell
    <3>2. CASE s = SubjectOf(p)
      <4>1. ~Good(p)  BY <1>0, <1>1, <3>1, <3>2, AdvanceEffect
      <4> QED  BY <1>1, <2>5, <3>2, <4>1, TellLeavesFailure
    <3>3. CASE s # SubjectOf(p)  BY <1>0, <2>1, <3>1, <3>3, AdvanceEffect
    <3> QED  BY <3>2, <3>3
  <2> QED  BY <2>1, <2>2, <2>3, <2>4, <2>5, StepEvaluator DEF Forgets
<1>2. ASSUME NEW p \in Processes, pc'[p] = "scan", snap'[p].known, snap'[p].ok,
             base'[p]["repository"].handled
      PROVE  \E i \in DOMAIN events' : IsFailure(i, "repository")' /\ events'[i].key < snap'[p].seen
  <2>1. CASE pc'[p] = pc[p] /\ snap'[p] = snap[p] /\ base'[p] = base[p]
    <3>1. PICK i \in DOMAIN events : IsFailure(i, "repository") /\ events[i].key < snap[p].seen
      BY <1>2, <2>1 DEF HandledInv
    <3> QED  BY <1>s, <2>1, <3>1
  <2>2. CASE ReadAgents(p)  BY <1>0, <1>2, <2>2 DEF ReadAgents, EvalOK
  <2>3. CASE ReadScans(p)
    <3> DEFINE id == LatestTerminal(scans)
    <3>1. /\ snap'[p].seen = id /\ snap'[p].ok = (id # 0 /\ scans[id] = "ok")
          /\ base' = base /\ events' = events
      BY <1>0, <2>3 DEF ReadScans, EvalOK
    <3>2. /\ id \in 0..Len(scans)
          /\ \A k \in DOMAIN scans : scans[k] # "running" => k <= id
      BY <1>0, LatestTerminalFacts DEF StoreOK, Results
    <3>3. Len(scans) \in Nat /\ DOMAIN scans = 1..Len(scans)  BY <1>0 DEF StoreOK
    <3> HIDE DEF id
    <3>4. scans[id] = "ok"  BY <1>2, <3>1
    <3>5. PICK i \in DOMAIN events : IsFailure(i, "repository")
      BY <1>2, <3>1 DEF HandledInv, Subjects
    <3>6. events[i].key \in DOMAIN scans /\ scans[events[i].key] = "error"
      BY <3>5 DEF FailuresInv
    <3>7. events[i].key <= id /\ events[i].key # id  BY <3>2, <3>4, <3>6
    <3>8. events[i].key < id  BY <3>2, <3>3, <3>6, <3>7
    <3> QED  BY <1>s, <3>1, <3>5, <3>8
  <2>4. CASE snap'[p] = Unknown  BY <1>2, <2>4 DEF Unknown
  <2> QED  BY <2>1, <2>2, <2>3, <2>4, StepEvaluator
<1> QED  BY <1>1, <1>2 DEF HandledInv

-----------------------------------------------------------------------------
(* The safety properties *)

\* The recovery that an evaluator adds finds an older failure among the events.
LEMMA RecoveryHasFailure ==
    ASSUME TypeInv, SnapInv, FailuresInv, HandledInv,
           NEW p \in Processes, Adds(p), EventOf(p).kind = "recovery"
    PROVE  \E i \in DOMAIN events : IsFailure(i, EventOf(p).subject) /\ Older(events[i], EventOf(p))
<1>0. ClockOK /\ StoreOK /\ EvalOK  BY TypeParts
<1>1. pc[p] \in {"agent", "scan"} /\ IsEdge(p) /\ ~IsSilent(p)  BY DEF Adds
<1>2. Good(p)  BY DEF EventOf
<1>3. base[p][SubjectOf(p)].handled /\ snap[p].known  BY <1>1, <1>2 DEF IsSilent, IsEdge
<1>4. EventOf(p).subject = SubjectOf(p) /\ EventOf(p).key = snap[p].seen  BY <1>2 DEF EventOf
<1>5. SubjectOf(p) \in Subjects  BY DEF SubjectOf, Subjects
<1>6. CASE pc[p] = "agent"
  <2>1. SubjectOf(p) = "agent"  BY <1>6 DEF SubjectOf
  <2>2. PICK i \in DOMAIN events : IsFailure(i, "agent")  BY <1>3, <1>5, <2>1 DEF HandledInv
  <2>3. events[i].key <= events[i].at /\ events[i].at <= now  BY <2>2 DEF FailuresInv
  <2>4. now < snap[p].key /\ snap[p].key = snap[p].seen + TTL  BY <1>2, <1>3, <1>6 DEF Good, SnapInv
  <2>5. events[i].key \in Nat /\ events[i].at \in Nat
    <3>1. events[i] \in Events  BY <1>0 DEF StoreOK
    <3> QED  BY <3>1, WatchAssumption DEF Events, Times
  <2>6. now \in Nat /\ snap[p].seen \in Nat /\ TTL \in Nat
    BY <1>0, WatchAssumption DEF ClockOK, Times, EvalOK, Snapshots
  <2>7. events[i].key <= snap[p].seen + TTL  BY <2>3, <2>4, <2>5, <2>6
  <2> QED  BY <1>4, <2>1, <2>2, <2>7 DEF Older
<1>7. CASE pc[p] = "scan"
  <2>1. SubjectOf(p) = "repository"  BY <1>7 DEF SubjectOf
  <2>2. snap[p].ok  BY <1>2, <1>7 DEF Good
  <2>3. PICK i \in DOMAIN events : IsFailure(i, "repository") /\ events[i].key < snap[p].seen
    BY <1>3, <1>7, <2>1, <2>2 DEF HandledInv
  <2> QED  BY <1>4, <2>1, <2>3 DEF Older
<1> QED  BY <1>1, <1>6, <1>7

\* A recovery that is stored keeps its failure, and the one that is added has one.
LEMMA StepRecoveries ==
    ASSUME TypeInv, SnapInv, FailuresInv, HandledInv, RecoveriesAnswerFailures, [Next]_vars
    PROVE  RecoveriesAnswerFailures'
<1>0. StoreOK /\ StoreOK'  BY StepType, TypeParts, PTL
<1>1. Keeps  BY StepKeeps
<1>2. /\ Len(events) \in Nat /\ DOMAIN events = 1..Len(events)
      /\ Len(events') \in Nat /\ DOMAIN events' = 1..Len(events')
  BY <1>0 DEF StoreOK
<1> SUFFICES ASSUME NEW j \in DOMAIN events', events'[j].kind = "recovery"
             PROVE  \E i \in 1..(j - 1) : /\ events'[i].subject = events'[j].subject
                                          /\ events'[i].kind = "failure"
                                          /\ Older(events'[i], events'[j])
  BY DEF RecoveriesAnswerFailures, Older
<1>3. CASE j \in DOMAIN events
  <2>1. SameEvent(events'[j], events[j])  BY <1>1, <1>3 DEF Keeps
  <2>2. PICK i \in 1..(j - 1) : /\ events[i].subject = events[j].subject /\ events[i].kind = "failure"
                                /\ Older(events[i], events[j])
    BY <1>3, <2>1 DEF RecoveriesAnswerFailures, SameEvent
  <2>3. i \in DOMAIN events  BY <1>2, <1>3
  <2>4. SameEvent(events'[i], events[i])  BY <1>1, <2>3 DEF Keeps
  <2> QED  BY <2>1, <2>2, <2>4 DEF SameEvent, Older
<1>4. ASSUME NEW p \in Processes, Adds(p), j = Len(events) + 1
      PROVE  \E i \in 1..(j - 1) : /\ events'[i].subject = events'[j].subject
                                   /\ events'[i].kind = "failure"
                                   /\ Older(events'[i], events'[j])
  <2>1. events'[j] = EventOf(p)  BY <1>4 DEF Adds
  <2>2. PICK i \in DOMAIN events : IsFailure(i, EventOf(p).subject) /\ Older(events[i], EventOf(p))
    BY <1>4, <2>1, RecoveryHasFailure
  <2>3. SameEvent(events'[i], events[i])  BY <1>1 DEF Keeps
  <2>4. i \in 1..(j - 1)  BY <1>2, <1>4
  <2> QED  BY <2>1, <2>2, <2>3, <2>4 DEF SameEvent, Older, IsFailure
<1>5. CASE DOMAIN events' = DOMAIN events  BY <1>3, <1>5
<1>6. ASSUME NEW p \in Processes, Adds(p) PROVE j \in DOMAIN events \/ j = Len(events) + 1
  <2>1. Len(events') = Len(events) + 1  BY <1>6 DEF Adds
  <2> QED  BY <1>2, <2>1
<1> QED  BY <1>3, <1>4, <1>5, <1>6, StepKeeps

\* Two events of one kind and key are never open at once: the older one is closed,
\* and the newer one was let in for what Suppressed and Duplicate say.
LEMMA StepToldOnce == ASSUME TypeInv, ToldOnce, [Next]_vars PROVE ToldOnce'
<1>0. StoreOK /\ StoreOK'  BY StepType, TypeParts, PTL
<1>1. Keeps  BY StepKeeps
<1>2. /\ Len(events) \in Nat /\ DOMAIN events = 1..Len(events)
      /\ Len(events') \in Nat /\ DOMAIN events' = 1..Len(events')
      /\ \A i \in DOMAIN events : events[i] \in Events
  BY <1>0 DEF StoreOK
<1> SUFFICES ASSUME NEW i \in DOMAIN events', NEW j \in DOMAIN events', i < j,
                    SameKind(events'[i], events'[j]), events'[i].key = events'[j].key
             PROVE  \/ events'[i].status = "dead"
                    \/ events'[i].status = "delivered" /\ events'[j].at >= events'[i].closed + Cooldown
  BY DEF ToldOnce, SameKind
<1>3. CASE j \in DOMAIN events
  <2>1. i \in DOMAIN events  BY <1>2, <1>3
  <2>2. SameEvent(events'[i], events[i]) /\ SameEvent(events'[j], events[j])
    BY <1>1, <1>3, <2>1 DEF Keeps
  <2>3. \/ events[i].status = "dead"
        \/ events[i].status = "delivered" /\ events[j].at >= events[i].closed + Cooldown
    BY <1>3, <2>1, <2>2 DEF ToldOnce, SameKind, SameEvent
  <2>4. events'[i] = events[i]  BY <1>1, <2>1, <2>3 DEF Keeps
  <2> QED  BY <2>2, <2>3, <2>4 DEF SameEvent
<1>4. ASSUME NEW p \in Processes, Adds(p), j = Len(events) + 1
      PROVE  \/ events'[i].status = "dead"
             \/ events'[i].status = "delivered" /\ events'[j].at >= events'[i].closed + Cooldown
  <2>1. events'[j] = EventOf(p) /\ ~Duplicate(EventOf(p)) /\ ~Suppressed(EventOf(p))  BY <1>4 DEF Adds
  <2>2. i \in DOMAIN events  BY <1>2, <1>4
  <2>3. SameEvent(events'[i], events[i])  BY <1>1, <2>2 DEF Keeps
  <2>4. SameKind(events[i], EventOf(p)) /\ events[i].key = EventOf(p).key
    BY <2>1, <2>3 DEF SameKind, SameEvent
  <2>5. events[i].status # "pending"  BY <2>1, <2>2, <2>4 DEF Duplicate
  <2>6. events'[i] = events[i]  BY <1>1, <2>2, <2>5 DEF Keeps
  <2>7. events[i].status \in {"dead", "delivered"}  BY <1>2, <2>2, <2>5 DEF Events
  <2>8. events[i].status = "delivered" => ~(EventOf(p).at < events[i].closed + Cooldown)
    BY <2>1, <2>2, <2>4 DEF Suppressed
  <2>9. EventOf(p).at \in Nat /\ events[i].closed \in Nat /\ Cooldown \in Nat
    <3>1. EventOf(p) \in Events  BY <1>4 DEF Adds
    <3> QED  BY <1>2, <2>2, <3>1, WatchAssumption DEF Events, Times
  <2> QED  BY <2>1, <2>6, <2>7, <2>8, <2>9
<1>5. CASE DOMAIN events' = DOMAIN events  BY <1>3, <1>5
<1>6. ASSUME NEW p \in Processes, Adds(p) PROVE j \in DOMAIN events \/ j = Len(events) + 1
  <2>1. Len(events') = Len(events) + 1  BY <1>6 DEF Adds
  <2> QED  BY <1>2, <2>1
<1> QED  BY <1>3, <1>4, <1>5, <1>6, StepKeeps

\* WatchInv is inductive.
LEMMA StepWatchInv == ASSUME WatchInv, [Next]_vars PROVE WatchInv'
BY StepType, StepSnapInv, StepFailuresInv, StepHandledInv, StepRecoveries, StepToldOnce DEF WatchInv

\* It holds before anything was reported, scanned or told of.
LEMMA InitWatchInv == ASSUME Init PROVE WatchInv
<1>1. DOMAIN events = {}  BY DEF Init
<1>2. SnapInv  BY DEF Init, SnapInv, Unknown
<1>3. HandledInv  BY DEF Init, HandledInv, Unset, Unknown
<1>4. FailuresInv /\ RecoveriesAnswerFailures /\ ToldOnce
  BY <1>1 DEF FailuresInv, RecoveriesAnswerFailures, ToldOnce
<1> QED  BY <1>2, <1>3, <1>4, InitType DEF WatchInv

\* In every reachable state what an evaluator holds, what it has read and what the
\* outbox stores fit together: the inductive invariant of the two properties below.
THEOREM WatchIsSound == Spec => []WatchInv
<1>1. Init => WatchInv  BY InitWatchInv
<1>2. WatchInv /\ [Next]_vars => WatchInv'  BY StepWatchInv
<1> QED  BY <1>1, <1>2, PTL DEF Spec

\* RecoveriesAnswerFailures holds for any number of processes, with restarts, lost
\* enqueues, sessions that go on late and scans that end out of order.
THEOREM RecoveriesHaveFailures == Spec => []RecoveriesAnswerFailures
<1>1. WatchInv => RecoveriesAnswerFailures  BY DEF WatchInv
<1> QED  BY <1>1, WatchIsSound, PTL

\* ToldOnce holds: an occurrence is told of again only after all its deliveries
\* were given up or the cooldown since they succeeded has passed.
THEOREM OccurrencesAreToldOnce == Spec => []ToldOnce
<1>1. WatchInv => ToldOnce  BY DEF WatchInv
<1> QED  BY <1>1, WatchIsSound, PTL

-----------------------------------------------------------------------------
(* No edge is lost *)

\* Telling of a failure leaves an event behind that is pending or within its
\* cooldown.
LEMMA TellAnnounces ==
    ASSUME TypeInv, NEW p \in Processes, Tell(p), ~Good(p), NEW s, s = SubjectOf(p)
    PROVE  Announced(s)
<1>0. ClockOK /\ StoreOK /\ EvalOK  BY TypeParts
<1>1. EventOf(p) \in Events /\ Enqueue(EventOf(p))  BY <1>0, EventIsEvent DEF Tell
<1>2. /\ EventOf(p).kind = "failure" /\ EventOf(p).subject = s
      /\ EventOf(p).status = "pending" /\ EventOf(p).at = now
  BY DEF EventOf
<1>3. CASE UNCHANGED events /\ Duplicate(EventOf(p))
  BY <1>2, <1>3 DEF Duplicate, SameKind, Announced
<1>4. CASE UNCHANGED events /\ Suppressed(EventOf(p))
  BY <1>2, <1>4 DEF Suppressed, SameKind, Announced
<1>5. CASE /\ events' \in Seq(Events) /\ Len(events') = Len(events) + 1
           /\ events'[Len(events')] = EventOf(p)
  <2>1. Len(events) \in Nat /\ DOMAIN events' = 1..Len(events')  BY <1>0, <1>5 DEF StoreOK
  <2>2. Len(events') \in DOMAIN events'  BY <1>5, <2>1
  <2> QED  BY <1>2, <1>5, <2>2 DEF Announced
<1> QED  BY <1>0, <1>1, <1>3, <1>4, <1>5, EnqueueEffect

\* A baseline turns from good to bad by a telling only.
LEMMA StepAnnounces ==
    ASSUME TypeInv, [Next]_vars, NEW p \in Processes, NEW s \in Subjects,
           base[p][s].established, base[p][s].good, base'[p][s].established, ~base'[p][s].good
    PROVE  Announced(s)
<1>0. ClockOK /\ EvalOK  BY TypeParts
<1>1. base'[p] # base[p]  OBVIOUS
<1>2. ~ReadAgents(p) /\ ~ReadScans(p) /\ ~TellFails(p) /\ ~ReadFails(p)
  BY <1>1 DEF ReadAgents, ReadScans, TellFails, ReadFails
<1>3. ~Restart(p)  BY <1>0 DEF Restart, EvalOK, Unset
<1>4. ASSUME Advance(p)
      PROVE  s = SubjectOf(p) /\ ~Good(p)
  <2>1. base'[p][s] = IF s = SubjectOf(p)
                      THEN [established |-> TRUE, good |-> Good(p), handled |-> IsEdge(p) /\ ~Good(p)]
                      ELSE base[p][s]
    BY <1>0, <1>4, AdvanceEffect
  <2> QED  BY <2>1
<1>5. CASE Compare(p)
  <2>1. Advance(p) /\ snap[p].known  BY <1>1, <1>5 DEF Compare
  <2>2. IsEdge(p)  BY <1>4, <2>1 DEF IsEdge
  <2> QED  BY <1>4, <1>5, <2>1, <2>2 DEF Compare, IsSilent
<1>6. CASE Tell(p)
  <2>1. Advance(p)  BY <1>6 DEF Tell
  <2> QED  BY <1>4, <1>6, <2>1, TellAnnounces
<1> QED  BY <1>1, <1>2, <1>3, <1>5, <1>6, StepEvaluator DEF Forgets

\* EdgesAnnounced holds of every step: an enqueue that failed leaves the baseline,
\* so that the edge is seen again, and one whose commit got lost is found.
THEOREM NoEdgeIsLost == Spec => EdgesAnnounced
<1>1. TypeInv /\ [Next]_vars =>
          [\A p \in Processes, s \in Subjects :
              (base[p][s].established /\ base[p][s].good /\ base'[p][s].established /\ ~base'[p][s].good)
                 => Announced(s)]_vars
  BY StepAnnounces
<1> QED  BY <1>1, TypeCorrect, PTL DEF Spec, EdgesAnnounced
=============================================================================
