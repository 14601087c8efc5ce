------------------------- MODULE AlertOutboxProofs -------------------------
(***************************************************************************)
(* Proofs about AlertOutbox for every number of processes, events, sinks   *)
(* and attempts and every choice of the durations.                         *)
(***************************************************************************)
EXTENDS AlertOutbox, FiniteSetTheorems, TLAPS

-----------------------------------------------------------------------------
(* Operators *)

\* policy.backoff stays between the initial and the maximal interval.
LEMMA BackoffBounds ==
    ASSUME NEW n PROVE Backoff(n) \in InitialInterval..MaxInterval
  BY PolicyAssumption DEF Backoff

\* Both derivations of an event's status give the status of a row.
LEMMA SyncStatusType ==
    ASSUME NEW f, NEW e
    PROVE  SyncStatus(f, e) \in {"pending"} \cup ClosedEvents
  BY DEF SyncStatus, ClosedEvents

\* Without a reset dispatch, syncAlertEventStatus and the start-up repair agree.
LEMMA SyncIsReconciled ==
    ASSUME NEW f, NEW e,
           \/ \E s \in Sinks : f[<<e, s>>].status \in ActiveStatuses
           \/ \A s \in Sinks : f[<<e, s>>].status # "reset"
    PROVE  SyncStatus(f, e) = ReconciledStatus(f, e)
  BY DEF SyncStatus, ReconciledStatus, ActiveStatuses

\* The clocks, and what Tick makes of them, are natural numbers.
LEMMA ClockTypes ==
    /\ AgeCap \in Nat
    /\ \A n \in Nat : Down(n) \in Nat /\ Down(n) <= n
    /\ \A n, cap \in Nat : Up(n, cap) \in Nat
  BY TimingAssumption DEF AgeCap, Down, Up

-----------------------------------------------------------------------------
(* Types *)

\* The initial state is well typed.
LEMMA InitTypeOK == Init => TypeOK
  BY ProcessAssumption, TimingAssumption
  DEF Init, TypeOK, EventRow, DispatchRow, JobState, NoEvent, Event, NoDispatch, FreeRow, Row,
      NoJob, Job,
      ActiveStatuses, TerminalStatuses, ClosedEvents, ResultPhases, Dispatches

\* One step of any producer, worker, retention, restart or clock keeps the types.
LEMMA StepTypeOK == TypeOK /\ [Next]_vars => TypeOK'
  <1> SUFFICES ASSUME TypeOK, [Next]_vars PROVE TypeOK'
    OBVIOUS
  <1> USE DEF TypeOK
  <1> USE DEF NoDispatch, NewDispatch, FreeRow, Row, Event, WithStatus, Job,
              EventRow, JobState, DispatchRow, ActiveStatuses, TerminalStatuses
  <1>1. ASSUME NEW p \in Processes, NEW edge \in Edges, NEW occ \in Occurrences,
               NEW sinks \in SUBSET Sinks,
               EnqueueExisting(p, edge, occ, sinks)
        PROVE  TypeOK'
    BY <1>1 DEF EnqueueExisting, EnsureDispatches
  <1>2. ASSUME NEW p \in Processes, NEW edge \in Edges, NEW occ \in Occurrences,
               NEW sinks \in SUBSET Sinks,
               EnqueueNew(p, edge, occ, sinks)
        PROVE  TypeOK'
    BY <1>2 DEF EnqueueNew, EnsureDispatches, EventRow
  <1>3. ASSUME NEW p \in Processes, Poll(p) PROVE TypeOK'
    <2>1. DeadLettered \in [Dispatches -> DispatchRow]
      BY DEF DeadLettered
    <2>2. disp' \in [Dispatches -> DispatchRow]
      BY <1>3, <2>1, TimingAssumption DEF Poll, ClaimRow
    <2>3. events' \in [EventIds -> EventRow]
      BY <1>3, SyncStatusType DEF Poll, EventRow
    <2>4. job' \in [Processes -> [Dispatches -> JobState]]
      BY <1>3 DEF Poll, JobState
    <2>5. claims' \in [Dispatches -> Nat] /\ sinceClosed' \in [Edges -> Nat]
      BY <1>3 DEF Poll, CloseEdges
    <2> QED
      BY <1>3, <2>2, <2>3, <2>4, <2>5 DEF Poll
  <1>4. ASSUME NEW p \in Processes, NEW d \in Dispatches, Deliver(p, d) PROVE TypeOK'
    <2>1. job[p][d] \in JobState /\ job[p][d].claim \in Nat
      OBVIOUS
    <2>2. CASE Skip(p, d)
      BY <2>1, <2>2 DEF Skip, ResultPhases
    <2>3. CASE StartSend(p, d)
      BY <2>1, <2>3 DEF StartSend
    <2>4. ASSUME NEW outcome \in {"delivered", "pending"}, NEW reached \in BOOLEAN,
                 EndSend(p, d, outcome, reached)
          PROVE  TypeOK'
      BY <2>1, <2>4 DEF EndSend, ResultPhases
    <2> QED
      BY <1>4, <2>2, <2>3, <2>4 DEF Deliver
  <1>5. ASSUME NEW p \in Processes, NEW d \in Dispatches, NEW again \in Replay,
               Record(p, d, again)
        PROVE  TypeOK'
    <2>1. d[1] \in EventIds
      BY DEF Dispatches
    <2>2. CompletedRow(d, job[p][d].phase) \in DispatchRow
      BY <1>5, BackoffBounds, PolicyAssumption DEF Record, CompletedRow, ResultPhases
    <2>3. disp' \in [Dispatches -> DispatchRow]
      BY <1>5, <2>2 DEF Record
    <2>4. events' \in [EventIds -> EventRow]
      BY <1>5, <2>1, SyncStatusType DEF Record, EventRow
    <2>5. job' \in [Processes -> [Dispatches -> JobState]]
      BY <1>5 DEF Record, JobState, NoJob
    <2>6. sinceClosed' \in [Edges -> Nat]
      BY <1>5 DEF Record, CloseEdges
    <2> QED
      BY <1>5, <2>3, <2>4, <2>5, <2>6 DEF Record
  <1>6. ASSUME NEW p \in Processes, NEW d \in Dispatches, Abandon(p, d) PROVE TypeOK'
    BY <1>6 DEF Abandon, JobState, NoJob
  <1>7. CASE Prune
    BY <1>7 DEF Prune, EventRow, Tombstone
  <1>8. ASSUME NEW p \in Processes, Restart(p) PROVE TypeOK'
    BY <1>8 DEF Restart, DropJobs, JobState, NoJob
  <1>9. ASSUME NEW p \in Processes, ResetAlertState(p) PROVE TypeOK'
    <2>1. disp' \in [Dispatches -> DispatchRow]
      BY <1>9 DEF ResetAlertState
    <2>2. events' \in [EventIds -> EventRow]
      BY <1>9 DEF ResetAlertState, EventRow, ClosedEvents
    <2> QED
      BY <1>9, <2>1, <2>2 DEF ResetAlertState, DropJobs, JobState, NoJob
  <1>10. CASE Tick
    <2>1. disp' \in [Dispatches -> DispatchRow]
      BY <1>10, ClockTypes DEF Tick
    <2>2. events' \in [EventIds -> EventRow]
      BY <1>10, ClockTypes DEF Tick, EventRow
    <2>3. job' \in [Processes -> [Dispatches -> JobState]]
      BY <1>10 DEF Tick, JobState
    <2>4. sinceClosed' \in [Edges -> Nat]
      BY <1>10, ClockTypes, TimingAssumption DEF Tick
    <2> QED
      BY <1>10, <2>1, <2>2, <2>3, <2>4 DEF Tick
  <1>11. CASE UNCHANGED vars
    BY <1>11 DEF vars
  <1> QED
    BY <1>1, <1>2, <1>3, <1>4, <1>5, <1>6, <1>7, <1>8, <1>9, <1>10, <1>11
    DEF Next, Enqueue, Complete

\* Every reachable state is well typed.
THEOREM TypeCorrect == Spec => []TypeOK
  <1>1. Init => TypeOK
    BY InitTypeOK
  <1>2. TypeOK /\ [Next]_vars => TypeOK'
    BY StepTypeOK
  <1> QED
    BY <1>1, <1>2, PTL DEF Spec

-----------------------------------------------------------------------------
(* The inductive invariant *)

\* The repaired status depends only on which dispatches are open and on the
\* final status of the others.
LEMMA ReconciledCongruence ==
    ASSUME NEW f, NEW g, NEW e,
           \A s \in Sinks : \/ f[<<e, s>>].status = g[<<e, s>>].status
                            \/ /\ f[<<e, s>>].status \in ActiveStatuses
                               /\ g[<<e, s>>].status \in ActiveStatuses
    PROVE  ReconciledStatus(f, e) = ReconciledStatus(g, e)
  BY Zenon DEF ReconciledStatus, ActiveStatuses

\* Every dispatch is the dispatch of an event to a sink, and conversely.
LEMMA DispatchParts ==
    /\ \A d \in Dispatches : d[1] \in EventIds /\ d[2] \in Sinks /\ d = <<d[1], d[2]>>
    /\ \A e \in EventIds, s \in Sinks : <<e, s>> \in Dispatches
  BY DEF Dispatches

\* Empty tables satisfy the invariant.
LEMMA InitOutboxInv == Init => OutboxInv
  <1> SUFFICES ASSUME Init PROVE OutboxInv
    OBVIOUS
  <1>1. TypeOK
    BY InitTypeOK
  <1>2. AttemptsInv
    BY PolicyAssumption
    DEF Init, AttemptsInv, NoDispatch, FreeRow, Row, Active, ActiveStatuses, TerminalStatuses
  <1>3. EventsInv
    BY DispatchParts
    DEF Init, EventsInv, InTable, NoEvent, Event, NoDispatch, FreeRow, Row
  <1>4. JobsInv /\ DeliveredWasAccepted
    BY DEF Init, JobsInv, DeliveredWasAccepted, NoJob, Job, NoDispatch, FreeRow, Row
  <1> QED
    BY <1>1, <1>2, <1>3, <1>4 DEF OutboxInv

\* ensurePendingAlertDispatches opens rows of one pending event.
LEMMA EnqueueOutboxInv ==
    ASSUME OutboxInv, TypeOK',
           NEW e \in EventIds, NEW sinks \in SUBSET Sinks,
           disp' = EnsureDispatches(e, sinks),
           \A d \in Dispatches : d[1] # e => events'[d[1]] = events[d[1]],
           \A f \in EventIds \ {e} : events'[f] = events[f],
           events'[e].status = "pending",
           \/ events[e].status = "pending" /\ HasActive(e)
           \/ events[e].status = "none" /\ sinks # {},
           UNCHANGED <<claims, job, sent, accepted>>
    PROVE  OutboxInv'
  <1> USE DEF OutboxInv
  <1>1. \A d \in Dispatches :
           disp'[d] = IF d[1] = e /\ d[2] \in sinks /\ disp[d].status = "none"
                      THEN NewDispatch ELSE disp[d]
    BY DEF EnsureDispatches
  <1>2. AttemptsInv'
    BY <1>1, PolicyAssumption
    DEF AttemptsInv, NewDispatch, FreeRow, Row, Active, ActiveStatuses, TerminalStatuses,
        TypeOK
  <1>3. ASSUME NEW f \in EventIds, f # e
        PROVE  \A s \in Sinks : disp'[<<f, s>>] = disp[<<f, s>>]
    BY <1>1, <1>3, DispatchParts
  <1>4. EventsInv'
    <2>1. \E s \in Sinks : disp'[<<e, s>>].status \in ActiveStatuses
      <3>1. CASE events[e].status = "pending" /\ HasActive(e)
        <4>1. PICK s \in Sinks : disp[<<e, s>>].status \in ActiveStatuses
          BY <3>1 DEF HasActive, Active
        <4> QED
          BY <1>1, <4>1, DispatchParts DEF ActiveStatuses
      <3>2. CASE events[e].status = "none" /\ sinks # {}
        <4>1. PICK s \in Sinks : s \in sinks
          BY <3>2
        <4>2. disp[<<e, s>>].status = "none"
          BY <3>2 DEF EventsInv, InTable
        <4> QED
          BY <1>1, <4>1, <4>2, DispatchParts DEF NewDispatch, FreeRow, Row, ActiveStatuses
      <3> QED
        BY <3>1, <3>2
    <2>2. \A s \in Sinks : disp'[<<e, s>>].status # "reset"
      BY <1>1, DispatchParts
      DEF HasActive, Active, EventsInv, InTable, NewDispatch, FreeRow, Row, ActiveStatuses
    <2>3. ReconciledStatus(disp', e) = "pending"
      BY <2>1 DEF ReconciledStatus
    <2>4. ASSUME NEW f \in EventIds, f # e
          PROVE  ReconciledStatus(disp', f) = ReconciledStatus(disp, f)
      BY <1>3, <2>4, ReconciledCongruence
    <2>5. ASSUME NEW f \in EventIds
          PROVE  /\ InTable(f)' => events'[f].status = ReconciledStatus(disp', f)
                 /\ ~InTable(f)' => \A s \in Sinks : disp'[<<f, s>>].status = "none"
                 /\ (\E s \in Sinks : disp'[<<f, s>>].status = "reset") => ~HasActive(f)'
      <3>1. CASE f = e
        BY <2>2, <2>3, <3>1 DEF InTable
      <3>2. CASE f # e
        <4>1. events'[f] = events[f]
          BY <3>2
        <4> QED
          BY <1>3, <2>4, <3>2, <4>1 DEF EventsInv, InTable, HasActive, Active
      <3> QED
        BY <3>1, <3>2
    <2> QED
      BY <2>5 DEF EventsInv
  <1>5. JobsInv' /\ DeliveredWasAccepted'
    BY <1>1 DEF JobsInv, DeliveredWasAccepted, NewDispatch, FreeRow, Row
  <1> QED
    BY <1>2, <1>4, <1>5

\* claimPendingAlertDeliveriesOnce: a claim issues the next claim number, and what
\* deadLetterExpiredAlertDispatches gives up has used its last attempt.
LEMMA PollOutboxInv ==
    ASSUME OutboxInv, TypeOK', NEW p \in Processes, Poll(p)
    PROVE  OutboxInv'
  <1> USE DEF OutboxInv
  <1>1. Claimed \subseteq Claimable /\ Claimable \subseteq Dispatches /\ Exhausted \subseteq Dispatches
    BY DEF Claimed, Claimable, Exhausted
  <1>2. \A d \in Claimable : /\ Active(d) /\ d \notin Exhausted
                             /\ disp[d].status = "in_flight"
                                   => disp[d].attempts + 1 < MaxAttempts
    BY PolicyAssumption
    DEF Claimable, Exhausted, LeaseExpired, Active, ActiveStatuses, TypeOK, DispatchRow
  <1>3. \A d \in Exhausted : /\ disp[d].status = "in_flight"
                             /\ disp[d].attempts + 1 = MaxAttempts
    <2> SUFFICES ASSUME NEW d \in Exhausted
                 PROVE  disp[d].status = "in_flight" /\ disp[d].attempts + 1 = MaxAttempts
      OBVIOUS
    <2>1. d \in Dispatches /\ disp[d].attempts \in Nat /\ MaxAttempts \in Nat
      BY <1>1, PolicyAssumption DEF TypeOK, DispatchRow
    <2>2. disp[d].status = "in_flight" /\ disp[d].attempts + 1 >= MaxAttempts
      BY DEF Exhausted, LeaseExpired
    <2>3. disp[d].attempts < MaxAttempts
      BY <2>1, <2>2 DEF AttemptsInv, Active, ActiveStatuses
    <2> QED
      BY <2>1, <2>2, <2>3
  <1>4. \A d \in Dispatches :
           disp'[d] = IF d \in Claimed THEN ClaimRow(p, d)
                      ELSE IF d \in Exhausted
                      THEN FreeRow("dead_lettered", disp[d].attempts + 1)
                      ELSE disp[d]
    BY DEF Poll, DeadLettered
  <1>4a. /\ \A d \in Dispatches : ClaimRow(p, d).status = "in_flight"
        /\ \A n : FreeRow("dead_lettered", n).status = "dead_lettered"
    BY DEF ClaimRow, FreeRow, Row
  <1>5. /\ \A d \in Dispatches : claims'[d] = IF d \in Claimed THEN claims[d] + 1 ELSE claims[d]
        /\ \A q \in Processes, d \in Dispatches :
              job'[q][d] = IF q = p /\ d \in Claimed
                           THEN Job("claimed", claims[d] + 1, 0) ELSE job[q][d]
        /\ sent' = sent /\ accepted' = accepted
    BY DEF Poll
  <1>6. \A e \in EventIds :
           events'[e] = IF \E s \in Sinks : <<e, s>> \in Exhausted
                        THEN WithStatus(e, SyncStatus(DeadLettered, e)) ELSE events[e]
    BY DEF Poll
  <1>7. \A e \in EventIds :
           (\E s \in Sinks : <<e, s>> \in Exhausted) => HasActive(e) /\ events[e].status = "pending"
    BY <1>3, DispatchParts
    DEF HasActive, Active, ActiveStatuses, EventsInv, InTable, ReconciledStatus
  <1>8. AttemptsInv'
    <2> SUFFICES ASSUME NEW d \in Dispatches
                 PROVE  /\ disp'[d].status = "in_flight" => /\ disp'[d].claim = claims'[d]
                                                            /\ claims'[d] = disp'[d].attempts + 1
                        /\ disp'[d].status \in {"pending"} \cup TerminalStatuses
                              => claims'[d] = disp'[d].attempts
                        /\ Active(d)' => disp'[d].attempts < MaxAttempts
                        /\ disp'[d].status = "dead_lettered" => disp'[d].attempts = MaxAttempts
                        /\ claims'[d] <= MaxAttempts
                        /\ disp'[d].status = "none" /\ events'[d[1]].status # "pruned"
                              => claims'[d] = 0
      BY DEF AttemptsInv
    <2>1. disp[d] \in DispatchRow /\ claims[d] \in Nat /\ disp[d].attempts \in Nat
      BY DEF TypeOK, DispatchRow
    <2>2. CASE d \in Claimed
      <3>1. /\ disp'[d] = ClaimRow(p, d) /\ claims'[d] = claims[d] + 1
            /\ disp[d].status \in ActiveStatuses
            /\ disp[d].status = "in_flight" => disp[d].attempts + 1 < MaxAttempts
        BY <1>1, <1>2, <1>4, <1>5, <2>2 DEF Active
      <3>2. /\ disp[d].attempts < MaxAttempts
            /\ disp[d].status = "in_flight" => claims[d] = disp[d].attempts + 1
            /\ disp[d].status = "pending" => claims[d] = disp[d].attempts
        BY <3>1 DEF AttemptsInv, Active
      <3> QED
        BY <3>1, <3>2, <2>1, PolicyAssumption
        DEF ClaimRow, Row, ActiveStatuses, TerminalStatuses
    <2>3. CASE d \notin Claimed /\ d \in Exhausted
      <3>1. /\ disp'[d] = FreeRow("dead_lettered", disp[d].attempts + 1)
            /\ claims'[d] = claims[d] /\ disp[d].status = "in_flight"
            /\ disp[d].attempts + 1 = MaxAttempts
        BY <1>3, <1>4, <1>5, <2>3
      <3>2. claims[d] = disp[d].attempts + 1
        BY <3>1 DEF AttemptsInv
      <3> QED
        BY <3>1, <3>2, <2>1, PolicyAssumption
        DEF FreeRow, Row, Active, ActiveStatuses, TerminalStatuses
    <2>4. CASE d \notin Claimed /\ d \notin Exhausted
      <3>1. disp'[d] = disp[d] /\ claims'[d] = claims[d]
        BY <1>4, <1>5, <2>4
      <3>2. events'[d[1]].status # "pruned" => events[d[1]].status # "pruned"
        BY <1>6, <1>7, DispatchParts
      <3> QED
        BY <3>1, <3>2 DEF AttemptsInv, Active
    <2> QED
      BY <2>2, <2>3, <2>4
  <1>9. EventsInv'
    <2> SUFFICES ASSUME NEW e \in EventIds
                 PROVE  /\ InTable(e)' => events'[e].status = ReconciledStatus(disp', e)
                        /\ ~InTable(e)' => \A s \in Sinks : disp'[<<e, s>>].status = "none"
                        /\ (\E s \in Sinks : disp'[<<e, s>>].status = "reset")
                              => ~HasActive(e)'
      BY DEF EventsInv
    <2>1. \A s \in Sinks :
             \/ DeadLettered[<<e, s>>].status = disp'[<<e, s>>].status
             \/ /\ DeadLettered[<<e, s>>].status \in ActiveStatuses
                /\ disp'[<<e, s>>].status \in ActiveStatuses
      BY <1>1, <1>2, DispatchParts
      DEF Poll, DeadLettered, ClaimRow, Row, Active, ActiveStatuses
    <2>2. ReconciledStatus(disp', e) = ReconciledStatus(DeadLettered, e)
      BY <2>1, ReconciledCongruence
    <2>3. CASE \E s \in Sinks : <<e, s>> \in Exhausted
      <3>1. \A s \in Sinks : disp[<<e, s>>].status # "reset"
        BY <1>7, <2>3 DEF EventsInv
      <3>2. \A s \in Sinks : DeadLettered[<<e, s>>].status # "reset" /\ disp'[<<e, s>>].status # "reset"
        <4> SUFFICES ASSUME NEW s \in Sinks
                     PROVE  /\ DeadLettered[<<e, s>>].status # "reset"
                            /\ disp'[<<e, s>>].status # "reset"
          OBVIOUS
        <4>1. <<e, s>> \in Dispatches
          BY DispatchParts
        <4> QED
          BY <1>4, <1>4a, <3>1, <4>1 DEF DeadLettered
      <3>3. events'[e].status = ReconciledStatus(disp', e)
        <4>1. events'[e].status = SyncStatus(DeadLettered, e)
          <5>1. events'[e] = WithStatus(e, SyncStatus(DeadLettered, e))
            BY <1>6, <2>3
          <5> QED
            BY <5>1 DEF WithStatus, Event
        <4>2. SyncStatus(DeadLettered, e) = ReconciledStatus(DeadLettered, e)
          BY <3>2, SyncIsReconciled
        <4> QED
          BY <2>2, <4>1, <4>2
      <3> QED
        BY <3>2, <3>3 DEF InTable, ReconciledStatus
    <2>4. CASE ~ \E s \in Sinks : <<e, s>> \in Exhausted
      <3>1. events'[e] = events[e]
        BY <1>6, <2>4
      <3>2. \A s \in Sinks : \/ disp'[<<e, s>>].status = disp[<<e, s>>].status
                             \/ /\ disp'[<<e, s>>].status \in ActiveStatuses
                                /\ disp[<<e, s>>].status \in ActiveStatuses
        <4> SUFFICES ASSUME NEW s \in Sinks
                     PROVE  \/ disp'[<<e, s>>].status = disp[<<e, s>>].status
                            \/ /\ disp'[<<e, s>>].status \in ActiveStatuses
                               /\ disp[<<e, s>>].status \in ActiveStatuses
          OBVIOUS
        <4>1. <<e, s>> \in Dispatches /\ <<e, s>> \notin Exhausted
          BY <2>4, DispatchParts
        <4>2. CASE <<e, s>> \in Claimed
          <5>1. disp'[<<e, s>>].status = "in_flight"
            BY <1>4, <1>4a, <4>1, <4>2
          <5>2. Active(<<e, s>>)
            BY <1>1, <1>2, <4>2
          <5> QED
            BY <5>1, <5>2 DEF Active, ActiveStatuses
        <4> QED
          BY <1>4, <4>1, <4>2
      <3>3. ReconciledStatus(disp', e) = ReconciledStatus(disp, e)
        BY <3>2, ReconciledCongruence
      <3> QED
        BY <3>1, <3>2, <3>3 DEF EventsInv, InTable, HasActive, Active, ActiveStatuses
    <2> QED
      BY <2>3, <2>4
  <1>10. JobsInv'
    <2>1. \A d \in Dispatches : claims[d] \in Nat /\ claims'[d] \in Nat /\ claims[d] <= claims'[d]
      BY <1>5 DEF TypeOK
    <2>2. \A q \in Processes, d \in Dispatches :
             /\ job'[q][d].phase # "none" => job'[q][d].claim \in 1..claims'[d]
             /\ job'[q][d].phase = "delivered" => job'[q][d].claim \in accepted'[d]
      <3> SUFFICES ASSUME NEW q \in Processes, NEW d \in Dispatches
                   PROVE  /\ job'[q][d].phase # "none" => job'[q][d].claim \in 1..claims'[d]
                          /\ job'[q][d].phase = "delivered" => job'[q][d].claim \in accepted'[d]
        OBVIOUS
      <3>1. CASE q = p /\ d \in Claimed
        <4>1. job'[q][d] = Job("claimed", claims[d] + 1, 0) /\ claims'[d] = claims[d] + 1
          BY <1>5, <3>1
        <4>2. claims[d] + 1 \in 1..(claims[d] + 1)
          BY <2>1
        <4> QED
          BY <4>1, <4>2 DEF Job
      <3>2. CASE ~(q = p /\ d \in Claimed)
        <4>1. job'[q][d] = job[q][d]
          BY <1>5, <3>2
        <4>2. 1..claims[d] \subseteq 1..claims'[d]
          BY <2>1
        <4> QED
          BY <1>5, <4>1, <4>2 DEF JobsInv
      <3> QED
        BY <3>1, <3>2
    <2> QED
      BY <1>5, <2>1, <2>2 DEF JobsInv
  <1>11. DeliveredWasAccepted'
    <2> SUFFICES ASSUME NEW d \in Dispatches, disp'[d].status = "delivered"
                 PROVE  disp'[d].claim \in accepted'[d]
      BY DEF DeliveredWasAccepted
    <2>1. disp'[d] = disp[d]
      BY <1>4, <1>4a
    <2> QED
      BY <1>5, <2>1 DEF DeliveredWasAccepted
  <1> QED
    BY <1>8, <1>9, <1>10, <1>11

\* A step that changes neither table leaves everything but the jobs to check.
LEMMA SameTables ==
    ASSUME OutboxInv, TypeOK', JobsInv', UNCHANGED <<events, disp, claims>>,
           \A d \in Dispatches : accepted[d] \subseteq accepted'[d]
    PROVE  OutboxInv'
  <1> USE DEF OutboxInv
  <1>1. AttemptsInv'
    BY DEF AttemptsInv, Active
  <1>2. EventsInv'
    BY DEF EventsInv, InTable, HasActive, Active, ReconciledStatus
  <1>3. DeliveredWasAccepted'
    BY DEF DeliveredWasAccepted
  <1> QED
    BY <1>1, <1>2, <1>3

\* deliverOne touches no row: it only moves a job on, under a claim issued before.
LEMMA DeliverOutboxInv ==
    ASSUME OutboxInv, TypeOK', NEW p \in Processes, NEW d \in Dispatches, Deliver(p, d)
    PROVE  OutboxInv'
  <1> USE DEF OutboxInv
  <1>1. /\ UNCHANGED <<events, disp, claims>>
        /\ job[p][d].phase \in {"claimed", "sending"}
        /\ \E phase \in {"sending"} \cup ResultPhases :
              /\ job' = [job EXCEPT ![p][d] = Job(phase, job[p][d].claim, 0)]
              /\ phase = "delivered" => accepted' = [accepted EXCEPT ![d] = @ \cup {job[p][d].claim}]
        /\ sent' = sent \/ sent' = [sent EXCEPT ![d] = @ \cup {job[p][d].claim}]
        /\ accepted' = accepted \/ accepted' = [accepted EXCEPT ![d] = @ \cup {job[p][d].claim}]
    <2>1. CASE Skip(p, d)
      BY <2>1 DEF Skip, ResultPhases
    <2>2. CASE StartSend(p, d)
      <3>1. /\ job' = [job EXCEPT ![p][d] = Job("sending", job[p][d].claim, 0)]
            /\ "sending" # "delivered"
        BY <2>2 DEF StartSend
      <3>2. /\ UNCHANGED <<events, disp, claims, accepted>> /\ job[p][d].phase = "claimed"
            /\ sent' = [sent EXCEPT ![d] = @ \cup {job[p][d].claim}]
        BY <2>2 DEF StartSend
      <3> QED
        BY <3>1, <3>2, Zenon
    <2>3. ASSUME NEW outcome \in {"delivered", "pending"}, NEW reached \in BOOLEAN,
                 EndSend(p, d, outcome, reached)
          PROVE  <1>1!:
      BY <2>3 DEF EndSend, ResultPhases
    <2> QED
      BY <2>1, <2>2, <2>3 DEF Deliver
  <1>2. job[p][d].claim \in 1..claims[d]
    BY <1>1 DEF JobsInv
  <1>3. \A c \in Dispatches : /\ accepted[c] \subseteq accepted'[c]
                              /\ accepted'[c] \subseteq accepted[c] \cup (IF c = d THEN {job[p][d].claim} ELSE {})
                              /\ sent'[c] \subseteq sent[c] \cup (IF c = d THEN {job[p][d].claim} ELSE {})
    BY <1>1 DEF TypeOK
  <1>4. JobsInv'
    <2>1. \A c \in Dispatches : sent'[c] \subseteq 1..claims'[c] /\ accepted'[c] \subseteq 1..claims'[c]
      BY <1>1, <1>2, <1>3 DEF JobsInv
    <2>2. ASSUME NEW q \in Processes, NEW c \in Dispatches
          PROVE  /\ job'[q][c].phase # "none" => job'[q][c].claim \in 1..claims'[c]
                 /\ job'[q][c].phase = "delivered" => job'[q][c].claim \in accepted'[c]
      <3>1. PICK phase \in {"sending"} \cup ResultPhases :
              /\ job' = [job EXCEPT ![p][d] = Job(phase, job[p][d].claim, 0)]
              /\ phase = "delivered" => accepted' = [accepted EXCEPT ![d] = @ \cup {job[p][d].claim}]
        BY <1>1
      <3>2. CASE q = p /\ c = d
        <4>1. job'[q][c] = Job(phase, job[p][d].claim, 0)
          BY <3>1, <3>2 DEF TypeOK
        <4>2. phase = "delivered" => job[p][d].claim \in accepted'[d]
          BY <3>1 DEF TypeOK
        <4> QED
          BY <1>1, <1>2, <3>2, <4>1, <4>2 DEF Job
      <3>3. CASE ~(q = p /\ c = d)
        <4>1. job'[q][c] = job[q][c]
          BY <3>1, <3>3 DEF TypeOK
        <4> QED
          BY <1>1, <1>3, <4>1 DEF JobsInv
      <3> QED
        BY <3>2, <3>3
    <2> QED
      BY <2>1, <2>2 DEF JobsInv
  <1> QED
    BY <1>1, <1>3, <1>4, SameTables

\* Dropping jobs keeps everything else.
LEMMA DropOutboxInv ==
    ASSUME OutboxInv, TypeOK', UNCHANGED <<events, disp, claims, sent, accepted>>,
           \A q \in Processes, c \in Dispatches : job'[q][c] \in {job[q][c], NoJob}
    PROVE  OutboxInv'
  <1>1. JobsInv'
    <2>1. NoJob.phase = "none"
      BY DEF NoJob, Job
    <2> QED
      BY <2>1 DEF OutboxInv, JobsInv
  <1> QED
    BY <1>1, SameTables

\* recordAlertDispatchResultOnce counts the one open claim, and
\* syncAlertEventStatus leaves the event as the start-up repair would.
LEMMA RecordOutboxInv ==
    ASSUME OutboxInv, TypeOK', NEW p \in Processes, NEW d \in Dispatches,
           NEW again \in Replay, Record(p, d, again)
    PROVE  OutboxInv'
  <1> USE DEF OutboxInv
  <1> DEFINE row == CompletedRow(d, job[p][d].phase)
  <1>1. /\ job[p][d].phase \in ResultPhases /\ UNCHANGED <<claims, sent, accepted>>
        /\ disp[d].status = "in_flight" /\ disp[d].claim = job[p][d].claim
    BY DEF Record, Holds
  <1>2. /\ disp'[d] = row
        /\ \A c \in Dispatches \ {d} : disp'[c] = disp[c]
    BY DEF Record, TypeOK
  <1>3. /\ disp[d].attempts \in Nat /\ claims[d] \in Nat /\ disp[d].attempts < MaxAttempts
        /\ claims[d] = disp[d].attempts + 1 /\ claims[d] <= MaxAttempts
    BY <1>1 DEF TypeOK, DispatchRow, AttemptsInv, Active, ActiveStatuses
  <1>4. /\ row.attempts = disp[d].attempts + 1 /\ row.claim = disp[d].claim
        /\ row.status \in ResultPhases \cup {"dead_lettered"}
        /\ row.status = "pending" => row.attempts < MaxAttempts
        /\ row.status = "dead_lettered" => row.attempts >= MaxAttempts
        /\ row.status = "delivered" => job[p][d].phase = "delivered"
    BY <1>1, <1>3, PolicyAssumption DEF CompletedRow, Row, ResultPhases
  <1>5. d[1] \in EventIds /\ d[2] \in Sinks /\ d = <<d[1], d[2]>>
    BY DispatchParts
  <1>6. events' = [events EXCEPT ![d[1]] = WithStatus(d[1], SyncStatus(disp', d[1]))]
    BY DEF Record
  <1>7. events[d[1]].status = "pending" /\ \A s \in Sinks : disp[<<d[1], s>>].status # "reset"
    <2>1. Active(d) /\ HasActive(d[1])
      BY <1>1, <1>5 DEF HasActive, Active, ActiveStatuses
    <2> QED
      BY <1>5, <2>1 DEF EventsInv, InTable, ReconciledStatus, HasActive, Active, ActiveStatuses
  <1>8. AttemptsInv'
    <2> SUFFICES ASSUME NEW c \in Dispatches
                 PROVE  /\ disp'[c].status = "in_flight" => /\ disp'[c].claim = claims'[c]
                                                            /\ claims'[c] = disp'[c].attempts + 1
                        /\ disp'[c].status \in {"pending"} \cup TerminalStatuses
                              => claims'[c] = disp'[c].attempts
                        /\ Active(c)' => disp'[c].attempts < MaxAttempts
                        /\ disp'[c].status = "dead_lettered" => disp'[c].attempts = MaxAttempts
                        /\ claims'[c] <= MaxAttempts
                        /\ disp'[c].status = "none" /\ events'[c[1]].status # "pruned"
                              => claims'[c] = 0
      BY DEF AttemptsInv
    <2>1. CASE c = d
      BY <1>1, <1>2, <1>3, <1>4, <2>1, PolicyAssumption
      DEF Active, ActiveStatuses, TerminalStatuses, ResultPhases
    <2>2. CASE c # d
      <3>1. disp'[c] = disp[c] /\ claims'[c] = claims[c]
        BY <1>1, <1>2, <2>2
      <3>2. events'[c[1]].status # "pruned" => events[c[1]].status # "pruned"
        BY <1>5, <1>6, <1>7, DispatchParts DEF TypeOK
      <3> QED
        BY <3>1, <3>2 DEF AttemptsInv, Active
    <2> QED
      BY <2>1, <2>2
  <1>9. EventsInv'
    <2> SUFFICES ASSUME NEW e \in EventIds
                 PROVE  /\ InTable(e)' => events'[e].status = ReconciledStatus(disp', e)
                        /\ ~InTable(e)' => \A s \in Sinks : disp'[<<e, s>>].status = "none"
                        /\ (\E s \in Sinks : disp'[<<e, s>>].status = "reset")
                              => ~HasActive(e)'
      BY DEF EventsInv
    <2>1. CASE e = d[1]
      <3>1. events'[e] = WithStatus(e, SyncStatus(disp', e))
        BY <1>5, <1>6, <2>1 DEF TypeOK
      <3>2. \A s \in Sinks : disp'[<<e, s>>].status # "reset"
        BY <1>2, <1>4, <1>7, <2>1, DispatchParts DEF ResultPhases
      <3>3. events'[e].status = SyncStatus(disp', e)
        BY <3>1 DEF WithStatus, Event
      <3>4. SyncStatus(disp', e) = ReconciledStatus(disp', e)
        BY <3>2, SyncIsReconciled
      <3>5. InTable(e)'
        BY <3>3, SyncStatusType DEF InTable, ClosedEvents
      <3> QED
        BY <3>2, <3>3, <3>4, <3>5
    <2>2. CASE e # d[1]
      <3>1. events'[e] = events[e]
        BY <1>6, <2>2 DEF TypeOK
      <3>2. \A s \in Sinks : disp'[<<e, s>>] = disp[<<e, s>>]
        BY <1>2, <1>5, <2>2, DispatchParts
      <3>3. ReconciledStatus(disp', e) = ReconciledStatus(disp, e)
        BY <3>2, ReconciledCongruence
      <3> QED
        BY <3>1, <3>2, <3>3 DEF EventsInv, InTable, HasActive, Active
    <2> QED
      BY <2>1, <2>2
  <1>10. JobsInv'
    <2>1. \A q \in Processes, c \in Dispatches : job'[q][c] \in {job[q][c], NoJob}
      BY DEF Record, TypeOK
    <2>2. NoJob.phase = "none"
      BY DEF NoJob, Job
    <2> QED
      BY <1>1, <2>1, <2>2 DEF JobsInv
  <1>11. DeliveredWasAccepted'
    <2> SUFFICES ASSUME NEW c \in Dispatches, disp'[c].status = "delivered"
                 PROVE  disp'[c].claim \in accepted'[c]
      BY DEF DeliveredWasAccepted
    <2>1. CASE c = d
      BY <1>1, <1>2, <1>4, <2>1 DEF JobsInv
    <2>2. CASE c # d
      BY <1>1, <1>2, <2>2 DEF DeliveredWasAccepted
    <2> QED
      BY <2>1, <2>2
  <1> QED
    BY <1>8, <1>9, <1>10, <1>11

\* PruneTerminalAlertEvents deletes an event together with its dispatches.
LEMMA PruneOutboxInv ==
    ASSUME OutboxInv, TypeOK', Prune
    PROVE  OutboxInv'
  <1> USE DEF OutboxInv
  <1>1. PICK batch \in SUBSET Prunable :
           /\ events' = [e \in EventIds |->
                            IF e \in batch THEN Tombstone(events[e].edge) ELSE events[e]]
           /\ disp' = [d \in Dispatches |-> IF d[1] \in batch THEN NoDispatch ELSE disp[d]]
    BY DEF Prune
  <1>2. UNCHANGED <<claims, job, sent, accepted>>
    BY DEF Prune
  <1>3. /\ \A e \in EventIds : /\ e \in batch => events'[e].status = "pruned"
                               /\ e \notin batch => events'[e] = events[e]
        /\ \A d \in Dispatches : /\ d[1] \in batch => disp'[d].status = "none"
                                 /\ d[1] \notin batch => disp'[d] = disp[d]
    BY <1>1 DEF Tombstone, Event, NoDispatch, FreeRow, Row
  <1>4. AttemptsInv'
    <2> SUFFICES ASSUME NEW c \in Dispatches
                 PROVE  /\ disp'[c].status = "in_flight" => /\ disp'[c].claim = claims'[c]
                                                            /\ claims'[c] = disp'[c].attempts + 1
                        /\ disp'[c].status \in {"pending"} \cup TerminalStatuses
                              => claims'[c] = disp'[c].attempts
                        /\ Active(c)' => disp'[c].attempts < MaxAttempts
                        /\ disp'[c].status = "dead_lettered" => disp'[c].attempts = MaxAttempts
                        /\ claims'[c] <= MaxAttempts
                        /\ disp'[c].status = "none" /\ events'[c[1]].status # "pruned"
                              => claims'[c] = 0
      BY DEF AttemptsInv
    <2>1. c[1] \in EventIds
      BY DispatchParts
    <2>2. CASE c[1] \in batch
      <3>1. disp'[c].status = "none" /\ events'[c[1]].status = "pruned" /\ claims'[c] = claims[c]
        BY <1>2, <1>3, <2>1, <2>2
      <3>2. claims[c] <= MaxAttempts
        BY DEF AttemptsInv
      <3> QED
        BY <3>1, <3>2 DEF Active, ActiveStatuses, TerminalStatuses
    <2>3. CASE c[1] \notin batch
      <3>1. disp'[c] = disp[c] /\ events'[c[1]] = events[c[1]] /\ claims'[c] = claims[c]
        BY <1>2, <1>3, <2>1, <2>3
      <3> QED
        BY <3>1 DEF AttemptsInv, Active
    <2> QED
      BY <2>2, <2>3
  <1>5. EventsInv'
    <2> SUFFICES ASSUME NEW e \in EventIds
                 PROVE  /\ InTable(e)' => events'[e].status = ReconciledStatus(disp', e)
                        /\ ~InTable(e)' => \A s \in Sinks : disp'[<<e, s>>].status = "none"
                        /\ (\E s \in Sinks : disp'[<<e, s>>].status = "reset")
                              => ~HasActive(e)'
      BY DEF EventsInv
    <2>1. CASE e \in batch
      <3>1. events'[e].status = "pruned" /\ \A s \in Sinks : disp'[<<e, s>>].status = "none"
        BY <1>3, <2>1, DispatchParts
      <3> QED
        BY <3>1 DEF InTable
    <2>2. CASE e \notin batch
      <3>1. \A s \in Sinks : disp'[<<e, s>>] = disp[<<e, s>>]
        BY <1>3, <2>2, DispatchParts
      <3>2. ReconciledStatus(disp', e) = ReconciledStatus(disp, e)
        BY <3>1, ReconciledCongruence
      <3>3. events'[e] = events[e]
        BY <1>3, <2>2
      <3> QED
        BY <3>1, <3>2, <3>3 DEF EventsInv, InTable, HasActive, Active
    <2> QED
      BY <2>1, <2>2
  <1>6. JobsInv'
    BY <1>2 DEF JobsInv
  <1>7. DeliveredWasAccepted'
    <2> SUFFICES ASSUME NEW c \in Dispatches, disp'[c].status = "delivered"
                 PROVE  disp'[c].claim \in accepted'[c]
      BY DEF DeliveredWasAccepted
    <2>1. disp'[c] = disp[c]
      BY <1>3
    <2> QED
      BY <1>2, <2>1 DEF DeliveredWasAccepted
  <1> QED
    BY <1>4, <1>5, <1>6, <1>7

\* resetAlertStateAfterMissingKey closes every open dispatch and every open event.
LEMMA ResetOutboxInv ==
    ASSUME OutboxInv, TypeOK', NEW p \in Processes, ResetAlertState(p)
    PROVE  OutboxInv'
  <1> USE DEF OutboxInv
  <1>1. \A d \in Dispatches :
           IF disp[d].status \in ActiveStatuses
           THEN disp'[d].status = "reset" ELSE disp'[d] = disp[d]
    BY DEF ResetAlertState, FreeRow, Row, Active
  <1>2. \A e \in EventIds : /\ events[e].status = "pending" => events'[e].status = "reset"
                            /\ events[e].status # "pending" => events'[e] = events[e]
    BY DEF ResetAlertState, WithStatus, Event
  <1>3. UNCHANGED <<claims, sent, accepted>>
    BY DEF ResetAlertState
  <1>4. AttemptsInv'
    <2> SUFFICES ASSUME NEW c \in Dispatches
                 PROVE  /\ disp'[c].status = "in_flight" => /\ disp'[c].claim = claims'[c]
                                                            /\ claims'[c] = disp'[c].attempts + 1
                        /\ disp'[c].status \in {"pending"} \cup TerminalStatuses
                              => claims'[c] = disp'[c].attempts
                        /\ Active(c)' => disp'[c].attempts < MaxAttempts
                        /\ disp'[c].status = "dead_lettered" => disp'[c].attempts = MaxAttempts
                        /\ claims'[c] <= MaxAttempts
                        /\ disp'[c].status = "none" /\ events'[c[1]].status # "pruned"
                              => claims'[c] = 0
      BY DEF AttemptsInv
    <2>1. events'[c[1]].status # "pruned" => events[c[1]].status # "pruned"
      BY <1>2, DispatchParts
    <2>2. CASE disp[c].status \in ActiveStatuses
      <3>1. disp'[c].status = "reset" /\ claims'[c] = claims[c]
        BY <1>1, <1>3, <2>2
      <3>2. claims[c] <= MaxAttempts
        BY DEF AttemptsInv
      <3> QED
        BY <3>1, <3>2 DEF Active, ActiveStatuses, TerminalStatuses
    <2>3. CASE disp[c].status \notin ActiveStatuses
      <3>1. disp'[c] = disp[c] /\ claims'[c] = claims[c]
        BY <1>1, <1>3, <2>3
      <3> QED
        BY <2>1, <3>1 DEF AttemptsInv, Active
    <2> QED
      BY <2>2, <2>3
  <1>5. EventsInv'
    <2> SUFFICES ASSUME NEW e \in EventIds
                 PROVE  /\ InTable(e)' => events'[e].status = ReconciledStatus(disp', e)
                        /\ ~InTable(e)' => \A s \in Sinks : disp'[<<e, s>>].status = "none"
                        /\ (\E s \in Sinks : disp'[<<e, s>>].status = "reset")
                              => ~HasActive(e)'
      BY DEF EventsInv
    <2>1. ~HasActive(e)'
      <3> SUFFICES ASSUME NEW s \in Sinks PROVE disp'[<<e, s>>].status \notin ActiveStatuses
        BY DEF HasActive, Active
      <3>1. <<e, s>> \in Dispatches
        BY DispatchParts
      <3> QED
        BY <1>1, <3>1 DEF ActiveStatuses
    <2>2. CASE events[e].status = "pending"
      <3>1. PICK s \in Sinks : disp[<<e, s>>].status \in ActiveStatuses
        BY <2>2 DEF EventsInv, InTable, ReconciledStatus, ClosedEvents
      <3>2. disp'[<<e, s>>].status = "reset"
        BY <1>1, <3>1, DispatchParts
      <3>3. ReconciledStatus(disp', e) = "reset"
        BY <2>1, <3>2 DEF ReconciledStatus, HasActive, Active
      <3> QED
        <4>1. events'[e].status = "reset"
          BY <1>2, <2>2
        <4> QED
          BY <2>1, <3>3, <4>1 DEF InTable
    <2>3. CASE events[e].status # "pending"
      <3>1. ~HasActive(e)
        BY <2>3 DEF EventsInv, InTable, HasActive, Active, ReconciledStatus, ActiveStatuses
      <3>2. \A s \in Sinks : disp'[<<e, s>>] = disp[<<e, s>>]
        BY <1>1, <3>1, DispatchParts DEF HasActive, Active
      <3>3. ReconciledStatus(disp', e) = ReconciledStatus(disp, e)
        BY <3>2, ReconciledCongruence
      <3> QED
        BY <1>2, <2>1, <2>3, <3>2, <3>3 DEF EventsInv, InTable
    <2> QED
      BY <2>2, <2>3
  <1>6. JobsInv'
    <2>1. \A q \in Processes, c \in Dispatches : job'[q][c] \in {job[q][c], NoJob}
      BY DEF ResetAlertState, DropJobs, TypeOK
    <2>2. NoJob.phase = "none"
      BY DEF NoJob, Job
    <2> QED
      BY <1>3, <2>1, <2>2 DEF JobsInv
  <1>7. DeliveredWasAccepted'
    <2> SUFFICES ASSUME NEW c \in Dispatches, disp'[c].status = "delivered"
                 PROVE  disp'[c].claim \in accepted'[c]
      BY DEF DeliveredWasAccepted
    <2>1. disp'[c] = disp[c]
      BY <1>1
    <2> QED
      BY <1>3, <2>1 DEF DeliveredWasAccepted
  <1> QED
    BY <1>4, <1>5, <1>6, <1>7

\* Time changes clocks only.
LEMMA TickOutboxInv ==
    ASSUME OutboxInv, TypeOK', Tick
    PROVE  OutboxInv'
  <1> USE DEF OutboxInv
  <1>1. /\ \A d \in Dispatches : /\ disp'[d].status = disp[d].status
                                 /\ disp'[d].claim = disp[d].claim
                                 /\ disp'[d].attempts = disp[d].attempts
        /\ \A e \in EventIds : events'[e].status = events[e].status
    BY DEF Tick, Row, Event
  <1>2. /\ UNCHANGED <<claims, sent, accepted>>
        /\ \A q \in Processes, c \in Dispatches : /\ job'[q][c].phase = job[q][c].phase
                                                  /\ job'[q][c].claim = job[q][c].claim
    BY DEF Tick, Job
  <1>3. AttemptsInv'
    BY <1>1, <1>2, DispatchParts DEF AttemptsInv, Active
  <1>4. EventsInv'
    <2>1. \A e \in EventIds : ReconciledStatus(disp', e) = ReconciledStatus(disp, e)
      BY <1>1, ReconciledCongruence, DispatchParts
    <2> QED
      BY <1>1, <2>1, DispatchParts DEF EventsInv, InTable, HasActive, Active
  <1>5. JobsInv' /\ DeliveredWasAccepted'
    BY <1>1, <1>2 DEF JobsInv, DeliveredWasAccepted
  <1> QED
    BY <1>3, <1>4, <1>5

\* Every step keeps the inductive invariant.
LEMMA StepOutboxInv == OutboxInv /\ [Next]_vars => OutboxInv'
  <1> SUFFICES ASSUME OutboxInv, [Next]_vars PROVE OutboxInv'
    OBVIOUS
  <1>1. TypeOK'
    BY StepTypeOK DEF OutboxInv
  <1>2. ASSUME NEW p \in Processes, NEW edge \in Edges, NEW occ \in Occurrences,
               NEW sinks \in (SUBSET Sinks) \ {{}}, EnqueueExisting(p, edge, occ, sinks)
        PROVE  OutboxInv'
    <2>1. PICK e \in PendingFor(edge, occ) : disp' = EnsureDispatches(e, sinks)
      BY <1>2 DEF EnqueueExisting
    <2>2. e \in EventIds /\ events[e].status = "pending" /\ HasActive(e)
      BY <2>1 DEF PendingFor
    <2> QED
      BY <1>1, <1>2, <2>1, <2>2, EnqueueOutboxInv DEF EnqueueExisting
  <1>3. ASSUME NEW p \in Processes, NEW edge \in Edges, NEW occ \in Occurrences,
               NEW sinks \in (SUBSET Sinks) \ {{}}, EnqueueNew(p, edge, occ, sinks)
        PROVE  OutboxInv'
    <2>1. PICK e \in EventIds : /\ events[e].status = "none"
                                /\ events' = [events EXCEPT ![e] = Event(edge, occ, 0, "pending")]
                               /\ disp' = EnsureDispatches(e, sinks)
      BY <1>3 DEF EnqueueNew
    <2>2. /\ \A f \in EventIds \ {e} : events'[f] = events[f]
          /\ \A d \in Dispatches : d[1] # e => events'[d[1]] = events[d[1]]
          /\ events'[e].status = "pending"
      BY <2>1, DispatchParts DEF OutboxInv, TypeOK, Event
    <2> QED
      BY <1>1, <1>3, <2>1, <2>2, EnqueueOutboxInv DEF EnqueueNew
  <1>4. ASSUME NEW p \in Processes, Poll(p) PROVE OutboxInv'
    BY <1>1, <1>4, PollOutboxInv
  <1>5. ASSUME NEW p \in Processes, NEW d \in Dispatches, Deliver(p, d) PROVE OutboxInv'
    BY <1>1, <1>5, DeliverOutboxInv
  <1>6. ASSUME NEW p \in Processes, NEW d \in Dispatches, NEW again \in Replay,
               Record(p, d, again)
        PROVE  OutboxInv'
    BY <1>1, <1>6, RecordOutboxInv
  <1>7. ASSUME NEW p \in Processes, NEW d \in Dispatches, Abandon(p, d) PROVE OutboxInv'
    <2>1. \A q \in Processes, c \in Dispatches : job'[q][c] \in {job[q][c], NoJob}
      BY <1>7 DEF Abandon, OutboxInv, TypeOK
    <2> QED
      BY <1>1, <1>7, <2>1, DropOutboxInv DEF Abandon
  <1>8. CASE Prune
    BY <1>1, <1>8, PruneOutboxInv
  <1>9. ASSUME NEW p \in Processes, Restart(p) PROVE OutboxInv'
    <2>1. \A q \in Processes, c \in Dispatches : job'[q][c] \in {job[q][c], NoJob}
      BY <1>9 DEF Restart, DropJobs
    <2> QED
      BY <1>1, <1>9, <2>1, DropOutboxInv DEF Restart
  <1>10. ASSUME NEW p \in Processes, ResetAlertState(p) PROVE OutboxInv'
    BY <1>1, <1>10, ResetOutboxInv
  <1>11. CASE Tick
    BY <1>1, <1>11, TickOutboxInv
  <1>12. CASE UNCHANGED vars
    <2>1. JobsInv'
      BY <1>12 DEF vars, OutboxInv, JobsInv
    <2> QED
      BY <1>1, <1>12, <2>1, SameTables DEF vars
  <1> QED
    BY <1>2, <1>3, <1>4, <1>5, <1>6, <1>7, <1>8, <1>9, <1>10, <1>11, <1>12
    DEF Next, Enqueue, Complete

-----------------------------------------------------------------------------
(* The theorems *)

\* The conjuncts of OutboxInv hold together: claims, rows, events and jobs stay
\* in step through every storage call, crash, reset and clock tick.
THEOREM OutboxInvariant == Spec => []OutboxInv
  <1>1. Init => OutboxInv
    BY InitOutboxInv
  <1>2. OutboxInv /\ [Next]_vars => OutboxInv'
    BY StepOutboxInv
  <1> QED
    BY <1>1, <1>2, PTL DEF Spec

\* syncAlertEventStatus and the key reset leave every event with the status that
\* reconcileLegacyAlertEventStatuses would compute for it at the next start.
THEOREM StatusAgreement == Spec => []EventStatusAgrees
  <1>1. OutboxInv => EventStatusAgrees
    BY DEF OutboxInv, EventsInv, EventStatusAgrees
  <1> QED
    BY <1>1, OutboxInvariant, PTL

\* ClaimPendingAlertDispatches, recordAlertDispatchResultOnce and
\* deadLetterExpiredAlertDispatches count every claim exactly once.
THEOREM AttemptsCounted == Spec => []AttemptsCountClaims
  <1>1. OutboxInv => AttemptsCountClaims
    BY DEF OutboxInv, AttemptsInv, AttemptsCountClaims
  <1> QED
    BY <1>1, OutboxInvariant, PTL

\* recordAlertDispatchResultOnce writes delivered only for the claim under which
\* the receiver accepted the alert.
THEOREM DeliveredAccepted == Spec => []DeliveredWasAccepted
  <1>1. OutboxInv => DeliveredWasAccepted
    BY DEF OutboxInv
  <1> QED
    BY <1>1, OutboxInvariant, PTL

\* Neither the retry promotion nor deadLetterExpiredAlertDispatches gives up a
\* dispatch before AlertRetryPolicy.MaxAttempts, or after more.
THEOREM DeadLettersExhausted == Spec => []DeadLetterExhausted
  <1>1. OutboxInv => DeadLetterExhausted
    BY DEF OutboxInv, AttemptsInv, DeadLetterExhausted
  <1> QED
    BY <1>1, OutboxInvariant, PTL

\* A subset of 1..n with n <= MaxAttempts has at most MaxAttempts elements.
LEMMA BoundedClaims ==
    ASSUME NEW S, NEW n \in Nat, n <= MaxAttempts, S \subseteq 1..n
    PROVE  Cardinality(S) <= MaxAttempts
  <1>1. IsFiniteSet(1..n) /\ Cardinality(1..n) = n
    BY FS_Interval
  <1>2. IsFiniteSet(S) /\ Cardinality(S) <= n
    BY <1>1, FS_Subset
  <1>3. Cardinality(S) \in Nat
    BY <1>2, FS_CardinalityType
  <1> QED
    BY <1>2, <1>3, PolicyAssumption

\* sink.Deliver starts at most MaxAttempts times for one dispatch.
THEOREM SendsAreBounded == Spec => []SendsBounded
  <1>1. OutboxInv => SendsBounded
    <2> SUFFICES ASSUME OutboxInv, NEW d \in Dispatches
                 PROVE  Cardinality(sent[d]) <= MaxAttempts
      BY DEF SendsBounded
    <2>1. claims[d] \in Nat /\ claims[d] <= MaxAttempts /\ sent[d] \subseteq 1..claims[d]
      BY DEF OutboxInv, TypeOK, AttemptsInv, JobsInv
    <2> QED
      BY <2>1, BoundedClaims
  <1> QED
    BY <1>1, OutboxInvariant, PTL

\* An event with an open dispatch is pending, so a closed one has none.
LEMMA OpenIsPending ==
    ASSUME OutboxInv, NEW d \in Dispatches
    PROVE  /\ Active(d) => events[d[1]].status = "pending"
           /\ events[d[1]].status \in ClosedEvents => ~Active(d)
  <1>1. d[1] \in EventIds /\ d[2] \in Sinks /\ d = <<d[1], d[2]>>
    BY DispatchParts
  <1>2. Active(d) => events[d[1]].status = "pending"
    BY <1>1 DEF OutboxInv, EventsInv, InTable, Active, ActiveStatuses, ReconciledStatus
  <1> QED
    BY <1>2 DEF ClosedEvents

\* One step never reopens or rewrites what is closed.
LEMMA StepClosedStays == OutboxInv /\ [Next]_vars => ClosedStays
  <1> SUFFICES ASSUME OutboxInv, [Next]_vars PROVE ClosedStays
    OBVIOUS
  <1>1. ASSUME UNCHANGED <<events, disp>> PROVE ClosedStays
    BY <1>1 DEF ClosedStays
  <1>2. ASSUME NEW p \in Processes, NEW edge \in Edges, NEW occ \in Occurrences,
               NEW sinks \in SUBSET Sinks,
               EnqueueExisting(p, edge, occ, sinks) \/ EnqueueNew(p, edge, occ, sinks)
        PROVE  ClosedStays
    <2>1. \A d \in Dispatches : disp[d].status # "none" => disp'[d] = disp[d]
      BY <1>2 DEF EnqueueExisting, EnqueueNew, EnsureDispatches
    <2>2. \A e \in EventIds : events[e].status # "none" => events'[e] = events[e]
      BY <1>2 DEF EnqueueExisting, EnqueueNew, OutboxInv, TypeOK
    <2> QED
      BY <2>1, <2>2 DEF ClosedStays, TerminalStatuses, ClosedEvents
  <1>3. ASSUME NEW p \in Processes, Poll(p) PROVE ClosedStays
    <2>1. \A d \in Exhausted \cup Claimed : d \in Dispatches => disp[d].status \in ActiveStatuses
      BY DEF Exhausted, Claimed, Claimable, LeaseExpired, ActiveStatuses
    <2>2. \A d \in Dispatches : disp[d].status \notin ActiveStatuses => disp'[d] = disp[d]
      BY <1>3, <2>1 DEF Poll, DeadLettered
    <2>3. ASSUME NEW e \in EventIds, events[e].status \in ClosedEvents
          PROVE  events'[e] = events[e]
      <3>1. ~HasActive(e)
        BY <2>3
        DEF OutboxInv, EventsInv, InTable, HasActive, Active, ReconciledStatus, ClosedEvents
      <3>2. \A s \in Sinks : <<e, s>> \notin Exhausted
        BY <2>1, <3>1, DispatchParts DEF HasActive, Active
      <3> QED
        BY <1>3, <3>2 DEF Poll
    <2> QED
      BY <2>2, <2>3 DEF ClosedStays, TerminalStatuses, ActiveStatuses
  <1>4. ASSUME NEW p \in Processes, NEW d \in Dispatches, NEW again \in Replay,
               Record(p, d, again)
        PROVE  ClosedStays
    <2>1. disp[d].status = "in_flight" /\ \A c \in Dispatches : c # d => disp'[c] = disp[c]
      BY <1>4 DEF Record, Holds, OutboxInv, TypeOK
    <2>2. d[1] \in EventIds /\ HasActive(d[1])
      BY <2>1, DispatchParts DEF HasActive, Active, ActiveStatuses
    <2>3. events[d[1]].status \notin ClosedEvents
      BY <2>2
      DEF OutboxInv, EventsInv, InTable, HasActive, Active, ReconciledStatus, ClosedEvents
    <2>4. \A e \in EventIds : e # d[1] => events'[e] = events[e]
      BY <1>4 DEF Record, OutboxInv, TypeOK
    <2> QED
      BY <2>1, <2>3, <2>4 DEF ClosedStays, TerminalStatuses
  <1>5. CASE Prune
    <2>1. PICK batch \in SUBSET EventIds :
             /\ events' = [e \in EventIds |->
                              IF e \in batch THEN Tombstone(events[e].edge) ELSE events[e]]
             /\ disp' = [c \in Dispatches |-> IF c[1] \in batch THEN NoDispatch ELSE disp[c]]
      BY <1>5 DEF Prune, Prunable
    <2> QED
      BY <2>1 DEF ClosedStays, Tombstone, Event, NoDispatch, FreeRow, Row
  <1>6. ASSUME NEW p \in Processes, ResetAlertState(p) PROVE ClosedStays
    <2>1. \A d \in Dispatches : disp[d].status \notin ActiveStatuses => disp'[d] = disp[d]
      BY <1>6 DEF ResetAlertState, Active
    <2>2. \A e \in EventIds : events[e].status # "pending" => events'[e] = events[e]
      BY <1>6 DEF ResetAlertState
    <2> QED
      BY <2>1, <2>2 DEF ClosedStays, TerminalStatuses, ActiveStatuses, ClosedEvents
  <1>7. CASE Tick
    <2>1. /\ \A d \in Dispatches : disp'[d].status = disp[d].status
          /\ \A e \in EventIds : events'[e].status = events[e].status
      BY <1>7 DEF Tick, Row, Event
    <2> QED
      BY <2>1 DEF ClosedStays
  <1>8. ASSUME NEW p \in Processes, NEW d \in Dispatches, Deliver(p, d) \/ Abandon(p, d)
        PROVE  ClosedStays
    BY <1>1, <1>8 DEF Deliver, Skip, StartSend, EndSend, Abandon
  <1>9. ASSUME NEW p \in Processes, Restart(p) PROVE ClosedStays
    BY <1>1, <1>9 DEF Restart
  <1>10. CASE UNCHANGED vars
    BY <1>1, <1>10 DEF vars
  <1> QED
    BY <1>2, <1>3, <1>4, <1>5, <1>6, <1>7, <1>8, <1>9, <1>10 DEF Next, Enqueue, Complete

\* A delivered, dead-lettered, skipped or reset dispatch, and a closed event, are
\* never changed again by a late completion, a claim, an enqueue or a reset.
THEOREM ClosedForever == Spec => ClosedIsFinal
  <1>1. OutboxInv /\ [Next]_vars => [ClosedStays]_vars
    BY StepClosedStays
  <1> QED
    BY <1>1, OutboxInvariant, PTL DEF Spec, ClosedIsFinal

-----------------------------------------------------------------------------
(* Leases *)

\* A lease longer than the delay to the send and the send itself cannot have
\* expired under a worker that still works on its claim.
LEMMA WorkedOnIsHeld ==
    ASSUME MaxLag + Timeout < Lease, TypeOK, LeaseInv,
           NEW p \in Processes, NEW d \in Dispatches, Working(p, d)
    PROVE  /\ ~LeaseExpired(d)
           /\ disp[d].status # "pending"
           /\ disp[d].status = "in_flight" => disp[d].worker = p
  <1>1. /\ Used(p, d) <= MaxLag + Timeout
        /\ disp[d].status = "in_flight" => /\ disp[d].worker = p
                                           /\ disp[d].lease + Used(p, d) >= Lease
        /\ disp[d].status # "pending"
    BY DEF LeaseInv
  <1>2. disp[d].lease \in Nat /\ job[p][d].t \in Nat
    BY DEF TypeOK, DispatchRow, JobState
  <1>3. Used(p, d) \in Nat
    BY <1>2, TimingAssumption DEF Used
  <1> QED
    BY <1>1, <1>2, <1>3, TimingAssumption DEF LeaseExpired

\* Steps that start no work and leave the rows being worked on as they are.
LEMMA SameWorkLeaseInv ==
    ASSUME LeaseInv,
           \A p \in Processes, d \in Dispatches :
              Working(p, d)' =>
                 /\ Working(p, d)
                 /\ job'[p][d] = job[p][d]
                 /\ \/ disp'[d] = disp[d]
                    \/ disp'[d].status = "reset"
                    \/ disp'[d].status = "none"
                 /\ disp'[d].status = "none" =>
                       \/ disp[d].status = "none" /\ events'[d[1]].status = events[d[1]].status
                       \/ events'[d[1]].status = "pruned"
    PROVE  LeaseInv'
  <1>1. ASSUME NEW p \in Processes, NEW d \in Dispatches, Working(p, d)'
        PROVE  /\ Used(p, d)' <= MaxLag + Timeout
               /\ job'[p][d].phase = "claimed" => job'[p][d].t <= MaxLag
               /\ \/ /\ disp'[d].status = "in_flight"
                     /\ disp'[d].worker = p
                     /\ disp'[d].lease + Used(p, d)' >= Lease
                  \/ disp'[d].status = "reset"
                  \/ disp'[d].status = "none" /\ events'[d[1]].status = "pruned"
    <2>1. Working(p, d) /\ job'[p][d] = job[p][d] /\ Used(p, d)' = Used(p, d)
      BY <1>1 DEF Used
    <2> QED
      BY <1>1, <2>1 DEF LeaseInv
  <1>2. ASSUME NEW p \in Processes, NEW q \in Processes, NEW d \in Dispatches,
               Working(p, d)', Working(q, d)'
        PROVE  p = q
    BY <1>2 DEF LeaseInv
  <1> QED
    BY <1>1, <1>2 DEF LeaseInv

\* A poll claims only rows that nobody works on.
LEMMA PollLeaseInv ==
    ASSUME MaxLag + Timeout < Lease, OutboxInv, LeaseInv, NEW p \in Processes, Poll(p)
    PROVE  LeaseInv'
  <1>1. TypeOK
    BY DEF OutboxInv
  <1>2. \A q \in Processes, d \in Dispatches :
           d \in Claimed \/ d \in Exhausted => ~Working(q, d)
    BY <1>1, WorkedOnIsHeld DEF Claimed, Claimable, Exhausted
  <1>3. \A d \in Dispatches : d \in Claimed =>
           disp'[d].status = "in_flight" /\ disp'[d].worker = p /\ disp'[d].lease = Lease
    BY DEF Poll, ClaimRow, Row
  <1>4. \A d \in Dispatches : d \notin Claimed /\ d \notin Exhausted => disp'[d] = disp[d]
    BY DEF Poll, DeadLettered
  <1>5. \A q \in Processes, d \in Dispatches :
           job'[q][d] = IF q = p /\ d \in Claimed THEN Job("claimed", claims[d] + 1, 0)
                        ELSE job[q][d]
    BY DEF Poll
  <1>6. ASSUME NEW d \in Dispatches, events[d[1]].status = "pruned"
        PROVE  events'[d[1]].status = "pruned"
    <2>1. d[1] \in EventIds /\ \A s \in Sinks : <<d[1], s>> \in Dispatches
      BY DispatchParts
    <2>2. \A s \in Sinks : disp[<<d[1], s>>].status = "none"
      BY <1>6, <2>1 DEF OutboxInv, EventsInv, InTable
    <2>3. \A s \in Sinks : <<d[1], s>> \notin Exhausted
      BY <2>2 DEF Exhausted, LeaseExpired
    <2> QED
      BY <1>6, <2>1, <2>3 DEF Poll
  <1>7. ASSUME NEW q \in Processes, NEW d \in Dispatches, Working(q, d)', d \notin Claimed
        PROVE  Working(q, d) /\ job'[q][d] = job[q][d] /\ disp'[d] = disp[d]
    BY <1>2, <1>4, <1>5, <1>7 DEF Working
  <1>8. ASSUME NEW q \in Processes, NEW d \in Dispatches, Working(q, d)', d \in Claimed
        PROVE  /\ q = p
               /\ job'[q][d].phase = "claimed" /\ job'[q][d].t = 0
    <2>1. ~Working(q, d)
      BY <1>2, <1>8
    <2>2. job'[q][d] # job[q][d]
      BY <1>8, <2>1 DEF Working
    <2>3. q = p /\ job'[q][d] = Job("claimed", claims[d] + 1, 0)
      BY <1>5, <2>2
    <2> QED
      BY <2>3 DEF Job
  <1>9. ASSUME NEW q \in Processes, NEW d \in Dispatches, Working(q, d)'
        PROVE  /\ Used(q, d)' <= MaxLag + Timeout
               /\ job'[q][d].phase = "claimed" => job'[q][d].t <= MaxLag
               /\ \/ /\ disp'[d].status = "in_flight"
                     /\ disp'[d].worker = q
                     /\ disp'[d].lease + Used(q, d)' >= Lease
                  \/ disp'[d].status = "reset"
                  \/ disp'[d].status = "none" /\ events'[d[1]].status = "pruned"
    <2>1. CASE d \in Claimed
      BY <1>3, <1>8, <1>9, <2>1, TimingAssumption DEF Used
    <2>2. CASE d \notin Claimed
      <3>1. Working(q, d) /\ job'[q][d] = job[q][d] /\ disp'[d] = disp[d]
        BY <1>7, <1>9, <2>2
      <3>2. Used(q, d)' = Used(q, d)
        BY <3>1 DEF Used
      <3> QED
        BY <1>6, <3>1, <3>2 DEF LeaseInv
    <2> QED
      BY <2>1, <2>2
  <1>10. ASSUME NEW q \in Processes, NEW r \in Processes, NEW d \in Dispatches,
                Working(q, d)', Working(r, d)'
         PROVE  q = r
    <2>1. CASE d \in Claimed
      BY <1>8, <1>10, <2>1
    <2>2. CASE d \notin Claimed
      <3>1. Working(q, d) /\ Working(r, d)
        BY <1>7, <1>10, <2>2
      <3> QED
        BY <3>1 DEF LeaseInv
    <2> QED
      BY <2>1, <2>2
  <1> QED
    BY <1>9, <1>10 DEF LeaseInv

\* A send inherits what the wait for it left of the lease.
LEMMA DeliverLeaseInv ==
    ASSUME OutboxInv, LeaseInv, NEW p \in Processes, NEW d \in Dispatches, Deliver(p, d)
    PROVE  LeaseInv'
  <1> job \in [Processes -> [Dispatches -> JobState]]
    BY DEF OutboxInv, TypeOK
  <1>1. ASSUME NEW outcome \in ResultPhases, NEW c,
               job' = [job EXCEPT ![p][d] = Job(outcome, c, 0)],
               UNCHANGED <<events, disp>>
        PROVE  LeaseInv'
    <2>1. job'[p][d].phase \in ResultPhases
      BY <1>1 DEF Job
    <2>2. \A q \in Processes, b \in Dispatches :
             ~(q = p /\ b = d) => job'[q][b] = job[q][b]
      BY <1>1
    <2> QED
      BY <1>1, <2>1, <2>2, SameWorkLeaseInv DEF Working, ResultPhases
  <1>2. CASE Skip(p, d)
    BY <1>1, <1>2 DEF Skip, ResultPhases
  <1>3. CASE StartSend(p, d)
    <2>1. /\ job'[p][d].phase = "sending" /\ job'[p][d].t = 0
          /\ \A q \in Processes, b \in Dispatches :
                ~(q = p /\ b = d) => job'[q][b] = job[q][b]
          /\ disp' = disp /\ events' = events
      BY <1>3 DEF StartSend, Job
    <2>2. job[p][d].phase = "claimed" /\ Working(p, d)
      BY <1>3 DEF StartSend, Working
    <2>3. job[p][d].t \in Nat /\ job[p][d].t <= MaxLag /\ Used(p, d) = job[p][d].t
      BY <2>2 DEF LeaseInv, Used, JobState
    <2>4. Used(p, d)' = MaxLag
      BY <2>1, TimingAssumption DEF Used
    <2>5. ASSUME NEW q \in Processes, NEW b \in Dispatches, Working(q, b)'
          PROVE  /\ Used(q, b)' <= MaxLag + Timeout
                 /\ job'[q][b].phase = "claimed" => job'[q][b].t <= MaxLag
                 /\ \/ /\ disp'[b].status = "in_flight"
                       /\ disp'[b].worker = q
                       /\ disp'[b].lease + Used(q, b)' >= Lease
                    \/ disp'[b].status = "reset"
                    \/ disp'[b].status = "none" /\ events'[b[1]].status = "pruned"
                 /\ Working(q, b)
      <3>1. CASE q = p /\ b = d
        <4>1. disp[d].lease \in Nat
          BY DEF OutboxInv, TypeOK, DispatchRow
        <4>2. disp[d].lease + job[p][d].t >= Lease => disp[d].lease + MaxLag >= Lease
          BY <2>3, <4>1, TimingAssumption
        <4>3. \/ /\ disp[d].status = "in_flight"
                 /\ disp[d].worker = p
                 /\ disp[d].lease + job[p][d].t >= Lease
              \/ disp[d].status = "reset"
              \/ disp[d].status = "none" /\ events[d[1]].status = "pruned"
          BY <2>2, <2>3 DEF LeaseInv
        <4>4. MaxLag <= MaxLag + Timeout
          BY TimingAssumption
        <4> QED
          BY <2>1, <2>2, <2>4, <3>1, <4>2, <4>3, <4>4
      <3>2. CASE ~(q = p /\ b = d)
        <4>1. Working(q, b) /\ Used(q, b)' = Used(q, b) /\ job'[q][b] = job[q][b]
          BY <2>1, <2>5, <3>2 DEF Working, Used
        <4> QED
          BY <2>1, <4>1 DEF LeaseInv
      <3> QED
        BY <3>1, <3>2
    <2> QED
      BY <2>5 DEF LeaseInv
  <1>4. ASSUME NEW outcome \in {"delivered", "pending"}, NEW reached \in BOOLEAN,
               EndSend(p, d, outcome, reached)
        PROVE  LeaseInv'
    BY <1>1, <1>4 DEF EndSend, ResultPhases
  <1> QED
    BY <1>2, <1>3, <1>4 DEF Deliver

\* A key reset, a prune or an enqueue never hands a row to another worker, and a
\* completion can only be that of the worker that holds the claim.
LEMMA StepLeaseInv ==
    ASSUME MaxLag + Timeout < Lease
    PROVE  OutboxInv /\ LeaseInv /\ [Next]_vars => LeaseInv'
  <1> SUFFICES ASSUME OutboxInv, LeaseInv, [Next]_vars PROVE LeaseInv'
    OBVIOUS
  <1> TypeOK
    BY DEF OutboxInv
  <1>1. ASSUME NEW e \in EventIds, NEW sinks \in SUBSET Sinks,
               disp' = EnsureDispatches(e, sinks), events[e].status # "pruned",
               \A f \in EventIds \ {e} : events'[f] = events[f], job' = job
        PROVE  LeaseInv'
    <2>1. ASSUME NEW p \in Processes, NEW d \in Dispatches, Working(p, d)'
          PROVE  /\ Working(p, d)
                 /\ disp'[d] = disp[d]
                 /\ disp'[d].status = "none" =>
                       disp[d].status = "none" /\ events'[d[1]].status = events[d[1]].status
      <3>1. Working(p, d)
        BY <1>1, <2>1 DEF Working
      <3>2. disp[d].status = "none" => events[d[1]].status = "pruned"
        BY <3>1 DEF LeaseInv
      <3>3. disp[d].status = "none" => d[1] # e /\ d[1] \in EventIds
        BY <1>1, <3>2, DispatchParts
      <3>4. disp'[d] = disp[d]
        BY <1>1, <3>3 DEF EnsureDispatches
      <3> QED
        BY <1>1, <3>1, <3>3, <3>4
    <2> QED
      BY <1>1, <2>1, SameWorkLeaseInv
  <1>2. ASSUME NEW p \in Processes, NEW edge \in Edges, NEW occ \in Occurrences,
               NEW sinks \in SUBSET Sinks, EnqueueExisting(p, edge, occ, sinks)
        PROVE  LeaseInv'
    <2>1. PICK e \in PendingFor(edge, occ) : disp' = EnsureDispatches(e, sinks)
      BY <1>2 DEF EnqueueExisting
    <2> QED
      BY <1>1, <1>2, <2>1 DEF EnqueueExisting, PendingFor
  <1>3. ASSUME NEW p \in Processes, NEW edge \in Edges, NEW occ \in Occurrences,
               NEW sinks \in SUBSET Sinks, EnqueueNew(p, edge, occ, sinks)
        PROVE  LeaseInv'
    <2>1. PICK e \in EventIds : /\ events[e].status = "none"
                                /\ events' = [events EXCEPT ![e] = Event(edge, occ, 0, "pending")]
                                /\ disp' = EnsureDispatches(e, sinks)
      BY <1>3 DEF EnqueueNew
    <2>2. \A f \in EventIds \ {e} : events'[f] = events[f]
      BY <2>1 DEF TypeOK
    <2> QED
      BY <1>1, <1>3, <2>1, <2>2 DEF EnqueueNew
  <1>4. ASSUME NEW p \in Processes, Poll(p) PROVE LeaseInv'
    BY <1>4, PollLeaseInv
  <1>5. ASSUME NEW p \in Processes, NEW d \in Dispatches, Deliver(p, d) PROVE LeaseInv'
    BY <1>5, DeliverLeaseInv
  <1>6. ASSUME NEW p \in Processes, NEW d \in Dispatches, NEW again \in Replay,
               Record(p, d, again)
        PROVE  LeaseInv'
    <2>1. /\ job[p][d].phase \in ResultPhases
          /\ disp[d].status = "in_flight" /\ disp[d].worker = p
      BY <1>6 DEF Record, Holds
    <2>2. \A q \in Processes : ~Working(q, d)
      BY <2>1 DEF LeaseInv, Working, ResultPhases
    <2>3. \A c \in Dispatches : c # d => disp'[c] = disp[c]
      BY <1>6 DEF Record, TypeOK
    <2>4. \A q \in Processes, c \in Dispatches :
             \/ job'[q][c] = job[q][c]
             \/ job'[q][c].phase = "none"
      BY <1>6 DEF Record, TypeOK, NoJob, Job
    <2>5. \A c \in Dispatches :
             disp[c].status = "none" /\ events[c[1]].status = "pruned"
                => events'[c[1]].status = "pruned"
      <3>1. HasActive(d[1]) /\ d[1] \in EventIds
        BY <2>1, DispatchParts DEF HasActive, Active, ActiveStatuses
      <3>2. events[d[1]].status # "pruned"
        BY <2>1, <3>1, DispatchParts DEF OutboxInv, EventsInv, InTable
      <3> QED
        BY <1>6, <3>2, DispatchParts DEF Record, TypeOK
    <2>6. \A q \in Processes, c \in Dispatches : Working(q, c)' =>
             /\ Working(q, c) /\ job'[q][c] = job[q][c] /\ disp'[c] = disp[c]
             /\ disp[c].status = "none" => events[c[1]].status = "pruned"
      BY <2>2, <2>3, <2>4 DEF Working, LeaseInv
    <2> QED
      BY <2>5, <2>6, SameWorkLeaseInv
  <1>7. ASSUME NEW p \in Processes, NEW d \in Dispatches, Abandon(p, d) PROVE LeaseInv'
    <2>1. \A q \in Processes, c \in Dispatches :
             job'[q][c] = job[q][c] \/ job'[q][c].phase = "none"
      BY <1>7 DEF Abandon, TypeOK, NoJob, Job
    <2> QED
      BY <1>7, <2>1, SameWorkLeaseInv DEF Abandon, Working
  <1>8. CASE Prune
    <2>1. PICK batch \in SUBSET EventIds :
             /\ events' = [e \in EventIds |->
                              IF e \in batch THEN Tombstone(events[e].edge) ELSE events[e]]
             /\ disp' = [c \in Dispatches |-> IF c[1] \in batch THEN NoDispatch ELSE disp[c]]
             /\ job' = job
      BY <1>8 DEF Prune, Prunable
    <2>2. ASSUME NEW c \in Dispatches
          PROVE  \/ disp'[c].status = "none" /\ events'[c[1]].status = "pruned"
                 \/ disp'[c] = disp[c] /\ events'[c[1]] = events[c[1]]
      BY <2>1, DispatchParts DEF Tombstone, Event, NoDispatch, FreeRow, Row
    <2> QED
      BY <2>1, <2>2, SameWorkLeaseInv DEF Working
  <1>9. ASSUME NEW p \in Processes, Restart(p) PROVE LeaseInv'
    <2>1. \A q \in Processes, c \in Dispatches :
             job'[q][c] = job[q][c] \/ job'[q][c].phase = "none"
      BY <1>9 DEF Restart, DropJobs, NoJob, Job
    <2> QED
      BY <1>9, <2>1, SameWorkLeaseInv DEF Restart, Working
  <1>10. ASSUME NEW p \in Processes, ResetAlertState(p) PROVE LeaseInv'
    <2>1. \A q \in Processes, c \in Dispatches :
             job'[q][c] = job[q][c] \/ job'[q][c].phase = "none"
      BY <1>10 DEF ResetAlertState, DropJobs, NoJob, Job
    <2>2. \A c \in Dispatches : disp'[c] = disp[c] \/ disp'[c].status = "reset"
      BY <1>10 DEF ResetAlertState, FreeRow, Row
    <2>3. \A e \in EventIds : events[e].status # "pending" => events'[e] = events[e]
      BY <1>10 DEF ResetAlertState
    <2>4. ASSUME NEW q \in Processes, NEW c \in Dispatches, Working(q, c)',
                 disp'[c].status = "none"
          PROVE  events'[c[1]].status = "pruned"
      <3>1. Working(q, c) /\ disp[c].status = "none"
        BY <2>1, <2>2, <2>4 DEF Working
      <3>2. events[c[1]].status = "pruned"
        BY <3>1 DEF LeaseInv
      <3> QED
        BY <2>3, <3>2, DispatchParts
    <2> QED
      BY <2>1, <2>2, <2>4, SameWorkLeaseInv DEF Working
  <1>11. CASE Tick
    <2>1. /\ \A c \in Dispatches : /\ disp'[c].status = disp[c].status
                                   /\ disp'[c].worker = disp[c].worker
                                   /\ disp'[c].lease = Down(disp[c].lease)
          /\ \A e \in EventIds : events'[e].status = events[e].status
      BY <1>11 DEF Tick, Row, Event
    <2>2. \A q \in Processes, c \in Dispatches :
             /\ job'[q][c].phase = job[q][c].phase
             /\ Working(q, c) => job'[q][c].t = job[q][c].t + 1
      BY <1>11 DEF Tick, Job, Working
    <2>3. ASSUME NEW q \in Processes, NEW c \in Dispatches, Working(q, c)'
          PROVE  /\ Used(q, c)' <= MaxLag + Timeout
                 /\ job'[q][c].phase = "claimed" => job'[q][c].t <= MaxLag
                 /\ \/ /\ disp'[c].status = "in_flight"
                       /\ disp'[c].worker = q
                       /\ disp'[c].lease + Used(q, c)' >= Lease
                    \/ disp'[c].status = "reset"
                    \/ disp'[c].status = "none" /\ events'[c[1]].status = "pruned"
      <3>1. Working(q, c)
        BY <2>2, <2>3 DEF Working
      <3>2. job[q][c].t \in Nat /\ disp[c].lease \in Nat
        BY DEF TypeOK, JobState, DispatchRow
      <3>3. /\ Used(q, c) \in Nat
            /\ Used(q, c)' = Used(q, c) + 1
        BY <2>2, <3>1, <3>2, TimingAssumption DEF Used
      <3>4. /\ job[q][c].phase = "claimed" => job[q][c].t < MaxLag
            /\ job[q][c].phase = "sending" => job[q][c].t < Timeout
        BY <1>11 DEF Tick, MayTick
      <3>5. Used(q, c)' <= MaxLag + Timeout
        BY <3>1, <3>2, <3>3, <3>4, TimingAssumption DEF Used, Working
      <3>6. job'[q][c].phase = "claimed" => job'[q][c].t <= MaxLag
        BY <2>2, <3>1, <3>2, <3>4, TimingAssumption
      <3>7. disp[c].lease + Used(q, c) >= Lease => Down(disp[c].lease) + Used(q, c)' >= Lease
        BY <3>2, <3>3, TimingAssumption DEF Down
      <3>8. \/ /\ disp[c].status = "in_flight"
               /\ disp[c].worker = q
               /\ disp[c].lease + Used(q, c) >= Lease
            \/ disp[c].status = "reset"
            \/ disp[c].status = "none" /\ events[c[1]].status = "pruned"
        BY <3>1 DEF LeaseInv
      <3> QED
        BY <2>1, <3>5, <3>6, <3>7, <3>8, DispatchParts
    <2>4. \A q, r \in Processes, c \in Dispatches :
             Working(q, c)' /\ Working(r, c)' => q = r
      BY <2>2 DEF Working, LeaseInv
    <2> QED
      BY <2>3, <2>4 DEF LeaseInv
  <1>12. CASE UNCHANGED vars
    BY <1>12, SameWorkLeaseInv DEF vars, Working
  <1> QED
    BY <1>2, <1>3, <1>4, <1>5, <1>6, <1>7, <1>8, <1>9, <1>10, <1>11, <1>12
    DEF Next, Enqueue, Complete

\* When Sink.Timeout plus the delay from stamping a lease to starting the send
\* stays below config.AlertDeliveryLeaseDuration, no two workers are ever sending
\* the same dispatch at once.
THEOREM LeaseOutlivesSend ==
    ASSUME MaxLag + Timeout < Lease
    PROVE  Spec => []NoOverlappingSends
  <1>1. Init => LeaseInv
    BY DEF Init, LeaseInv, Working, NoJob, Job
  <1>2. OutboxInv /\ LeaseInv /\ [Next]_vars => LeaseInv'
    BY StepLeaseInv
  <1>3. LeaseInv => NoOverlappingSends
    BY DEF LeaseInv, Working, NoOverlappingSends
  <1> QED
    BY <1>1, <1>2, <1>3, OutboxInvariant, PTL DEF Spec
-----------------------------------------------------------------------------
(* Cooldown *)

\* What vouches for edge x: a deleted event of it, or a closed row of a closing
\* event that is no older than n.
Vouched(x, e, n) ==
    /\ events[e].edge = x
    /\ \/ events[e].status = "pruned"
       \/ Closing(e) /\ \E s \in Sinks : /\ ClosedRow(<<e, s>>)
                                       /\ disp[<<e, s>>].age <= n

\* Steps that close no event, and keep the closing events, their rows and what
\* retention has deleted, keep every vouching.
LEMMA CooldownFrame ==
    ASSUME OutboxInv, CooldownInv,
           sinceClosed' = sinceClosed,
           \A e \in EventIds :
              /\ events[e].status = "pruned" => events'[e] = events[e]
              /\ Closing(e) => /\ events'[e].edge = events[e].edge
                               /\ \/ events'[e].status = "pruned"
                                  \/ /\ events'[e].status = events[e].status
                                     /\ \A s \in Sinks : ClosedRow(<<e, s>>) =>
                                           disp'[<<e, s>>] = disp[<<e, s>>]
    PROVE  CooldownInv'
  <1> SUFFICES ASSUME NEW x \in Edges, sinceClosed[x] < Cooldown
               PROVE  \E e \in EventIds : Vouched(x, e, sinceClosed[x])'
    BY DEF CooldownInv, Vouched, Closing, ClosedRow, Active
  <1>1. PICK e \in EventIds : Vouched(x, e, sinceClosed[x])
    BY DEF CooldownInv, Vouched
  <1>2. CASE events[e].status = "pruned"
    BY <1>1, <1>2 DEF Vouched
  <1>3. CASE Closing(e)
    BY <1>1, <1>3 DEF Vouched, Closing, ClosedRow, Active
  <1> QED
    BY <1>1, <1>2, <1>3 DEF Vouched

\* A step that closes events: each of them that tells its receivers has a row
\* that the step closed, and the clock of its edge starts again.
LEMMA CooldownClosing ==
    ASSUME OutboxInv, CooldownInv,
           sinceClosed' = CloseEdges(events'),
           \A e \in EventIds :
              /\ events'[e].edge = events[e].edge
              /\ events[e].status # "pending" => events'[e] = events[e]
              /\ events[e].status # "pending" =>
                    \A s \in Sinks : disp'[<<e, s>>] = disp[<<e, s>>]
              /\ events[e].status = "pending" /\ Closing(e)' =>
                    \E s \in Sinks : ClosedRow(<<e, s>>)' /\ disp'[<<e, s>>].age = 0
    PROVE  CooldownInv'
  <1> SUFFICES ASSUME NEW x \in Edges, sinceClosed'[x] < Cooldown
               PROVE  \E e \in EventIds : Vouched(x, e, sinceClosed[x])'
    BY DEF CooldownInv, Vouched, Closing, ClosedRow, Active
  <1>1. CASE \E e \in EventIds : /\ events[e].edge = x /\ events[e].status = "pending"
                                 /\ events'[e].status \in {"delivered", "partial"}
    <2>1. PICK e \in EventIds : /\ events[e].edge = x /\ events[e].status = "pending"
                                /\ events'[e].status \in {"delivered", "partial"}
      BY <1>1
    <2>2. PICK s \in Sinks : ClosedRow(<<e, s>>)' /\ disp'[<<e, s>>].age = 0
      BY <2>1 DEF Closing
    <2>3. sinceClosed'[x] = 0
      BY <1>1 DEF CloseEdges
    <2> QED
      BY <2>1, <2>2, <2>3 DEF Vouched, Closing
  <1>2. CASE ~\E e \in EventIds : /\ events[e].edge = x /\ events[e].status = "pending"
                                  /\ events'[e].status \in {"delivered", "partial"}
    <2>1. sinceClosed'[x] = sinceClosed[x]
      BY <1>2 DEF CloseEdges
    <2>2. PICK e \in EventIds : Vouched(x, e, sinceClosed[x])
      BY <2>1 DEF CooldownInv, Vouched
    <2>3. events'[e] = events[e] /\ \A s \in Sinks : disp'[<<e, s>>] = disp[<<e, s>>]
      BY <2>2 DEF Vouched, Closing
    <2> QED
      BY <2>1, <2>2, <2>3 DEF Vouched, Closing, ClosedRow, Active
  <1> QED
    BY <1>1, <1>2

\* An event that closes by telling its receivers has a row that is closed.
LEMMA ClosingHasClosedRow ==
    ASSUME NEW f, NEW e, SyncStatus(f, e) \in {"delivered", "partial"}
    PROVE  \A s \in Sinks : f[<<e, s>>].status \notin ActiveStatuses
  BY DEF SyncStatus

\* One step keeps an edge vouched for while its cooldown runs.
LEMMA StepCooldownInv ==
    ASSUME OutboxInv, OutboxInv', CooldownInv, [Next]_vars
    PROVE  CooldownInv'
  <1>0. TypeOK
    BY DEF OutboxInv
  <1>1. ASSUME UNCHANGED <<events, disp, sinceClosed>> PROVE CooldownInv'
    BY <1>1, CooldownFrame DEF Closing
  <1>2. ASSUME NEW p \in Processes, NEW edge \in Edges, NEW occ \in Occurrences,
               NEW sinks \in SUBSET Sinks,
               EnqueueExisting(p, edge, occ, sinks) \/ EnqueueNew(p, edge, occ, sinks)
        PROVE  CooldownInv'
    <2>1. PICK n \in EventIds :
             /\ disp' = EnsureDispatches(n, sinks) /\ events[n].status \in {"none", "pending"}
             /\ \A e \in EventIds \ {n} : events'[e] = events[e]
      BY <1>0, <1>2 DEF EnqueueExisting, EnqueueNew, PendingFor, TypeOK
    <2>2. \A e \in EventIds : events[e].status \in {"pruned", "delivered", "partial"} =>
             events'[e] = events[e] /\ \A s \in Sinks : disp'[<<e, s>>] = disp[<<e, s>>]
      BY <2>1, DispatchParts DEF EnsureDispatches
    <2>3. sinceClosed' = sinceClosed
      BY <1>2 DEF EnqueueExisting, EnqueueNew
    <2> QED
      BY <2>2, <2>3, CooldownFrame DEF Closing
  <1>3. ASSUME NEW p \in Processes, Poll(p) PROVE CooldownInv'
    <2>1. \A d \in Dispatches : disp'[d] # disp[d] => Active(d)
      BY <1>3
      DEF Poll, DeadLettered, Exhausted, Claimed, Claimable, LeaseExpired, Active, ActiveStatuses
    <2>2. ASSUME NEW e \in EventIds
          PROVE  /\ events'[e].edge = events[e].edge
                 /\ events[e].status # "pending" => events'[e] = events[e]
                 /\ events[e].status # "pending" =>
                       \A s \in Sinks : disp'[<<e, s>>] = disp[<<e, s>>]
                 /\ events[e].status = "pending" /\ Closing(e)' =>
                       \E s \in Sinks : ClosedRow(<<e, s>>)' /\ disp'[<<e, s>>].age = 0
      <3>1. events'[e] = IF \E s \in Sinks : <<e, s>> \in Exhausted
                         THEN WithStatus(e, SyncStatus(DeadLettered, e)) ELSE events[e]
        BY <1>3 DEF Poll
      <3>2. events'[e].edge = events[e].edge
        BY <3>1 DEF WithStatus, Event
      <3>3. ASSUME events[e].status # "pending"
            PROVE  /\ events'[e] = events[e]
                   /\ \A s \in Sinks : disp'[<<e, s>>] = disp[<<e, s>>]
        <4>1. \A s \in Sinks : ~Active(<<e, s>>)
          BY <3>3, DispatchParts, OpenIsPending
        <4>2. ~\E s \in Sinks : <<e, s>> \in Exhausted
          BY <4>1 DEF Exhausted, LeaseExpired, Active, ActiveStatuses
        <4> QED
          BY <2>1, <3>1, <4>1, <4>2, DispatchParts
      <3>4. ASSUME events[e].status = "pending", Closing(e)'
            PROVE  \E s \in Sinks : ClosedRow(<<e, s>>)' /\ disp'[<<e, s>>].age = 0
        <4>1. PICK s \in Sinks : <<e, s>> \in Exhausted
          BY <3>1, <3>4 DEF Closing
        <4>2. <<e, s>> \in Dispatches /\ <<e, s>> \notin Claimed
          BY <4>1, PolicyAssumption
          DEF Exhausted, Claimed, Claimable, LeaseExpired, OutboxInv, TypeOK, DispatchRow
        <4>3. disp'[<<e, s>>].status = "dead_lettered" /\ disp'[<<e, s>>].age = 0
          BY <1>3, <4>1, <4>2 DEF Poll, DeadLettered, FreeRow, Row
        <4> QED
          BY <4>3 DEF ClosedRow, Active, ActiveStatuses
      <3> QED
        BY <3>2, <3>3, <3>4
    <2>3. sinceClosed' = CloseEdges(events')
      BY <1>3 DEF Poll
    <2> QED
      BY <2>2, <2>3, CooldownClosing
  <1>4. ASSUME NEW p \in Processes, NEW c \in Dispatches, NEW again \in Replay,
               Record(p, c, again)
        PROVE  CooldownInv'
    <2>1. /\ c[1] \in EventIds /\ c[2] \in Sinks /\ c = <<c[1], c[2]>>
          /\ events[c[1]].status = "pending"
      BY <1>4, DispatchParts, OpenIsPending DEF Record, Holds, Active, ActiveStatuses
    <2>2. /\ events'[c[1]] = WithStatus(c[1], SyncStatus(disp', c[1]))
          /\ \A e \in EventIds \ {c[1]} : events'[e] = events[e]
          /\ disp'[c] = CompletedRow(c, job[p][c].phase)
          /\ \A d \in Dispatches \ {c} : disp'[d] = disp[d]
      BY <1>0, <1>4, <2>1 DEF Record, TypeOK
    <2>3. Closing(c[1])' => ClosedRow(c)' /\ disp'[c].age = 0
      <3> SUFFICES ASSUME Closing(c[1])' PROVE ClosedRow(c)' /\ disp'[c].age = 0
        OBVIOUS
      <3>1. SyncStatus(disp', c[1]) \in {"delivered", "partial"}
        BY <2>2 DEF Closing, WithStatus, Event
      <3>2. disp'[c].status \notin ActiveStatuses
        BY <2>1, <3>1, ClosingHasClosedRow
      <3>3. disp'[c].age = 0 /\ disp'[c].status # "none"
        BY <1>4, <2>2 DEF Record, CompletedRow, Row, ResultPhases
      <3> QED
        BY <3>2, <3>3 DEF ClosedRow, Active
    <2>4. \A e \in EventIds :
             /\ events'[e].edge = events[e].edge
             /\ events[e].status # "pending" => events'[e] = events[e]
             /\ events[e].status # "pending" =>
                   \A s \in Sinks : disp'[<<e, s>>] = disp[<<e, s>>]
             /\ events[e].status = "pending" /\ Closing(e)' =>
                   \E s \in Sinks : ClosedRow(<<e, s>>)' /\ disp'[<<e, s>>].age = 0
      <3> SUFFICES ASSUME NEW e \in EventIds
                   PROVE  /\ events'[e].edge = events[e].edge
                          /\ events[e].status # "pending" => events'[e] = events[e]
                          /\ events[e].status # "pending" =>
                                \A s \in Sinks : disp'[<<e, s>>] = disp[<<e, s>>]
                          /\ events[e].status = "pending" /\ Closing(e)' =>
                                \E s \in Sinks : ClosedRow(<<e, s>>)' /\ disp'[<<e, s>>].age = 0
        OBVIOUS
      <3>1. CASE e = c[1]
        BY <2>1, <2>2, <2>3, <3>1 DEF WithStatus, Event
      <3>2. CASE e # c[1]
        <4>1. \A s \in Sinks : <<e, s>> \in Dispatches \ {c}
          BY <2>1, <3>2, DispatchParts
        <4> QED
          BY <2>2, <3>2, <4>1 DEF Closing
      <3> QED
        BY <3>1, <3>2
    <2>5. sinceClosed' = CloseEdges(events')
      BY <1>4 DEF Record
    <2> QED
      BY <2>4, <2>5, CooldownClosing
  <1>5. CASE Prune
    <2>1. PICK batch \in SUBSET Prunable :
             /\ events' = [e \in EventIds |->
                              IF e \in batch THEN Tombstone(events[e].edge) ELSE events[e]]
             /\ disp' = [d \in Dispatches |-> IF d[1] \in batch THEN NoDispatch ELSE disp[d]]
      BY <1>5 DEF Prune
    <2>1a. \A e \in batch : events[e].status # "pruned"
      BY DEF Prunable, ClosedEvents
    <2>2. \A e \in EventIds :
             /\ events[e].status = "pruned" => events'[e] = events[e]
             /\ Closing(e) => /\ events'[e].edge = events[e].edge
                              /\ \/ events'[e].status = "pruned"
                                 \/ /\ events'[e].status = events[e].status
                                    /\ \A s \in Sinks : disp'[<<e, s>>] = disp[<<e, s>>]
      BY <2>1, <2>1a, DispatchParts DEF Tombstone, Event
    <2>3. sinceClosed' = sinceClosed
      BY <1>5 DEF Prune
    <2> QED
      BY <2>2, <2>3, CooldownFrame
  <1>6. ASSUME NEW p \in Processes, ResetAlertState(p) PROVE CooldownInv'
    <2>1. /\ sinceClosed' = sinceClosed
          /\ \A e \in EventIds : events[e].status # "pending" => events'[e] = events[e]
          /\ \A d \in Dispatches : ~Active(d) => disp'[d] = disp[d]
      BY <1>6 DEF ResetAlertState
    <2> QED
      BY <2>1, DispatchParts, CooldownFrame DEF Closing, ClosedRow
  <1>7. CASE Tick
    <2> SUFFICES ASSUME NEW x \in Edges, sinceClosed'[x] < Cooldown
                 PROVE  \E e \in EventIds : Vouched(x, e, sinceClosed[x])'
      BY DEF CooldownInv, Vouched, Closing, ClosedRow, Active
    <2>1. sinceClosed[x] \in Nat /\ Cooldown \in Nat /\ AgeCap \in Nat
      BY <1>0, ClockTypes, TimingAssumption DEF TypeOK
    <2>2. sinceClosed[x] < Cooldown /\ sinceClosed'[x] = sinceClosed[x] + 1
      BY <1>7, <2>1 DEF Tick, Up
    <2>3. PICK e \in EventIds : Vouched(x, e, sinceClosed[x])
      BY <2>2 DEF CooldownInv, Vouched
    <2>4. events'[e].edge = events[e].edge /\ events'[e].status = events[e].status
      BY <1>7 DEF Tick, Event
    <2>5. CASE Closing(e)
      <3>1. PICK s \in Sinks : ClosedRow(<<e, s>>) /\ disp[<<e, s>>].age <= sinceClosed[x]
        BY <2>3, <2>5 DEF Vouched, Closing
      <3>2. <<e, s>> \in Dispatches /\ disp[<<e, s>>].age \in Nat
        BY <1>0, DispatchParts DEF TypeOK, DispatchRow
      <3>3. /\ disp'[<<e, s>>].status = disp[<<e, s>>].status
            /\ disp'[<<e, s>>].age = Up(disp[<<e, s>>].age, AgeCap)
        BY <1>7, <3>1, <3>2 DEF Tick, Row, ClosedRow
      <3>4. disp'[<<e, s>>].age <= sinceClosed'[x]
        BY <2>1, <2>2, <3>1, <3>2, <3>3 DEF Up
      <3> QED
        BY <2>3, <2>4, <2>5, <3>1, <3>3, <3>4 DEF Vouched, Closing, ClosedRow, Active
    <2>6. CASE events[e].status = "pruned"
      BY <2>3, <2>4, <2>6 DEF Vouched
    <2> QED
      BY <2>3, <2>5, <2>6 DEF Vouched
  <1>8. ASSUME NEW p \in Processes, NEW d \in Dispatches, Deliver(p, d) \/ Abandon(p, d)
        PROVE  CooldownInv'
    BY <1>1, <1>8 DEF Deliver, Skip, StartSend, EndSend, Abandon
  <1>9. ASSUME NEW p \in Processes, Restart(p) PROVE CooldownInv'
    BY <1>1, <1>9 DEF Restart
  <1>10. CASE UNCHANGED vars
    BY <1>1, <1>10 DEF vars
  <1> QED
    BY <1>2, <1>3, <1>4, <1>5, <1>6, <1>7, <1>8, <1>9, <1>10 DEF Next, Enqueue, Complete

\* While retention has deleted no event of an edge, EnqueueAlertEvent inserts
\* another one only when alerting.cooldown has passed since any of its events was
\* closed as delivered or partial: cooldownSuppressedAlertEventForEvent, which
\* looks at the rows, misses no closing.
THEOREM CooldownIsHonoured == Spec => CooldownHonoured
  <1> DEFINE Honoured ==
               \A e \in EventIds :
                  events[e].status = "none" /\ events'[e].status = "pending" =>
                     \/ sinceClosed[events'[e].edge] >= Cooldown
                     \/ \E f \in EventIds : /\ events[f].status = "pruned"
                                            /\ events[f].edge = events'[e].edge
  <1>1. Init => CooldownInv
    BY TimingAssumption DEF Init, CooldownInv
  <1>2. OutboxInv /\ OutboxInv' /\ CooldownInv /\ [Next]_vars => CooldownInv'
    BY StepCooldownInv
  <1>3. OutboxInv /\ CooldownInv /\ [Next]_vars => [Honoured]_vars
    <2> SUFFICES ASSUME OutboxInv, CooldownInv, Next, NEW e \in EventIds,
                        events[e].status = "none", events'[e].status = "pending"
                 PROVE  \/ sinceClosed[events'[e].edge] >= Cooldown
                        \/ \E f \in EventIds : /\ events[f].status = "pruned"
                                               /\ events[f].edge = events'[e].edge
      OBVIOUS
    <2>1. PICK p \in Processes, edge \in Edges, occ \in Occurrences, sinks \in SUBSET Sinks :
             EnqueueNew(p, edge, occ, sinks)
      <3>0. OutboxInv => TypeOK
        BY DEF OutboxInv
      <3>1. CASE Enqueue
        BY <3>1 DEF Enqueue, EnqueueExisting
      <3>2. ~Prune /\ ~Tick
        <4>1. Prune => events'[e].status \in {"pruned", events[e].status}
          BY DEF Prune, Tombstone, Event
        <4>2. Tick => events'[e].status = events[e].status
          BY DEF Tick, Event
        <4> QED
          BY <4>1, <4>2
      <3>3. ASSUME NEW p \in Processes, Poll(p) \/ Restart(p) \/ ResetAlertState(p) PROVE FALSE
        <4>1. ~Restart(p) /\ ~ResetAlertState(p)
          BY DEF Restart, ResetAlertState
        <4>2. events'[e] # events[e] => \E s \in Sinks : <<e, s>> \in Exhausted
          BY <3>3, <4>1 DEF Poll
        <4>3. PICK s \in Sinks : Active(<<e, s>>) /\ <<e, s>> \in Dispatches
          BY <4>2 DEF Exhausted, LeaseExpired, Active, ActiveStatuses
        <4> QED
          BY <4>3, DispatchParts, OpenIsPending
      <3>4. ASSUME NEW p \in Processes, NEW d \in Dispatches, Deliver(p, d) \/ Complete(p, d)
            PROVE  FALSE
        <4>1. PICK again \in Replay : Record(p, d, again)
          BY <3>4 DEF Deliver, Skip, StartSend, EndSend, Complete, Abandon
        <4>2. events[d[1]].status = "pending" /\ e # d[1]
          BY <4>1, OpenIsPending DEF Record, Holds, Active, ActiveStatuses
        <4> QED
          BY <3>0, <4>1, <4>2, DispatchParts DEF Record, TypeOK
      <3> QED
        BY <3>1, <3>2, <3>3, <3>4 DEF Next
    <2>2. events'[e].edge = edge
      BY <2>1 DEF EnqueueNew, Event, OutboxInv, TypeOK
    <2> SUFFICES ASSUME ~(sinceClosed[edge] >= Cooldown)
                 PROVE  \E f \in EventIds : events[f].status = "pruned" /\ events[f].edge = edge
      BY <2>2
    <2>3. sinceClosed[edge] \in Nat /\ Cooldown \in Nat
      BY TimingAssumption DEF OutboxInv, TypeOK
    <2>4. PICK f \in EventIds : Vouched(edge, f, sinceClosed[edge])
      BY <2>3 DEF CooldownInv, Vouched
    <2>5. ASSUME Closing(f) PROVE FALSE
      <3>1. PICK s \in Sinks : ClosedRow(<<f, s>>) /\ disp[<<f, s>>].age <= sinceClosed[edge]
        BY <2>4, <2>5 DEF Vouched, Closing
      <3>2. disp[<<f, s>>].age \in Nat
        BY DispatchParts DEF OutboxInv, TypeOK, DispatchRow
      <3>3. ~HasActive(f)
        BY <2>5, DispatchParts, OpenIsPending DEF HasActive, Closing
      <3>4. Suppressed(edge)
        BY <2>3, <2>4, <2>5, <3>1, <3>2, <3>3 DEF Suppressed, Vouched, Closing, ClosedRow
      <3> QED
        BY <2>1, <3>4 DEF EnqueueNew
    <2> QED
      BY <2>4, <2>5 DEF Vouched
  <1> QED
    BY <1>1, <1>2, <1>3, OutboxInvariant, PTL DEF Spec, CooldownHonoured

-----------------------------------------------------------------------------
(* Refinement: AlertOutbox implements AlertDelivery *)

\* What one step of AlertDelivery may do to a dispatch, in the outbox's variables.
Told(d)   == accepted[d] # {}
SameTry(d) == claims'[d] = claims[d] /\ Told(d)' = Told(d)
ItemStep(d) ==
    \/ StageOf(d) = "absent" /\ StageOf(d)' = "open" /\ SameTry(d)
    \/ /\ StageOf(d) = "open" /\ StageOf(d)' = StageOf(d) /\ claims[d] < MaxAttempts
       /\ claims'[d] = claims[d] + 1 /\ Told(d)' = Told(d)
    \/ /\ claims[d] > 0 /\ Told(d)' /\ StageOf(d)' = StageOf(d) /\ claims'[d] = claims[d]
    \/ /\ StageOf(d) = "open" /\ SameTry(d)
       /\ \/ StageOf(d)' = "delivered" /\ Told(d)
          \/ StageOf(d)' = "skipped" /\ claims[d] > 0
          \/ StageOf(d)' = "dead_lettered" /\ claims[d] = MaxAttempts
          \/ StageOf(d)' = "reset"
    \/ /\ StageOf(d) \in {"delivered", "skipped", "dead_lettered", "reset", "absent"}
       /\ StageOf(d)' = "forgotten" /\ SameTry(d)
    \/ StageOf(d)' = StageOf(d) /\ SameTry(d)

\* A step that keeps the rows, the claims, the acceptances and which events are
\* pruned does nothing that AlertDelivery can see.
LEMMA StageFrame ==
    ASSUME NEW d,
           Active(d)' = Active(d),
           disp'[d].status = disp[d].status \/ Active(d),
           events'[d[1]].status = "pruned" <=> events[d[1]].status = "pruned"
    PROVE  StageOf(d)' = StageOf(d)
  BY DEF StageOf

\* Every step of the outbox is a step of AlertDelivery, dispatch by dispatch.
LEMMA StepItems ==
    ASSUME OutboxInv, OutboxInv', [Next]_vars, NEW d \in Dispatches
    PROVE  ItemStep(d)
  <1>0. /\ d[1] \in EventIds /\ d[2] \in Sinks /\ d = <<d[1], d[2]>>
        /\ claims[d] \in Nat /\ disp[d] \in DispatchRow /\ events[d[1]] \in EventRow
        /\ MaxAttempts \in Nat
    BY DispatchParts, PolicyAssumption DEF OutboxInv, TypeOK
  <1>1. ASSUME UNCHANGED <<events, disp, claims, accepted>> PROVE ItemStep(d)
    BY <1>1 DEF ItemStep, SameTry, Told, StageOf, Active
  <1>2. ASSUME NEW p \in Processes, NEW edge \in Edges, NEW occ \in Occurrences,
               NEW sinks \in SUBSET Sinks,
               EnqueueExisting(p, edge, occ, sinks) \/ EnqueueNew(p, edge, occ, sinks)
        PROVE  ItemStep(d)
    <2>1. SameTry(d)
      BY <1>2 DEF EnqueueExisting, EnqueueNew, SameTry, Told
    <2>2. PICK e \in EventIds :
             /\ disp' = EnsureDispatches(e, sinks)
             /\ events'[e].status = "pending" /\ events[e].status \in {"none", "pending"}
             /\ \A f \in EventIds \ {e} : events'[f] = events[f]
      BY <1>2
      DEF EnqueueExisting, EnqueueNew, PendingFor, Event, OutboxInv, TypeOK
    <2>3. /\ events[d[1]].status = "pruned" <=> events'[d[1]].status = "pruned"
          /\ \/ disp'[d] = disp[d]
             \/ /\ disp[d].status = "none" /\ disp'[d].status = "pending"
                /\ events'[d[1]].status = "pending"
      BY <1>0, <2>2 DEF EnsureDispatches, NewDispatch, FreeRow, Row
    <2> QED
      BY <2>1, <2>3 DEF ItemStep, StageOf, Active, ActiveStatuses
  <1>3. ASSUME NEW p \in Processes, Poll(p) PROVE ItemStep(d)
    <2>1. events'[d[1]].status = "pruned" <=> events[d[1]].status = "pruned"
      <3>1. CASE \E s \in Sinks : <<d[1], s>> \in Exhausted
        <4>1. PICK s \in Sinks : Active(<<d[1], s>>)
          BY <1>0, <3>1, DispatchParts DEF Exhausted, LeaseExpired, Active, ActiveStatuses
        <4>2. events[d[1]].status = "pending"
          BY <1>0, <4>1, DispatchParts, OpenIsPending
        <4>3. events'[d[1]].status \in {"pending"} \cup ClosedEvents
          BY <1>0, <1>3, <3>1, SyncStatusType DEF Poll, WithStatus, Event
        <4> QED
          BY <4>2, <4>3 DEF ClosedEvents
      <3>2. CASE ~\E s \in Sinks : <<d[1], s>> \in Exhausted
        BY <1>0, <1>3, <3>2 DEF Poll
      <3> QED
        BY <3>1, <3>2
    <2>2. Told(d)' = Told(d)
      BY <1>3 DEF Poll, Told
    <2>3. CASE d \in Claimed
      <3>1. /\ Active(d) /\ disp'[d].status = "in_flight" /\ claims'[d] = claims[d] + 1
        BY <1>0, <1>3, <2>3
        DEF Poll, Claimed, Claimable, LeaseExpired, Active, ActiveStatuses, ClaimRow, Row
      <3>2. claims'[d] <= MaxAttempts
        BY DEF OutboxInv, AttemptsInv
      <3>3. StageOf(d) = "open" /\ StageOf(d)' = "open"
        BY <2>1, <3>1, OpenIsPending DEF StageOf, Active, ActiveStatuses
      <3> QED
        BY <1>0, <2>2, <3>1, <3>2, <3>3 DEF ItemStep
    <2>4. CASE d \notin Claimed /\ d \in Exhausted
      <3>1. /\ disp[d].status = "in_flight" /\ disp'[d].status = "dead_lettered"
            /\ disp'[d].attempts = disp[d].attempts + 1 /\ claims'[d] = claims[d]
        BY <1>3, <2>4 DEF Poll, DeadLettered, Exhausted, LeaseExpired, FreeRow, Row
      <3>2. claims[d] = MaxAttempts
        BY <3>1 DEF OutboxInv, AttemptsInv, TerminalStatuses
      <3>3. StageOf(d) = "open" /\ StageOf(d)' = "dead_lettered"
        BY <2>1, <3>1, OpenIsPending DEF StageOf, Active, ActiveStatuses
      <3> QED
        BY <2>2, <3>1, <3>2, <3>3 DEF ItemStep, SameTry
    <2>5. CASE d \notin Claimed /\ d \notin Exhausted
      <3>1. disp'[d] = disp[d] /\ claims'[d] = claims[d]
        BY <1>3, <2>5 DEF Poll, DeadLettered
      <3> QED
        BY <2>1, <2>2, <3>1, StageFrame DEF ItemStep, SameTry, Active
    <2> QED
      BY <2>3, <2>4, <2>5
  <1>4. ASSUME NEW p \in Processes, NEW c \in Dispatches, Deliver(p, c) PROVE ItemStep(d)
    <2>1. CASE Skip(p, c) \/ StartSend(p, c)
      BY <1>1, <2>1 DEF Skip, StartSend
    <2>2. ASSUME NEW outcome \in {"delivered", "pending"}, NEW reached \in BOOLEAN,
                 EndSend(p, c, outcome, reached)
          PROVE  ItemStep(d)
      <3>1. StageOf(d)' = StageOf(d) /\ claims'[d] = claims[d]
        BY <2>2 DEF EndSend, StageOf, Active
      <3>2. CASE d = c /\ reached
        <4>1. claims[d] > 0
          BY <1>0, <2>2, <3>2 DEF EndSend, OutboxInv, TypeOK, JobsInv
        <4>2. Told(d)'
          BY <2>2, <3>2 DEF EndSend, Told, OutboxInv, TypeOK
        <4> QED
          BY <3>1, <4>1, <4>2 DEF ItemStep
      <3>3. CASE ~(d = c /\ reached)
        <4>1. accepted'[d] = accepted[d]
          BY <2>2, <3>3 DEF EndSend, OutboxInv, TypeOK
        <4> QED
          BY <3>1, <4>1 DEF ItemStep, SameTry, Told
      <3> QED
        BY <3>2, <3>3
    <2> QED
      BY <1>4, <2>1, <2>2 DEF Deliver
  <1>5. ASSUME NEW p \in Processes, NEW c \in Dispatches, NEW again \in Replay,
               Record(p, c, again)
        PROVE  ItemStep(d)
    <2>1. SameTry(d) /\ disp[c].status = "in_flight" /\ c[1] \in EventIds
      BY <1>5, DispatchParts DEF Record, Holds, SameTry, Told
    <2>2. events[c[1]].status = "pending"
      BY <2>1, OpenIsPending DEF Active, ActiveStatuses
    <2>3. events'[d[1]].status = "pruned" <=> events[d[1]].status = "pruned"
      <3>1. CASE d[1] = c[1]
        <4>1. events'[c[1]].status \in {"pending"} \cup ClosedEvents
          BY <1>5, <2>1, SyncStatusType DEF Record, WithStatus, Event, OutboxInv, TypeOK
        <4> QED
          BY <2>2, <3>1, <4>1 DEF ClosedEvents
      <3>2. CASE d[1] # c[1]
        BY <1>0, <1>5, <2>1, <3>2 DEF Record, OutboxInv, TypeOK
      <3> QED
        BY <3>1, <3>2
    <2>4. CASE d # c
      <3>1. disp'[d] = disp[d]
        BY <1>5, <2>4 DEF Record, OutboxInv, TypeOK
      <3> QED
        BY <2>1, <2>3, <3>1, StageFrame DEF ItemStep, Active
    <2>5. CASE d = c
      <3>1. /\ disp'[d] = CompletedRow(d, job[p][d].phase)
            /\ job[p][d].phase \in ResultPhases
        BY <1>5, <2>5 DEF Record, OutboxInv, TypeOK
      <3>2. /\ claims[d] > 0
            /\ job[p][d].phase = "delivered" => Told(d)
        BY <1>0, <1>5, <2>5 DEF Record, OutboxInv, TypeOK, JobsInv, ResultPhases, Told
      <3>3. StageOf(d) = "open" /\ claims'[d] = claims[d]
        BY <2>1, <2>2, <2>5 DEF StageOf, Active, ActiveStatuses, SameTry
      <3>4. /\ disp'[d].status \in {"delivered", "skipped", "pending", "dead_lettered"}
            /\ disp'[d].status \in {"delivered", "skipped"} =>
                  disp'[d].status = job[p][d].phase
        BY <3>1 DEF CompletedRow, Row, ResultPhases
      <3>5. disp'[d].status = "dead_lettered" => claims[d] = MaxAttempts
        BY <3>3 DEF OutboxInv, AttemptsInv, TerminalStatuses
      <3>6. StageOf(d)' = IF disp'[d].status = "pending" THEN "open" ELSE disp'[d].status
        BY <2>2, <2>3, <2>5, <3>4 DEF StageOf, Active, ActiveStatuses
      <3>7. CASE disp'[d].status = "delivered"
        BY <2>1, <3>2, <3>3, <3>4, <3>6, <3>7 DEF ItemStep
      <3>8. CASE disp'[d].status = "skipped"
        BY <2>1, <3>2, <3>3, <3>6, <3>8 DEF ItemStep
      <3>9. CASE disp'[d].status = "dead_lettered"
        BY <2>1, <3>3, <3>5, <3>6, <3>9 DEF ItemStep
      <3>10. CASE disp'[d].status = "pending"
        BY <2>1, <3>3, <3>6, <3>10 DEF ItemStep
      <3> QED
        BY <3>4, <3>7, <3>8, <3>9, <3>10
    <2> QED
      BY <2>4, <2>5
  <1>6. CASE Prune
    <2>1. PICK batch \in SUBSET Prunable :
             /\ events' = [e \in EventIds |->
                              IF e \in batch THEN Tombstone(events[e].edge) ELSE events[e]]
             /\ disp' = [c \in Dispatches |-> IF c[1] \in batch THEN NoDispatch ELSE disp[c]]
      BY <1>6 DEF Prune
    <2>2. SameTry(d)
      BY <1>6 DEF Prune, SameTry, Told
    <2>3. CASE d[1] \in batch
      <3>1. events[d[1]].status \in ClosedEvents /\ events'[d[1]].status = "pruned"
        BY <1>0, <2>1, <2>3 DEF Prunable, Tombstone, Event
      <3>2. ~Active(d)
        BY <3>1, OpenIsPending
      <3>3. /\ StageOf(d) \in {"delivered", "skipped", "dead_lettered", "reset", "absent"}
            /\ StageOf(d)' = "forgotten"
        BY <1>0, <3>1, <3>2
        DEF StageOf, Active, ActiveStatuses, TerminalStatuses, DispatchRow, ClosedEvents
      <3> QED
        BY <2>2, <3>3 DEF ItemStep
    <2>4. CASE d[1] \notin batch
      <3>1. disp'[d] = disp[d] /\ events'[d[1]] = events[d[1]]
        BY <1>0, <2>1, <2>4
      <3> QED
        BY <2>2, <3>1 DEF ItemStep, StageOf, Active
    <2> QED
      BY <2>3, <2>4
  <1>7. ASSUME NEW p \in Processes, ResetAlertState(p) PROVE ItemStep(d)
    <2>1. SameTry(d)
      BY <1>7 DEF ResetAlertState, SameTry, Told
    <2>2. events'[d[1]].status = "pruned" <=> events[d[1]].status = "pruned"
      BY <1>0, <1>7 DEF ResetAlertState, WithStatus, Event
    <2>3. CASE Active(d)
      <3>1. disp'[d].status = "reset" /\ events[d[1]].status = "pending"
        BY <1>7, <2>3, OpenIsPending DEF ResetAlertState, FreeRow, Row
      <3>2. StageOf(d) = "open" /\ StageOf(d)' = "reset"
        BY <2>2, <2>3, <3>1 DEF StageOf, Active, ActiveStatuses
      <3> QED
        BY <2>1, <3>2 DEF ItemStep
    <2>4. CASE ~Active(d)
      <3>1. disp'[d] = disp[d]
        BY <1>7, <2>4 DEF ResetAlertState
      <3> QED
        BY <2>1, <2>2, <3>1, StageFrame DEF ItemStep, Active
    <2> QED
      BY <2>3, <2>4
  <1>8. CASE Tick
    <2>1. SameTry(d)
      BY <1>8 DEF Tick, SameTry, Told
    <2>2. events'[d[1]].status = events[d[1]].status /\ disp'[d].status = disp[d].status
      BY <1>0, <1>8 DEF Tick, Row, Event
    <2> QED
      BY <2>1, <2>2 DEF ItemStep, StageOf, Active
  <1>9. ASSUME NEW p \in Processes, NEW c \in Dispatches, Abandon(p, c) PROVE ItemStep(d)
    BY <1>1, <1>9 DEF Abandon
  <1>10. CASE UNCHANGED vars
    BY <1>1, <1>10 DEF vars
  <1>11. ASSUME NEW p \in Processes, Restart(p) PROVE ItemStep(d)
    BY <1>1, <1>11 DEF Restart
  <1> QED
    BY <1>2, <1>3, <1>4, <1>5, <1>6, <1>7, <1>8, <1>9, <1>10, <1>11
    DEF Next, Enqueue, Complete

\* The claims, leases, crashes, replays, key resets and retention of the outbox
\* implement what AlertDelivery promises for each dispatch: at most MaxAttempts
\* tries, delivered only when the receiver was told, final once ended.
THEOREM OutboxKeepsPromise == Spec => KeepsPromise
  <1>1. Init => Promise!DeliveryInit
    <2> SUFFICES ASSUME Init PROVE Promise!DeliveryInit
      OBVIOUS
    <2>1. ASSUME NEW d \in Dispatches PROVE StageOf(d) = "absent"
      BY DispatchParts
      DEF Init, StageOf, NoEvent, Event, NoDispatch, FreeRow, Row, Active, ActiveStatuses
    <2>2. \A d \in Dispatches : claims[d] = 0 /\ accepted[d] = {}
      BY DEF Init
    <2> QED
      BY <2>1, <2>2 DEF Init, Promise!DeliveryInit
  <1>2. OutboxInv /\ OutboxInv' /\ [Next]_vars =>
           [Promise!DeliveryNext]_(Promise!deliveryVars)
    <2> SUFFICES ASSUME OutboxInv, OutboxInv', [Next]_vars
                 PROVE  Promise!DeliveryNext
      OBVIOUS
    <2> SUFFICES ASSUME NEW d \in Dispatches
                 PROVE  \/ Promise!Open(d) \/ Promise!Try(d) \/ Promise!Tell(d)
                        \/ Promise!End(d) \/ Promise!Forget(d) \/ Promise!Rest(d)
      BY DEF Promise!DeliveryNext
    <2>1. ItemStep(d)
      BY StepItems
    <2> QED
      BY <2>1
      DEF ItemStep, SameTry, Told, Promise!Open, Promise!Try, Promise!Tell, Promise!End,
          Promise!Forget, Promise!Rest, Promise!Keeps, Promise!Ended
  <1> QED
    BY <1>1, <1>2, OutboxInvariant, PTL DEF Spec, KeepsPromise, Promise!DeliverySpec

-----------------------------------------------------------------------------
(* What the promise says of each dispatch *)

\* The steps of the abstract delivery keep Truthful and are Irrevocable.
LEMMA PromiseSteps ==
    /\ Promise!DeliveryInit => Promise!Truthful
    /\ Promise!Truthful /\ [Promise!DeliveryNext]_(Promise!deliveryVars)
            => Promise!Truthful' /\ Promise!Irrevocable
  <1>1. Promise!DeliveryInit => Promise!Truthful
    <2> SUFFICES ASSUME Promise!DeliveryInit PROVE Promise!Truthful
      OBVIOUS
    <2> DEFINE stage == [d \in Dispatches |-> StageOf(d)]
               told  == [d \in Dispatches |-> accepted[d] # {}]
    <2>1. \A d \in Dispatches : stage[d] = "absent" /\ claims[d] = 0 /\ told[d] = FALSE
      <3>1. /\ stage = [d \in Dispatches |-> "absent"]
            /\ claims = [d \in Dispatches |-> 0]
            /\ told = [d \in Dispatches |-> FALSE]
        BY DEF Promise!DeliveryInit
      <3> HIDE DEF stage, told
      <3> QED
        BY <3>1
    <2>2. \A d \in Dispatches : /\ claims[d] \in 0..MaxAttempts
                                /\ stage[d] = "delivered" => told[d]
                                /\ stage[d] = "dead_lettered" => claims[d] = MaxAttempts
                                /\ stage[d] = "skipped" \/ told[d] => claims[d] > 0
                                /\ stage[d] = "absent" => claims[d] = 0
      <3> HIDE DEF stage, told
      <3> QED
        BY <2>1, PolicyAssumption
    <2> QED
      BY <2>2 DEF Promise!Truthful
  <1>2. ASSUME Promise!Truthful, Promise!DeliveryNext
        PROVE  Promise!Truthful' /\ Promise!Irrevocable
    <2>1. ASSUME NEW d \in Dispatches
          PROVE  \/ Promise!Open(d) \/ Promise!Try(d) \/ Promise!Tell(d)
                 \/ Promise!End(d) \/ Promise!Forget(d) \/ Promise!Rest(d)
      BY <1>2 DEF Promise!DeliveryNext
    <2>2. Promise!Truthful'
      BY <1>2, <2>1, PolicyAssumption
      DEF Promise!Truthful, Promise!Open, Promise!Try, Promise!Tell, Promise!End,
          Promise!Forget, Promise!Rest, Promise!Keeps, Promise!Ended
    <2>3. Promise!Irrevocable
      BY <1>2, <2>1
      DEF Promise!Truthful, Promise!Irrevocable, Promise!Open, Promise!Try, Promise!Tell,
          Promise!End, Promise!Forget, Promise!Rest, Promise!Keeps, Promise!Ended
    <2> QED
      BY <2>2, <2>3
  <1>3. Promise!Truthful /\ UNCHANGED Promise!deliveryVars
            => Promise!Truthful' /\ Promise!Irrevocable
    BY DEF Promise!Truthful, Promise!Irrevocable, Promise!deliveryVars, Promise!Ended
  <1> QED
    BY <1>1, <1>2, <1>3

\* Whoever keeps the promise is truthful, and what it did to a dispatch is final.
THEOREM PromisesHold ==
    KeepsPromise => []Promise!Truthful /\ [][Promise!Irrevocable]_(Promise!deliveryVars)
  BY PromiseSteps, PTL DEF KeepsPromise, Promise!DeliverySpec

\* So is the outbox: the stage of a dispatch tells what happened to it, through claims,
\* crashes, replays, resets and retention, and nothing that has ended is taken up again.
THEOREM OutboxIsTruthful ==
    Spec => []Promise!Truthful /\ [][Promise!Irrevocable]_(Promise!deliveryVars)
  BY OutboxKeepsPromise, PromisesHold

=============================================================================
