------------------------- MODULE HealthAlertsProofs -------------------------
(***************************************************************************)
(* Proofs about HealthAlerts for every number of targets, writers, commits *)
(* and incarnations, and every alert policy.                               *)
(***************************************************************************)
EXTENDS HealthAlerts, TLAPS

-----------------------------------------------------------------------------
(* Types *)

\* aggregateTargetHealth answers with one of the five healths, never with
\* not_applicable.
LEMMA RollupType == ASSUME NEW f PROVE Rollup(f) \in Healths
  BY DEF Rollup, Healths

\* No results at all are results.
LEMMA NoResultsType == NoResults \in Results /\ NoResult \in [health : States, at : Nat]
  BY DEF NoResults, NoResult, Result, Results, States

\* A row that is settled has the type of rows.
LEMMA SettledType ==
    ASSUME NEW i \in Nat, NEW h \in Healths \cup {"none"}, NEW f \in Nat
    PROVE  Settled(i, h, f) \in Rows
  BY NoResultsType DEF Settled, Row, Rows

\* A settled row has no candidate.
LEMMA SettledFields ==
    ASSUME NEW i, NEW h, NEW f
    PROVE  /\ Settled(i, h, f).inc = i
           /\ Settled(i, h, f).stable = h
           /\ Settled(i, h, f).cand = h
           /\ Settled(i, h, f).failure = f
  BY DEF Settled, Row

\* Only the absent row is settled at "none".
LEMMA NoRowType == NoRow \in Rows /\ NoRow.inc = 0 /\ NoRow.stable = "none"
  <1>1. NoRow \in Rows
    BY SettledType DEF NoRow
  <1> QED
    BY <1>1, SettledFields DEF NoRow

\* What one more sample makes of the row.
LEMMA CandidateFields ==
    ASSUME TypeOK, NEW h \in Healths, NEW t \in Nat
    PROVE  /\ Candidate(h, t) \in Rows
           /\ Candidate(h, t).inc = service
           /\ Candidate(h, t).stable = row.stable
           /\ Candidate(h, t).cand = h
           /\ Candidate(h, t).obs = status
           /\ Candidate(h, t).failure = IF row.failure = 0 /\ h # "healthy" THEN t ELSE row.failure
           /\ row.cand # h => Candidate(h, t).samples = 1
           /\ row.cand = h => Candidate(h, t).samples = IF row.obs # status THEN row.samples + 1
                                                                            ELSE row.samples
           /\ Candidate(h, t).started = IF row.cand = h THEN row.started ELSE t
  <1> DEFINE failure == IF row.failure = 0 /\ h # "healthy" THEN t ELSE row.failure
             n       == IF row.obs # status THEN row.samples + 1 ELSE row.samples
             more    == Row(service, row.stable, h, n, row.started, status, failure)
             first   == Row(service, row.stable, h, 1, t, status, failure)
  <1>1. failure \in Nat /\ n \in Nat /\ row.started \in Nat /\ row.stable \in Healths \cup {"none"}
    BY DEF TypeOK, Rows
  <1>2. service \in Nat /\ status \in Results
    BY DEF TypeOK
  <1>3. Candidate(h, t) = IF row.cand = h THEN more ELSE first
    BY DEF Candidate
  <1> HIDE DEF failure, n
  <1>4. more \in Rows /\ first \in Rows
    BY <1>1, <1>2 DEF Rows, Row
  <1>5. /\ more.inc = service /\ more.stable = row.stable /\ more.cand = h
        /\ more.obs = status /\ more.failure = failure /\ more.samples = n
        /\ more.started = row.started
    BY DEF Row
  <1>6. /\ first.inc = service /\ first.stable = row.stable /\ first.cand = h
        /\ first.obs = status /\ first.failure = failure /\ first.samples = 1
        /\ first.started = t
    BY DEF Row
  <1> HIDE DEF more, first
  <1> QED
    BY <1>3, <1>4, <1>5, <1>6 DEF failure, n

\* The part of the types that observations touch.
LEMMA ObservedType ==
    ASSUME TypeOK, NEW w \in Writers, NEW r \in Rows, Observed(w, r),
           r.stable # "none", r.cand # "none",
           outbox' \subseteq Events, reported' \in [Incarnations -> Healths \cup {"none"}]
    PROVE  TypeOK'
  <1> USE DEF TypeOK, Observed
  <1>1. row' \in Rows /\ (row' # NoRow => row'.stable # "none" /\ row'.cand # "none")
    OBVIOUS
  <1>2. job' \in [Writers -> Jobs]
    <2>1. NoJob \in Jobs
      BY DEF NoJob, Job, Jobs, States, Healths
    <2> QED
      BY <2>1
  <1>3. streak' \in [health : Healths \cup {"none"}, since : Nat]
    BY RollupType DEF Streak
  <1>4. UNCHANGED <<now, service, lastService, status, ignored, commits>>
    OBVIOUS
  <1> QED
    BY <1>1, <1>2, <1>3, <1>4

\* Writing results keeps the types.
LEMMA WriteType ==
    ASSUME TypeOK, NEW w \in Writers, NEW f \in Results, NEW t \in Nat, Write(w, f, t),
           ignored' \subseteq Targets
    PROVE  TypeOK'
  <1> USE DEF TypeOK, Write
  <1>1. job' \in [Writers -> Jobs]
    <2>1. Observing(t) \in Jobs
      BY DEF Observing, Job, Jobs, States
    <2> QED
      BY <2>1
  <1>2. status' \in Results /\ commits' \in Nat
    OBVIOUS
  <1>3. UNCHANGED <<now, service, lastService, row, outbox, streak, reported>>
    OBVIOUS
  <1> QED
    BY <1>1, <1>2, <1>3

\* Job and event records have their types.
LEMMA JobTypes ==
    /\ NoJob \in Jobs
    /\ \A t \in Targets, h \in Reported, n \in Nat : Job("checked", t, h, n) \in Jobs
  BY HealthAssumption DEF NoJob, Job, Jobs, States

\* An edge between two healths is an event.
LEMMA EventType ==
    ASSUME NEW a \in Healths, NEW b \in Healths, NEW n \in Nat, NEW o \in BOOLEAN
    PROVE  Event(a, b, n, o) \in Events
  BY DEF Event, Events

\* The occurrence of an edge is a time.
LEMMA OccurrenceType ==
    ASSUME NEW r \in Rows, NEW t \in Nat
    PROVE  Occurrence(r, t) \in Nat
  BY DEF Occurrence, Rows

\* The four branches of produceHealthAlert keep the types.
LEMMA ObserveTypeOK ==
    ASSUME TypeOK, service \in Incarnations, NEW w \in Writers, Observe(w)
    PROVE  TypeOK'
  <1> DEFINE h == Rollup(status)
             t == job[w].at
  <1>1. h \in Healths /\ h # "none"
    BY RollupType DEF Healths
  <1>2. t \in Nat
    BY DEF TypeOK, Jobs
  <1>3. /\ service \in Nat /\ row \in Rows /\ row.failure \in Nat
        /\ outbox \subseteq Events
        /\ reported \in [Incarnations -> Healths \cup {"none"}]
        /\ row # NoRow => row.stable \in Healths /\ row.stable # "none"
    BY DEF TypeOK, Rows
  <1>4. [reported EXCEPT ![service] = h] \in [Incarnations -> Healths \cup {"none"}]
    BY <1>1, <1>3
  <1> HIDE DEF h, t
  <1>5. CASE ObserveFirst(w)
    <2> DEFINE r == Settled(service, h, IF h = "healthy" THEN 0 ELSE t)
    <2>1. r \in Rows /\ r.stable = h /\ r.cand = h
      BY SettledType, SettledFields, <1>1, <1>2, <1>3
    <2>2. Observed(w, r) /\ outbox' = outbox /\ reported' = [reported EXCEPT ![service] = h]
      BY <1>5 DEF ObserveFirst, h, t
    <2> HIDE DEF r
    <2> QED
      BY <2>1, <2>2, <1>1, <1>3, <1>4, ObservedType
  <1>6. CASE ObserveStable(w)
    <2> DEFINE r == Settled(service, row.stable, IF row.stable = "healthy" THEN 0 ELSE row.failure)
    <2>1. row.stable = h /\ Observed(w, r) /\ outbox' = outbox /\ reported' = reported
      BY <1>6 DEF ObserveStable, h
    <2>2. r \in Rows /\ r.stable = h /\ r.cand = h
      BY <2>1, SettledType, SettledFields, <1>1, <1>3
    <2> HIDE DEF r
    <2> QED
      BY <2>1, <2>2, <1>1, <1>3, ObservedType
  <1>7. CASE ObserveCandidate(w)
    <2>1. Observed(w, Candidate(h, t)) /\ outbox' = outbox /\ reported' = reported /\ row # NoRow
      BY <1>7 DEF ObserveCandidate, Known, h, t
    <2>2. Candidate(h, t) \in Rows /\ Candidate(h, t).stable = row.stable /\ Candidate(h, t).cand = h
      BY CandidateFields, <1>1, <1>2
    <2> QED
      BY <2>1, <2>2, <1>1, <1>3, ObservedType
  <1>8. CASE ObserveEdge(w)
    <2> DEFINE c   == Candidate(h, t)
               r   == Settled(service, h, IF h = "healthy" THEN 0 ELSE c.failure)
               occ == Occurrence(c, t)
    <2>1. /\ row # NoRow
          /\ Observed(w, r)
          /\ outbox' = outbox \cup {Event(row.stable, h, occ, TRUE)} \/ outbox' = outbox
          /\ reported' = [reported EXCEPT ![service] = h]
      BY <1>8 DEF ObserveEdge, Known, h, t
    <2>2. c \in Rows /\ c.failure \in Nat
      BY CandidateFields, <1>1, <1>2, <1>3
    <2>3. occ \in Nat
      BY <2>2, <1>2, OccurrenceType
    <2> HIDE DEF c
    <2>4. r \in Rows /\ r.stable = h /\ r.cand = h
      BY <2>2, SettledType, SettledFields, <1>1, <1>3
    <2>5. Event(row.stable, h, occ, TRUE) \in Events
      BY <2>1, <2>3, <1>1, <1>3, EventType
    <2> HIDE DEF r, occ
    <2> QED
      BY <2>1, <2>4, <2>5, <1>1, <1>3, <1>4, ObservedType
  <1> QED
    BY <1>5, <1>6, <1>7, <1>8 DEF Observe

\* The transactions that write results, and then observe.
Writes(w) ==
    \/ \E t \in Targets : Ignore(w, t) \/ Unignore(w, t)
    \/ \E gone \in SUBSET Targets : PruneTargets(w, gone)
    \/ Commit(w)

\* Each of them writes results of the right type.
LEMMA WritesType ==
    ASSUME TypeOK, NEW w \in Writers, Writes(w)
    PROVE  \E f \in Results : \E t \in {now, job[w].at} :
              Write(w, f, t) /\ ignored' \subseteq Targets /\ (t = job[w].at => t = now \/ job[w].phase = "checked")
  <1> USE NoResultsType DEF TypeOK
  <1>1. \A h \in States, n \in Nat : Result(h, n) \in [health : States, at : Nat]
    BY DEF Result
  <1>2. CASE \E t \in Targets : Ignore(w, t)
    <2>1. PICK t \in Targets : Ignore(w, t)
      BY <1>2
    <2> DEFINE f == [u \in Targets |-> IF u = t THEN Result("not_applicable", now)
                                      ELSE IF t = Parent /\ u \in Children THEN NoResult
                                      ELSE status[u]]
    <2>2. f \in Results
      <3>1. Result("not_applicable", now) \in [health : States, at : Nat]
        BY <1>1 DEF States
      <3> QED
        BY <3>1 DEF Results
    <2>3. Write(w, f, now) /\ ignored' \subseteq Targets
      BY <2>1 DEF Ignore
    <2> HIDE DEF f
    <2> QED
      BY <2>2, <2>3, <2>1 DEF Ignore
  <1>3. CASE \E t \in Targets : Unignore(w, t)
    <2>1. PICK t \in Targets : Unignore(w, t)
      BY <1>3
    <2> DEFINE f == IF status[t].health = "not_applicable"
                    THEN [status EXCEPT ![t] = Result("unknown", now)] ELSE status
    <2>2. f \in Results
      <3>1. Result("unknown", now) \in [health : States, at : Nat]
        BY <1>1 DEF States, Healths
      <3> QED
        BY <3>1 DEF Results
    <2>3. Write(w, f, now) /\ ignored' \subseteq Targets
      BY <2>1 DEF Unignore
    <2> HIDE DEF f
    <2> QED
      BY <2>2, <2>3, <2>1 DEF Unignore
  <1>4. CASE \E gone \in SUBSET Targets : PruneTargets(w, gone)
    <2>1. PICK gone \in SUBSET Targets : PruneTargets(w, gone)
      BY <1>4
    <2> DEFINE f == [t \in Targets |-> IF t \in gone THEN NoResult ELSE status[t]]
    <2>2. f \in Results
      BY DEF Results
    <2>3. Write(w, f, now) /\ ignored' \subseteq Targets
      BY <2>1 DEF PruneTargets
    <2> HIDE DEF f
    <2> QED
      BY <2>2, <2>3, <2>1 DEF PruneTargets
  <1>5. CASE Commit(w)
    <2> DEFINE t == job[w].target
               f == [status EXCEPT ![t] = Result(IF t \in ignored THEN "not_applicable"
                                                 ELSE job[w].health, job[w].at)]
    <2>1. PICK at \in {job[w].at, now} : Write(w, f, at)
      BY <1>5 DEF Commit
    <2>2. f \in Results
      <3>1. job[w].health \in States /\ "not_applicable" \in States /\ job[w].at \in Nat
        BY DEF Jobs, States
      <3>2. Result(IF t \in ignored THEN "not_applicable" ELSE job[w].health, job[w].at)
               \in [health : States, at : Nat]
        BY <1>1, <3>1
      <3> QED
        BY <3>2 DEF Results
    <2>3. ignored' \subseteq Targets /\ job[w].phase = "checked"
      BY <1>5 DEF Commit
    <2> HIDE DEF f
    <2> QED
      BY <2>1, <2>2, <2>3
  <1> QED
    BY <1>2, <1>3, <1>4, <1>5 DEF Writes

\* A result in hand, one dropped, an observation lost.
Jobless(w) ==
    \/ \E t \in Targets, health \in Reported : Check(w, t, health)
    \/ Drop(w)
    \/ Lose(w)

\* The steps outside of the writers.
World ==
    \/ \E prune \in BOOLEAN : Remove(prune)
    \/ Add
    \/ Forget
    \/ \E e \in outbox : Close(e)
    \/ Tick

\* Every step is of one of four sorts.
LEMMA StepSorts ==
    ASSUME Next
    PROVE  (\E w \in Writers : Writes(w) \/ Jobless(w) \/ Observe(w)) \/ World
  BY DEF Next, Writes, Jobless, World

\* Only a job changes.
LEMMA JoblessStep ==
    ASSUME TypeOK, NEW w \in Writers, Jobless(w)
    PROVE  /\ UNCHANGED <<now, service, lastService, status, ignored, row, outbox, commits, streak, reported>>
           /\ \E j \in Jobs : job' = [job EXCEPT ![w] = j] /\ (j.phase # "idle" => j.at = now)
  <1>1. NoJob.phase = "idle" /\ NoJob \in Jobs
    BY JobTypes DEF NoJob, Job
  <1>2. CASE Drop(w) \/ Lose(w)
    BY <1>1, <1>2 DEF Drop, Lose
  <1>3. ASSUME NEW t \in Targets, NEW health \in Reported, Check(w, t, health)
        PROVE  /\ UNCHANGED <<now, service, lastService, status, ignored, row, outbox, commits, streak, reported>>
               /\ \E j \in Jobs : job' = [job EXCEPT ![w] = j] /\ (j.phase # "idle" => j.at = now)
    <2>1. Job("checked", t, health, now) \in Jobs /\ Job("checked", t, health, now).at = now
      BY JobTypes DEF TypeOK, Job
    <2> QED
      BY <1>3, <2>1 DEF Check
  <1> QED
    BY <1>2, <1>3 DEF Jobless

\* A step outside of the writers keeps the types.
LEMMA WorldTypeOK == TypeOK /\ World => TypeOK'
  <1> SUFFICES ASSUME TypeOK, World PROVE TypeOK'
    OBVIOUS
  <1> USE DEF TypeOK
  <1>1. ASSUME NEW prune \in BOOLEAN, Remove(prune) PROVE TypeOK'
    BY <1>1, NoResultsType DEF Remove
  <1>2. CASE Add
    BY <1>2 DEF Add
  <1>3. CASE Forget
    BY <1>3, NoRowType DEF Forget
  <1>4. ASSUME NEW e \in outbox, Close(e) PROVE TypeOK'
    <2>1. e \in Events
      OBVIOUS
    <2>2. Event(e.old, e.new, e.occ, FALSE) \in Events
      BY <2>1, EventType DEF Events
    <2> QED
      BY <1>4, <2>2 DEF Close
  <1>5. CASE Tick
    BY <1>5 DEF Tick
  <1> QED
    BY <1>1, <1>2, <1>3, <1>4, <1>5 DEF World

\* One step of any writer, of the inventory or of the clock keeps the types.
LEMMA StepTypeOK == TypeOK /\ service \in Incarnations /\ [Next]_vars => TypeOK'
  <1> SUFFICES ASSUME TypeOK, service \in Incarnations, [Next]_vars PROVE TypeOK'
    OBVIOUS
  <1>1. ASSUME NEW w \in Writers, Writes(w) PROVE TypeOK'
    <2>1. PICK f \in Results : \E t \in {now, job[w].at} : Write(w, f, t) /\ ignored' \subseteq Targets
      BY <1>1, WritesType
    <2>2. now \in Nat /\ job[w].at \in Nat
      BY DEF TypeOK, Jobs
    <2> QED
      BY <2>1, <2>2, WriteType
  <1>2. ASSUME NEW w \in Writers, Jobless(w) PROVE TypeOK'
    BY <1>2, JoblessStep DEF TypeOK
  <1>3. ASSUME NEW w \in Writers, Observe(w) PROVE TypeOK'
    BY <1>3, ObserveTypeOK
  <1>4. CASE World
    BY <1>4, WorldTypeOK
  <1>5. CASE UNCHANGED vars
    BY <1>5 DEF vars, TypeOK
  <1> QED
    BY <1>1, <1>2, <1>3, <1>4, <1>5, StepSorts

-----------------------------------------------------------------------------
(* The invariant *)

\* What the invariant says of a state row.
Inv == TimesInv /\ CandidateInv /\ FailureStartKnown /\ KnownInv

\* In the beginning there is no row.
LEMMA InitInv == Init => HealthInv
  <1> SUFFICES ASSUME Init PROVE HealthInv
    OBVIOUS
  <1> USE DEF Init
  <1>1. TypeOK
    BY NoResultsType, NoRowType, JobTypes DEF TypeOK, Streak, Incarnations
  <1>2. TimesInv
    BY DEF TimesInv, NoJob, Job
  <1>3. CandidateInv /\ FailureStartKnown
    BY DEF CandidateInv, FailureStartKnown
  <1>4. KnownInv
    BY NoRowType, BoundAssumption DEF KnownInv, Incarnations
  <1> QED
    BY <1>1, <1>2, <1>3, <1>4 DEF HealthInv

\* A transaction that writes results leaves room for one more sample.
LEMMA WritesInv == ASSUME HealthInv, NEW w \in Writers, Writes(w) PROVE Inv'
  <1> USE DEF HealthInv
  <1>1. PICK f \in Results : \E t \in {now, job[w].at} :
            Write(w, f, t) /\ ignored' \subseteq Targets /\ (t = job[w].at => t = now \/ job[w].phase = "checked")
    BY WritesType
  <1>2. PICK t \in {now, job[w].at} :
            Write(w, f, t) /\ (t = job[w].at => t = now \/ job[w].phase = "checked")
    BY <1>1
  <1>3. UNCHANGED <<now, service, row, streak, reported>> /\ commits' = commits + 1
    BY <1>2 DEF Write
  <1>4. TimesInv'
    <2>1. t # 0
      BY <1>2 DEF TimesInv
    <2>2. job' = [job EXCEPT ![w] = Observing(t)] /\ Observing(t).at = t
      BY <1>2 DEF Write, Observing, Job
    <2> QED
      BY <1>3, <2>1, <2>2 DEF TimesInv, TypeOK
  <1>5. CandidateInv'
    <2>1. row.samples \in Nat /\ streak.since \in Nat /\ commits \in Nat
      BY DEF TypeOK, Rows
    <2> QED
      BY <1>3, <2>1 DEF CandidateInv
  <1>6. FailureStartKnown' /\ KnownInv'
    BY <1>3 DEF FailureStartKnown, KnownInv
  <1> QED
    BY <1>4, <1>5, <1>6 DEF Inv

\* A step outside of the writers forgets the row, or leaves it alone.
LEMMA WorldInv == ASSUME HealthInv, World PROVE Inv'
  <1> USE DEF HealthInv
  <1>1. /\ UNCHANGED <<job, streak, reported>>
        /\ now' \in {now, now + 1}
        /\ row' = row \/ row' = NoRow
        /\ (status' = status /\ commits' = commits) \/ commits' = commits + 1
    BY DEF World, Remove, Add, Forget, Close, Tick
  <1>2. /\ row.samples \in Nat /\ streak.since \in Nat /\ commits \in Nat
        /\ now \in Nat /\ lastService \in Nat
    BY DEF TypeOK, Rows
  <1>3. TimesInv'
    BY <1>1, <1>2 DEF TimesInv
  <1>4. CandidateInv'
    BY <1>1, <1>2 DEF CandidateInv
  <1>5. FailureStartKnown'
    BY <1>1 DEF FailureStartKnown
  <1>6. service' \in Incarnations
    <2>1. 0 \in Incarnations /\ (lastService < MaxIncarnations => lastService + 1 \in Incarnations)
      BY <1>2, BoundAssumption DEF Incarnations
    <2>2. service' = service \/ service' = 0 \/ (lastService < MaxIncarnations /\ service' = lastService + 1)
      BY DEF World, Remove, Add, Forget, Close, Tick
    <2> QED
      BY <2>1, <2>2 DEF KnownInv
  <1>7. row'.inc \in Incarnations
    BY <1>1, NoRowType, BoundAssumption DEF KnownInv, Incarnations
  <1>8. KnownInv'
    BY <1>1, <1>6, <1>7 DEF KnownInv
  <1> QED
    BY <1>3, <1>4, <1>5, <1>8 DEF Inv

\* A check, a dropped result or a lost observation leaves the row alone.
LEMMA JoblessInv == ASSUME HealthInv, NEW w \in Writers, Jobless(w) PROVE Inv'
  <1> USE DEF HealthInv
  <1>1. /\ UNCHANGED <<now, service, status, row, commits, streak, reported>>
        /\ \E j \in Jobs : job' = [job EXCEPT ![w] = j] /\ (j.phase # "idle" => j.at = now)
    BY JoblessStep
  <1>2. TimesInv'
    BY <1>1 DEF TimesInv, TypeOK
  <1> QED
    BY <1>1, <1>2 DEF Inv, CandidateInv, FailureStartKnown, KnownInv

\* An observation that settles the row at health h.
LEMMA SettlesInv ==
    ASSUME HealthInv, NEW w \in Writers, NEW failure \in Nat,
           Observed(w, Settled(service, Rollup(status), failure)),
           (Rollup(status) = "healthy") <=> (failure = 0),
           reported' = [reported EXCEPT ![service] = Rollup(status)]
    PROVE  Inv'
  <1> DEFINE h == Rollup(status)
             r == Settled(service, h, failure)
  <1>1. r.inc = service /\ r.stable = h /\ r.cand = h /\ r.failure = failure
    BY DEF Settled, Row
  <1>2. /\ Observed(w, r)
        /\ reported' = [reported EXCEPT ![service] = h]
        /\ (h = "healthy") <=> (failure = 0)
    OBVIOUS
  <1>3. streak' = Streak(h, 0)
    BY <1>1, <1>2 DEF Observed
  <1>4. /\ row' = r
        /\ job' = [job EXCEPT ![w] = NoJob]
        /\ UNCHANGED <<now, service, status, commits>>
    BY <1>2 DEF Observed
  <1> HIDE DEF h, r
  <1> USE DEF HealthInv
  <1>5. TimesInv'
    BY <1>4 DEF TimesInv, TypeOK, NoJob, Job
  <1>6. CandidateInv'
    BY <1>1, <1>3, <1>4 DEF CandidateInv, Streak
  <1>7. FailureStartKnown'
    BY <1>1, <1>2, <1>4 DEF FailureStartKnown
  <1>8. KnownInv'
    BY <1>1, <1>2, <1>4 DEF KnownInv, TypeOK
  <1> QED
    BY <1>5, <1>6, <1>7, <1>8 DEF Inv

\* An observation that counts a sample of a candidate.
LEMMA CountsInv ==
    ASSUME HealthInv, NEW w \in Writers, ObserveCandidate(w)
    PROVE  Inv'
  <1> DEFINE h == Rollup(status)
             t == job[w].at
             r == Candidate(h, t)
  <1> USE DEF HealthInv
  <1>1. h \in Healths
    BY RollupType
  <1>2. t \in Nat /\ t # 0
    BY DEF ObserveCandidate, Observed, TypeOK, Jobs, TimesInv
  <1>3. Known /\ row # NoRow /\ row.inc = service /\ row.stable # h /\ Observed(w, r) /\ reported' = reported
    BY DEF ObserveCandidate, Known
  <1>4. /\ r.inc = service /\ r.stable = row.stable /\ r.cand = h /\ r.obs = status
        /\ r.failure = IF row.failure = 0 /\ h # "healthy" THEN t ELSE row.failure
        /\ row.cand # h => r.samples = 1
        /\ row.cand = h => r.samples = IF row.obs # status THEN row.samples + 1 ELSE row.samples
    BY <1>1, <1>2, CandidateFields
  <1>5. streak' = IF streak.health = h THEN streak ELSE Streak(h, commits)
    BY <1>3, <1>4 DEF Observed
  <1>6. row' = r /\ UNCHANGED <<now, service, status, commits>> /\ job' = [job EXCEPT ![w] = NoJob]
    BY <1>3 DEF Observed
  <1>7. row.samples \in Nat /\ streak.since \in Nat /\ commits \in Nat /\ row.failure \in Nat
    BY DEF TypeOK, Rows
  <1> HIDE DEF h, t, r
  <1>8. TimesInv'
    BY <1>6 DEF TimesInv, TypeOK, NoJob, Job
  <1>9. CandidateInv'
    <2>1. CASE row.cand = h
      <3>1. streak' = streak /\ row.cand # row.stable
        BY <1>3, <1>5, <2>1 DEF CandidateInv
      <3>2. r.samples + streak.since <= 1 + commits
        BY <1>3, <1>4, <1>7, <2>1, <3>1 DEF CandidateInv
      <3> QED
        BY <1>3, <1>4, <1>6, <2>1, <3>1, <3>2 DEF CandidateInv
    <2>2. CASE row.cand # h
      <3>1. streak' = Streak(h, commits) /\ r.samples = 1
        BY <1>3, <1>4, <1>5, <2>2 DEF CandidateInv
      <3>2. streak'.health = h /\ streak'.since = commits
        BY <3>1 DEF Streak
      <3> QED
        BY <1>4, <1>6, <1>7, <3>1, <3>2 DEF CandidateInv
    <2> QED
      BY <2>1, <2>2
  <1>10. FailureStartKnown'
    BY <1>2, <1>3, <1>4, <1>6 DEF FailureStartKnown
  <1>11. KnownInv'
    BY <1>3, <1>4, <1>6 DEF KnownInv
  <1> QED
    BY <1>8, <1>9, <1>10, <1>11 DEF Inv

\* The four branches of produceHealthAlert keep the invariant.
LEMMA ObserveInv == ASSUME HealthInv, NEW w \in Writers, Observe(w) PROVE Inv'
  <1> DEFINE h == Rollup(status)
             t == job[w].at
  <1>1. h \in Healths
    BY RollupType
  <1>2. t \in Nat /\ t # 0
    BY DEF HealthInv, Observe, ObserveFirst, ObserveStable, ObserveCandidate, ObserveEdge,
           Observed, TypeOK, Jobs, TimesInv
  <1>3. row.failure \in Nat /\ reported \in [Incarnations -> Healths \cup {"none"}]
        /\ service \in Incarnations
    BY DEF HealthInv, TypeOK, Rows, KnownInv
  <1>4. CASE ObserveFirst(w)
    <2> DEFINE failure == IF h = "healthy" THEN 0 ELSE t
    <2>1. failure \in Nat /\ ((h = "healthy") <=> (failure = 0))
      BY <1>2
    <2>2. Observed(w, Settled(service, h, failure)) /\ reported' = [reported EXCEPT ![service] = h]
      BY <1>4 DEF ObserveFirst
    <2> HIDE DEF failure
    <2> QED
      BY <2>1, <2>2, SettlesInv
  <1>5. CASE ObserveStable(w)
    <2> DEFINE failure == IF row.stable = "healthy" THEN 0 ELSE row.failure
    <2>1. Known /\ row # NoRow /\ row.inc = service /\ row.stable = h /\ reported' = reported
      BY <1>5 DEF ObserveStable, Known
    <2>2. failure \in Nat /\ ((h = "healthy") <=> (failure = 0))
      BY <1>3, <2>1 DEF HealthInv, FailureStartKnown
    <2>3. Observed(w, Settled(service, h, failure))
      BY <1>5, <2>1 DEF ObserveStable
    <2>4. reported[service] = h
      BY <2>1 DEF HealthInv, KnownInv
    <2>5. reported' = [reported EXCEPT ![service] = h]
      BY <1>3, <2>1, <2>4
    <2> HIDE DEF failure
    <2> QED
      BY <2>2, <2>3, <2>5, SettlesInv
  <1>6. CASE ObserveCandidate(w)
    BY <1>6, CountsInv
  <1>7. CASE ObserveEdge(w)
    <2> DEFINE c       == Candidate(h, t)
               failure == IF h = "healthy" THEN 0 ELSE c.failure
    <2>1. Observed(w, Settled(service, h, failure)) /\ reported' = [reported EXCEPT ![service] = h]
      BY <1>7 DEF ObserveEdge
    <2>2. c.failure = IF row.failure = 0 /\ h # "healthy" THEN t ELSE row.failure
      BY <1>1, <1>2, CandidateFields DEF HealthInv
    <2> HIDE DEF c
    <2>3. failure \in Nat /\ ((h = "healthy") <=> (failure = 0))
      BY <1>2, <1>3, <2>2
    <2> HIDE DEF failure
    <2> QED
      BY <2>1, <2>3, SettlesInv
  <1> QED
    BY <1>4, <1>5, <1>6, <1>7 DEF Observe

\* Every step keeps the invariant.
LEMMA StepInv == HealthInv /\ [Next]_vars => HealthInv'
  <1> SUFFICES ASSUME HealthInv, [Next]_vars PROVE HealthInv'
    OBVIOUS
  <1>1. TypeOK'
    BY StepTypeOK DEF HealthInv, KnownInv
  <1>2. ASSUME NEW w \in Writers, Writes(w) PROVE Inv'
    BY <1>2, WritesInv
  <1>3. ASSUME NEW w \in Writers, Jobless(w) PROVE Inv'
    BY <1>3, JoblessInv
  <1>4. ASSUME NEW w \in Writers, Observe(w) PROVE Inv'
    BY <1>4, ObserveInv
  <1>5. ASSUME World PROVE Inv'
    BY <1>5, WorldInv
  <1>6. ASSUME UNCHANGED vars PROVE Inv'
    BY <1>6 DEF vars, HealthInv, Inv, TimesInv, CandidateInv, FailureStartKnown, KnownInv
  <1>7. Inv'
    BY <1>2, <1>3, <1>4, <1>5, <1>6, StepSorts
  <1> QED
    BY <1>1, <1>7 DEF HealthInv, Inv

\* The invariant holds of every writer interleaving of produceHealthAlert with
\* commits, scans and prunes.
THEOREM HealthInvariant == Spec => []HealthInv
  BY InitInv, StepInv, PTL DEF Spec

-----------------------------------------------------------------------------
(* The properties *)

\* Results, rows, events and jobs keep their types: a state row always has a stable
\* health and a candidate, and neither is ever not_applicable.
THEOREM TypeCorrect == Spec => []TypeOK
  <1>1. HealthInv => TypeOK
    BY DEF HealthInv
  <1> QED
    BY <1>1, HealthInvariant, PTL

\* The start of a failure (first_failure_at) is known while the failure lasts and is
\* gone once it is over, whatever branch of produceHealthAlert wrote the row.
THEOREM StartOfFailureKnown == Spec => []FailureStartKnown
  <1>1. HealthInv => FailureStartKnown
    BY DEF HealthInv
  <1> QED
    BY <1>1, HealthInvariant, PTL

\* Every sample of a candidate stands for a transaction of its own since the run of
\* observations of that health began (candidate_samples, last_observation_id).
THEOREM SamplesOfNews == Spec => []SamplesAreNews
  <1>1. HealthInv => SamplesAreNews
    <2> SUFFICES ASSUME HealthInv PROVE SamplesAreNews
      OBVIOUS
    <2>1. row.samples \in Nat /\ streak.since \in Nat /\ commits \in Nat
      BY DEF HealthInv, TypeOK, Rows
    <2> QED
      BY <2>1 DEF HealthInv, CandidateInv, SamplesAreNews
  <1> QED
    BY <1>1, HealthInvariant, PTL

\* An open event that is new comes from ObserveEdge, which takes its old health from
\* the row it has just found to belong to this incarnation.
LEMMA StepLinksUp ==
    ASSUME HealthInv, [Next]_vars, NEW e \in outbox' \ outbox, e.open
    PROVE  e.old = reported[service]
  <1>1. ASSUME NEW w \in Writers, Writes(w) PROVE FALSE
    BY <1>1, WritesType DEF HealthInv, Write
  <1>2. ASSUME NEW w \in Writers, Jobless(w) PROVE FALSE
    BY <1>2, JoblessStep DEF HealthInv
  <1>3. CASE World
    <2>1. ASSUME NEW d \in outbox, Close(d) PROVE FALSE
      <3>1. e = Event(d.old, d.new, d.occ, FALSE)
        BY <2>1 DEF Close
      <3> QED
        BY <3>1 DEF Event
    <2> QED
      BY <1>3, <2>1 DEF World, Remove, Add, Forget, Tick
  <1>4. ASSUME NEW w \in Writers, Observe(w) PROVE e.old = reported[service]
    <2>1. CASE ObserveEdge(w)
      <3>1. Known /\ row # NoRow /\ row.inc = service
        BY <2>1 DEF ObserveEdge, Known
      <3>2. \E b, n : e = Event(row.stable, b, n, TRUE)
        BY <2>1 DEF ObserveEdge
      <3>3. e.old = row.stable
        BY <3>2 DEF Event
      <3> QED
        BY <3>1, <3>3 DEF HealthInv, KnownInv
    <2> QED
      BY <1>4, <2>1 DEF Observe, ObserveFirst, ObserveStable, ObserveCandidate
  <1>5. CASE UNCHANGED vars
    BY <1>5 DEF vars
  <1> QED
    BY <1>1, <1>2, <1>3, <1>4, <1>5, StepSorts

\* The events of a service form a chain: produceHealthAlert enqueues each from the
\* health that the last one, or the silent first observation of this incarnation,
\* made known.
THEOREM EventsLinkUp == Spec => EdgesLinkUp
  <1>1. HealthInv /\ [Next]_vars => [\A e \in outbox' \ outbox : e.open => e.old = reported[service]]_vars
    BY StepLinksUp
  <1> QED
    BY <1>1, HealthInvariant, PTL DEF Spec, EdgesLinkUp

-----------------------------------------------------------------------------
(* Occurrences *)

\* Numbers the proofs below compare.
LEMMA ClockTypes ==
    ASSUME TypeOK
    PROVE  /\ now \in Nat /\ MaxLag \in Nat /\ Debounce \in Nat
           /\ row.failure \in Nat /\ row.started \in Nat
           /\ \A w \in Writers : job[w].at \in Nat
           /\ \A e \in outbox : e \in Events /\ e.occ \in Nat
  BY PolicyAssumption DEF TypeOK, Rows, Jobs, Events

\* No writer's time stamp gets older than MaxLag: a new one is now, a kept one was
\* in hand before, and Tick waits for it.
LEMMA StepLagInv == ASSUME HealthInv, LagInv, [Next]_vars PROVE LagInv'
  <1> TypeOK
    BY DEF HealthInv
  <1>1. ASSUME NEW w \in Writers, NEW j \in Jobs, job' = [job EXCEPT ![w] = j], now' = now,
               j.phase # "idle" => j.at <= now /\ now <= j.at + MaxLag
        PROVE  LagInv'
    BY <1>1 DEF LagInv, TypeOK
  <1>2. ASSUME NEW w \in Writers, Writes(w) PROVE LagInv'
    <2>1. PICK f \in Results, t \in {now, job[w].at} :
             Write(w, f, t) /\ (t = job[w].at => t = now \/ job[w].phase = "checked")
      BY <1>2, WritesType
    <2>2. t \in Nat /\ t <= now /\ now <= t + MaxLag
      BY <2>1, ClockTypes DEF LagInv
    <2>3. Observing(t) \in Jobs /\ Observing(t).at = t
      BY <2>2 DEF Observing, Job, Jobs, States
    <2> QED
      BY <1>1, <2>1, <2>2, <2>3 DEF Write
  <1>3. ASSUME NEW w \in Writers, Jobless(w) PROVE LagInv'
    <2>1. PICK j \in Jobs : job' = [job EXCEPT ![w] = j] /\ (j.phase # "idle" => j.at = now)
      BY <1>3, JoblessStep
    <2>2. now' = now
      BY <1>3, JoblessStep
    <2>3. now <= now + MaxLag
      BY ClockTypes
    <2>4. j.phase # "idle" => j.at <= now /\ now <= j.at + MaxLag
      BY <2>1, <2>3, ClockTypes
    <2> QED
      BY <1>1, <2>1, <2>2, <2>4
  <1>4. ASSUME NEW w \in Writers, Observe(w) PROVE LagInv'
    <2>1. job' = [job EXCEPT ![w] = NoJob] /\ now' = now
      BY <1>4 DEF Observe, ObserveFirst, ObserveStable, ObserveCandidate, ObserveEdge, Observed
    <2>2. NoJob \in Jobs /\ NoJob.phase = "idle"
      BY JobTypes DEF NoJob, Job
    <2> QED
      BY <1>1, <2>1, <2>2
  <1>5. CASE World
    <2>1. CASE Tick
      <3>1. now' = now + 1 /\ job' = job
        BY <2>1 DEF Tick
      <3> SUFFICES ASSUME NEW w \in Writers, job[w].phase # "idle"
                   PROVE  job[w].at <= now + 1 /\ now + 1 <= job[w].at + MaxLag
        BY <3>1 DEF LagInv
      <3>2. job[w] # NoJob
        BY DEF NoJob, Job
      <3>3. now < job[w].at + MaxLag
        BY <2>1, <3>2 DEF Tick
      <3> QED
        BY <3>3, ClockTypes DEF LagInv
    <2>2. CASE ~Tick
      BY <1>5, <2>2 DEF World, Remove, Add, Forget, Close, LagInv
    <2> QED
      BY <2>1, <2>2
  <1>6. CASE UNCHANGED vars
    BY <1>6 DEF vars, LagInv
  <1> QED
    BY <1>2, <1>3, <1>4, <1>5, <1>6, StepSorts

\* The occurrences of all events are behind any observation that is still to come.
LEMMA BehindObservations ==
    ASSUME HealthInv, LagInv, OccurrenceInv, 2 * MaxLag < Debounce,
           NEW w \in Writers, job[w].phase = "committed"
    PROVE  /\ \A e \in outbox : e.occ < job[w].at
           /\ job[w].at \in Nat /\ job[w].at # 0
           /\ job[w].at <= now /\ now <= job[w].at + MaxLag
  <1>1. TypeOK
    BY DEF HealthInv
  <1>2. job[w].at <= now /\ now <= job[w].at + MaxLag /\ job[w].at # 0
    BY DEF LagInv, HealthInv, TimesInv
  <1>3. \A e \in outbox : e.occ + Debounce <= now + MaxLag
    BY DEF OccurrenceInv
  <1> QED
    BY <1>1, <1>2, <1>3, ClockTypes

\* An observation that settles the row forgets the candidate, and keeps the
\* failure or starts one that no event can be taken for.
LEMMA SettlesOccurrence ==
    ASSUME HealthInv, LagInv, OccurrenceInv, 2 * MaxLag < Debounce,
           NEW w \in Writers, NEW h, NEW failure \in Nat,
           Observed(w, Settled(service, h, failure)),
           \/ failure = 0
           \/ failure = job[w].at
           \/ row # NoRow /\ failure = row.failure,
           outbox' \subseteq Events,
           \A e \in outbox' \ outbox : /\ e.occ + Debounce <= now + MaxLag
                                       /\ e.new = "healthy" => failure = 0
    PROVE  OccurrenceInv'
  <1> DEFINE r == Settled(service, h, failure)
  <1>0. TypeOK
    BY DEF HealthInv
  <1>1. /\ row' = r /\ now' = now
        /\ r.stable = h /\ r.cand = h /\ r.failure = failure
    BY SettledFields DEF Observed
  <1>2. /\ \A e \in outbox : e.occ < job[w].at
        /\ job[w].at \in Nat /\ job[w].at # 0 /\ job[w].at <= now
    BY BehindObservations DEF Observed
  <1> HIDE DEF r
  <1>3. \A e \in outbox' : e.occ + Debounce <= now + MaxLag
    BY DEF OccurrenceInv
  <1>4. failure <= now
    BY <1>0, <1>2, ClockTypes DEF OccurrenceInv
  <1>5. ASSUME failure # 0, NEW e \in outbox', e.new = "healthy" PROVE e.occ < failure
    <2>1. e \in outbox
      BY <1>5
    <2> QED
      BY <1>2, <1>5, <2>1 DEF OccurrenceInv
  <1> QED
    BY <1>1, <1>3, <1>4, <1>5 DEF OccurrenceInv

\* One observation keeps the occurrences apart.
LEMMA ObserveOccurrence ==
    ASSUME HealthInv, LagInv, OccurrenceInv, 2 * MaxLag < Debounce,
           NEW w \in Writers, Observe(w)
    PROVE  OccurrenceInv'
  <1> DEFINE h == Rollup(status)
             t == job[w].at
             c == Candidate(h, t)
  <1>0. TypeOK /\ outbox \subseteq Events /\ h \in Healths
    BY RollupType DEF HealthInv, TypeOK
  <1>1. /\ \A e \in outbox : e.occ < t
        /\ t \in Nat /\ t # 0 /\ t <= now /\ now <= t + MaxLag
    <2>1. job[w].phase = "committed"
      BY DEF Observe, ObserveFirst, ObserveStable, ObserveCandidate, ObserveEdge, Observed
    <2> QED
      BY <2>1, BehindObservations
  <1>2. /\ now \in Nat /\ MaxLag \in Nat /\ Debounce \in Nat
        /\ row.failure \in Nat /\ row.started \in Nat
        /\ \A e \in outbox : e.occ \in Nat
    BY <1>0, ClockTypes
  <1>3. /\ c.stable = row.stable /\ c.cand = h
        /\ c.failure = IF row.failure = 0 /\ h # "healthy" THEN t ELSE row.failure
        /\ c.started = IF row.cand = h THEN row.started ELSE t
    BY <1>0, <1>1, CandidateFields
  <1> HIDE DEF h, t
  <1>4. CASE ObserveFirst(w)
    <2> DEFINE failure == IF h = "healthy" THEN 0 ELSE t
    <2>1. failure \in Nat /\ (failure = 0 \/ failure = t)
      BY <1>1
    <2>2. Observed(w, Settled(service, h, failure)) /\ outbox' = outbox
      BY <1>4 DEF ObserveFirst, h, t
    <2> HIDE DEF failure
    <2> QED
      BY <1>0, <2>1, <2>2, SettlesOccurrence DEF t
  <1>5. CASE ObserveStable(w)
    <2> DEFINE failure == IF row.stable = "healthy" THEN 0 ELSE row.failure
    <2>1. failure \in Nat /\ (failure = 0 \/ failure = row.failure)
      BY <1>2
    <2>2. Observed(w, Settled(service, row.stable, failure)) /\ outbox' = outbox /\ row # NoRow
      BY <1>5 DEF ObserveStable, Known
    <2> HIDE DEF failure
    <2> QED
      BY <1>0, <2>1, <2>2, SettlesOccurrence
  <1>6. CASE ObserveCandidate(w)
    <2>1. row' = c /\ now' = now /\ outbox' = outbox /\ row # NoRow /\ row.stable # h
      BY <1>6 DEF ObserveCandidate, Observed, Known, h, t
    <2> HIDE DEF c
    <2>2. \A e \in outbox' : e.occ + Debounce <= now' + MaxLag
      BY <2>1 DEF OccurrenceInv
    <2>3. c.failure <= now' /\ (h = "healthy" => c.failure <= row.failure)
      BY <1>1, <1>2, <1>3, <2>1 DEF OccurrenceInv
    <2>4. c.failure # 0 => \A e \in outbox' : e.new = "healthy" => e.occ < c.failure
      BY <1>1, <1>3, <2>1 DEF OccurrenceInv
    <2>5. c.started # 0 /\ \A e \in outbox' : e.new # "healthy" => e.occ < c.started
      BY <1>1, <1>3, <2>1 DEF OccurrenceInv
    <2>6. h = "healthy" => c.failure <= c.started + MaxLag
      <3>1. CASE row.cand = h
        BY <1>3, <2>1, <3>1 DEF OccurrenceInv
      <3>2. CASE row.cand # h /\ h = "healthy"
        BY <1>1, <1>2, <1>3, <2>1, <3>2 DEF OccurrenceInv
      <3> QED
        BY <3>1, <3>2
    <2> QED
      BY <1>3, <2>1, <2>2, <2>3, <2>4, <2>5, <2>6 DEF OccurrenceInv
  <1>7. CASE ObserveEdge(w)
    <2> DEFINE failure == IF h = "healthy" THEN 0 ELSE c.failure
               occ     == Occurrence(c, t)
    <2>1. /\ row # NoRow /\ row.stable # h /\ Confirmed(c, t)
          /\ Observed(w, Settled(service, h, failure))
          /\ \A e \in outbox' \ outbox : e = Event(row.stable, h, occ, TRUE)
      BY <1>7 DEF ObserveEdge, Known, h, t
    <2>2. t >= c.started + Debounce
      BY <2>1 DEF Confirmed
    <2> HIDE DEF c
    <2>3. row.cand = h
      BY <1>1, <1>2, <1>3, <2>2, PolicyAssumption
    <2>4. c.started = row.started /\ c.started # 0
      BY <1>3, <2>1, <2>3 DEF OccurrenceInv
    <2>5. occ + Debounce <= now + MaxLag
      <3>1. CASE h = "healthy"
        <4>1. c.failure = row.failure /\ row.failure # 0
          BY <1>3, <2>1, <3>1 DEF HealthInv, FailureStartKnown
        <4>2. occ = row.failure /\ row.failure <= row.started + MaxLag
          BY <1>3, <2>1, <2>3, <3>1, <4>1 DEF Occurrence, OccurrenceInv
        <4> QED
          BY <1>1, <1>2, <2>2, <2>4, <4>2
      <3>2. CASE h # "healthy"
        <4>1. occ = row.started
          BY <1>3, <2>4, <3>2 DEF Occurrence
        <4> QED
          BY <1>1, <1>2, <2>2, <2>4, <4>1
      <3> QED
        BY <3>1, <3>2
    <2>6. failure \in Nat /\ (failure = 0 \/ failure = t \/ failure = row.failure)
      BY <1>1, <1>2, <1>3
    <2>7. \A e \in outbox' \ outbox : /\ e.occ + Debounce <= now + MaxLag
                                      /\ e.new = "healthy" => failure = 0
      BY <2>1, <2>5 DEF Event
    <2>8. outbox' \subseteq Events
      BY <1>7, ObserveTypeOK DEF Observe, HealthInv, KnownInv, TypeOK
    <2> HIDE DEF failure
    <2> QED
      BY <2>1, <2>6, <2>7, <2>8, SettlesOccurrence DEF t
  <1> QED
    BY <1>4, <1>5, <1>6, <1>7 DEF Observe

\* Every step keeps the occurrences apart.
LEMMA StepOccurrenceInv ==
    ASSUME HealthInv, LagInv, OccurrenceInv, 2 * MaxLag < Debounce, [Next]_vars
    PROVE  OccurrenceInv'
  <1>0. TypeOK
    BY DEF HealthInv
  <1>1. ASSUME UNCHANGED <<now, row, outbox>> PROVE OccurrenceInv'
    BY <1>1 DEF OccurrenceInv
  <1>2. ASSUME NEW w \in Writers, Writes(w) PROVE OccurrenceInv'
    BY <1>0, <1>1, <1>2, WritesType DEF Write
  <1>3. ASSUME NEW w \in Writers, Jobless(w) PROVE OccurrenceInv'
    BY <1>0, <1>1, <1>3, JoblessStep
  <1>4. ASSUME NEW w \in Writers, Observe(w) PROVE OccurrenceInv'
    BY <1>4, ObserveOccurrence
  <1>5. CASE World
    <2>1. ASSUME NEW prune \in BOOLEAN, Remove(prune) PROVE OccurrenceInv'
      BY <1>1, <2>1 DEF Remove
    <2>2. CASE Add
      BY <1>1, <2>2 DEF Add
    <2>3. CASE Forget
      BY <2>3 DEF Forget, OccurrenceInv
    <2>4. ASSUME NEW d \in outbox, Close(d) PROVE OccurrenceInv'
      <3>1. /\ now' = now /\ row' = row
            /\ \A e \in outbox' : \E f \in outbox : e.occ = f.occ /\ e.new = f.new
        BY <2>4 DEF Close, Event
      <3> QED
        BY <3>1 DEF OccurrenceInv
    <2>5. CASE Tick
      <3>1. now' = now + 1 /\ row' = row /\ outbox' = outbox
        BY <2>5 DEF Tick
      <3>2. \A e \in outbox : e.occ + Debounce <= now + 1 + MaxLag
        BY <1>0, ClockTypes DEF OccurrenceInv
      <3>3. row # NoRow => row.failure <= now + 1
        BY <1>0, ClockTypes DEF OccurrenceInv
      <3> QED
        BY <3>1, <3>2, <3>3 DEF OccurrenceInv
    <2> QED
      BY <1>5, <2>1, <2>2, <2>3, <2>4, <2>5 DEF World
  <1>6. CASE UNCHANGED vars
    BY <1>1, <1>6 DEF vars
  <1> QED
    BY <1>2, <1>3, <1>4, <1>5, <1>6, StepSorts

\* As long as twice the delay from a check to its observation stays below
\* alerting.debounce, the dedupe key of an edge about to be confirmed
\* (Occurrence: first_failure_at or the candidate's start) is one that no event
\* was ever enqueued with, through flapping, restarts of the service in the
\* inventory and concurrent writers.
THEOREM EdgesAreNew ==
    ASSUME 2 * MaxLag < Debounce
    PROVE  Spec => []EdgeIsNew
  <1>1. Init => LagInv /\ OccurrenceInv
    BY DEF Init, LagInv, OccurrenceInv, NoJob, Job
  <1>2. HealthInv /\ LagInv /\ OccurrenceInv /\ [Next]_vars => LagInv' /\ OccurrenceInv'
    BY StepLagInv, StepOccurrenceInv
  <1>3. HealthInv /\ OccurrenceInv => EdgeIsNew
    <2> SUFFICES ASSUME HealthInv, OccurrenceInv, row # NoRow, row.cand # row.stable,
                        NEW e \in outbox, e.new = row.cand
                 PROVE  e.occ # Occurrence(row, now)
      BY DEF EdgeIsNew, Known
    <2>1. row.started # 0 /\ (row.cand = "healthy" => row.failure # 0)
      BY DEF OccurrenceInv, HealthInv, FailureStartKnown
    <2>2. e.occ < Occurrence(row, now)
      BY <2>1 DEF OccurrenceInv, Occurrence
    <2>3. e.occ \in Nat
      BY ClockTypes DEF HealthInv
    <2> QED
      BY <2>2, <2>3
  <1> QED
    BY <1>1, <1>2, <1>3, HealthInvariant, PTL DEF Spec
=============================================================================
