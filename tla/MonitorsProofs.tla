--------------------------- MODULE MonitorsProofs ---------------------------
(***************************************************************************)
(* What holds of a runtime target and its checkers for any number of       *)
(* services, any interval and any number of changes, requests and faults;  *)
(* and what the verdicts of WorkloadHealth guarantee for every observation:*)
(* more ready replicas never make a workload look worse, and a service is  *)
(* as healthy as the worst of its containers.                              *)
(***************************************************************************)
EXTENDS Monitors, TLAPS

-----------------------------------------------------------------------------
(* The interval to the next attempt *)

\* The smaller of two integers.
LEMMA MinOfTwo ==
    ASSUME NEW m \in Int, NEW n \in Int
    PROVE  Min({m, n}) = IF m <= n THEN m ELSE n
  <1>1. CASE m <= n
    <2>1. \A k \in {m, n} : m <= k
      BY <1>1
    <2>2. \A x \in {m, n} : (\A y \in {m, n} : x <= y) => x = m
      BY <1>1
    <2> QED
      BY <1>1, <2>1, <2>2 DEF Min
  <1>2. CASE ~ (m <= n)
    <2>1. \A k \in {m, n} : n <= k
      BY <1>2
    <2>2. \A x \in {m, n} : (\A y \in {m, n} : x <= y) => x = n
      BY <1>2
    <2> QED
      BY <1>2, <2>1, <2>2 DEF Min
  <1> QED
    BY <1>1, <1>2

\* The powers of two that nextInterval multiplies by.
LEMMA Multipliers == /\ 2 ^ 1 = 2 /\ 2 ^ 2 = 4 /\ 2 ^ 3 = 8
  BY SMT

\* nextInterval, case by case.
LEMMA IntervalCases ==
    ASSUME NEW n \in Nat
    PROVE  /\ n < 2 => NextInterval(n) = Interval
           /\ n = 2 => NextInterval(n) = IF IntervalCap <= Interval * 2 THEN IntervalCap ELSE Interval * 2
           /\ n = 3 => NextInterval(n) = IF IntervalCap <= Interval * 4 THEN IntervalCap ELSE Interval * 4
           /\ n >= 4 => NextInterval(n) = IF IntervalCap <= Interval * 8 THEN IntervalCap ELSE Interval * 8
  <1>1. Interval \in Nat \ {0} /\ IntervalCap \in Nat \ {0}
    BY MonitorsAssumption
  <1>2. CASE n < 2
    BY <1>2 DEF NextInterval
  <1>3. CASE n = 2
    <2>1. Min({n - 1, 3}) = 1
      BY <1>3, MinOfTwo
    <2>2. NextInterval(n) = Min({IntervalCap, Interval * 2})
      BY <1>3, <2>1, Multipliers DEF NextInterval
    <2> QED
      BY <1>1, <1>3, <2>2, MinOfTwo
  <1>4. CASE n = 3
    <2>1. Min({n - 1, 3}) = 2
      BY <1>4, MinOfTwo
    <2>2. NextInterval(n) = Min({IntervalCap, Interval * 4})
      BY <1>4, <2>1, Multipliers DEF NextInterval
    <2> QED
      BY <1>1, <1>4, <2>2, MinOfTwo
  <1>5. CASE n >= 4
    <2>1. Min({n - 1, 3}) = 3
      BY <1>5, MinOfTwo
    <2>2. NextInterval(n) = Min({IntervalCap, Interval * 8})
      <3>1. ~ (n < 2)
        BY <1>5
      <3>2. NextInterval(n) = Min({IntervalCap, Interval * 2 ^ Min({n - 1, 3})})
        BY <3>1 DEF NextInterval
      <3> QED
        BY <2>1, <3>2, Multipliers
    <2> QED
      BY <1>1, <1>5, <2>2, MinOfTwo
  <1> QED
    BY <1>2, <1>3, <1>4, <1>5

\* nextInterval: a target that has failed more often in a row is never checked again
\* sooner, provided that its interval is no longer than five minutes; and from the
\* fourth failure on another one makes no difference, so that a count that stops
\* there, as the one of this model does, loses nothing.
THEOREM BackOffGrows ==
    ASSUME NEW n \in Nat, NEW m \in Nat, n <= m
    PROVE  /\ NextInterval(n) \in Nat \ {0}
           /\ Interval <= IntervalCap => NextInterval(n) <= NextInterval(m)
           /\ n >= Enough => NextInterval(m) = NextInterval(n)
  <1>1. Interval \in Nat \ {0} /\ IntervalCap \in Nat \ {0}
    BY MonitorsAssumption
  <1>2. NextInterval(n) \in Nat \ {0}
    BY <1>1, IntervalCases
  <1>3. Interval <= IntervalCap => NextInterval(n) <= NextInterval(m)
    BY <1>1, IntervalCases
  <1>4. n >= Enough => NextInterval(m) = NextInterval(n)
    BY IntervalCases DEF Enough
  <1> QED
    BY <1>2, <1>3, <1>4

-----------------------------------------------------------------------------
(* The type of the state *)

\* What the type invariant says of attempt a.
AttemptOK(a) ==
    /\ a \in Attempts
    /\ (a.pc = "fail") <=> (a.error # "none")
    /\ a.late => kind \in {"routes", "ping"} /\ a.pc = "check"

\* The rest of it.
StateOK ==
    /\ kind \in Kinds /\ api \in Apis(kind) /\ live \in BOOLEAN
    /\ inventory \in [Services -> Places]
    /\ entry \subseteq SUBSET Services /\ refreshing \in BOOLEAN
    /\ rows \in [Services -> [target : Result, route : Result]]
    /\ failures \in 0..Enough /\ wait \in 0..NextInterval(failures)

AttemptsOK == try \in [Checkers -> Attempts] /\ \A x \in Checkers : AttemptOK(try[x])

\* The type invariant in these parts.
LEMMA TypeInvParts == TypeInv <=> StateOK /\ AttemptsOK
  <1>1. ASSUME TypeInv PROVE StateOK /\ AttemptsOK
    <2>1. StateOK
      BY <1>1 DEF TypeInv, TypeOK, StateOK, Places
    <2>2. ASSUME NEW x \in Checkers PROVE AttemptOK(try[x])
      BY <1>1 DEF TypeInv, TypeOK, AttemptOK
    <2> QED
      BY <1>1, <2>1, <2>2 DEF AttemptsOK, TypeInv
  <1>2. ASSUME StateOK, AttemptsOK PROVE TypeInv
    <2>1. ASSUME NEW x \in Checkers
          PROVE  /\ try[x].pc \in {"idle", "sync", "prune", "check", "fail"}
                 /\ try[x].read \in [Services -> {"here", "other", "gone"}]
                 /\ try[x].known \in [Services -> {"here", "other", "gone"}]
                 /\ try[x].todo \subseteq Services /\ try[x].seen \in [Services -> Result]
                 /\ try[x].mine \subseteq Services \X {"target", "route"}
      <3>1. try[x] \in Attempts
        BY <1>2 DEF AttemptsOK
      <3> QED
        BY <3>1 DEF Attempts, Places
    <2>2. ASSUME NEW x \in Checkers
          PROVE  /\ (try[x].pc = "fail") = (try[x].error # "none")
                 /\ try[x].late => kind \in {"routes", "ping"} /\ try[x].pc = "check"
      BY <1>2 DEF AttemptsOK, AttemptOK
    <2> QED
      BY <1>2, <2>1, <2>2 DEF TypeInv, TypeOK, StateOK, AttemptsOK, Places
  <1> QED
    BY <1>1, <1>2

\* Whatever there is to observe, its verdict is one of the health states.
LEMMA VerdictsAreHealths == Verdict \in Healths /\ Observable \subseteq Healths
  <1>1. DockerHealth(world) \in Healths
    BY DEF DockerHealth, Healths
  <1>2. KubeHealth(world) \in Healths
    BY DEF KubeHealth, DeploymentHealth, StatefulSetHealth, DaemonSetHealth, JobHealth,
           CronJobHealth, Healths
  <1>3. RouteHealth(world) \in Healths
    BY DEF RouteHealth, Healths
  <1>4. PingHealth(world) \in Healths
    BY DEF PingHealth, Healths
  <1> QED
    BY <1>1, <1>2, <1>3, <1>4 DEF Verdict, Observable, Healths

\* An attempt of which nothing is known yet.
LEMMA IdleOK == AttemptOK(Idle)
  BY DEF AttemptOK, Idle, Attempts, Places, Result

\* The loop's next attempt is due within the interval that its failures ask for.
LEMMA RescheduleOK ==
    ASSUME StateOK, NEW x, NEW n \in 0..Enough, Reschedule(x, n)
    PROVE  failures' \in 0..Enough /\ wait' \in 0..NextInterval(failures')
  <1>1. CASE x = "loop"
    <2>1. n \in Nat
      BY DEF Enough
    <2>2. NextInterval(n) \in Nat
      BY <2>1, BackOffGrows
    <2> QED
      BY <1>1, <2>2 DEF Reschedule
  <1>2. CASE x # "loop"
    BY <1>2 DEF Reschedule, StateOK
  <1> QED
    BY <1>1, <1>2

LEMMA OneMoreOK == StateOK => OneMore \in 1..Enough
  BY MinOfTwo DEF StateOK, OneMore, Enough

\* An attempt that fails is left with what its failure covers.
LEMMA FailOK ==
    ASSUME TypeInv, NEW x \in Checkers, NEW e \in {"error", "deadline"}, Fail(x, e)
    PROVE  /\ try' \in [Checkers -> Attempts]
           /\ AttemptOK(try'[x])
           /\ \A y \in Checkers \ {x} : try'[y] = try[y]
           /\ try'[x].pc = "fail" /\ try'[x].error = e /\ try'[x].read = try[x].read
           /\ try'[x].todo = Covered(try[x].read, e) /\ try'[x].mine = try[x].mine
           /\ try'[x].spoiled = try[x].spoiled
  <1>1. /\ try \in [Checkers -> Attempts] /\ try[x] \in Attempts
    BY DEF TypeInv
  <1>2. Covered(try[x].read, e) \subseteq Services
    BY DEF Covered, Here
  <1>3. Idle.seen \in [Services -> Result]
    BY DEF Idle, Result
  <1> DEFINE a == [try[x] EXCEPT !.pc = "fail", !.error = e, !.late = FALSE, !.old = {},
                                 !.seen = Idle.seen, !.todo = Covered(try[x].read, e)]
  <1>4. try' = [try EXCEPT ![x] = a]
    BY DEF Fail
  <1>5. /\ a \in Attempts /\ a.pc = "fail" /\ a.error = e /\ ~a.late
        /\ a.read = try[x].read /\ a.todo = Covered(try[x].read, e)
        /\ a.mine = try[x].mine /\ a.spoiled = try[x].spoiled
    BY <1>1, <1>2, <1>3 DEF Attempts
  <1> HIDE DEF a
  <1>6. AttemptOK(a)
    BY <1>5 DEF AttemptOK
  <1> QED
    BY <1>1, <1>4, <1>5, <1>6

\* Who was the last to write the results of service s at the slots: attempt x, which
\* has done with the service, and none of the others.
LEMMA DoneOK ==
    ASSUME TypeInv, NEW x \in Checkers, NEW s \in Services,
           NEW slots \in SUBSET {"target", "route"}, Done(x, s, slots), try[x].pc # "idle"
    PROVE  /\ try' \in [Checkers -> Attempts]
           /\ \A y \in Checkers : kind' = kind => AttemptOK(try[y])'
           /\ \A y \in Checkers : /\ try'[y].pc = try[y].pc /\ try'[y].read = try[y].read
                                  /\ try'[y].known = try[y].known
                                  /\ try'[y].error = try[y].error
                                  /\ try'[y].spoiled = try[y].spoiled
                                  /\ y # x => try'[y].todo = try[y].todo
                                  /\ try'[y].late = try[y].late
           /\ try'[x].todo = try[x].todo \ {s}
           /\ \A y \in Checkers : y # x => try'[y].mine = try[y].mine \ ({s} \X slots)
           /\ try'[x].mine = try[x].mine \cup ({s} \X slots)
  <1> DEFINE pairs == {s} \X slots
             a == [try[x] EXCEPT !.todo = @ \ {s}, !.seen[s] = "none",
                                 !.old = {o \in @ : o[1] # s}, !.mine = @ \cup pairs]
             b(y) == [try[y] EXCEPT !.mine = @ \ pairs]
  <1>1. try \in [Checkers -> Attempts] /\ \A y \in Checkers : AttemptOK(try[y])
    BY TypeInvParts DEF AttemptsOK
  <1>2. pairs \subseteq Services \X {"target", "route"}
    OBVIOUS
  <1>3. try' = [y \in Checkers |-> IF y = x THEN a ELSE b(y)]
    BY Zenon DEF Done
  <1> HIDE DEF pairs
  <1>4. /\ a \in Attempts /\ a.pc = try[x].pc /\ a.read = try[x].read /\ a.known = try[x].known
        /\ a.late = try[x].late /\ a.error = try[x].error /\ a.spoiled = try[x].spoiled
        /\ a.todo = try[x].todo \ {s} /\ a.mine = try[x].mine \cup pairs
    <2>1. try[x] \in Attempts
      BY <1>1
    <2>2. "none" \in Result
      BY DEF Result
    <2> QED
      BY <1>2, <2>1, <2>2 DEF Attempts
  <1>5. ASSUME NEW y \in Checkers
        PROVE  /\ b(y) \in Attempts /\ b(y).pc = try[y].pc /\ b(y).read = try[y].read
               /\ b(y).known = try[y].known /\ b(y).error = try[y].error
               /\ b(y).spoiled = try[y].spoiled /\ b(y).todo = try[y].todo
               /\ b(y).late = try[y].late /\ b(y).mine = try[y].mine \ pairs
    <2>1. try[y] \in Attempts
      BY <1>1
    <2> QED
      BY <1>2, <2>1 DEF Attempts
  <1> HIDE DEF a, b
  <1>6. try' \in [Checkers -> Attempts]
    BY <1>3, <1>4, <1>5
  <1>7. \A y \in Checkers : kind' = kind => AttemptOK(try[y])'
    BY <1>1, <1>3, <1>4, <1>5 DEF AttemptOK
  <1> QED
    BY <1>3, <1>4, <1>5, <1>6, <1>7 DEF pairs

\* The type of the state is kept by every step.
LEMMA StepTypeInv == TypeInv /\ [Next]_vars => TypeInv'
  <1> SUFFICES ASSUME TypeInv, [Next]_vars PROVE TypeInv'
    OBVIOUS
  <1>0. /\ StateOK /\ AttemptsOK
        /\ try \in [Checkers -> Attempts] /\ \A x \in Checkers : AttemptOK(try[x])
        /\ rows \in [Services -> [target : Result, route : Result]]
    BY TypeInvParts DEF StateOK, AttemptsOK
  <1> SUFFICES StateOK' /\ AttemptsOK'
    BY TypeInvParts, PTL
  <1>fr. ASSUME try' = try, kind' = kind
         PROVE  AttemptsOK'
    BY <1>0, <1>fr DEF AttemptsOK, AttemptOK
  <1>st. ASSUME UNCHANGED environment, UNCHANGED <<failures, wait>>,
                rows' \in [Services -> [target : Result, route : Result]]
         PROVE  StateOK'
    BY <1>0, <1>st DEF StateOK, environment, NextInterval
  <1>sc. ASSUME NEW x \in Checkers, UNCHANGED environment, UNCHANGED rows,
                NEW n \in 0..Enough, Reschedule(x, n)
         PROVE  StateOK'
    BY <1>0, <1>sc, RescheduleOK DEF StateOK, environment
  <1>ev. ASSUME NEW x \in Checkers, NEW a, try' = [try EXCEPT ![x] = a], AttemptOK(a), kind' = kind
         PROVE  AttemptsOK'
    BY <1>0, <1>ev DEF AttemptsOK, AttemptOK
  <1>1. CASE WorldChanges \/ Rescan \/ Refresh \/ Refreshed \/ Stop
    <2>1. /\ inventory' \in [Services -> Places] /\ live' \in BOOLEAN /\ api' \in Apis(kind)
          /\ entry' \subseteq SUBSET Services /\ refreshing' \in BOOLEAN
      <3>1. \A h \in SUBSET Services : Hosts(h) \in [Services -> Places]
        BY DEF Hosts, Places
      <3>2. Here(inventory) \in SUBSET Services
        BY DEF Here
      <3>3. CASE WorldChanges \/ Rescan \/ Stop
        BY <1>0, <3>3 DEF StateOK, WorldChanges, Rescan, Stop, Places
      <3>4. CASE Refresh
        BY <1>0, <3>1, <3>4 DEF StateOK, Refresh
      <3>5. CASE Refreshed
        BY <1>0, <3>2, <3>5 DEF StateOK, Refreshed
      <3> QED
        BY <1>1, <3>3, <3>4, <3>5
    <2>2. kind' = kind /\ UNCHANGED <<rows, try, failures, wait>>
      BY <1>1 DEF WorldChanges, Rescan, Refresh, Refreshed, Stop
    <2>3. StateOK'
      BY <1>0, <2>1, <2>2 DEF StateOK, NextInterval, Apis
    <2> QED
      BY <1>fr, <2>2, <2>3
  <1>2. CASE Tick
    <2>1. StateOK'
      <3>1. failures \in Nat
        BY <1>0 DEF StateOK, Enough
      <3>2. NextInterval(failures) \in Nat
        BY <3>1, BackOffGrows
      <3> QED
        BY <1>0, <1>2, <3>2 DEF StateOK, Tick, environment
    <2> QED
      BY <1>2, <1>fr, <2>1 DEF Tick, environment
  <1>dn. ASSUME NEW x \in Checkers, NEW s \in Services, NEW slots \in SUBSET {"target", "route"},
                Done(x, s, slots), try[x].pc # "idle", kind' = kind
         PROVE  AttemptsOK'
    BY <1>dn, DoneOK DEF AttemptsOK
  <1>fl. ASSUME NEW x \in Checkers, NEW e \in {"error", "deadline"}, Fail(x, e), kind' = kind
         PROVE  AttemptsOK'
    <2>1. /\ try' \in [Checkers -> Attempts] /\ AttemptOK(try'[x])
          /\ \A y \in Checkers \ {x} : try'[y] = try[y]
      BY <1>fl, FailOK
    <2>2. \A y \in Checkers : AttemptOK(try'[y])
      BY <1>0, <2>1
    <2> QED
      BY <1>fl, <2>1, <2>2 DEF AttemptsOK, AttemptOK
  <1>3. ASSUME NEW x \in Checkers, Begin(x) PROVE StateOK' /\ AttemptsOK'
    <2> DEFINE a == [Idle EXCEPT
             !.pc    = FirstStep,
             !.read  = inventory,
             !.known = inventory,
             !.old   = IF kind = "routes" THEN Outdated(inventory) ELSE {},
             !.todo  = FirstTodo,
             !.seen  = IF kind = "docker" /\ ~Refused THEN [s \in Services |-> Verdict] ELSE @,
             !.error = IF Refused THEN "error" ELSE "none"]
    <2>1. AttemptOK(a)
      <3>1. /\ Outdated(inventory) \subseteq Services \X {"target", "route"}
            /\ FirstTodo \subseteq Services
        BY DEF Outdated, FirstTodo, Covered, Written, Here
      <3>2. [s \in Services |-> Verdict] \in [Services -> Result]
        BY VerdictsAreHealths DEF Result
      <3>3. Idle \in Attempts /\ ~Idle.late /\ inventory \in [Services -> Places]
        BY <1>0, IdleOK DEF AttemptOK, Idle, StateOK
      <3>4. FirstStep \in {"sync", "prune", "check", "fail"} /\ (FirstStep = "fail" <=> Refused)
        BY DEF FirstStep
      <3>5. /\ a \in Attempts /\ ~a.late /\ a.pc = FirstStep
            /\ a.error = IF Refused THEN "error" ELSE "none"
        BY <3>1, <3>2, <3>3, <3>4 DEF Attempts
      <3> HIDE DEF a
      <3> QED
        BY <3>4, <3>5 DEF AttemptOK
    <2>2. AttemptsOK'
      <3>1. try' = [try EXCEPT ![x] = a] /\ kind' = kind
        BY <1>3 DEF Begin
      <3> HIDE DEF a
      <3> QED
        BY <1>ev, <2>1, <3>1
    <2>3. UNCHANGED <<kind, api, inventory, entry, refreshing, live, rows, failures>> /\ wait' = wait
      BY <1>3 DEF Begin
    <2> QED
      BY <1>0, <2>2, <2>3 DEF StateOK, NextInterval, Apis
  <1>4. ASSUME NEW x \in Checkers, BeginFails(x) PROVE StateOK' /\ AttemptsOK'
    <2>1. /\ UNCHANGED <<kind, world, api, inventory, entry, refreshing, rows, live, try>>
          /\ Reschedule(x, OneMore)
      BY <1>4 DEF BeginFails
    <2>2. OneMore \in 0..Enough
      BY <1>0, OneMoreOK DEF Enough
    <2>3. failures' \in 0..Enough /\ wait' \in 0..NextInterval(failures')
      BY <1>0, <2>1, <2>2, RescheduleOK
    <2> QED
      BY <1>0, <1>fr, <2>1, <2>3 DEF StateOK, Apis
  <1>fi. ASSUME NEW x \in Checkers, Finish(x), kind' = kind PROVE AttemptsOK'
    BY <1>ev, <1>fi, IdleOK DEF Finish
  <1>5. ASSUME NEW x \in Checkers, Step(x) PROVE StateOK' /\ AttemptsOK'
    <2>1. CASE Pruned(x)
      <3> DEFINE a == [try[x] EXCEPT !.pc = "check", !.todo = Here(try[x].known)]
      <3>1. try' = [try EXCEPT ![x] = a] /\ UNCHANGED <<environment, rows, failures, wait>>
        BY <1>0, <2>1 DEF Pruned
      <3>2. AttemptOK(a)
        <4>1. try[x] \in Attempts /\ AttemptOK(try[x]) /\ try[x].pc = "prune"
          BY <1>0, <2>1 DEF Pruned
        <4>2. Here(try[x].known) \subseteq Services
          BY DEF Here
        <4>3. a.error = try[x].error /\ a.late = try[x].late /\ a.pc = "check"
          BY <4>1 DEF Attempts
        <4>4. a \in Attempts
          BY <4>1, <4>2 DEF Attempts
        <4> HIDE DEF a
        <4> QED
          BY <4>1, <4>3, <4>4 DEF AttemptOK
      <3> HIDE DEF a
      <3> QED
        BY <1>0, <1>ev, <1>st, <3>1, <3>2 DEF environment
    <2>2. CASE Succeed(x)
      BY <1>fi, <1>sc, <2>2 DEF Succeed, Enough, environment
    <2>3. CASE EndFail(x)
      <3>1. OneMore \in 0..Enough
        BY <1>0, OneMoreOK DEF Enough
      <3> QED
        BY <1>fi, <1>sc, <2>3, <3>1 DEF EndFail, environment
    <2>4. CASE Interrupted(x)
      BY <1>0, <1>fi, <1>st, <2>4 DEF Interrupted, environment
    <2>5. ASSUME NEW s \in Services, Prune(x, s) PROVE StateOK' /\ AttemptsOK'
      <3>1. rows' \in [Services -> [target : Result, route : Result]]
        BY <1>0, <2>5 DEF Prune, Result
      <3>2. {slot \in {"target", "route"} : <<s, slot>> \in try[x].old} \in SUBSET {"target", "route"}
        OBVIOUS
      <3> QED
        BY <1>dn, <1>st, <2>5, <3>1, <3>2 DEF Prune, environment
    <2>6. ASSUME NEW s \in Services, Look(x, s) PROVE StateOK' /\ AttemptsOK'
      <3>0. PICK health \in Observable : try' = [try EXCEPT ![x].seen[s] = health]
        BY <2>6 DEF Look
      <3> DEFINE a == [try[x] EXCEPT !.seen = [@ EXCEPT ![s] = health]]
      <3>1. try' = [try EXCEPT ![x] = a] /\ UNCHANGED <<environment, rows, failures, wait>>
        BY <1>0, <2>6, <3>0 DEF Look
      <3>2. try[x].seen \in [Services -> Result] /\ health \in Result
        BY <1>0, VerdictsAreHealths DEF Attempts, Result
      <3>3. AttemptOK(a)
        <4>1. try[x] \in Attempts /\ AttemptOK(try[x])
          BY <1>0
        <4>2. a.error = try[x].error /\ a.late = try[x].late /\ a.pc = try[x].pc
          BY <4>1 DEF Attempts
        <4>3. a \in Attempts
          BY <4>1, <3>2 DEF Attempts
        <4> HIDE DEF a
        <4> QED
          BY <4>1, <4>2, <4>3 DEF AttemptOK
      <3> HIDE DEF a
      <3> QED
        BY <1>0, <1>ev, <1>st, <3>1, <3>3 DEF environment
    <2>7. ASSUME NEW s \in Services, Put(x, s) PROVE StateOK' /\ AttemptsOK'
      <3>1. try[x].seen[s] \in Result /\ Elsewhere \in Result /\ Slot \in {"target", "route"}
        BY <1>0 DEF AttemptOK, Attempts, Elsewhere, Slot, Result, Healths
      <3>2. rows' \in [Services -> [target : Result, route : Result]]
        BY <1>0, <2>7, <3>1 DEF Put
      <3> QED
        BY <1>dn, <1>st, <2>7, <3>1, <3>2 DEF Put, environment
    <2>8. ASSUME NEW s \in Services, Mark(x, s) PROVE StateOK' /\ AttemptsOK'
      <3>1. rows' \in [Services -> [target : Result, route : Result]]
        BY <1>0, <2>8 DEF Mark, Result, Healths
      <3> QED
        BY <1>dn, <1>st, <2>8, <3>1 DEF Mark, environment
    <2>9. CASE Ask(x)
      <3>1. UNCHANGED <<kind, api, inventory, entry, live, rows, try, failures, wait>> /\ refreshing' = TRUE
        BY <2>9 DEF Ask
      <3> QED
        BY <1>0, <1>fr, <3>1 DEF StateOK, NextInterval, Apis
    <2>10. CASE Sync(x)
      <3>0. PICK h \in entry :
                try' = [try EXCEPT ![x].pc = "check", ![x].known = Hosts(h), ![x].todo = h]
        BY <2>10 DEF Sync
      <3> DEFINE a == [try[x] EXCEPT !.pc = "check", !.known = Hosts(h), !.todo = h]
      <3>1. try' = [try EXCEPT ![x] = a] /\ UNCHANGED <<environment, rows, failures, wait>>
        BY <1>0, <2>10, <3>0 DEF Sync
      <3>2. h \in SUBSET Services /\ Hosts(h) \in [Services -> Places]
        BY <1>0 DEF StateOK, Hosts, Places
      <3>3. AttemptOK(a)
        <4>1. try[x] \in Attempts /\ AttemptOK(try[x]) /\ try[x].pc = "sync"
          BY <1>0, <2>10 DEF Sync
        <4>2. a.error = try[x].error /\ a.late = try[x].late /\ a.pc = "check"
          BY <4>1 DEF Attempts
        <4>3. a \in Attempts
          BY <4>1, <3>2 DEF Attempts
        <4> HIDE DEF a
        <4> QED
          BY <4>1, <4>2, <4>3 DEF AttemptOK
      <3> HIDE DEF a
      <3> QED
        BY <1>0, <1>ev, <1>st, <3>1, <3>3 DEF environment
    <2> QED
      BY <1>5, <2>1, <2>2, <2>3, <2>4, <2>5, <2>6, <2>7, <2>8, <2>9, <2>10 DEF Step
  <1>6. ASSUME NEW x \in Checkers, SyncFails(x) \/ PutFails(x) PROVE StateOK' /\ AttemptsOK'
    BY <1>0, <1>6, <1>fl, <1>st DEF SyncFails, PutFails, environment
  <1>7. ASSUME NEW x \in Checkers, Deadline(x) PROVE StateOK' /\ AttemptsOK'
    <2>1. UNCHANGED <<environment, rows, failures, wait>> /\ StateOK'
      BY <1>0, <1>7, <1>st DEF Deadline, environment
    <2>2. CASE Fail(x, "deadline")
      BY <1>fl, <2>1, <2>2 DEF environment
    <2>3. CASE ~Fail(x, "deadline")
      <3> DEFINE seen == [s \in Services |-> IF try[x].seen[s] = "none" THEN "error" ELSE try[x].seen[s]]
                 a == [try[x] EXCEPT !.late = TRUE, !.seen = seen]
      <3>1. kind \in {"routes", "ping"} /\ try[x].pc = "check" /\ try' = [try EXCEPT ![x] = a]
        BY <1>0, <1>7, <2>3 DEF Deadline
      <3>2. seen \in [Services -> Result]
        BY <1>0 DEF AttemptOK, Attempts, Result, Healths
      <3>3. AttemptOK(a)
        <4> HIDE DEF seen
        <4>1. try[x] \in Attempts /\ AttemptOK(try[x])
          BY <1>0
        <4>2. a.error = try[x].error /\ a.pc = try[x].pc
          BY <4>1 DEF Attempts
        <4>3. a \in Attempts
          BY <4>1, <3>2 DEF Attempts
        <4> HIDE DEF a
        <4> QED
          BY <4>1, <4>2, <4>3, <3>1 DEF AttemptOK
      <3> HIDE DEF a
      <3> QED
        BY <1>ev, <2>1, <3>1, <3>3 DEF environment
    <2> QED
      BY <2>2, <2>3
  <1>8. ASSUME NEW x \in Checkers, NEW s \in Services, MarkFails(x, s) PROVE StateOK' /\ AttemptsOK'
    <2> DEFINE a == [try[x] EXCEPT !.todo = @ \ {s}, !.spoiled = TRUE]
    <2>1. try' = [try EXCEPT ![x] = a] /\ UNCHANGED <<environment, rows, failures, wait>>
      BY <1>0, <1>8 DEF MarkFails
    <2>2. AttemptOK(a)
      <3>1. try[x] \in Attempts /\ AttemptOK(try[x])
        BY <1>0
      <3>2. a.error = try[x].error /\ a.late = try[x].late /\ a.pc = try[x].pc
        BY <3>1 DEF Attempts
      <3>3. a \in Attempts
        BY <3>1 DEF Attempts
      <3> HIDE DEF a
      <3> QED
        BY <3>1, <3>2, <3>3 DEF AttemptOK
    <2> HIDE DEF a
    <2> QED
      BY <1>0, <1>ev, <1>st, <2>1, <2>2 DEF environment
  <1>9. CASE UNCHANGED vars
    BY <1>0, <1>9, <1>fr, <1>st DEF vars, environment
  <1> QED
    BY <1>1, <1>2, <1>3, <1>4, <1>5, <1>6, <1>7, <1>8, <1>9 DEF Next

\* The invariant that every state has its type, whatever the target's kind, the
\* faults, and the interleaving of the loop, the request and the scans; with it, the
\* loop is never further from its next attempt than nextInterval says.
THEOREM TypeCorrect == Spec => []TypeInv
  <1>1. Init => TypeInv
    <2> SUFFICES ASSUME Init PROVE StateOK /\ AttemptsOK
      BY TypeInvParts
    <2>1. StateOK
      <3>1. NextInterval(0) \in Nat
        BY BackOffGrows
      <3>2. Hosts(Services) \in [Services -> Places] /\ Hosts({}) \in [Services -> Places]
        BY DEF Hosts, Places
      <3>3. inventory \in [Services -> Places]
        BY <3>2 DEF Init
      <3>4. rows \in [Services -> [target : Result, route : Result]]
        BY DEF Init, NoRows, Result
      <3>5. /\ kind \in Kinds /\ api \in Apis(kind) /\ live \in BOOLEAN
            /\ entry \subseteq SUBSET Services /\ refreshing \in BOOLEAN
        BY DEF Init
      <3>6. failures \in 0..Enough /\ wait \in 0..NextInterval(failures)
        BY <3>1 DEF Init, Enough
      <3> QED
        BY <3>3, <3>4, <3>5, <3>6 DEF StateOK
    <2>2. AttemptsOK
      <3> HIDE DEF Idle
      <3> QED
        BY IdleOK DEF Init, AttemptsOK, AttemptOK
    <2> QED
      BY <2>1, <2>2
  <1> QED
    BY <1>1, StepTypeInv, PTL DEF Spec

\* TypeOK, the part of it that the runs check.
THEOREM TypesHold == Spec => []TypeOK
  <1>1. TypeInv => TypeOK
    BY DEF TypeInv
  <1> QED
    BY <1>1, TypeCorrect, PTL

-----------------------------------------------------------------------------
(* A process that has been told to stop *)

\* statusWriteContext, recordTargetFailure: once the contexts are cancelled the only
\* results still written are those of an attempt whose deadline had passed before;
\* the requests that the cancellation interrupts are not taken for failures.
THEOREM SilentOnceStopped == Spec => StopIsSilent
  <1>1. ASSUME [Next]_vars, ~live, rows' # rows PROVE \E x \in Checkers : try[x].late
    <2>1. Next
      BY <1>1 DEF vars
    <2>2. ~ (WorldChanges \/ Rescan \/ Refresh \/ Refreshed \/ Stop \/ Tick)
      BY <1>1 DEF WorldChanges, Rescan, Refresh, Refreshed, Stop, Tick
    <2>3. PICK x \in Checkers : \/ Begin(x) \/ BeginFails(x) \/ Step(x)
                                \/ SyncFails(x) \/ PutFails(x) \/ Deadline(x)
                                \/ \E s \in Services : MarkFails(x, s)
      BY <2>1, <2>2 DEF Next
    <2>4. Step(x)
      BY <1>1, <2>3 DEF Begin, BeginFails, SyncFails, PutFails, Deadline, MarkFails
    <2>5. PICK s \in Services : Put(x, s)
      BY <1>1, <2>4 DEF Step, Ask, Sync, Pruned, Succeed, EndFail, Interrupted, Prune, Look, Mark
    <2> QED
      BY <1>1, <2>5 DEF Put, Writable
  <1> QED
    BY <1>1, PTL DEF Spec, StopIsSilent

-----------------------------------------------------------------------------
(* Failures *)

\* What MarkedInv says of attempt x.
Marked(x) ==
    /\ try[x].pc = "sync" => kind = "ping" /\ try[x].mine = {}
    /\ try[x].pc \in {"prune", "check"} =>
           /\ kind # "ping" => try[x].known = try[x].read
           /\ \A o \in try[x].mine :
                  o[2] = "route" \/ try[x].known[o[1]] = "here" \/ Modest(o)
    /\ try[x].pc = "fail" => try[x].todo \subseteq Covered(try[x].read, try[x].error)
    /\ (try[x].pc = "fail" /\ ~try[x].spoiled) =>
           \A o \in try[x].mine :
               \/ Left(x, o) \/ o[1] \in try[x].todo
               \/ IF o[1] \in Covered(try[x].read, try[x].error)
                  THEN rows[o[1]][o[2]] = "error" ELSE Modest(o)

LEMMA MarkedParts == MarkedInv <=> \A x \in Checkers : Marked(x)
  BY DEF MarkedInv, Marked

\* A step that leaves attempt x and the results alone, or takes from x some that it
\* was the last to write, keeps what MarkedInv says of it.
LEMMA MarkedStays ==
    ASSUME NEW x \in Checkers, Marked(x), kind' = kind,
           /\ try'[x].pc = try[x].pc /\ try'[x].read = try[x].read /\ try'[x].known = try[x].known
           /\ try'[x].error = try[x].error /\ try'[x].todo = try[x].todo
           /\ try'[x].spoiled = try[x].spoiled /\ try'[x].mine \subseteq try[x].mine,
           \A o \in try'[x].mine : rows'[o[1]][o[2]] = rows[o[1]][o[2]]
    PROVE  Marked(x)'
  <1>1. \A inv, e : Covered(inv, e)' = Covered(inv, e)
    BY DEF Covered, Here
  <1>2. \A o \in try'[x].mine : (Left(x, o)' <=> Left(x, o)) /\ (Modest(o)' <=> Modest(o))
    BY DEF Left, Modest
  <1>3. Covered(try[x].read, try[x].error)' = Covered(try[x].read, try[x].error)
    BY <1>1
  <1>4. try'[x].pc = "sync" => kind' = "ping" /\ try'[x].mine = {}
    BY DEF Marked
  <1>5. try'[x].pc \in {"prune", "check"} =>
            /\ kind' # "ping" => try'[x].known = try'[x].read
            /\ \A o \in try'[x].mine :
                   o[2] = "route" \/ try'[x].known[o[1]] = "here" \/ Modest(o)'
    BY <1>2 DEF Marked
  <1>6. try'[x].pc = "fail" => try'[x].todo \subseteq Covered(try[x].read, try[x].error)'
    BY <1>3 DEF Marked
  <1>7. ASSUME try'[x].pc = "fail", ~try'[x].spoiled, NEW o \in try'[x].mine
        PROVE  \/ Left(x, o)' \/ o[1] \in try'[x].todo
               \/ IF o[1] \in Covered(try[x].read, try[x].error)'
                  THEN rows'[o[1]][o[2]] = "error" ELSE Modest(o)'
    <2>1. o \in try[x].mine /\ try[x].pc = "fail" /\ ~try[x].spoiled
      BY <1>7
    <2>2. rows'[o[1]][o[2]] = rows[o[1]][o[2]]
      OBVIOUS
    <2> QED
      BY <1>2, <1>3, <2>1, <2>2 DEF Marked
  <1> QED
    BY <1>4, <1>5, <1>6, <1>7 DEF Marked

\* An attempt that begins to fail has still to mark what its failure covers; the rest
\* of what it was the last to write is of services it does not check here, or Left.
LEMMA FailMarks ==
    ASSUME TypeInv, MarkedInv, NEW x \in Checkers, NEW e \in {"error", "deadline"}, Fail(x, e),
           kind' = kind, rows' = rows, try[x].pc \in {"sync", "prune", "check"}
    PROVE  Marked(x)'
  <1>1. /\ try'[x].pc = "fail" /\ try'[x].error = e /\ try'[x].read = try[x].read
        /\ try'[x].todo = Covered(try[x].read, e) /\ try'[x].mine = try[x].mine
    BY FailOK
  <1>2. Covered(try[x].read, try[x].error)' = Covered(try[x].read, e)
    BY <1>1 DEF Covered, Here
  <1>3. ASSUME NEW o \in try[x].mine, ~Left(x, o)', o[1] \notin try'[x].todo
        PROVE  Modest(o)'
    <2>1. try[x] \in Attempts
      BY DEF TypeInv
    <2>2. o[1] \in Services
      BY <2>1 DEF Attempts
    <2>3. o[2] # "route" /\ (kind = "ping" => try[x].read[o[1]] = "here")
      BY <1>1, <1>3 DEF Left
    <2>4. try[x].read[o[1]] # "here"
      BY <1>1, <1>3, <2>2 DEF Covered, Here
    <2>5. try[x].pc \in {"prune", "check"}
      BY DEF MarkedInv
    <2>6. try[x].known = try[x].read
      BY <2>3, <2>4, <2>5 DEF MarkedInv
    <2>7. Modest(o)
      BY <2>3, <2>4, <2>5, <2>6 DEF MarkedInv
    <2> QED
      BY <2>7 DEF Modest
  <1> QED
    BY <1>1, <1>2, <1>3 DEF Marked

\* A step that writes the results of service s at the slots, and has done with it,
\* keeps what is marked, provided that an attempt that fails writes an error at the
\* target, and one that does not says nothing much of a service it does not check.
LEMMA DoneKeepsMarked ==
    ASSUME TypeInv, MarkedInv, NEW x \in Checkers, NEW s \in Services,
           NEW slots \in SUBSET {"target", "route"}, Done(x, s, slots),
           kind' = kind, try[x].pc \in {"prune", "check", "fail"}, s \in try[x].todo,
           \A t \in Services : \A slot \in {"target", "route"} :
               ~ (t = s /\ slot \in slots) => rows'[t][slot] = rows[t][slot],
           try[x].pc = "fail" => slots = {"target"} /\ rows'[s].target = "error",
           try[x].pc # "fail" => \A slot \in slots :
               slot = "route" \/ try[x].known[s] = "here" \/ rows'[s][slot] \in {"none", "not_applicable"}
    PROVE  MarkedInv'
  <1>0. \A y \in Checkers : try[y] \in Attempts /\ Marked(y)
    BY MarkedParts DEF TypeInv
  <1>pt. ASSUME \A y \in Checkers : Marked(y)' PROVE MarkedInv'
    BY <1>pt DEF MarkedInv, Marked
  <1>1. ASSUME NEW y \in Checkers, NEW o \in try[y].mine
        PROVE  /\ o[1] \in Services /\ o[2] \in {"target", "route"} /\ o = <<o[1], o[2]>>
    <2>1. try[y].mine \subseteq Services \X {"target", "route"}
      BY <1>0 DEF Attempts
    <2> QED
      BY <2>1
  <1>2. \A y \in Checkers : \A o \in try[y].mine :
            o \notin {s} \X slots => rows'[o[1]][o[2]] = rows[o[1]][o[2]]
    BY <1>1
  <1>3. ASSUME NEW y \in Checkers, y # x PROVE Marked(y)'
    <2>1. /\ try'[y].pc = try[y].pc /\ try'[y].read = try[y].read /\ try'[y].known = try[y].known
          /\ try'[y].error = try[y].error /\ try'[y].todo = try[y].todo
          /\ try'[y].spoiled = try[y].spoiled /\ try'[y].mine = try[y].mine \ ({s} \X slots)
      BY <1>3, DoneOK
    <2>2. \A o \in try'[y].mine : rows'[o[1]][o[2]] = rows[o[1]][o[2]]
      BY <1>2, <2>1
    <2> QED
      BY <1>0, <2>1, <2>2, MarkedStays
  <1>4. /\ try'[x].pc = try[x].pc /\ try'[x].read = try[x].read /\ try'[x].known = try[x].known
        /\ try'[x].error = try[x].error /\ try'[x].todo = try[x].todo \ {s}
        /\ try'[x].spoiled = try[x].spoiled /\ try'[x].mine = try[x].mine \cup ({s} \X slots)
    BY DoneOK
  <1>5. CASE try[x].pc # "fail"
    <2>1. ASSUME NEW o \in try'[x].mine
          PROVE  o[2] = "route" \/ try[x].known[o[1]] = "here" \/ Modest(o)'
      <3>1. CASE o \in {s} \X slots
        <4>1. o[1] = s /\ o[2] \in slots
          BY <3>1
        <4> QED
          BY <1>5, <4>1 DEF Modest
      <3>2. CASE o \notin {s} \X slots
        <4>1. o \in try[x].mine
          BY <1>4, <3>2
        <4>2. o[2] = "route" \/ try[x].known[o[1]] = "here" \/ Modest(o)
          BY <1>0, <1>5, <4>1 DEF Marked
        <4> QED
          BY <1>2, <3>2, <4>1, <4>2 DEF Modest
      <3> QED
        BY <3>1, <3>2
    <2>2. kind' # "ping" => try[x].known = try[x].read
      BY <1>0, <1>5 DEF Marked
    <2>3. Marked(x)'
      BY <1>4, <1>5, <2>1, <2>2 DEF Marked
    <2> QED
      BY <1>3, <2>3, <1>pt
  <1>6. CASE try[x].pc = "fail"
    <2>1. Covered(try[x].read, try[x].error)' = Covered(try[x].read, try[x].error)
      BY <1>4 DEF Covered, Here
    <2>2. try[x].todo \subseteq Covered(try[x].read, try[x].error)
      BY <1>0, <1>6 DEF Marked
    <2>3. ASSUME ~try[x].spoiled, NEW o \in try'[x].mine, ~Left(x, o)', o[1] \notin try'[x].todo
          PROVE  IF o[1] \in Covered(try[x].read, try[x].error)
                 THEN rows'[o[1]][o[2]] = "error" ELSE Modest(o)'
      <3>1. CASE o \in {s} \X slots
        <4>1. o[1] = s /\ o[2] = "target"
          BY <1>6, <3>1
        <4> QED
          BY <1>6, <2>2, <4>1
      <3>2. CASE o \notin {s} \X slots
        <4>1. o \in try[x].mine /\ ~Left(x, o)
          BY <1>4, <2>3, <3>2 DEF Left
        <4>2. o[1] # s
          <5>1. o[2] = "target"
            BY <1>1, <4>1 DEF Left
          <5> QED
            BY <1>1, <1>6, <3>2, <4>1, <5>1
        <4>3. o[1] \notin try[x].todo
          BY <1>4, <2>3, <4>2
        <4>4. IF o[1] \in Covered(try[x].read, try[x].error)
              THEN rows[o[1]][o[2]] = "error" ELSE Modest(o)
          BY <1>0, <1>6, <2>3, <4>1, <4>3 DEF Marked
        <4> QED
          BY <1>2, <3>2, <4>1, <4>4 DEF Modest
      <3> QED
        BY <3>1, <3>2
    <2>4. Marked(x)'
      BY <1>4, <1>6, <2>1, <2>2, <2>3 DEF Marked
    <2> QED
      BY <1>3, <2>4, <1>pt
  <1> QED
    BY <1>5, <1>6

\* What an attempt that fails has marked stays marked as far as it was the last
\* to write it.
LEMMA StepMarkedInv == TypeInv /\ MarkedInv /\ [Next]_vars => MarkedInv'
  <1> SUFFICES ASSUME TypeInv, MarkedInv, [Next]_vars PROVE MarkedInv'
    OBVIOUS
  <1>0. /\ try \in [Checkers -> Attempts]
        /\ rows \in [Services -> [target : Result, route : Result]]
        /\ \A y \in Checkers : Marked(y)
    BY TypeInvParts, MarkedParts DEF StateOK, AttemptsOK
  <1>pt. ASSUME \A y \in Checkers : Marked(y)' PROVE MarkedInv'
    BY <1>pt DEF MarkedInv, Marked
  <1>ev. ASSUME NEW x \in Checkers, kind' = kind, rows' = rows,
                \A y \in Checkers \ {x} : try'[y] = try[y], Marked(x)'
         PROVE  MarkedInv'
    <2>1. ASSUME NEW y \in Checkers, y # x PROVE Marked(y)'
      BY <1>0, <1>ev, <2>1, MarkedStays
    <2> QED
      BY <1>ev, <1>pt, <2>1
  <1>1. ASSUME UNCHANGED <<kind, rows, try>> PROVE MarkedInv'
    BY <1>0, <1>1, <1>pt, MarkedStays
  <1>2. ASSUME NEW x \in Checkers, NEW e \in {"error", "deadline"}, Fail(x, e), UNCHANGED <<kind, rows>>,
               try[x].pc \in {"sync", "prune", "check"}
        PROVE  MarkedInv'
    BY <1>2, <1>ev, FailOK, FailMarks
  <1>3. ASSUME NEW x \in Checkers, Finish(x), UNCHANGED <<kind, rows>> PROVE MarkedInv'
    <2>1. try'[x].pc = "idle" /\ \A y \in Checkers \ {x} : try'[y] = try[y]
      BY <1>0, <1>3 DEF Finish, Idle
    <2>2. Marked(x)'
      BY <2>1 DEF Marked
    <2> QED
      BY <1>3, <1>ev, <2>1, <2>2
  <1>4. CASE WorldChanges \/ Rescan \/ Refresh \/ Refreshed \/ Stop \/ Tick
    BY <1>1, <1>4 DEF WorldChanges, Rescan, Refresh, Refreshed, Stop, Tick, environment
  <1>5. ASSUME NEW x \in Checkers, Begin(x) PROVE MarkedInv'
    <2>1. /\ \A y \in Checkers \ {x} : try'[y] = try[y]
          /\ UNCHANGED <<kind, rows>>
      BY <1>0, <1>5 DEF Begin
    <2>2. /\ try'[x].mine = {} /\ try'[x].read = inventory /\ try'[x].known = inventory
          /\ try'[x].pc = FirstStep /\ try'[x].todo = FirstTodo
          /\ try'[x].error = IF Refused THEN "error" ELSE "none"
      BY <1>0, <1>5 DEF Begin, Idle
    <2>3. try'[x].pc = "fail" =>
              /\ try'[x].error = "error"
              /\ try'[x].todo = Covered(inventory, "error")
      BY <2>2 DEF FirstStep, FirstTodo
    <2>4. try'[x].pc = "fail" => try'[x].todo \subseteq Covered(try[x].read, try[x].error)'
      BY <2>1, <2>2, <2>3 DEF Covered, Here
    <2>5. Marked(x)'
      BY <2>1, <2>2, <2>4 DEF Marked, FirstStep
    <2> QED
      BY <1>ev, <2>1, <2>5
  <1>6. ASSUME NEW x \in Checkers, Step(x) PROVE MarkedInv'
    <2>1. CASE Pruned(x)
      <3>1. /\ try'[x].pc = "check" /\ try[x].pc = "prune" /\ try'[x].mine = try[x].mine
            /\ try'[x].known = try[x].known /\ try'[x].read = try[x].read
            /\ \A y \in Checkers \ {x} : try'[y] = try[y]
            /\ UNCHANGED <<kind, rows>>
        BY <1>0, <2>1 DEF Pruned, Attempts, environment
      <3>2. Marked(x)'
        BY <1>0, <3>1 DEF Marked, Modest
      <3> QED
        BY <1>ev, <3>1, <3>2
    <2>2. CASE Succeed(x) \/ EndFail(x) \/ Interrupted(x)
      BY <1>3, <2>2 DEF Succeed, EndFail, Interrupted, environment
    <2>3. ASSUME NEW s \in Services, Prune(x, s) PROVE MarkedInv'
      <3> DEFINE slots == {slot \in {"target", "route"} : <<s, slot>> \in try[x].old}
      <3>1. /\ Done(x, s, slots) /\ try[x].pc = "prune" /\ s \in try[x].todo /\ kind' = kind
        BY <2>3 DEF Prune, Turn, environment
      <3>2. DOMAIN rows[s] = {"target", "route"}
        BY <1>0
      <3>3. \A t \in Services : \A slot \in {"target", "route"} :
                rows'[t][slot] = IF t = s /\ slot \in slots THEN "none" ELSE rows[t][slot]
        BY <1>0, <2>3, <3>2 DEF Prune
      <3>4. slots \in SUBSET {"target", "route"}
        OBVIOUS
      <3> HIDE DEF slots
      <3> QED
        BY <3>1, <3>3, <3>4, DoneKeepsMarked
    <2>4. ASSUME NEW s \in Services, Look(x, s) PROVE MarkedInv'
      <3>1. PICK health \in Observable : try' = [try EXCEPT ![x].seen[s] = health]
        BY <2>4 DEF Look
      <3>2. /\ try'[x].pc = try[x].pc /\ try'[x].mine = try[x].mine
            /\ try'[x].known = try[x].known /\ try'[x].read = try[x].read
            /\ try'[x].todo = try[x].todo /\ try'[x].error = try[x].error
            /\ try'[x].spoiled = try[x].spoiled
            /\ \A y \in Checkers \ {x} : try'[y] = try[y]
        BY <1>0, <3>1 DEF Attempts
      <3>3. UNCHANGED <<kind, rows>>
        BY <2>4 DEF Look, environment
      <3> QED
        BY <1>0, <1>ev, <3>2, <3>3, MarkedStays
    <2>5. ASSUME NEW s \in Services, Put(x, s) PROVE MarkedInv'
      <3>1. /\ Done(x, s, {Slot}) /\ try[x].pc = "check" /\ s \in try[x].todo /\ kind' = kind
        BY <2>5 DEF Put, Turn, environment
      <3>2. Slot \in {"target", "route"} /\ Elsewhere \in {"none", "not_applicable"}
        BY DEF Slot, Elsewhere
      <3>3. /\ \A t \in Services : \A slot \in {"target", "route"} :
                   ~ (t = s /\ slot \in {Slot}) => rows'[t][slot] = rows[t][slot]
            /\ try[x].known[s] # "here" => rows'[s][Slot] = Elsewhere
        BY <1>0, <2>5, <3>2 DEF Put
      <3> QED
        BY <3>1, <3>2, <3>3, DoneKeepsMarked
    <2>6. ASSUME NEW s \in Services, Mark(x, s) PROVE MarkedInv'
      <3>1. Done(x, s, {"target"}) /\ try[x].pc = "fail" /\ s \in try[x].todo /\ kind' = kind
        BY <2>6 DEF Mark, Turn, environment
      <3>2. /\ \A t \in Services : \A slot \in {"target", "route"} :
                   ~ (t = s /\ slot \in {"target"}) => rows'[t][slot] = rows[t][slot]
            /\ rows'[s].target = "error"
        BY <1>0, <2>6 DEF Mark
      <3> QED
        BY <3>1, <3>2, DoneKeepsMarked
    <2>7. CASE Ask(x)
      BY <1>1, <2>7 DEF Ask
    <2>8. CASE Sync(x)
      <3>0. PICK h \in entry :
                try' = [try EXCEPT ![x].pc = "check", ![x].known = Hosts(h), ![x].todo = h]
        BY <2>8 DEF Sync
      <3>1. /\ try[x].pc = "sync" /\ try'[x].pc = "check" /\ try'[x].mine = try[x].mine
            /\ \A y \in Checkers \ {x} : try'[y] = try[y]
            /\ UNCHANGED <<kind, rows>>
        BY <1>0, <2>8, <3>0 DEF Sync, Attempts, environment
      <3>2. kind = "ping" /\ try'[x].mine = {}
        BY <1>0, <3>1 DEF Marked
      <3>3. Marked(x)'
        BY <3>1, <3>2 DEF Marked
      <3> QED
        BY <1>ev, <3>1, <3>3
    <2> QED
      BY <1>6, <2>1, <2>2, <2>3, <2>4, <2>5, <2>6, <2>7, <2>8 DEF Step
  <1>7. ASSUME NEW x \in Checkers, Deadline(x) PROVE MarkedInv'
    <2>1. CASE Fail(x, "deadline")
      BY <1>2, <1>7, <2>1 DEF Deadline, environment
    <2>2. CASE ~Fail(x, "deadline")
      <3>1. /\ try'[x].pc = try[x].pc /\ try'[x].mine = try[x].mine
            /\ try'[x].known = try[x].known /\ try'[x].read = try[x].read
            /\ try'[x].todo = try[x].todo /\ try'[x].error = try[x].error
            /\ try'[x].spoiled = try[x].spoiled
            /\ \A y \in Checkers \ {x} : try'[y] = try[y]
        BY <1>0, <1>7, <2>2 DEF Deadline, Attempts
      <3>2. UNCHANGED <<kind, rows>>
        BY <1>7 DEF Deadline, environment
      <3> QED
        BY <1>0, <1>ev, <3>1, <3>2, MarkedStays
    <2> QED
      BY <2>1, <2>2
  <1>8. ASSUME NEW x \in Checkers, NEW s \in Services, MarkFails(x, s) PROVE MarkedInv'
    <2>1. /\ try'[x].spoiled /\ try'[x].pc = "fail" /\ try[x].pc = "fail"
          /\ try'[x].todo \subseteq try[x].todo
          /\ try'[x].read = try[x].read /\ try'[x].error = try[x].error
          /\ \A y \in Checkers \ {x} : try'[y] = try[y]
          /\ UNCHANGED <<kind, rows>>
      BY <1>0, <1>8 DEF MarkFails, Attempts, environment
    <2>2. Covered(try[x].read, try[x].error)' = Covered(try[x].read, try[x].error)
      BY <2>1 DEF Covered, Here
    <2>3. Marked(x)'
      BY <1>0, <2>1, <2>2 DEF Marked
    <2> QED
      BY <1>ev, <2>1, <2>3
  <1>9. ASSUME NEW x \in Checkers, BeginFails(x) PROVE MarkedInv'
    BY <1>1, <1>9 DEF BeginFails
  <1>10. ASSUME NEW x \in Checkers, SyncFails(x) \/ PutFails(x) PROVE MarkedInv'
    BY <1>2, <1>10 DEF SyncFails, PutFails, environment
  <1>11. CASE UNCHANGED vars
    BY <1>1, <1>11 DEF vars
  <1> QED
    BY <1>4, <1>5, <1>6, <1>7, <1>8, <1>9, <1>10, <1>11 DEF Next

\* recordTargetFailure: an attempt that fails half way, beside another checker and
\* through scans and refreshes of the hosts, leaves no result of its own at the target
\* that says otherwise: what its failure covers says "error", the rest that nothing is
\* checked here.  Results of routes stay, and those of hosts that a refresh brought
\* after the services were read.
THEOREM FailuresAreWhole == Spec => FailureIsWhole
  <1>1. Init => MarkedInv
    BY DEF Init, MarkedInv, Idle
  <1>2. ASSUME TypeInv, MarkedInv, [Next]_vars,
               NEW x \in Checkers, live, try[x].pc = "fail", try'[x].pc = "idle", ~try[x].spoiled,
               NEW o \in try[x].mine
        PROVE  \/ Left(x, o)
               \/ IF o[1] \in Covered(try[x].read, try[x].error) THEN rows[o[1]][o[2]] = "error"
                  ELSE rows[o[1]][o[2]] \in {"none", "not_applicable"}
    <2>0. try \in [Checkers -> Attempts]
      BY <1>2 DEF TypeInv
    <2>1. ASSUME NEW y \in Checkers, y # x, \A z \in Checkers \ {y} : try'[z] = try[z] PROVE FALSE
      BY <1>2, <2>1
    <2>2. ASSUME try'[x].pc = try[x].pc PROVE FALSE
      BY <1>2, <2>2
    <2>3. ASSUME NEW y \in Checkers, NEW e \in {"error", "deadline"}, Fail(y, e) PROVE FALSE
      BY <1>2, <2>2, <2>3, FailOK
    <2>4. ASSUME NEW y \in Checkers, NEW t \in Services, NEW slots \in SUBSET {"target", "route"},
                 Done(y, t, slots), try[y].pc # "idle"
          PROVE  FALSE
      BY <1>2, <2>2, <2>4, DoneOK
    <2>5. PICK y \in Checkers : \/ Begin(y) \/ BeginFails(y) \/ Step(y)
                                \/ SyncFails(y) \/ PutFails(y) \/ Deadline(y)
                                \/ \E t \in Services : MarkFails(y, t)
      BY <1>2, <2>2 DEF Next, vars, WorldChanges, Rescan, Refresh, Refreshed, Stop, Tick
    <2>6. ~ (BeginFails(y) \/ SyncFails(y) \/ PutFails(y) \/ Fail(y, "deadline") \/ Ask(y))
      BY <2>2, <2>3 DEF BeginFails, SyncFails, PutFails, Ask
    <2>7. ASSUME NEW t \in Services PROVE ~ (Prune(y, t) \/ Put(y, t) \/ Mark(y, t))
      <3>1. /\ {slot \in {"target", "route"} : <<t, slot>> \in try[y].old} \in SUBSET {"target", "route"}
            /\ {Slot} \in SUBSET {"target", "route"} /\ {"target"} \in SUBSET {"target", "route"}
        BY DEF Slot
      <3> QED
        BY <2>4, <3>1 DEF Prune, Put, Mark
    <2>8. y = x
      <3>1. ASSUME y # x PROVE \A z \in Checkers \ {y} : try'[z] = try[z]
        BY <2>0, <2>5, <2>6, <2>7
           DEF Begin, Step, Sync, Pruned, Succeed, EndFail, Interrupted, Finish, Look, Deadline, MarkFails
      <3> QED
        BY <2>1, <3>1
    <2>9. EndFail(x)
      <3>1. ~ Begin(x) /\ ~ Succeed(x) /\ ~ Interrupted(x) /\ ~ Pruned(x) /\ ~ Sync(x)
        BY <1>2 DEF Begin, Succeed, Interrupted, Writable, Pruned, Sync
      <3>2. ~ Deadline(x) /\ \A t \in Services : ~ Look(x, t)
        BY <1>2 DEF Deadline, Look
      <3>3. ASSUME NEW t \in Services, MarkFails(x, t) PROVE FALSE
        BY <2>0, <2>2, <3>3 DEF MarkFails, Attempts
      <3> QED
        BY <2>5, <2>6, <2>7, <2>8, <3>1, <3>2, <3>3 DEF Step
    <2>10. o[1] \notin try[x].todo
      BY <2>9 DEF EndFail
    <2> QED
      BY <1>2, <2>10 DEF MarkedInv, Modest
  <1>3. TypeInv /\ MarkedInv /\ [Next]_vars =>
            \A x \in Checkers : (live /\ try[x].pc = "fail" /\ try'[x].pc = "idle" /\ ~try[x].spoiled) =>
                \A o \in try[x].mine :
                    \/ Left(x, o)
                    \/ IF o[1] \in Covered(try[x].read, try[x].error) THEN rows[o[1]][o[2]] = "error"
                       ELSE rows[o[1]][o[2]] \in {"none", "not_applicable"}
    BY <1>2
  <1> QED
    BY <1>1, <1>3, StepMarkedInv, TypeCorrect, PTL DEF Spec, FailureIsWhole

-----------------------------------------------------------------------------
(* Observations of Kubernetes workloads *)

Counter == Nat \cup {Absent}

Workload  == [desired : Counter, current : Nat, ready : Nat, available : Nat]
DaemonSet == [desired : Counter, ready : Nat, available : Counter, updated : Counter, misscheduled : Nat]
Job       == [completions : Counter, succeeded : Nat, failed : Nat, active : Nat,
              complete : BOOLEAN, failedCondition : BOOLEAN]
CronJob   == [suspended : BOOLEAN, active : Nat, lastSchedule : Counter, lastSuccess : Counter]

Verdicts == {"healthy", "degraded", "unhealthy"}

-----------------------------------------------------------------------------
(* Kubernetes workloads *)

\* deploymentHealth: of two states of a Deployment that differ in the number of
\* ready and available replicas only, the one with more of both has no worse health.
THEOREM DeploymentMonotone ==
    ASSUME NEW a \in Workload, NEW b \in Workload,
           a.desired = b.desired, a.current = b.current,
           a.ready <= b.ready, a.available <= b.available
    PROVE  Rank(DeploymentHealth(a)) <= Rank(DeploymentHealth(b))
  <1>1. CASE ~Has(a.desired)
    BY <1>1 DEF DeploymentHealth, Rank
  <1>2. CASE Has(a.desired) /\ a.desired = 0
    BY <1>2 DEF DeploymentHealth, Rank
  <1>3. CASE Has(a.desired) /\ a.desired # 0
    <2>1. a.desired \in Nat /\ a.ready \in Nat /\ a.available \in Nat
          /\ b.ready \in Nat /\ b.available \in Nat /\ Has(b.desired)
      BY <1>3 DEF Workload, Counter, Has, Absent
    <2> QED
      BY <1>3, <2>1 DEF DeploymentHealth, Rank
  <1> QED
    BY <1>1, <1>2, <1>3

\* statefulSetHealth: likewise for the ready replicas of a StatefulSet.
THEOREM StatefulSetMonotone ==
    ASSUME NEW a \in Workload, NEW b \in Workload,
           a.desired = b.desired, a.current = b.current, a.ready <= b.ready
    PROVE  Rank(StatefulSetHealth(a)) <= Rank(StatefulSetHealth(b))
  <1>1. CASE ~Has(a.desired)
    BY <1>1 DEF StatefulSetHealth, Rank
  <1>2. CASE Has(a.desired) /\ a.desired = 0
    BY <1>2 DEF StatefulSetHealth, Rank
  <1>3. CASE Has(a.desired) /\ a.desired # 0
    <2>1. a.desired \in Nat /\ a.ready \in Nat /\ b.ready \in Nat /\ Has(b.desired)
      BY <1>3 DEF Workload, Counter, Has, Absent
    <2> QED
      BY <1>3, <2>1 DEF StatefulSetHealth, Rank
  <1> QED
    BY <1>1, <1>2, <1>3

\* daemonSetHealth: likewise for a DaemonSet, whose available and updated pods may be
\* unreported, as long as the same counters are reported in both states.
THEOREM DaemonSetMonotone ==
    ASSUME NEW a \in DaemonSet, NEW b \in DaemonSet,
           a.desired = b.desired, a.misscheduled = b.misscheduled,
           Has(a.available) = Has(b.available), Has(a.updated) = Has(b.updated),
           a.ready <= b.ready, a.available <= b.available, a.updated <= b.updated
    PROVE  Rank(DaemonSetHealth(a)) <= Rank(DaemonSetHealth(b))
  <1>1. CASE ~Has(a.desired)
    BY <1>1 DEF DaemonSetHealth, Rank
  <1>2. CASE Has(a.desired) /\ a.desired = 0
    BY <1>2 DEF DaemonSetHealth, Rank
  <1>3. CASE Has(a.desired) /\ a.desired # 0
    <2>1. /\ a.desired \in Nat \ {0} /\ a.ready \in Nat /\ b.ready \in Nat /\ Has(b.desired)
          /\ a.misscheduled \in Nat
          /\ a.available \in Nat \cup {-1} /\ b.available \in Nat \cup {-1}
          /\ a.updated \in Nat \cup {-1} /\ b.updated \in Nat \cup {-1}
      BY <1>3 DEF DaemonSet, Counter, Has, Absent
    <2>2. CASE a.ready >= a.desired
      BY <1>3, <2>1, <2>2 DEF DaemonSetHealth, Rank, Has, Absent
    <2>3. CASE ~(a.ready >= a.desired)
      <3>1. CASE a.ready > 0 \/ a.available > 0 \/ a.updated > 0
        BY <1>3, <2>1, <2>3, <3>1 DEF DaemonSetHealth, Rank, Has, Absent
      <3>2. CASE ~(a.ready > 0 \/ a.available > 0 \/ a.updated > 0)
        BY <1>3, <2>1, <2>3, <3>2 DEF DaemonSetHealth, Rank, Has, Absent
      <3> QED
        BY <3>1, <3>2
    <2> QED
      BY <2>2, <2>3
  <1> QED
    BY <1>1, <1>2, <1>3

\* jobHealth: of two states of a Job under the same conditions, the one with more
\* succeeded, failed and active pods has no worse health: pods that fail, as long as the
\* controller has not given the Job up, never count against it.
THEOREM JobMonotone ==
    ASSUME NEW a \in Job, NEW b \in Job,
           a.completions = b.completions, a.complete = b.complete,
           a.failedCondition = b.failedCondition,
           a.succeeded <= b.succeeded, a.failed <= b.failed, a.active <= b.active
    PROVE  Rank(JobHealth(a)) <= Rank(JobHealth(b))
  <1>1. /\ a.succeeded \in Nat /\ b.succeeded \in Nat /\ a.failed \in Nat /\ b.failed \in Nat
        /\ a.active \in Nat /\ b.active \in Nat /\ a.completions \in Nat \cup {-1}
    BY DEF Job, Counter, Absent
  <1> DEFINE completions == IF Count(a.completions) = 0 THEN 1 ELSE a.completions
  <1>2. completions \in Nat
    BY <1>1 DEF Count, Absent
  <1> HIDE DEF completions
  <1>3. CASE b.complete \/ b.succeeded >= completions
    <2>1. JobHealth(b) = "healthy"
      BY <1>3 DEF JobHealth, completions
    <2> QED
      BY <2>1 DEF JobHealth, Rank
  <1>4. CASE ~(b.complete \/ b.succeeded >= completions)
    <2>0. a.succeeded >= completions => b.succeeded >= completions
      BY <1>1, <1>2
    <2>1. ~a.complete /\ ~(a.succeeded >= completions)
      BY <1>4, <2>0
    <2>2. CASE a.failedCondition
      <3>1. JobHealth(a) = "unhealthy"
        BY <2>1, <2>2 DEF JobHealth, completions
      <3> QED
        BY <3>1, <1>4, <2>2 DEF JobHealth, completions, Rank
    <2>3. CASE ~a.failedCondition
      <3>1. JobHealth(a) = IF a.active > 0 \/ a.succeeded > 0 \/ a.failed > 0
                           THEN "degraded" ELSE "unknown"
        BY <2>1, <2>3 DEF JobHealth, completions
      <3>2. JobHealth(b) = IF b.active > 0 \/ b.succeeded > 0 \/ b.failed > 0
                           THEN "degraded" ELSE "unknown"
        BY <1>4, <2>3 DEF JobHealth, completions
      <3> QED
        BY <1>1, <3>1, <3>2 DEF Rank
    <2> QED
      BY <2>2, <2>3
  <1> QED
    BY <1>3, <1>4

\* cronJobHealth: a later success, or a first one, never makes the health of a CronJob
\* worse, and one that is no earlier than the last schedule makes it healthy, unless a
\* run is going on or the CronJob is suspended.
THEOREM CronJobSuccessCounts ==
    ASSUME NEW a \in CronJob, NEW b \in CronJob,
           a.suspended = b.suspended, a.active = b.active, a.lastSchedule = b.lastSchedule,
           a.lastSuccess <= b.lastSuccess
    PROVE  /\ Rank(CronJobHealth(a)) <= Rank(CronJobHealth(b))
           /\ Has(b.lastSuccess) /\ b.lastSuccess >= b.lastSchedule /\ ~b.suspended /\ b.active = 0
                  => CronJobHealth(b) = "healthy"
  <1>1. /\ a.lastSuccess \in Nat \cup {-1} /\ b.lastSuccess \in Nat \cup {-1}
        /\ a.lastSchedule \in Nat \cup {-1} /\ a.active \in Nat
    BY DEF CronJob, Counter, Absent
  <1>2. CASE a.suspended \/ a.active > 0
    <2>1. CronJobHealth(a) = "degraded"
      BY <1>2 DEF CronJobHealth
    <2>2. b.suspended \/ b.active > 0
      BY <1>2
    <2>3. CronJobHealth(b) = "degraded"
      BY <2>2 DEF CronJobHealth
    <2>4. ~(~b.suspended /\ b.active = 0)
      BY <1>1, <2>2
    <2> QED
      BY <2>1, <2>3, <2>4 DEF Rank
  <1>3. CASE ~(a.suspended \/ a.active > 0)
    BY <1>1, <1>3 DEF CronJobHealth, Rank, Has, Absent
  <1> QED
    BY <1>2, <1>3

-----------------------------------------------------------------------------
(* Containers *)

\* A container has one of three verdicts.
LEMMA ContainerVerdict ==
    ASSUME NEW c
    PROVE  ContainerHealth(c) \in Verdicts
  BY DEF ContainerHealth, Verdicts

\* dockerStatus with worseDockerHealth: the health of a service that has containers is
\* that of one of them, and no container is in a worse state.
THEOREM DockerHealthIsWorst ==
    ASSUME NEW containers, containers # {}
    PROVE  /\ \A c \in containers : Rank(DockerHealth(containers)) <= Rank(ContainerHealth(c))
           /\ \E c \in containers : DockerHealth(containers) = ContainerHealth(c)
  <1>1. CASE \E c \in containers : ContainerHealth(c) = "unhealthy"
    <2>1. DockerHealth(containers) = "unhealthy"
      BY <1>1 DEF DockerHealth
    <2> QED
      BY <1>1, <2>1, ContainerVerdict DEF Rank, Verdicts
  <1>2. CASE /\ ~ \E c \in containers : ContainerHealth(c) = "unhealthy"
             /\ \E c \in containers : ContainerHealth(c) = "degraded"
    <2>1. DockerHealth(containers) = "degraded"
      BY <1>2 DEF DockerHealth
    <2> QED
      BY <1>2, <2>1, ContainerVerdict DEF Rank, Verdicts
  <1>3. CASE \A c \in containers : ContainerHealth(c) \notin {"unhealthy", "degraded"}
    <2>1. DockerHealth(containers) = "healthy"
      BY <1>3 DEF DockerHealth
    <2>2. \A c \in containers : ContainerHealth(c) = "healthy"
      BY <1>3, ContainerVerdict DEF Verdicts
    <2> QED
      BY <2>1, <2>2 DEF Rank
  <1> QED
    BY <1>1, <1>2, <1>3
=============================================================================
