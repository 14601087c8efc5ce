--------------------------- MODULE WorkloadHealth ---------------------------
(***************************************************************************)
(* What the monitors make of an observation: the health of a service from  *)
(* its containers, of a Kubernetes workload from its counters, of a route  *)
(* from the answer to a request, and of a host from a ping.                *)
(***************************************************************************)
EXTENDS Integers

\* A counter that the object does not have.
Absent == -1
Has(n) == n # Absent
Count(n) == IF n = Absent THEN 0 ELSE n

\* healthPriority, for the states an observation yields; the worst first.
Rank(h) == IF h = "unhealthy" THEN 0 ELSE IF h = "degraded" THEN 1 ELSE IF h = "healthy" THEN 2 ELSE -1

-----------------------------------------------------------------------------
(* Containers: [state, health], where health is what Docker or its status *)
(* line says, "" when neither says anything.                              *)

ContainerHealth(c) ==
    IF c.state \in {"restarting", "paused"} THEN "degraded"
    ELSE IF c.state # "running" THEN "unhealthy"
    ELSE IF c.health \in {"", "healthy", "none"} THEN "healthy"
    ELSE IF c.health = "starting" THEN "degraded"
    ELSE "unhealthy"

\* Of a service's containers the worst counts.
DockerHealth(containers) ==
    IF containers = {} THEN "unknown"
    ELSE IF \E c \in containers : ContainerHealth(c) = "unhealthy" THEN "unhealthy"
    ELSE IF \E c \in containers : ContainerHealth(c) = "degraded" THEN "degraded"
    ELSE "healthy"

-----------------------------------------------------------------------------
(* Kubernetes workloads *)

DeploymentHealth(o) ==
    IF ~Has(o.desired) THEN "unknown"
    ELSE IF o.desired = 0 THEN (IF o.current = 0 THEN "healthy" ELSE "degraded")
    ELSE IF o.ready >= o.desired \/ o.available >= o.desired THEN "healthy"
    ELSE IF o.ready > 0 \/ o.available > 0 THEN "degraded"
    ELSE "unhealthy"

StatefulSetHealth(o) ==
    IF ~Has(o.desired) THEN "unknown"
    ELSE IF o.desired = 0 THEN (IF o.current = 0 THEN "healthy" ELSE "degraded")
    ELSE IF o.ready >= o.desired THEN "healthy"
    ELSE IF o.ready > 0 THEN "degraded"
    ELSE "unhealthy"

\* available and updated may be absent: an older API server does not report them.
DaemonSetHealth(o) ==
    IF ~Has(o.desired) THEN "unknown"
    ELSE IF o.desired = 0 THEN (IF o.misscheduled > 0 THEN "unhealthy" ELSE "healthy")
    ELSE IF o.ready >= o.desired
         THEN IF \/ o.misscheduled > 0
                 \/ Has(o.available) /\ o.available < o.desired
                 \/ Has(o.updated) /\ o.updated < o.desired
              THEN "degraded" ELSE "healthy"
    ELSE IF o.ready > 0 \/ o.available > 0 \/ o.updated > 0 THEN "degraded"
    ELSE "unhealthy"

JobHealth(o) ==
    LET completions == IF Count(o.completions) = 0 THEN 1 ELSE o.completions
    IN IF o.complete \/ o.succeeded >= completions THEN "healthy"
       ELSE IF o.failedCondition THEN "unhealthy"
       ELSE IF o.active > 0 \/ o.succeeded > 0 \/ o.failed > 0 THEN "degraded"
       ELSE "unknown"

\* lastSchedule and lastSuccess are times.
CronJobHealth(o) ==
    IF o.suspended \/ o.active > 0 THEN "degraded"
    ELSE IF Has(o.lastSuccess) /\ (~Has(o.lastSchedule) \/ o.lastSuccess >= o.lastSchedule) THEN "healthy"
    ELSE IF Has(o.lastSchedule) THEN "unhealthy"
    ELSE "unknown"

KubeHealth(o) ==
    IF o.kind = "Deployment" THEN DeploymentHealth(o)
    ELSE IF o.kind = "StatefulSet" THEN StatefulSetHealth(o)
    ELSE IF o.kind = "DaemonSet" THEN DaemonSetHealth(o)
    ELSE IF o.kind = "Job" THEN JobHealth(o)
    ELSE IF o.kind = "CronJob" THEN CronJobHealth(o)
    ELSE "not_applicable"

-----------------------------------------------------------------------------
(* Routes and hosts: [head, get] are the codes of the two requests, *)
(* NoAnswer when none came and Blocked when the policy forbids it.  *)

NoAnswer == 0
Blocked  == -1

RouteCode(a) == IF a.head = 405 THEN a.get ELSE a.head

RouteHealth(a) ==
    LET code == RouteCode(a)
    IN IF code = Blocked THEN "not_applicable"
       ELSE IF code = NoAnswer THEN "error"
       ELSE IF code \in 200..399 \cup {401, 403} THEN "healthy"
       ELSE IF code \in {404, 410} THEN "unhealthy"
       ELSE IF code \in 400..499 THEN "degraded"
       ELSE "unhealthy"

PingHealth(a) == IF a = "reply" THEN "healthy" ELSE IF a = "silent" THEN "unhealthy" ELSE "error"
=============================================================================
