------------------------------ MODULE Registry ------------------------------
(***************************************************************************)
(* master/registry.py: the table of workers and the file of scrape         *)
(* targets.  Every method takes the registry's lock, does not yield while  *)
(* it holds it, and is therefore one atomic step.                          *)
(*                                                                         *)
(* Left out: the statistics (completions, latency, cpu, ram and gpu        *)
(* figures), which only the strategies' choice and the metrics read, and   *)
(* the failure to write the targets file, which the code logs and ignores. *)
(***************************************************************************)
EXTENDS Common

CONSTANTS
    Healths,      \* the ollama_healthy a worker may report
    Reports,      \* the active_requests a heartbeat may carry
    Overloads     \* whether a heartbeat's load score may reach 0.9

ASSUME HealthsAssumption == Healths \subseteq BOOLEAN
ASSUME ReportsAssumption == Reports \subseteq Nat
ASSUME OverloadsAssumption == Overloads \subseteq BOOLEAN

VARIABLES
    workers,      \* _workers: node id -> record, Unregistered for no key
    targets       \* the node ids in the file Prometheus discovers workers by

regVars == <<workers, targets>>

RegTypeOK ==
    /\ workers \in [Nodes -> WorkerRecord]
    /\ targets \subseteq Nodes

RegInit ==
    /\ workers = [n \in Nodes |-> Unregistered]
    /\ targets = {}

Registered == {n \in Nodes : workers[n].status # "absent"}
IsSchedulable(n) == MaySchedule(workers[n])
Schedulable == {n \in Nodes : IsSchedulable(n)}

\* _write_prometheus_targets: called after the change it reports.
WriteTargets ==
    targets' = {n \in Nodes : workers'[n].status \notin {"absent", "offline"}}

SetStatus(n, s) == workers' = [workers EXCEPT ![n].status = s]

-----------------------------------------------------------------------------
\* Mutant: a new worker is not announced.
RegisterUnannounced(n, h) ==
    /\ workers' = [workers EXCEPT ![n] =
                     [status  |-> IF h THEN "healthy" ELSE "unhealthy",
                      ollama  |-> h,
                      overdue |-> FALSE,
                      active  |-> @.active]]
    /\ UNCHANGED targets

\* register: a known worker keeps its record (and its count of active
\* requests), and then the targets are not written.
Register(n, h) ==
    /\ workers' = [workers EXCEPT ![n] =
                     [status  |-> IF h THEN "healthy" ELSE "unhealthy",
                      ollama  |-> h,
                      overdue |-> FALSE,
                      active  |-> @.active]]
    /\ IF n \in Registered THEN UNCHANGED targets ELSE WriteTargets

\* Mutants: a heartbeat that overlooks a dead Ollama, and one that revives.
HeartbeatStatusTrusting(status, h, overloaded) ==
    IF status \in {"draining", "unhealthy", "offline"} THEN status
    ELSE IF overloaded THEN "busy" ELSE "healthy"

HeartbeatStatusReviving(status, h, overloaded) ==
    IF ~h THEN "unhealthy"
    ELSE IF status \in {"draining", "offline"} THEN status
    ELSE IF overloaded THEN "busy" ELSE "healthy"

\* The status a heartbeat leaves behind.
HeartbeatStatus(status, h, overloaded) ==
    IF ~h THEN "unhealthy"
    ELSE IF status \in {"draining", "unhealthy", "offline"} THEN status
    ELSE IF overloaded THEN "busy" ELSE "healthy"

\* update_heartbeat of a known worker; for another one it changes nothing
\* and the worker is told to register again.
UpdateHeartbeat(n, h, reported, overloaded) ==
    /\ n \in Registered
    /\ workers' = [workers EXCEPT ![n] =
                     [status  |-> HeartbeatStatus(@.status, h, overloaded),
                      ollama  |-> h,
                      overdue |-> FALSE,
                      active  |-> reported]]
    /\ UNCHANGED targets

\* deregister: the worker is left to drain.
Deregister(n) ==
    /\ n \in Registered
    /\ SetStatus(n, "draining")
    /\ WriteTargets

\* Mutant: a worker that serves is left as it is.
MarkUnhealthySparing(n) ==
    IF n \in Registered /\ ~IsSchedulable(n)
         /\ workers[n].status \notin {"offline", "draining"}
    THEN SetStatus(n, "unhealthy") /\ WriteTargets
    ELSE UNCHANGED regVars

\* mark_unhealthy: no effect on a worker that drains, is offline or is gone.
MarkUnhealthy(n) ==
    IF n \in Registered /\ workers[n].status \notin {"offline", "draining"}
    THEN SetStatus(n, "unhealthy") /\ WriteTargets
    ELSE UNCHANGED regVars

\* Mutant: the targets are not written after a deletion.
ForgetQuietly(S) ==
    /\ workers' = [n \in Nodes |-> IF n \in S THEN Unregistered ELSE workers[n]]
    /\ UNCHANGED targets

\* The deletion of a set of records, common to remove and purge_inactive.
Forget(S) ==
    /\ workers' = [n \in Nodes |-> IF n \in S THEN Unregistered ELSE workers[n]]
    /\ WriteTargets

Remove(n) == n \in Registered /\ Forget({n})

Inactive ==
    {n \in Nodes : workers[n].status \in {"offline", "draining", "unhealthy"}}

PurgeInactive == Inactive # {} /\ Forget(Inactive)

\* mark_offline: nothing in the repository calls it.
MarkOffline(n) ==
    /\ n \in Registered
    /\ SetStatus(n, "offline")
    /\ UNCHANGED targets

IncrementActive(n) ==
    /\ workers' = IF n \in Registered
                  THEN [workers EXCEPT ![n].active = @ + 1]
                  ELSE workers
    /\ UNCHANGED targets

\* Mutant: the count is not kept from falling below zero.
DecrementActiveUnfloored(n, times) ==
    /\ workers' = [workers EXCEPT ![n].active = @ - times]
    /\ UNCHANGED targets

\* decrement_active, called the given number of times in a row (the record of
\* an absent worker counts 0, so the code's guard covers it).
DecrementActive(n, times) ==
    /\ workers' = [workers EXCEPT ![n].active =
                     IF @ > times THEN @ - times ELSE 0]
    /\ UNCHANGED targets

\* The passing of time: no heartbeat of n for longer than the timeout.
FallOverdue(n) ==
    /\ n \in Registered
    /\ ~workers[n].overdue
    /\ workers' = [workers EXCEPT ![n].overdue = TRUE]
    /\ UNCHANGED targets

-----------------------------------------------------------------------------
\* The registry alone, every method called in any order.
RegNext ==
    \/ PurgeInactive
    \/ \E n \in Nodes :
         \/ \E h \in Healths : Register(n, h)
         \/ \E h \in Healths, a \in Reports, o \in Overloads :
              UpdateHeartbeat(n, h, a, o)
         \/ Deregister(n)
         \/ MarkUnhealthy(n)
         \/ Remove(n)
         \/ MarkOffline(n)
         \/ IncrementActive(n)
         \/ \E times \in {1, 2} : DecrementActive(n, times)
         \/ FallOverdue(n)

RegSpec == RegInit /\ [][RegNext]_regVars

-----------------------------------------------------------------------------
\* A worker whose status says that it serves has a running Ollama: the two
\* fields is_schedulable tests are never in conflict, whichever of the
\* registration, the heartbeat and the monitor wrote them last.
HealthyMeansOllama ==
    \A n \in Nodes :
        workers[n].status \in {"healthy", "busy"} => workers[n].ollama

\* No forgotten worker stays in the file Prometheus scrapes by.
TargetsAreRegistered == targets \subseteq Registered

\* A worker that left the schedule (drained, unhealthy, offline or forgotten)
\* comes back by a registration and by nothing else: no heartbeat, however
\* healthy, revives it.
OnlyRegisterRevives ==
    [][\A n \in Nodes :
         ~IsSchedulable(n) /\ IsSchedulable(n)' =>
           Register(n, TRUE)]_regVars
=============================================================================
