------------------------------- MODULE Master -------------------------------
(***************************************************************************)
(* The master: master/scheduler.py, master/health_monitor.py and the       *)
(* handlers in master/routers, over the registry and the task queue.       *)
(*                                                                         *)
(* All of it runs on one asyncio event loop, so a coroutine runs alone     *)
(* until it awaits something that is not ready: an action is the code from *)
(* one such await to the next.  The registry's methods never suspend, and  *)
(* the queue's get and put suspend only when it is empty or full.          *)
(*                                                                         *)
(* Coroutines that are alike are counted: which of the _dispatch calls of  *)
(* a request wakes first makes no difference to what it does next.         *)
(***************************************************************************)
EXTENDS Registry, TaskQueue

CONSTANTS
    MaxRetries,   \* max_retries of the scheduler
    MaxLapses     \* bound: how often workers fall silent, all together

ASSUME MaxRetriesAssumption == MaxRetries \in Nat
ASSUME MaxLapsesAssumption == MaxLapses \in Nat

VARIABLES
    ready,        \* the _dispatch coroutines created and not yet started
    sleeping,     \* request -> how many _dispatch calls sleep for want of a worker
    putting,      \* request -> how many _dispatch calls are blocked in requeue
    posts,        \* request -> node -> how many _dispatch calls await its answer
    client,       \* request -> what the caller of POST /infer has been told
    monitorAt,    \* where the health monitor is suspended or running
    listed,       \* overdue records of the monitor's list it has not visited
    orphans,      \* the same, for records deleted since it made the list
    monNode,      \* the worker whose requests the monitor recovers
    left,         \* the requests of its list the monitor has not looked at
    recoveries,   \* history: request -> how often the monitor requeued it
    lapses        \* history: how often a worker has fallen silent

dispatchVars == <<ready, sleeping, putting, posts>>
monitorVars == <<monitorAt, listed, orphans, monNode, left>>
vars == <<regVars, queueVars, dispatchVars, client, monitorVars,
          recoveries, lapses>>

ClientStates == {"new", "refused", "waiting", "result", "error", "empty"}
MonitorStates == {"sleeping", "scanning", "recovering", "putting"}

TypeOK ==
    /\ RegTypeOK
    /\ QueueTypeOK
    /\ ready \in Seq(Requests)
    /\ sleeping \in [Requests -> Nat]
    /\ putting \in [Requests -> Nat]
    /\ posts \in [Requests -> [Nodes -> Nat]]
    /\ client \in [Requests -> ClientStates]
    /\ monitorAt \in MonitorStates
    /\ listed \subseteq Nodes
    /\ orphans \subseteq Nodes
    /\ monNode \in Nodes \cup {NoNode}
    /\ left \subseteq Requests
    /\ recoveries \in [Requests -> Nat]
    /\ lapses \in Nat

Init ==
    /\ RegInit
    /\ QueueInit
    /\ ready = <<>>
    /\ sleeping = [r \in Requests |-> 0]
    /\ putting = [r \in Requests |-> 0]
    /\ posts = [r \in Requests |-> [n \in Nodes |-> 0]]
    /\ client = [r \in Requests |-> "new"]
    /\ monitorAt = "sleeping"
    /\ listed = {}
    /\ orphans = {}
    /\ monNode = NoNode
    /\ left = {}
    /\ recoveries = [r \in Requests |-> 0]
    /\ lapses = 0

\* The monitor's pass over the workers holds the loop until a put blocks it.
LoopFree == monitorAt \in {"sleeping", "putting"}

More(f, r) == [f EXCEPT ![r] = @ + 1]
Less(f, r) == [f EXCEPT ![r] = @ - 1]

-----------------------------------------------------------------------------
(* POST /infer. *)

NextCall(r) == client[r] = "new" /\ \A s \in Requests : s < r => client[s] # "new"

\* One step: neither enqueue, which finds room, nor register_waiter suspends.
InferAccepted(r) ==
    /\ LoopFree
    /\ NextCall(r)
    /\ Enqueue(r)
    /\ RegisterWaiter(r)
    /\ client' = [client EXCEPT ![r] = "waiting"]
    /\ UNCHANGED <<regVars, dispatchVars, monitorVars, recoveries, lapses>>

InferRefused(r) ==
    /\ LoopFree
    /\ NextCall(r)
    /\ QueueFull
    /\ client' = [client EXCEPT ![r] = "refused"]
    /\ UNCHANGED <<regVars, queueVars, dispatchVars, monitorVars, recoveries,
                   lapses>>

\* Mutant: the result is looked at before the error.
ReplyOfResultFirst(r) ==
    IF task[r].result THEN "result"
    ELSE IF task[r].error THEN "error" ELSE "empty"

\* What infer tells its caller when the wait is over: an error if there is
\* one, and else the result field, which is null before the completion.
ReplyOf(r) ==
    IF task[r].error THEN "error"
    ELSE IF task[r].result THEN "result" ELSE "empty"

Reply(r) ==
    /\ LoopFree
    /\ client[r] = "waiting"
    /\ client' = [client EXCEPT ![r] = ReplyOf(r)]
    /\ UNCHANGED <<regVars, queueVars, dispatchVars, monitorVars, recoveries,
                   lapses>>

ClientWakes(r) == r \in notified /\ Reply(r)
ClientGivesUp(r) == r \notin notified /\ Reply(r)

-----------------------------------------------------------------------------
(* The dispatch loop and the _dispatch coroutine. *)

\* dispatch_loop takes every request in the queue without yielding.
DispatchLoop ==
    /\ LoopFree
    /\ queue # <<>>
    /\ ready' = ready \o queue
    /\ queue' = <<>>
    /\ UNCHANGED <<regVars, task, waiters, notified, sleeping, putting, posts,
                   client, monitorVars, recoveries, lapses>>

Starts(r) ==
    /\ LoopFree
    /\ ready # <<>>
    /\ r = Head(ready)
    /\ ready' = Tail(ready)

DispatchSkips(r) ==
    /\ Starts(r)
    /\ task[r].status = "failed"
    /\ UNCHANGED <<regVars, queueVars, sleeping, putting, posts, client,
                   monitorVars, recoveries, lapses>>

DispatchFindsNoWorker(r) ==
    /\ Starts(r)
    /\ task[r].status # "failed"
    /\ Schedulable = {}
    /\ sleeping' = More(sleeping, r)
    /\ UNCHANGED <<regVars, queueVars, putting, posts, client, monitorVars,
                   recoveries, lapses>>

Assigned(t, n) == [t EXCEPT !.status = "assigned", !.worker = n]

\* A strategy picks one of the schedulable workers; here it may be any.
DispatchTo(r, n) ==
    /\ Starts(r)
    /\ task[r].status # "failed"
    /\ n \in Schedulable
    /\ task' = [task EXCEPT ![r] = Assigned(@, n)]
    /\ IncrementActive(n)
    /\ posts' = [posts EXCEPT ![r][n] = @ + 1]
    /\ UNCHANGED <<queue, waiters, notified, sleeping, putting, client,
                   monitorVars, recoveries, lapses>>

\* Mutant: one retry too many.
MayRetryOnceMore(r) == task[r].retries <= MaxRetries

MayRetry(r) == task[r].retries < MaxRetries

\* Mutant: what finds the queue full is dropped.
RequeueOrDrop(r) ==
    /\ MarkRetrying(r)
    /\ UNCHANGED putting
    /\ IF QueueFull THEN UNCHANGED queue ELSE Put(r)

\* requeue, for a _dispatch call: a full queue suspends it.
Requeue(r) ==
    /\ MarkRetrying(r)
    /\ IF QueueFull
       THEN putting' = More(putting, r) /\ UNCHANGED queue
       ELSE Put(r) /\ UNCHANGED putting

\* Mutant: a retry that does not return and fails the request as well.
RetryAndFail(r) ==
    \/ /\ MayRetry(r)
       /\ task' = [task EXCEPT ![r] = Failed(Retried(@))]
       /\ Notify(r)
       /\ IF QueueFull
          THEN putting' = More(putting, r) /\ UNCHANGED queue
          ELSE Put(r) /\ UNCHANGED putting
    \/ ~MayRetry(r) /\ Fail(r) /\ UNCHANGED <<queue, putting>>

RetryOrFail(r) ==
    \/ MayRetry(r) /\ Requeue(r)
    \/ ~MayRetry(r) /\ Fail(r) /\ UNCHANGED <<queue, putting>>

\* Mutant: after its retry the coroutine sleeps on and retries again.
DispatchWakesAgain(r) ==
    /\ LoopFree
    /\ sleeping[r] > 0
    /\ RetryOrFail(r)
    /\ UNCHANGED <<regVars, ready, sleeping, posts, client, monitorVars,
                   recoveries, lapses>>

DispatchWakes(r) ==
    /\ LoopFree
    /\ sleeping[r] > 0
    /\ sleeping' = Less(sleeping, r)
    /\ RetryOrFail(r)
    /\ UNCHANGED <<regVars, ready, posts, client, monitorVars, recoveries,
                   lapses>>

PostEnds(r, n) ==
    /\ LoopFree
    /\ posts[r][n] > 0
    /\ posts' = [posts EXCEPT ![r][n] = @ - 1]

\* The worker answers 200 with a result.
PostSucceeds(r, n) ==
    /\ PostEnds(r, n)
    /\ DecrementActive(n, 1)
    /\ Complete(r, n)
    /\ UNCHANGED <<queue, ready, sleeping, putting, client, monitorVars,
                   recoveries, lapses>>

\* The worker answers an error, cannot be reached or is too slow.  An answer
\* of 200 whose body does not parse is counted off twice, before the parsing
\* and in the handler of its exception.
PostFails(r, n) ==
    /\ PostEnds(r, n)
    /\ \E times \in {1, 2} : DecrementActive(n, times)
    /\ RetryOrFail(r)
    /\ UNCHANGED <<ready, sleeping, client, monitorVars, recoveries, lapses>>

\* The put a full queue held back.
PutResumes(r) ==
    /\ LoopFree
    /\ putting[r] > 0
    /\ ~QueueFull
    /\ Put(r)
    /\ putting' = Less(putting, r)
    /\ UNCHANGED <<regVars, task, waiters, notified, ready, sleeping, posts,
                   client, monitorVars, recoveries, lapses>>

-----------------------------------------------------------------------------
(* The health monitor. *)

Ignored(n) == workers[n].status \in {"draining", "offline"}
Overdue == {n \in Registered : workers[n].overdue}

\* Mutant: whatever the worker has ever been assigned counts as in flight.
InFlightOnEver(r, n) == task[r].worker = n

InFlightOn(r, n) ==
    task[r].worker = n /\ task[r].status \in {"assigned", "processing"}

\* A pass that finds nothing to change is left out: it would not suspend and
\* would change nothing.
MonitorTick ==
    /\ monitorAt = "sleeping"
    /\ \E n \in Overdue :
         /\ ~Ignored(n)
         /\ \/ workers[n].status # "unhealthy"
            \/ \E r \in Requests : InFlightOn(r, n)
    /\ monitorAt' = "scanning"
    /\ listed' = Overdue
    /\ UNCHANGED <<regVars, queueVars, dispatchVars, client, orphans, monNode,
                   left, recoveries, lapses>>

MonitorSkips(n) ==
    /\ monitorAt = "scanning"
    /\ n \in listed
    /\ Ignored(n)
    /\ listed' = listed \ {n}
    /\ UNCHANGED <<regVars, queueVars, dispatchVars, client, monitorAt,
                   orphans, monNode, left, recoveries, lapses>>

\* mark_unhealthy goes by the node id: for an orphan it finds no record, or
\* the record the node has got since.
MonitorVisits(n) ==
    /\ monitorAt = "scanning"
    /\ n \in orphans \/ (n \in listed /\ ~Ignored(n))
    /\ MarkUnhealthy(n)
    /\ monitorAt' = "recovering"
    /\ listed' = listed \ {n}
    /\ orphans' = orphans \ {n}
    /\ monNode' = n
    /\ left' = Accepted
    /\ UNCHANGED <<queueVars, dispatchVars, client, recoveries, lapses>>

\* The requests are looked at in the order of their arrival.
FirstLeft(r) == r \in left /\ \A s \in left : r <= s

MonitorPasses(r) ==
    /\ monitorAt = "recovering"
    /\ FirstLeft(r)
    /\ ~InFlightOn(r, monNode)
    /\ left' = left \ {r}
    /\ UNCHANGED <<regVars, queueVars, dispatchVars, client, monitorAt,
                   listed, orphans, monNode, recoveries, lapses>>

\* Mutant: the monitor does not wait for room in the queue.
MonitorRecoversOrDrops(r) ==
    /\ monitorAt = "recovering"
    /\ FirstLeft(r)
    /\ InFlightOn(r, monNode)
    /\ MarkRetrying(r)
    /\ recoveries' = More(recoveries, r)
    /\ left' = left \ {r}
    /\ IF QueueFull THEN UNCHANGED queue ELSE Put(r)
    /\ UNCHANGED <<regVars, dispatchVars, client, monitorAt, listed, orphans,
                   monNode, lapses>>

\* requeue, for the monitor; it does not look at the count of retries.
MonitorRecovers(r) ==
    /\ monitorAt = "recovering"
    /\ FirstLeft(r)
    /\ InFlightOn(r, monNode)
    /\ MarkRetrying(r)
    /\ recoveries' = More(recoveries, r)
    /\ IF QueueFull
       THEN monitorAt' = "putting" /\ UNCHANGED <<queue, left>>
       ELSE Put(r) /\ left' = left \ {r} /\ UNCHANGED monitorAt
    /\ UNCHANGED <<regVars, dispatchVars, client, listed, orphans, monNode,
                   lapses>>

MonitorPutResumes(r) ==
    /\ monitorAt = "putting"
    /\ FirstLeft(r)
    /\ ~QueueFull
    /\ Put(r)
    /\ left' = left \ {r}
    /\ monitorAt' = "recovering"
    /\ UNCHANGED <<regVars, task, waiters, notified, dispatchVars, client,
                   listed, orphans, monNode, recoveries, lapses>>

MonitorGoesOn ==
    /\ monitorAt = "recovering"
    /\ left = {}
    /\ monitorAt' = "scanning"
    /\ monNode' = NoNode
    /\ UNCHANGED <<regVars, queueVars, dispatchVars, client, listed, orphans,
                   left, recoveries, lapses>>

MonitorSleeps ==
    /\ monitorAt = "scanning"
    /\ listed = {}
    /\ orphans = {}
    /\ monitorAt' = "sleeping"
    /\ UNCHANGED <<regVars, queueVars, dispatchVars, client, listed, orphans,
                   monNode, left, recoveries, lapses>>

-----------------------------------------------------------------------------
(* The calls of the workers and of the operator, and the passing of time. *)

\* A record that has just been heard of is no longer overdue to the monitor.
HeardOf(n) ==
    /\ listed' = listed \ {n}
    /\ UNCHANGED <<monitorAt, orphans, monNode, left>>

\* The monitor's list keeps the records that are deleted, as they were.
Detach(S) ==
    /\ listed' = listed \ S
    /\ orphans' = orphans \cup {n \in S \cap listed : ~Ignored(n)}
    /\ UNCHANGED <<monitorAt, monNode, left>>

RegisterWorker(n, h) ==
    /\ LoopFree
    /\ Register(n, h)
    /\ HeardOf(n)
    /\ UNCHANGED <<queueVars, dispatchVars, client, recoveries, lapses>>

WorkerHeartbeat(n, h, reported, overloaded) ==
    /\ LoopFree
    /\ UpdateHeartbeat(n, h, reported, overloaded)
    /\ HeardOf(n)
    /\ UNCHANGED <<queueVars, dispatchVars, client, recoveries, lapses>>

DeregisterWorker(n) ==
    /\ LoopFree
    /\ Deregister(n)
    /\ UNCHANGED <<queueVars, dispatchVars, client, monitorVars, recoveries,
                   lapses>>

DeleteWorker(n) ==
    /\ LoopFree
    /\ Remove(n)
    /\ Detach({n})
    /\ UNCHANGED <<queueVars, dispatchVars, client, recoveries, lapses>>

PurgeInactiveWorkers ==
    /\ LoopFree
    /\ PurgeInactive
    /\ Detach(Inactive)
    /\ UNCHANGED <<queueVars, dispatchVars, client, recoveries, lapses>>

HeartbeatLapses(n) ==
    /\ LoopFree
    /\ lapses < MaxLapses
    /\ FallOverdue(n)
    /\ lapses' = lapses + 1
    /\ UNCHANGED <<queueVars, dispatchVars, client, monitorVars, recoveries>>

-----------------------------------------------------------------------------
DispatchStarts ==
    \E r \in Requests :
        \/ DispatchSkips(r)
        \/ DispatchFindsNoWorker(r)
        \/ \E n \in Nodes : DispatchTo(r, n)

PostReturns(r, n) == PostSucceeds(r, n) \/ PostFails(r, n)

MonitorStep ==
    \/ MonitorTick
    \/ \E n \in Nodes : MonitorSkips(n) \/ MonitorVisits(n)
    \/ \E r \in Requests :
         MonitorPasses(r) \/ MonitorRecovers(r) \/ MonitorPutResumes(r)
    \/ MonitorGoesOn
    \/ MonitorSleeps

WorkerCalls ==
    \/ PurgeInactiveWorkers
    \/ \E n \in Nodes :
         \/ \E h \in Healths : RegisterWorker(n, h)
         \/ \E h \in Healths, a \in Reports, o \in Overloads :
              WorkerHeartbeat(n, h, a, o)
         \/ DeregisterWorker(n)
         \/ DeleteWorker(n)
         \/ HeartbeatLapses(n)

Next ==
    \/ \E r \in Requests :
         \/ InferAccepted(r)
         \/ InferRefused(r)
         \/ ClientWakes(r)
         \/ ClientGivesUp(r)
         \/ DispatchWakes(r)
         \/ PutResumes(r)
         \/ \E n \in Nodes : PostReturns(r, n)
    \/ DispatchLoop
    \/ DispatchStarts
    \/ MonitorStep
    \/ WorkerCalls

Spec == Init /\ [][Next]_vars

\* The event loop runs every coroutine that can run, a sleep ends, and a POST
\* to a worker ends because it has a timeout.  Nothing is assumed of clients,
\* workers or the operator, nor of the timeout of the client's wait.
Fairness ==
    /\ WF_vars(DispatchLoop)
    /\ WF_vars(DispatchStarts)
    /\ WF_vars(MonitorStep)
    /\ \A r \in Requests :
         /\ WF_vars(ClientWakes(r))
         /\ WF_vars(DispatchWakes(r))
         /\ WF_vars(PutResumes(r))
         /\ \A n \in Nodes : WF_vars(PostReturns(r, n))

FairSpec == Spec /\ Fairness

-----------------------------------------------------------------------------
(* Properties. *)

Finished(r) == task[r].status \in {"completed", "failed"}

\* A request on its way to a worker is somewhere the master will find it
\* again: in the queue, among the coroutines about to start, in one that
\* sleeps or is blocked in requeue, or in the monitor's blocked requeue; and
\* a request assigned to a worker has a POST to that worker outstanding.
\* So no interleaving of answers, retries and recoveries drops a request.
HasToken(r) ==
    \/ r \in Range(queue) \cup Range(ready)
    \/ sleeping[r] > 0
    \/ putting[r] > 0
    \/ monitorAt = "putting" /\ FirstLeft(r)

Located(r) ==
    /\ task[r].status \in {"queued", "retrying"} => HasToken(r)
    /\ task[r].status = "assigned" =>
         task[r].worker \in Nodes /\ posts[r][task[r].worker] > 0

NoLostTask == \A r \in Requests : Located(r)

\* A caller that waits has an event that is set or will be found by _notify,
\* and it is set if the request is finished: no wakeup is lost between the
\* registration of the event and the outcome.
NoLostWakeup ==
    \A r \in Requests :
        client[r] = "waiting" =>
            /\ r \in waiters \cup notified
            /\ Finished(r) => r \in notified

\* Only the monitor duplicates a request: those in the queue, the coroutines
\* and the outstanding POSTs of a request are never more than one plus the
\* number of times the monitor has requeued it.  A request no silent worker
\* held runs on one worker at a time.
Occurrences(r, s) == Cardinality({i \in DOMAIN s : s[i] = r})

\* The POSTs of a request that are outstanding, those to a worker numbered.
Outstanding(r) == UNION {{n} \X (1 .. posts[r][n]) : n \in Nodes}

Held(r) == monitorAt = "putting" /\ FirstLeft(r)

Copies(r) ==
    Occurrences(r, queue) + Occurrences(r, ready) + sleeping[r] + putting[r]
      + Cardinality(Outstanding(r)) + (IF Held(r) THEN 1 ELSE 0)

OnlyMonitorDuplicates ==
    \A r \in Requests : Copies(r) <= 1 + recoveries[r]

\* A request that is finished and of which no copy is left is over for good,
\* also if the monitor has requeued it any number of times: nothing that is
\* still to happen runs it again or changes its outcome.
AtRest(r) == Finished(r) /\ Copies(r) = 0

RestIsFinal ==
    [][\A r \in Requests :
         AtRest(r) => AtRest(r)' /\ task'[r] = task[r]]_vars

\* A request the monitor has not requeued runs once at a time and ends once:
\* it is in one place on its way to a worker, or has one POST outstanding to
\* the worker it is assigned to, or is over, with nothing left that could
\* touch it, and its result or error is the one its status names.
Once(r, s) == \A i, j \in DOMAIN s : s[i] = r /\ s[j] = r => i = j

OneToken(r) ==
    /\ Once(r, queue)
    /\ Once(r, ready)
    /\ r \in Range(queue) => r \notin Range(ready)
    /\ sleeping[r] + putting[r] <= 1
    /\ sleeping[r] + putting[r] = 1 => r \notin Range(queue) \cup Range(ready)

Undisturbed(r) ==
    /\ OneToken(r)
    /\ task[r].status \notin {"queued", "retrying"} =>
         /\ r \notin Range(queue) \cup Range(ready)
         /\ sleeping[r] + putting[r] = 0
    /\ \A n \in Nodes :
         posts[r][n] > 0 => InFlightOn(r, n) /\ posts[r][n] = 1
    /\ task[r].result => task[r].status = "completed"
    /\ task[r].error => task[r].status = "failed"

SingleFlight ==
    \A r \in Requests : recoveries[r] = 0 => Undisturbed(r)

\* max_retries bounds the retries the scheduler makes, in all the copies of a
\* request together; what exceeds it are recoveries, which the monitor makes
\* without looking at the count.
RetryBound ==
    \A r \in Requests : task[r].retries <= MaxRetries + recoveries[r]

\* The targets file names exactly the workers the registry knows, after every
\* registration, drain, failure and removal.
TargetsCurrent == targets = Registered

\* The outcome of a request is final unless the monitor has requeued it: no
\* late answer, retry or sleeping coroutine touches it again.
FinishedIsFinal ==
    [][\A r \in Requests :
         recoveries[r] = 0 /\ Finished(r) => task'[r] = task[r]]_vars

\* The master keeps the contract of POST /infer.
Contract == INSTANCE RequestContract WITH
    told <- client,
    results <- {r \in Requests : task[r].result},
    errors <- {r \in Requests : task[r].error},
    recovered <- {r \in Requests : recoveries[r] > 0}

KeepsContract == Contract!Spec

\* Every caller is answered even if its own timeout never fires: the request
\* comes to an end and its event is set, whatever the workers do.
EveryCallerAnswered ==
    \A r \in Requests : client[r] = "waiting" ~> client[r] # "waiting"

\* Every accepted request comes to rest with an outcome, also those the
\* monitor has duplicated and the late answers of silent workers disturb.  That
\* is so when workers fall silent finitely often, as the bound has it: a worker
\* that falls silent again and again has its request recovered again and again.
EveryRequestComesToRest ==
    \A r \in Requests :
        task[r].status # "none" ~> [](Finished(r))

\* A worker that has fallen silent does not stay in the schedule: the monitor
\* takes it out, unless it is heard of again, also when it falls silent while
\* the pass waits for room in the queue.
SilentWorkerSidelined ==
    \A n \in Nodes :
        workers[n].overdue /\ IsSchedulable(n)
          ~> ~(workers[n].overdue /\ IsSchedulable(n))
-----------------------------------------------------------------------------
(* What the documents say and the code does not do. *)

\* quickstart.md: MAX_RETRIES is the "Max task retry attempts".
RetriesWithinMax == \A r \in Requests : task[r].retries <= MaxRetries

\* .env.example: HEARTBEAT_TIMEOUT is the "seconds of missed heartbeat before
\* marking unhealthy": the monitor marks no worker that has just been heard of.
MonitorSparesTheLive ==
    [][\A n \in Nodes :
         monitorAt = "scanning" /\ IsSchedulable(n) /\ ~IsSchedulable(n)' =>
           workers[n].overdue]_vars
=============================================================================
