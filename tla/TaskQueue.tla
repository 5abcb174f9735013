------------------------------ MODULE TaskQueue ------------------------------
(***************************************************************************)
(* master/task_queue.py: the bounded queue of requests that wait for a     *)
(* worker, the table of every request ever accepted, and the events the    *)
(* callers of POST /infer wait on.  The operators are the methods; a put   *)
(* that finds the queue full suspends its caller, so the caller's module   *)
(* says what happens then.                                                 *)
(*                                                                         *)
(* Left out: the counters of completed and failed requests, which nothing  *)
(* reads, and timeout_at, which nothing reads either.                      *)
(***************************************************************************)
EXTENDS Common, Sequences, Functions

CONSTANT MaxQueueSize     \* the capacity of the queue (MAX_QUEUE_SIZE)

ASSUME MaxQueueSizeAssumption == MaxQueueSize \in Nat \ {0}

VARIABLES
    queue,        \* _queue: the requests in it, oldest first
    task,         \* task_registry: request -> record, NoTask for no key
    waiters,      \* _waiters: the requests with an event that is not yet set
    notified      \* the requests whose event has been set

queueVars == <<queue, task, waiters, notified>>

QueueTypeOK ==
    /\ queue \in Seq(Requests)
    /\ Len(queue) <= MaxQueueSize
    /\ task \in [Requests -> TaskRecord]
    /\ waiters \subseteq Requests
    /\ notified \subseteq Requests

QueueInit ==
    /\ queue = <<>>
    /\ task = [r \in Requests |-> NoTask]
    /\ waiters = {}
    /\ notified = {}

Accepted == {r \in Requests : task[r].status # "none"}

\* Mutant: the capacity is exceeded by one.
QueueOverfull == Len(queue) > MaxQueueSize

QueueFull == Len(queue) >= MaxQueueSize
Put(r) == queue' = Append(queue, r)

\* enqueue, and register_waiter right after it: the put finds room because
\* nothing runs between the test of the capacity and the put, and the caller
\* registers its event before anything else runs.
Enqueue(r) ==
    /\ ~QueueFull
    /\ task' = [task EXCEPT ![r] = [NoTask EXCEPT !.status = "queued"]]
    /\ Put(r)

RegisterWaiter(r) ==
    /\ waiters' = waiters \cup {r}
    /\ UNCHANGED notified

\* _notify: the event leaves the table when it is set.
Notify(r) ==
    /\ waiters' = waiters \ {r}
    /\ notified' = IF r \in waiters THEN notified \cup {r} ELSE notified

\* complete, fail and the first half of requeue: what each writes to the
\* record, and the method.  The second half of requeue is its put.
Completed(t, n) ==
    [t EXCEPT !.status = "completed", !.worker = n, !.result = TRUE]
Failed(t) == [t EXCEPT !.status = "failed", !.error = TRUE]
Retried(t) ==
    [t EXCEPT !.status = "retrying", !.worker = NoNode, !.retries = @ + 1]

\* Mutants: an outcome nobody is told of.
CompleteSilently(r, n) ==
    /\ task' = [task EXCEPT ![r] = Completed(@, n)]
    /\ UNCHANGED <<waiters, notified>>

FailSilently(r) ==
    /\ task' = [task EXCEPT ![r] = Failed(@)]
    /\ UNCHANGED <<waiters, notified>>

Complete(r, n) ==
    /\ task' = [task EXCEPT ![r] = Completed(@, n)]
    /\ Notify(r)

Fail(r) ==
    /\ task' = [task EXCEPT ![r] = Failed(@)]
    /\ Notify(r)

MarkRetrying(r) ==
    /\ task' = [task EXCEPT ![r] = Retried(@)]
    /\ UNCHANGED <<waiters, notified>>
=============================================================================
