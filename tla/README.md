# Verification of the distributed inference platform

TLA+ models of the master and the workers of this repository, TLC runs that
check them on small instances, and TLAPS proofs of what matters most for every
instance. The models are written from the Python sources; paths below are
relative to the root of the repository.

## 1. The system

| Component | State | Operations | Correct if |
|---|---|---|---|
| Registry, `master/registry.py` | worker records, scrape targets file | register, update_heartbeat, deregister, mark_unhealthy, remove, purge_inactive, mark_offline, increment/decrement_active | what serves has a running Ollama; nothing but a registration revives a worker; the file names the registered workers |
| Task queue, `master/task_queue.py` | bounded `asyncio.Queue`, `task_registry`, `_waiters` | enqueue, dequeue, complete, fail, requeue, register_waiter | no accepted request is lost, no wakeup is lost |
| Scheduler, `master/scheduler.py` | the coroutines it has created, the strategy | dispatch_loop, _dispatch, set_strategy | one flight at a time, bounded retries, one final outcome |
| Health monitor, `master/health_monitor.py` | its place in its pass | the pass, the recovery of in-flight requests | silent workers leave the schedule and their requests do not wait for them |
| Inference API, `master/routers/client.py` | one waiting coroutine per call | POST /infer | every caller is told once, and the truth |
| Worker API, `master/routers/workers.py` | none | the calls of workers and of the operator | see the registry |
| Strategies, `master/strategies/*.py` | the index of round_robin | select_worker | even turns, the least loaded worker |
| Worker agent, `worker/agent.py`, `worker/main.py` | process, registration and heartbeat coroutines, inference counters | register_with_master, heartbeat_loop, deregister, infer | a live worker is known, a dead one is not scheduled |
| Worker inference, `worker/agent.py`, `worker/routers/cluster.py`, `worker/ollama_client.py` | the worker's counters, the master's figures of it | infer, record_inference, generate, heartbeats, record_completion | both sides count the same in the end |
| Retrieval, `rag/retriever.py` | chunks in memory, index on disk | initialize, retrieve, _split_text | the index in use holds what was loaded; the split is greedy |
| Load generator, `scripts/send-project-requests.py` | threads of a level, a barrier, results | run_level, send_one, percentile, main | bursts are bursts, the exit status is true, it ends |
| Metrics, logging, `scripts/scenario.sh`, deployment | none of their own | reads, text, configuration | not modelled (section 6) |

**How they interact.** Everything in the master is a coroutine of one asyncio
event loop. POST /infer puts a request into the queue and waits for an event.
The dispatch loop empties the queue and starts a `_dispatch` coroutine for each
request, which asks the strategy for a schedulable worker, sends a POST to it
and completes, fails or requeues the request by its answer. The monitor wakes
every second, marks the workers whose heartbeat is overdue and requeues what is
assigned to them, *without* stopping the POST that is still outstanding. The
workers call the master over HTTP; a heartbeat of an unknown worker is answered
with the wish that it register again. A worker process makes a new node id when
it starts.

**What is hard.** Two copies of a request after a recovery, of which the old
one may answer at any time; a full queue that suspends whoever requeues, the
monitor in the middle of its pass included; the list of records the monitor
keeps over that suspension; callers whose timeout races the completion; retries
made in four places with one limit and by the monitor without it; heartbeats
that go on while the process deregisters; calls that fail for the worker and
succeed for the master; a master that restarts with an empty registry and an old
file; a worker that goes on generating for a master that has given up, and two
counts of active requests that overwrite each other; an index on disk that
outlives its documents and may be written in part; a barrier and a pool that must
have the same size. `PROJECT.json` lists these hazards at their lines with the properties that
cover them.

## 2. The modules

| Module | Models | Notes |
|---|---|---|
| `Common` | `common/enums.py`, `common/models.py` | records cut down to what a guard or a property reads |
| `Registry` | `registry.py` | one action per method |
| `TaskQueue` | `task_queue.py` | one operator per method, used by the actions of `Master` |
| `RequestContract` | nothing in the code: what POST /infer promises | the abstract specification of `Master` |
| `Master` | `scheduler.py`, `health_monitor.py`, `routers/client.py`, `routers/workers.py` over the two above | an action is the code between two awaits that may suspend |
| `Membership` | `worker/agent.py`, `worker/main.py`, over `Registry` | calls that are lost or late, crashes, restarts |
| `LoadScore` | the score in `update_heartbeat` | operators only, exact |
| `Strategies` | `master/strategies`, `routers/config.py` | all four choices and their exchange |
| `Inference` | `worker/agent.py` (`infer`), `worker/routers/cluster.py`, `worker/ollama_client.py`, over `Registry` and `LoadScore` | the books of both sides |
| `Retrieval` | `rag/retriever.py`, its use in `master/main.py` and `routers/client.py` | an index that outlives the master |
| `LoadGenerator` | `scripts/send-project-requests.py` | a main thread, pool threads, a barrier |
| `MCInference`, `MCRetrieval`, `MCLoadGenerator` | | values for TLC a cfg cannot write |
| `RegistryProofs`, `MasterProofs`, `SingleFlightProofs`, `MembershipProofs`, `InferenceProofs`, `RetrievalProofs`, `LoadGeneratorProofs`, `StrategiesProofs` | | section 5 |

Operators whose comment begins with "Mutant" stand just before the definition
they vary: each is a plausible mistake in that code, and the run named with it
in `PROJECT.json` finds a property violated when it takes the definition's
place.

### Registry and TaskQueue

`workers` is `_workers`, with `Unregistered` for a node id that is no key;
`overdue` stands for `now - last_heartbeat > heartbeat_timeout`. The methods
take an uncontended lock and do not await anything else while they hold it, so
each is one step. The statistics, and the failure to write the targets file
(logged and ignored), are left out. The address of a node is fixed, and so is
the line it gets in the file. `MarkOffline` has no caller in the repository: it
is an action of the registry alone and not of `Master`.

`task` is `task_registry`; whether `result` and `error` are set is all that is
kept of them. `waiters` is `_waiters` and `notified` the events that are set. A
worker's answer has either an `error` or a result, and errors are never empty
strings, as the sources construct them.

### Master

| Code | Actions |
|---|---|
| `infer` | `InferAccepted`, `InferRefused`, `ClientWakes`, `ClientGivesUp` |
| `dispatch_loop` | `DispatchLoop`: `get` does not suspend while the queue has something |
| `_dispatch` to its first await | `DispatchSkips`, `DispatchFindsNoWorker`, `DispatchTo` |
| `_dispatch` after its sleep | `DispatchWakes` |
| `_dispatch` after its POST | `PostSucceeds`, `PostFails` |
| the rest of `requeue` when the queue was full | `PutResumes`, `MonitorPutResumes` |
| `run_health_monitor` | `MonitorTick`, `MonitorSkips`, `MonitorVisits`, `MonitorGoesOn`, `MonitorSleeps` |
| `_recover_inflight_tasks` | `MonitorPasses`, `MonitorRecovers` |
| the routes of `workers.py` | `RegisterWorker`, `WorkerHeartbeat`, `DeregisterWorker`, `DeleteWorker`, `PurgeInactiveWorkers` |
| time | `HeartbeatLapses` |

`InferAccepted` is one step because nothing suspends between the test for room in
the queue and `register_waiter`: no outcome can come before the waiter is there.
The monitor's pass is cut into one step per worker and per request for
readability, and `LoopFree` keeps everything else out until it sleeps or is
blocked. Its list of records is kept as two sets: `listed`, those still in the
registry, and `orphans`, those deleted since. A pass that would change nothing
is left out. The coroutines of one request are counted, because they differ in
nothing. The strategy is any schedulable worker, so `Master` covers every
strategy. The status `processing` is assigned nowhere in the sources; it stays
in the type and in the test that reads it.

`PostFails` covers an answer that is not 200, a payload with an error, a
timeout and any exception. After a 200 whose body does not parse,
`decrement_active` runs twice, and so it does there.

### Membership

Every process has two coroutines, `main` (registration at startup,
deregistration at shutdown) and `beat`. A call is sent, then handled by the
master, then its answer arrives; `CallFails` may cut it off at either point, and
a request that was sent then goes to `late`, from where it is handled or lost at
any time. `late` is a set: of identical requests that are late together (two
attempts of one registration) it keeps one, so the model lets them arrive once
and not twice. The
monitor is one step per worker here (its recovery of requests is in `Master`),
the time between `mark_unhealthy` and the list being the subject of `Master`.

### LoadScore and Strategies

The score is the same weighted sum over one common denominator; only the
rounding of floating point is left out. The ten requests that are a full share
are the constant `FullCount`, so that a run with two calls can fill it.
`Strategies` gives every worker one figure, standing for active requests, average
latency or load by turns, and lets the list of schedulable workers change in any
way between two choices.

### Inference

| Code | Actions |
|---|---|
| `_dispatch` from `increment_active` to the POST | `Dispatch` |
| `cluster.infer`, `agent.infer` up to `generate` | `InferBegins` (`RequestLost` if it never arrives) |
| `generate`, `record_inference`, the `finally` | `InferEnds`, with a text or an error |
| `_dispatch` after its POST | `AnswerArrives`, `AnswerUnreadable`, `PostFails`; `AnswerDropped` if it has given up |
| `heartbeat_loop`, `worker_heartbeat`, `update_heartbeat` | `HeartbeatSent`, `HeartbeatHandled`, `HeartbeatFails`, and `LateHeartbeatHandled` or `LateHeartbeatLost` after it |
| `register`, `remove` | `WorkerRegisters`, `WorkerRemoved` |

A call is one POST: `post` is what the master knows of it, `job` what the worker
does. They end independently, because nothing tells the worker that the master's
timeout has passed. `counted` and `completed` are `_active_requests` and
`_total_completed` of the agent, `workers[n].active`, `credited`, `figures` and
`load` the fields of the master's record. The first await of `_dispatch` is taken
together with its POST: `increment_active` has an uncontended lock and does not
suspend. What the master does with the request is in `Master`.

### Retrieval

A text is a sequence of paragraphs, of which only the length counts; what
`re.split` and `strip` do to blank lines is left out. `Split` is `_split_text`
with its loop as a recursive function; the ids of chunks are pairs of stem and
number. A start is `StartsWithoutRag`, `FindsNoDocuments`, `Indexes` or
`FallsBack`; in the last any part of the upsert may have reached the disk before
the exception, or before the process was killed. The upsert itself is ChromaDB's
and marked external. The hash embedding and the cosine are numerical: a query may
find any chunks there are, at most `TopK` of them, and none if nothing scores
above zero.

### LoadGenerator

`level`, `main`, `submitted` and `results` belong to the main thread, `user` and
`arrived` to the pool of a level and its barrier, `outcome` to the calls. Barrier
and pool are made anew for every level, so both are functions of the level. A
call is one step from its start to its end, as its thread does nothing else. A
level of no users makes `ThreadPoolExecutor` raise (`Aborts`); negative levels,
which do the same, are left out. `main` keeps apart what `main` returns (`ok` 0,
`failed` 1) and the exception (`aborted`), `ExitStatus` is what the process ends
with: 1 for both of the latter. The positions of `Percentile` count from 1.

## 3. The runs

| Run | Instance | Shows |
|---|---|---|
| `requests` | 1 worker, 2 requests, queue of 1, 1 retry, 1 lapse | the seven request properties |
| `workers` | 2 workers, 1 request, 2 lapses, any health | copies of a request across workers; the registry's promises in the master |
| `live` | 1 worker, 2 requests, queue of 1, 1 retry, 1 lapse | callers answered, requests at rest |
| `sidelined` | 1 worker, 2 requests, queue of 1, 2 lapses | a silent worker leaves the schedule, also behind a monitor blocked in the full queue |
| `members` | 1 worker, 3 attempts to register | who can revive a dead worker; it stays out, a live one is known; the targets file recovers |
| `strategies` | 3 workers, 3 figures, threshold in the middle | even turns, an idle threshold |
| `inference` | 1 worker, 2 calls, a full share of 2 | the counts of both sides; that they settle, and stay settled |
| `retrieval` | 2 documents of 4 texts, chunks of 10 characters; texts of up to 5 paragraphs | the index in use, the split |
| `loadgen` | lists of up to three levels, up to four users | bursts, levels, exit status, percentile, no call stuck, termination |
| `retries` | 1 worker, 1 request | **violated**: `MAX_RETRIES` is not the maximum |
| `orphan` | 2 workers, 2 requests, queue of 1 | **violated**: a worker just heard of is marked unhealthy |
| `drain` | 1 worker | **violated**: a deregistered worker is scheduled |

The properties in a sentence each:

- `HealthyMeansOllama`, `OnlyRegisterRevives`, `TargetsCurrent`: the registry's promises to the scheduler and to Prometheus.
- `NoLostTask`: a request on its way has a token (in the queue, in a coroutine,
  in the monitor's put), and an assigned one an outstanding POST to its worker.
- `NoLostWakeup`: the event of a waiting caller is set, or is where `_notify`
  finds it; it is set once the request is finished.
- `SingleFlight`: a request the monitor has not requeued is in one place, and in
  none once it is finished.
- `RestIsFinal`: a request that is finished, and of which no copy is left, is not
  touched again, however often it was recovered before. For one that was never
  recovered the two say that its outcome is final (`FinishedIsFinal`).
- `OnlyMonitorDuplicates`, `RetryBound`: copies and retries beyond one and
  beyond `MAX_RETRIES` are recoveries, one for one.
- `KeepsContract`: `Master` implements `RequestContract` with the caller's
  answer, the two outcome fields and the recoveries as its state.
- `EveryCallerAnswered`, `EveryRequestComesToRest`, `SilentWorkerSidelined`,
  `GoneIsSidelined`, `ServingIsKnown`, `TargetsCatchUp`: what must happen. Requests
  come to rest when workers fall silent finitely often (`MaxLapses`): every lapse
  may have them recovered once more.
- `SidelinedForGood`: a dead process that is out of the schedule, and has no
  registration on its way that it sent while it lived, stays out. So nothing but
  such a registration revives it (`OnlyLateRegistrationRevives`).
- `StratTypeOK` says with the types that only workers of the present list have had
  a turn from it: no strategy chooses a worker that is not schedulable.
- `EvenTurns`, `ThresholdIsIdle`, `BusyNeedsGpu`: the strategies and the score
  they go by. The last two say that `_OVERLOAD_THRESHOLD` never changes which
  worker is chosen, and that a worker without a GPU at work never reaches it.
- `ActiveIsRunning`: the worker's count is the number of its generations, however
  they end and whoever still waits for them.
- `CountFollowsPosts`: the master's count moves with its POSTs, and what lets it
  drift is named: a heartbeat, a new record, an unreadable body, a count at zero.
- `BooksSettle`: that drift is not for ever; once nothing is under way to a worker
  the master's count and the share of it in the load become zero and stay so.
- `SettledTillDispatch`: books that are at zero on both sides, and in every message
  between them, are disturbed by a dispatch and by nothing else.
- `CreditedWasServed`: the master credits no completion that was not made.
- `SplitIsGreedy`: the chunks in a row are the text, none is too long unless it is
  one paragraph, and none could have taken in the start of the next. It is
  checked for every text of up to five of the five paragraphs.
- `IndexIsCurrent`, `EmptyBaseRetrievesNothing`: the collection in use holds every
  loaded chunk and no other text under its id; old chunks under other ids may be
  there, and are what a shortened document leaves behind.
- `BurstTogether`, `LevelsApart`, `PercentileIsQuantile`, `ProgramEnds`: what the
  figures of a load test rest on.
- `ExitTellsTruth`: the exit status is 0 if and only if no level is without users and
  every call of every level got a result. Status 1 says that this is not so, and not
  which of the two it was; where `main` returns it, all results are in.
- `NobodyLeftBehind`: as long as results of a level are out, one of its calls has a
  thread that can go on; a smaller pool would wait at its barrier for ever.

**Bounds.** `MaxRequests`, `MaxLapses` (how often workers fall silent),
`MaxAttempts`, `MaxCalls`, `MaxLength` (of the texts that are split) and
`MaxTurns` cap what would grow without end. A queue of one place and two requests are enough for a put to block
a coroutine and the monitor; one lapse and one retry for a recovery to meet a
late answer and for the count of retries to pass its maximum; two lapses and two
workers for a request to be recovered from one worker and then from the other; two
lapses of one worker for it to come back and fall silent again while the monitor
waits in the full queue with what it recovered (`sidelined`, without retries, which
do not bear on it).
Two workers with two requests is past what TLC finishes for all properties
(millions of states): `orphan` searches that instance for one behaviour, and the
proofs cover it for the safety properties. With one worker in `members` the only
stale name in the targets file is its own; two workers are past TLC's memory
there, and `NoWorkerUnscraped` is proved for any number. `Membership` needs no cap but the
attempts: its state space is finite. `members` takes Ollama to be up: `workers`
and `drain` vary its health. Two calls are enough for one to be given up while
the other runs, and for a count to fill its share; with the three corners of the
other figures a worker turns busy, by one point of its GPU. The lengths 1, 3, 5,
6 and 11 with chunks of 10 make paragraphs that fit exactly, miss by one and
exceed a chunk. The lists of levels have a level after a smaller one, after a
larger one, and one of no users; four latencies in a level put the percentile
inside, at the end and past a whole position.

**Fairness.** In `Master` the event loop runs every coroutine that can run
(`DispatchLoop`, `DispatchStarts`, `MonitorStep`, `ClientWakes`, `PutResumes`),
a sleep ends (`DispatchWakes`), and a POST ends because it is given a timeout of
`task_timeout + 5` (`PostReturns`): weak fairness each. Clients, workers, the
operator and the caller's own timeout get none. In `Membership` live coroutines
go on, the monitor wakes and time passes for a dead process (weak fairness), and
of the calls of one kind that are made again and again some are handled and some
are answered (strong fairness, the assumption on the network). In `Inference`
messages do not travel for ever and a generation and a POST have timeouts (weak
fairness), and of a worker's heartbeats, which its loop sends again and again,
some are handled (strong fairness). In `LoadGenerator` the main thread and the
pool go on (weak fairness of each as a whole), a sleep ends, and a call ends
because `urlopen` is given a timeout.

## 4. What the code does otherwise

The three violated properties are sentences of the repository's own documents
and tests; `findings` in `PROJECT.json` quotes them.

- `_recover_inflight_tasks` requeues without a look at `retry_count`.
- The monitor's list outlives an await, and `mark_unhealthy` goes by node id.
- `register_worker` takes a delayed registration for a new one, after the
  deregistration too; `worker/main.py` moreover deregisters before it stops the
  heartbeat loop, which may register again.

One more is found by reading, without a run: nothing reads
`WORKER_MAX_CONCURRENT`, which quickstart.md calls the maximum of simultaneous
generations; in `Inference` a worker begins whatever arrives, and `ActiveIsRunning`
says only that it counts what it runs.

Two things a reader may not expect contradict no document, and have no run:

- `_dispatch` skips a request that has failed, not one that has completed: when the
  old worker answers after the recovery, the requeued copy is run all the same.
  `RestIsFinal` says what is left of finality, `SingleFlight` that a request which
  was not recovered never runs again.
- A level of no users ends `send-project-requests.py` with an uncaught exception
  and status 1, as a failed call does, without the levels after it and the summary.

## 5. The proofs

TLAPS checks these for every value of the constants that satisfies the named
assumptions (finite sets of nodes, natural bounds, a queue with at least one
place).

- `RegistryProofs`: type correctness, `HealthyMeansOllama`,
  `TargetsAreRegistered` and `OnlyRegisterRevives` of the registry. Each
  invariant but the third is inductive with the type invariant. The step lemmas
  are used again in the master.
- `MasterProofs`: every step of the master is a step of the registry or leaves
  it alone (`MasterImplementsRegistry`), so the above holds there
  (`HealthyInMaster`, `OnlyRegisterRevivesInMaster`); `TypeOK`;
  `TargetsCurrent`, which holds in the master only because nothing calls
  `mark_offline`; `RetryBound`; `NoLostTask`, with one step per action that
  shows where the token of the request has gone; `NoLostWakeup`.
- `SingleFlightProofs`: `SingleFlight` is not inductive alone. The inductive
  invariant `IInv` adds to it and to `TypeOK` that only accepted requests have
  records, copies or POSTs (a call numbered later starts clean), and that the
  request the monitor holds in a blocked put counts as recovered (so the
  monitor's token never belongs to an undisturbed request). From `IInv` follow
  `FinishedIsFinal`, since nothing that could touch a finished, undisturbed
  request is left, and `KeepsContract`, by a refinement mapping: initial states
  map to initial states, and each action to one of `RequestContract` or to a
  stutter. `OnlyMonitorDuplicates` counts the copies of a request: its places in
  the queue and among the ready, its coroutines, the monitor's put, and its POSTs
  as the cardinality of one set. Each action moves one copy from one of these to
  the next, ends one, or is a recovery, which adds one to either side.
  `RestIsFinal` follows by the same split: an action that touches a request takes
  one of its copies, or starts from one.
- `MembershipProofs`: `MembTypeOK`, `OnlyLateRegistrationRevives`,
  `SidelinedForGood`, `NoWorkerUnscraped`, and `HealthyMeansOllama` with the master
  restarting (`HealthyInMembership`). The inductive invariant `MInv` says of the
  coroutines that one that waits for a call makes one and that a registration under way has an attempt left (without
  which a failed attempt could count below zero), and that a process that is gone
  has none, so that what revives it can only have been sent before. The steps of
  the registry are split by who makes them; those of `RegNext` reuse the lemmas of
  `RegistryProofs`. `SidelinedForGood` needs besides that a process that is gone
  stays gone and sends nothing, so that `late` gains no message of its.
- `InferenceProofs`: `InfTypeOK`, `ActiveIsRunning`, `CreditedWasServed`,
  `BusyNeedsGpu`, `CountFollowsPosts` and `SettledTillDispatch`; and the registry's
  `HealthyMeansOllama` and `OnlyRegisterRevives` with figures, loads and busy
  workers (`HealthyInInference`, `OnlyRegisterRevivesInInference`). The range of the score is an
  arithmetical lemma about the capped shares. The counts are cardinalities of sets
  of calls, and each step adds one call to such a set, takes one from it or leaves
  it; for `CreditedWasServed` the inductive invariant has to count the answers
  still on their way as well.
- `RetrievalProofs`: `RetTypeOK`, `IndexIsCurrent`,
  `EmptyBaseRetrievesNothing` and `SplitIsGreedy`. The invariant adds that a
  collection in use belongs to a start that loaded some chunks. `SplitIsGreedy` is
  about a loop that the model writes as a recursive function: that the function
  exists, and that what it returns is greedy, are shown position by position of the
  text. No induction theorem with an operator parameter is needed: the positions
  at which the claim holds are a set that has 0 and every successor.
- `LoadGeneratorProofs`: `GenTypeOK`, `BurstTogether`, `LevelsApart`,
  `ExitTellsTruth`, `NobodyLeftBehind` and `PercentileIsQuantile`. `OrderOK` says which users of which levels may have begun and
  that a result is of a call that is over; `BarrierOK` that the count of
  a barrier is that of the threads that have come to it, so that a full count means
  everybody, and everybody makes it full. `SubmitOK` says which calls of a level
  are submitted; that one without a thread finds one free is then counted from the
  size of the pool. For
  `PercentileIsQuantile` a finite set of calls has an order by latency, whichever
  way ties are put, and the position of the percentile lies inside it.
  `ExitOK` keeps the verdict of the end, and that no level that was passed is empty.
- `StrategiesProofs`: `StratTypeOK`, `EvenTurns` and `ThresholdIsIdle`. A turn goes
  to a choice, and every choice is on the list (`ChoiceIsListed`). The least
  of a list exists because the naturals are well-founded. For round_robin the
  invariant is that from some start on, in cyclic order up to the index, every
  worker has had one turn more than the others; the index may lie past the end of
  a list that has shrunk, so its next value is computed modulo the length.

**Model-checked only.** The liveness properties: `EveryCallerAnswered`,
`EveryRequestComesToRest`, `SilentWorkerSidelined`, `GoneIsSidelined`,
`ServingIsKnown`, `TargetsCatchUp`, `BooksSettle` and `ProgramEnds`. Fairness and
ENABLED are beyond the prover. What these say of safety is proved beside them:
nothing is lost on the way to an answer or to rest (`NoLostWakeup`, `NoLostTask`),
what has come to rest, has been sidelined or is settled stays so (`RestIsFinal`,
`SidelinedForGood`, `SettledTillDispatch`), and the load generator can always go on
(`NobodyLeftBehind`). Every invariant and every action property of a passing run is
stated by a theorem.

**Proved only.** `FinishedIsFinal` and `OnlyLateRegistrationRevives` follow from
properties that runs check. `NoWorkerUnscraped` says that no registered worker is
ever missing from the targets file, though the file outlives the master and the
registry does not; the runs check `TargetsCurrent` and `TargetsCatchUp` of that file.

## 6. Not modelled

- Restarts of the master with requests under way: they are lost, and the code
  promises nothing.
- Metrics and monitoring endpoints (`master/metrics.py`, `worker/metrics.py`,
  `worker/metrics_collector.py`, the `monitoring.py` routers): every one reads the
  state of a component within one turn of the event loop and formats it. The
  counters of `master/metrics.py` have no caller.
- The counts of failures and the moving average of the latency
  (`record_completion`): only strategies and displays read them, and `Strategies`
  lets its figures be anything.
- The embedding and the similarity of chunks, which are numerical.
- Logging, `scripts/scenario.sh`, the compose files, NGINX, Prometheus and Grafana:
  text, containers and configuration without state of this system.

`components` in `PROJECT.json` gives the reason for each.

## 7. Plan

Done, in this order: registry; queue; master with monitor and API; the contract
and its refinement; membership; score; strategies; load generator; inference;
retrieval; the proofs of section 5.

Left: `Inference` over two workers in a run, which only adds interleavings of books
that do not touch (the proofs cover any number); and safety lemmas on which the
remaining liveness properties rest, beyond those section 5 names.
