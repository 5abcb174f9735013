---------------------------- MODULE MasterProofs ----------------------------
(***************************************************************************)
(* What holds of the master for any workers, any number of requests, any   *)
(* capacity of the queue, any bound on retries and any number of lapses.   *)
(***************************************************************************)
EXTENDS Master, RegistryProofs, SequenceTheorems

-----------------------------------------------------------------------------
(* The master uses the registry as the registry's own specification says,  *)
(* so what is proved of the registry alone holds in the master.            *)

LEMMA MasterStepsRegistry == [Next]_vars => [RegNext]_regVars
<1> SUFFICES ASSUME Next
             PROVE  [RegNext]_regVars
  BY DEF vars, regVars
<1>1. ASSUME NEW r \in Requests,
             \/ InferAccepted(r)
             \/ InferRefused(r)
             \/ ClientWakes(r)
             \/ ClientGivesUp(r)
             \/ DispatchWakes(r)
             \/ PutResumes(r)
      PROVE  UNCHANGED regVars
  BY <1>1 DEF InferAccepted, InferRefused, ClientWakes, ClientGivesUp, Reply,
              DispatchWakes, PutResumes
<1>2. ASSUME NEW r \in Requests, NEW n \in Nodes, PostReturns(r, n)
      PROVE  RegNext
  BY <1>2 DEF PostReturns, PostSucceeds, PostFails, RegNext
<1>3. CASE DispatchLoop
  BY <1>3 DEF DispatchLoop
<1>4. CASE DispatchStarts
  BY <1>4 DEF DispatchStarts, DispatchSkips, DispatchFindsNoWorker, DispatchTo,
              RegNext
<1>5. CASE MonitorStep
  BY <1>5 DEF MonitorStep, MonitorTick, MonitorSkips, MonitorVisits,
              MonitorPasses, MonitorRecovers, MonitorPutResumes, MonitorGoesOn,
              MonitorSleeps, RegNext
<1>6. CASE WorkerCalls
  BY <1>6 DEF WorkerCalls, PurgeInactiveWorkers, RegisterWorker,
              WorkerHeartbeat, DeregisterWorker, DeleteWorker,
              HeartbeatLapses, RegNext
<1> QED
  BY <1>1, <1>2, <1>3, <1>4, <1>5, <1>6 DEF Next

\* The master implements the specification of the registry.
THEOREM MasterImplementsRegistry == Spec => RegSpec
<1>1. Init => RegInit
  BY DEF Init
<1> QED
  BY <1>1, MasterStepsRegistry, PTL DEF Spec, RegSpec

\* In the master, whatever its coroutines, its monitor and its handlers do, a
\* worker that is marked as serving reported a running Ollama.
THEOREM HealthyInMaster == Spec => []HealthyMeansOllama
  BY MasterImplementsRegistry, HealthyCorrect, PTL

\* In the master, too, only register_worker puts a worker back into the
\* schedule.
THEOREM OnlyRegisterRevivesInMaster == Spec => OnlyRegisterRevives
  BY MasterImplementsRegistry, OnlyRegisterRevivesCorrect, PTL

-----------------------------------------------------------------------------
(* Types. *)

LEMMA CountType ==
    ASSUME NEW f \in [Requests -> Nat], NEW r \in Requests
    PROVE  /\ More(f, r) \in [Requests -> Nat]
           /\ f[r] > 0 => Less(f, r) \in [Requests -> Nat]
  BY DEF More, Less

\* The records that the methods of the queue and the scheduler write.
LEMMA RecordTypes ==
    ASSUME NEW t \in TaskRecord, NEW n \in Nodes
    PROVE  /\ Completed(t, n) \in TaskRecord
           /\ Assigned(t, n) \in TaskRecord
  BY DEF Completed, Assigned, TaskRecord, TaskStatus

LEMMA FailedType ==
    ASSUME NEW t \in TaskRecord
    PROVE  Failed(t) \in TaskRecord
  BY DEF Failed, TaskRecord, TaskStatus

LEMMA RetriedType ==
    ASSUME NEW t \in TaskRecord
    PROVE  Retried(t) \in TaskRecord
<1> DEFINE k == t.retries + 1
<1>1. k \in Nat
  BY DEF TaskRecord
<1> HIDE DEF k
<1>2. [t EXCEPT !.status = "retrying", !.worker = NoNode, !.retries = k]
        \in TaskRecord
  BY <1>1 DEF TaskRecord, TaskStatus
<1> QED
  BY <1>2 DEF k, Retried

LEMMA MarkRetryingType ==
    ASSUME QueueTypeOK, NEW r \in Requests, MarkRetrying(r)
    PROVE  /\ task' \in [Requests -> TaskRecord]
           /\ UNCHANGED <<waiters, notified>>
  BY RetriedType DEF MarkRetrying, QueueTypeOK

LEMMA FinishedType ==
    ASSUME QueueTypeOK, NEW r \in Requests,
           \/ Fail(r)
           \/ \E n \in Nodes : Complete(r, n)
    PROVE  task' \in [Requests -> TaskRecord]
  BY RecordTypes, FailedType DEF Fail, Complete, QueueTypeOK

LEMMA PutType ==
    ASSUME QueueTypeOK, ~QueueFull, NEW r \in Requests, Put(r)
    PROVE  /\ queue' \in Seq(Requests)
           /\ Len(queue') <= MaxQueueSize
  BY MaxQueueSizeAssumption, AppendProperties, LenProperties
     DEF QueueTypeOK, QueueFull, Put

LEMMA NotifyType ==
    ASSUME QueueTypeOK, NEW r \in Requests, Notify(r)
    PROVE  waiters' \subseteq Requests /\ notified' \subseteq Requests
  BY DEF QueueTypeOK, Notify

\* What the end of a sleep or of a POST does to the queue's own state.
LEMMA RetryOrFailType ==
    ASSUME TypeOK, NEW r \in Requests, RetryOrFail(r)
    PROVE  QueueTypeOK' /\ putting' \in [Requests -> Nat]
<1> USE DEF TypeOK
<1>1. CASE MayRetry(r) /\ Requeue(r)
  <2>1. task' \in [Requests -> TaskRecord] /\ UNCHANGED <<waiters, notified>>
    BY <1>1, MarkRetryingType DEF Requeue
  <2>2. CASE QueueFull
    <3>1. UNCHANGED queue /\ putting' = More(putting, r)
      BY <1>1, <2>2 DEF Requeue
    <3>2. putting' \in [Requests -> Nat]
      BY <3>1, CountType
    <3> QED
      BY <2>1, <3>1, <3>2 DEF QueueTypeOK
  <2>3. CASE ~QueueFull
    BY <1>1, <2>1, <2>3, PutType DEF Requeue, QueueTypeOK
  <2> QED
    BY <2>2, <2>3
<1>2. CASE Fail(r) /\ UNCHANGED <<queue, putting>>
  BY <1>2, FinishedType, NotifyType DEF Fail, QueueTypeOK
<1> QED
  BY <1>1, <1>2 DEF RetryOrFail

LEMMA TypeInductive ==
    ASSUME TypeOK, RegTypeOK', [Next]_vars
    PROVE  TypeOK'
<1> USE DEF TypeOK
<1>1. CASE UNCHANGED vars
  BY <1>1 DEF vars, queueVars, dispatchVars, monitorVars, regVars, QueueTypeOK
<1>2. ASSUME NEW r \in Requests, InferAccepted(r)
      PROVE  TypeOK'
  <2>1. QueueTypeOK'
    BY <1>2, PutType
       DEF InferAccepted, Enqueue, RegisterWaiter, QueueTypeOK, NoTask,
           TaskRecord, TaskStatus
  <2> QED
    BY <1>2, <2>1
       DEF InferAccepted, ClientStates, dispatchVars, monitorVars
<1>3. ASSUME NEW r \in Requests,
             \/ InferRefused(r)
             \/ ClientWakes(r)
             \/ ClientGivesUp(r)
      PROVE  TypeOK'
  BY <1>3 DEF InferRefused, ClientWakes, ClientGivesUp, Reply, ReplyOf,
              ClientStates, QueueTypeOK, queueVars, dispatchVars, monitorVars
<1>4. ASSUME NEW r \in Requests, DispatchWakes(r)
      PROVE  TypeOK'
  BY <1>4, RetryOrFailType, CountType DEF DispatchWakes, monitorVars
<1>5. ASSUME NEW r \in Requests, PutResumes(r)
      PROVE  TypeOK'
  BY <1>5, PutType, CountType DEF PutResumes, QueueTypeOK, monitorVars
<1>6. ASSUME NEW r \in Requests, NEW n \in Nodes, PostSucceeds(r, n)
      PROVE  TypeOK'
  <2>1. QueueTypeOK'
    BY <1>6, FinishedType, NotifyType DEF PostSucceeds, Complete, QueueTypeOK
  <2> QED
    BY <1>6, <2>1 DEF PostSucceeds, PostEnds, monitorVars
<1>7. ASSUME NEW r \in Requests, NEW n \in Nodes, PostFails(r, n)
      PROVE  TypeOK'
  BY <1>7, RetryOrFailType DEF PostFails, PostEnds, monitorVars
<1>8. CASE DispatchLoop
  <2>1. ready' \in Seq(Requests)
    BY <1>8, ConcatProperties DEF DispatchLoop, QueueTypeOK
  <2>2. QueueTypeOK'
    BY <1>8, EmptySeq, MaxQueueSizeAssumption DEF DispatchLoop, QueueTypeOK
  <2> QED
    BY <1>8, <2>1, <2>2 DEF DispatchLoop, monitorVars
<1>9. ASSUME NEW r \in Requests, Starts(r)
      PROVE  ready' \in Seq(Requests)
  BY <1>9, HeadTailProperties DEF Starts
<1>10. ASSUME NEW r \in Requests, DispatchSkips(r) \/ DispatchFindsNoWorker(r)
       PROVE  TypeOK'
  <2>1. sleeping' \in [Requests -> Nat]
    <3>1. CASE DispatchSkips(r)
      BY <3>1 DEF DispatchSkips
    <3>2. CASE DispatchFindsNoWorker(r)
      BY <3>2, CountType DEF DispatchFindsNoWorker
    <3> QED
      BY <1>10, <3>1, <3>2
  <2> QED
    BY <1>9, <1>10, <2>1 DEF DispatchSkips, DispatchFindsNoWorker, QueueTypeOK,
                             queueVars, monitorVars
<1>11. ASSUME NEW r \in Requests, NEW n \in Nodes, DispatchTo(r, n)
       PROVE  TypeOK'
  <2>1. task' \in [Requests -> TaskRecord]
    BY <1>11, RecordTypes DEF DispatchTo, QueueTypeOK
  <2>2. posts' \in [Requests -> [Nodes -> Nat]]
    BY <1>11 DEF DispatchTo
  <2> QED
    BY <1>9, <1>11, <2>1, <2>2 DEF DispatchTo, QueueTypeOK, monitorVars
<1>12. CASE MonitorStep
  <2>1. ASSUME MonitorTick \/ MonitorGoesOn \/ MonitorSleeps
        PROVE  TypeOK'
    BY <2>1 DEF MonitorTick, MonitorGoesOn, MonitorSleeps, MonitorStates,
                Overdue, Registered, QueueTypeOK, queueVars, dispatchVars
  <2>2. ASSUME NEW n \in Nodes, MonitorSkips(n) \/ MonitorVisits(n)
        PROVE  TypeOK'
    BY <2>2 DEF MonitorSkips, MonitorVisits, MonitorStates, Accepted,
                QueueTypeOK, queueVars, dispatchVars
  <2>3. ASSUME NEW r \in Requests, MonitorPasses(r)
        PROVE  TypeOK'
    BY <2>3 DEF MonitorPasses, QueueTypeOK, queueVars, dispatchVars
  <2>4. ASSUME NEW r \in Requests, MonitorRecovers(r)
        PROVE  TypeOK'
    <3>1. QueueTypeOK'
      BY <2>4, MarkRetryingType, PutType DEF MonitorRecovers, QueueTypeOK
    <3> QED
      BY <2>4, <3>1, CountType DEF MonitorRecovers, MonitorStates, dispatchVars
  <2>5. ASSUME NEW r \in Requests, MonitorPutResumes(r)
        PROVE  TypeOK'
    BY <2>5, PutType DEF MonitorPutResumes, MonitorStates, QueueTypeOK,
                         dispatchVars
  <2> QED
    BY <1>12, <2>1, <2>2, <2>3, <2>4, <2>5 DEF MonitorStep
<1>13. CASE WorkerCalls
  BY <1>13 DEF WorkerCalls, PurgeInactiveWorkers, RegisterWorker,
               WorkerHeartbeat, DeregisterWorker, DeleteWorker,
               HeartbeatLapses, HeardOf, Detach, QueueTypeOK, queueVars,
               dispatchVars, monitorVars
<1> QED
  BY <1>1, <1>2, <1>3, <1>4, <1>5, <1>6, <1>7, <1>8, <1>10, <1>11, <1>12,
     <1>13 DEF Next, PostReturns, DispatchStarts

LEMMA TypeInit == Init => TypeOK
  BY MaxQueueSizeAssumption
     DEF Init, TypeOK, RegInit, RegTypeOK, WorkerRecord, WorkerStatus,
         Unregistered, QueueInit, QueueTypeOK, NoTask, TaskRecord, TaskStatus,
         ClientStates, MonitorStates

\* Every variable of the master keeps its type; the counts of coroutines
\* never become negative and the queue never exceeds its capacity.
THEOREM TypeCorrect == Spec => []TypeOK
<1>1. Spec => []RegTypeOK
  BY MasterImplementsRegistry, RegTypeCorrect, PTL
<1> QED
  BY <1>1, TypeInit, TypeInductive, PTL DEF Spec

-----------------------------------------------------------------------------
(* The targets file. *)

\* The master never marks a worker offline, so every method that changes the
\* set of known workers rewrites the file with all of them.
NoneOffline == \A n \in Nodes : workers[n].status # "offline"

LEMMA TargetsStep ==
    ASSUME TypeOK, TargetsCurrent, NoneOffline, [Next]_vars
    PROVE  TargetsCurrent' /\ NoneOffline'
<1> USE DEF TargetsCurrent, NoneOffline, Registered, TypeOK, RegTypeOK,
            WorkerRecord, WorkerStatus
<1>1. ASSUME UNCHANGED regVars
      PROVE  TargetsCurrent' /\ NoneOffline'
  BY <1>1 DEF regVars
<1>2. ASSUME WriteTargets, NoneOffline'
      PROVE  TargetsCurrent' /\ NoneOffline'
  BY <1>2 DEF WriteTargets
<1>3. ASSUME UNCHANGED targets,
             \A n \in Nodes :
                 /\ workers'[n].status # "offline"
                 /\ workers[n].status = "absent" <=> workers'[n].status = "absent"
      PROVE  TargetsCurrent' /\ NoneOffline'
  BY <1>3
<1>4. ASSUME NEW n \in Nodes, NEW h \in Healths, Register(n, h)
      PROVE  TargetsCurrent' /\ NoneOffline'
  <2>1. CASE n \in Registered
    BY <1>3, <1>4, <2>1 DEF Register
  <2>2. CASE n \notin Registered
    BY <1>2, <1>4, <2>2 DEF Register
  <2> QED
    BY <2>1, <2>2
<1>5. ASSUME NEW n \in Nodes, NEW h \in Healths, NEW a \in Reports,
             NEW o \in Overloads, UpdateHeartbeat(n, h, a, o)
      PROVE  TargetsCurrent' /\ NoneOffline'
  <2>1. HeartbeatStatus(workers[n].status, h, o) \notin {"absent", "offline"}
    BY <1>5 DEF UpdateHeartbeat, HeartbeatStatus
  <2> QED
    BY <1>3, <1>5, <2>1 DEF UpdateHeartbeat
<1>6. ASSUME NEW n \in Nodes, MarkUnhealthy(n)
      PROVE  TargetsCurrent' /\ NoneOffline'
  <2>1. CASE SetStatus(n, "unhealthy") /\ WriteTargets
    <3>1. NoneOffline'
      BY <2>1 DEF SetStatus
    <3> QED
      BY <1>2, <2>1, <3>1
  <2>2. CASE UNCHANGED regVars
    BY <1>1, <2>2
  <2> QED
    BY <1>6, <2>1, <2>2 DEF MarkUnhealthy
<1>7. ASSUME NEW n \in Nodes, Deregister(n)
      PROVE  TargetsCurrent' /\ NoneOffline'
  BY <1>2, <1>7 DEF Deregister, SetStatus
<1>8. ASSUME NEW S, Forget(S)
      PROVE  TargetsCurrent' /\ NoneOffline'
  BY <1>2, <1>8 DEF Forget, Unregistered
<1>9. ASSUME NEW n \in Nodes,
             \/ IncrementActive(n)
             \/ \E times \in {1, 2} : DecrementActive(n, times)
             \/ FallOverdue(n)
      PROVE  TargetsCurrent' /\ NoneOffline'
  <2>1. CASE IncrementActive(n)
    BY <1>3, <2>1 DEF IncrementActive
  <2>2. ASSUME NEW times \in {1, 2}, DecrementActive(n, times)
        PROVE  TargetsCurrent' /\ NoneOffline'
    BY <1>3, <2>2 DEF DecrementActive
  <2>3. CASE FallOverdue(n)
    BY <1>3, <2>3 DEF FallOverdue
  <2> QED
    BY <1>9, <2>1, <2>2, <2>3
<1>10. CASE WorkerCalls
  BY <1>4, <1>5, <1>7, <1>8, <1>9, <1>10
     DEF WorkerCalls, RegisterWorker, WorkerHeartbeat, DeregisterWorker,
         DeleteWorker, Remove, PurgeInactiveWorkers, PurgeInactive,
         HeartbeatLapses
<1>11. CASE MonitorStep
  BY <1>1, <1>6, <1>11
     DEF MonitorStep, MonitorTick, MonitorSkips, MonitorVisits, MonitorPasses,
         MonitorRecovers, MonitorPutResumes, MonitorGoesOn, MonitorSleeps
<1>12. ASSUME NEW r \in Requests, NEW n \in Nodes,
              PostReturns(r, n) \/ DispatchTo(r, n)
       PROVE  TargetsCurrent' /\ NoneOffline'
  <2>1. DecrementActive(n, 1) => DecrementActive(n, 1) /\ 1 \in {1, 2}
    OBVIOUS
  <2> QED
    BY <1>9, <1>12, <2>1 DEF PostReturns, PostSucceeds, PostFails, DispatchTo
<1> QED
  BY <1>1, <1>10, <1>11, <1>12
     DEF Next, vars, DispatchStarts, DispatchSkips, DispatchFindsNoWorker,
         DispatchLoop, InferAccepted, InferRefused, ClientWakes, ClientGivesUp,
         Reply, DispatchWakes, PutResumes

\* The targets file names exactly the registered workers.
THEOREM TargetsCurrentCorrect == Spec => []TargetsCurrent
<1>1. Init => TargetsCurrent /\ NoneOffline
  BY DEF Init, RegInit, TargetsCurrent, NoneOffline, Registered, Unregistered
<1> QED
  BY <1>1, TargetsStep, TypeCorrect, PTL DEF Spec

-----------------------------------------------------------------------------
(* The bound on retries. *)

LEMMA RetryBoundStep ==
    ASSUME TypeOK, RetryBound, [Next]_vars
    PROVE  RetryBound'
<1> USE MaxRetriesAssumption DEF TypeOK, QueueTypeOK, RetryBound
<1>1. ASSUME UNCHANGED recoveries,
             \A s \in Requests : task'[s].retries = task[s].retries
      PROVE  RetryBound'
  BY <1>1
<1>2. ASSUME NEW r \in Requests, RetryOrFail(r), UNCHANGED recoveries
      PROVE  RetryBound'
  <2>1. CASE MayRetry(r) /\ Requeue(r)
    <3>1. /\ task[r].retries < MaxRetries
          /\ task' = [task EXCEPT ![r] = Retried(@)]
      BY <2>1 DEF MayRetry, Requeue, MarkRetrying
    <3>2. task[r].retries \in Nat /\ Retried(task[r]).retries = task[r].retries + 1
      BY DEF Retried, TaskRecord
    <3>3. recoveries[r] \in Nat /\ task'[r].retries \in 0 .. MaxRetries
      BY <3>1, <3>2
    <3>4. \A s \in Requests \ {r} : task'[s] = task[s]
      BY <3>1
    <3> SUFFICES ASSUME NEW s \in Requests
                 PROVE  task'[s].retries <= MaxRetries + recoveries[s]
      BY <1>2
    <3>5. CASE s = r
      BY <3>3, <3>5
    <3>6. CASE s # r
      BY <3>4, <3>6
    <3> QED
      BY <3>5, <3>6
  <2>2. CASE Fail(r)
    BY <1>1, <1>2, <2>2 DEF Fail, Failed, TaskRecord
  <2> QED
    BY <1>2, <2>1, <2>2 DEF RetryOrFail
<1>3. ASSUME NEW r \in Requests, MonitorRecovers(r)
      PROVE  RetryBound'
  <2>1. /\ task' = [task EXCEPT ![r] = Retried(@)]
        /\ recoveries' = [recoveries EXCEPT ![r] = @ + 1]
    BY <1>3 DEF MonitorRecovers, MarkRetrying, More
  <2>2. task[r].retries \in Nat /\ Retried(task[r]).retries = task[r].retries + 1
    BY DEF Retried, TaskRecord
  <2>3. \A s \in Requests \ {r} :
            task'[s] = task[s] /\ recoveries'[s] = recoveries[s]
    BY <2>1
  <2>4. /\ recoveries[r] \in Nat
        /\ task'[r].retries = task[r].retries + 1
        /\ recoveries'[r] = recoveries[r] + 1
    BY <2>1, <2>2
  <2> SUFFICES ASSUME NEW s \in Requests
               PROVE  task'[s].retries <= MaxRetries + recoveries'[s]
    OBVIOUS
  <2>5. CASE s = r
    BY <2>2, <2>4, <2>5
  <2>6. CASE s # r
    BY <2>3, <2>6
  <2> QED
    BY <2>5, <2>6
<1>4. ASSUME NEW r \in Requests, InferAccepted(r)
      PROVE  RetryBound'
  BY <1>4 DEF InferAccepted, Enqueue, NoTask
<1>5. ASSUME NEW r \in Requests, NEW n \in Nodes,
             PostSucceeds(r, n) \/ DispatchTo(r, n)
      PROVE  RetryBound'
  <2>1. /\ Completed(task[r], n).retries = task[r].retries
        /\ Assigned(task[r], n).retries = task[r].retries
    BY DEF Completed, Assigned, TaskRecord
  <2> QED
    BY <1>1, <1>5, <2>1 DEF PostSucceeds, Complete, DispatchTo
<1>6. ASSUME UNCHANGED <<task, recoveries>>
      PROVE  RetryBound'
  BY <1>6
<1>7. CASE MonitorStep
  BY <1>3, <1>6, <1>7
     DEF MonitorStep, MonitorTick, MonitorSkips, MonitorVisits, MonitorPasses,
         MonitorPutResumes, MonitorGoesOn, MonitorSleeps, queueVars
<1>8. CASE WorkerCalls
  BY <1>6, <1>8 DEF WorkerCalls, RegisterWorker, WorkerHeartbeat,
                    DeregisterWorker, DeleteWorker, PurgeInactiveWorkers,
                    HeartbeatLapses, queueVars
<1>9. ASSUME NEW r \in Requests,
             \/ DispatchWakes(r)
             \/ \E n \in Nodes : PostFails(r, n)
      PROVE  RetryBound'
  BY <1>2, <1>9 DEF DispatchWakes, PostFails
<1> QED
  BY <1>4, <1>5, <1>6, <1>7, <1>8, <1>9
     DEF Next, vars, queueVars, DispatchStarts, DispatchSkips,
         DispatchFindsNoWorker, DispatchLoop, InferRefused, ClientWakes,
         ClientGivesUp, Reply, PutResumes, PostReturns

\* The retries of a request never exceed max_retries by more than the number
\* of times the monitor has requeued it.
THEOREM RetryBoundCorrect == Spec => []RetryBound
<1>1. Init => RetryBound
  BY MaxRetriesAssumption DEF Init, QueueInit, RetryBound, NoTask
<1> QED
  BY <1>1, RetryBoundStep, TypeCorrect, PTL DEF Spec

-----------------------------------------------------------------------------
(* No request is lost. *)

LEMMA RangeAppend ==
    ASSUME NEW S, NEW s \in Seq(S), NEW e \in S
    PROVE  Range(Append(s, e)) = Range(s) \cup {e}
<1>1. <<e>> \in Seq(S)
  OBVIOUS
<1>2. Range(<<e>>) = {e}
  BY DEF Range
<1>3. Append(s, e) = s \o <<e>>
  BY AppendIsConcat
<1> DEFINE single == <<e>>
<1> HIDE DEF single
<1>4. Range(s \o single) = Range(s) \cup Range(single)
  <2>1. single \in Seq(S)
    BY <1>1 DEF single
  <2> QED
    BY <2>1, RangeConcatenation
<1> QED
  BY <1>2, <1>3, <1>4 DEF single

LEMMA RangeHeadTail ==
    ASSUME NEW S, NEW s \in Seq(S), s # <<>>
    PROVE  Range(s) = {Head(s)} \cup Range(Tail(s))
<1>1. Tail(s) \in Seq(S) /\ Len(Tail(s)) = Len(s) - 1
  BY HeadTailProperties
<1>2. Len(s) \in Nat /\ Len(s) >= 1
  BY EmptySeq, LenProperties
<1>3. Head(s) = s[1] /\ \A i \in 1 .. Len(s) - 1 : Tail(s)[i] = s[i + 1]
  BY <1>1, HeadTailProperties
<1>4. /\ Range(s) = {s[i] : i \in 1 .. Len(s)}
      /\ Range(Tail(s)) = {Tail(s)[i] : i \in 1 .. Len(s) - 1}
  BY <1>1, RangeEquality
<1>5. ASSUME NEW x \in Range(s)
      PROVE  x \in {Head(s)} \cup Range(Tail(s))
  <2>1. PICK i \in 1 .. Len(s) : x = s[i]
    BY <1>4, <1>5
  <2>2. CASE i = 1
    BY <1>3, <2>1, <2>2
  <2>3. CASE i # 1
    <3>1. i - 1 \in 1 .. Len(s) - 1 /\ Tail(s)[i - 1] = s[i]
      BY <1>2, <1>3, <2>3
    <3> QED
      BY <1>4, <2>1, <3>1
  <2> QED
    BY <2>2, <2>3
<1>6. ASSUME NEW x \in Range(Tail(s))
      PROVE  x \in Range(s)
  <2>1. PICK i \in 1 .. Len(s) - 1 : x = Tail(s)[i]
    BY <1>4, <1>6
  <2>2. i + 1 \in 1 .. Len(s) /\ x = s[i + 1]
    BY <1>2, <1>3, <2>1
  <2> QED
    BY <1>4, <2>2
<1>7. Head(s) \in Range(s)
  BY <1>2, <1>3, <1>4
<1> QED
  BY <1>5, <1>6, <1>7

\* What a put, the dispatch loop and the start of a coroutine do to the set
\* of requests in the queue and among the coroutines.
LEMMA PutRange ==
    ASSUME TypeOK, NEW r \in Requests, Put(r)
    PROVE  Range(queue') = Range(queue) \cup {r}
  BY RangeAppend DEF TypeOK, QueueTypeOK, Put

LEMMA StartsRange ==
    ASSUME TypeOK, NEW r \in Requests, Starts(r)
    PROVE  Range(ready) = {r} \cup Range(ready')
  BY RangeHeadTail DEF TypeOK, Starts

\* A step that leaves a request alone, takes none of its places away and ends
\* none of its POSTs keeps it located.
LEMMA LocatedFrame ==
    ASSUME TypeOK, NEW s \in Requests, Located(s),
           task'[s] = task[s], HasToken(s) => HasToken(s)',
           \A n \in Nodes : posts[s][n] > 0 => posts'[s][n] > 0
    PROVE  Located(s)'
  BY DEF Located

\* The end of a sleep or of a POST: the request is requeued, blocked in
\* requeue, or failed; other requests keep their places.
LEMMA RetryOrFailLocates ==
    ASSUME TypeOK, NEW r \in Requests, RetryOrFail(r), UNCHANGED ready
    PROVE  /\ Located(r)'
           /\ \A s \in Requests \ {r} :
                /\ task'[s] = task[s]
                /\ putting'[s] = putting[s]
                /\ s \in Range(queue) => s \in Range(queue')
<1> USE DEF TypeOK, QueueTypeOK
<1>1. CASE MayRetry(r) /\ Requeue(r)
  <2>1. task' = [task EXCEPT ![r] = Retried(@)]
    BY <1>1 DEF Requeue, MarkRetrying
  <2>2. Retried(task[r]).status = "retrying"
    BY DEF Retried, TaskRecord
  <2>3. CASE QueueFull
    <3>1. UNCHANGED queue /\ putting' = More(putting, r)
      BY <1>1, <2>3 DEF Requeue
    <3>2. putting'[r] > 0 /\ \A s \in Requests \ {r} : putting'[s] = putting[s]
      BY <3>1 DEF More
    <3> QED
      BY <2>1, <2>2, <3>1, <3>2 DEF Located, HasToken
  <2>4. CASE ~QueueFull
    <3>1. Put(r) /\ UNCHANGED putting
      BY <1>1, <2>4 DEF Requeue
    <3> QED
      BY <2>1, <2>2, <3>1, PutRange DEF Located, HasToken
  <2> QED
    BY <2>3, <2>4
<1>2. CASE Fail(r) /\ UNCHANGED <<queue, putting>>
  <2>1. task' = [task EXCEPT ![r] = Failed(@)]
    BY <1>2 DEF Fail
  <2>2. Failed(task[r]).status = "failed"
    BY DEF Failed, TaskRecord
  <2> QED
    BY <1>2, <2>1, <2>2 DEF Located
<1> QED
  BY <1>1, <1>2 DEF RetryOrFail

\* Each step keeps every request located.
LEMMA LocatedStep ==
    ASSUME TypeOK, NoLostTask, [Next]_vars
    PROVE  NoLostTask'
<1> SUFFICES ASSUME NEW s \in Requests
             PROVE  Located(s)'
  BY DEF NoLostTask
<1>1. Located(s)
  BY DEF NoLostTask
<1> USE DEF TypeOK, QueueTypeOK
<1>2. ASSUME UNCHANGED <<queue, task, ready, sleeping, putting, posts>>,
             monitorAt = "putting" => UNCHANGED <<monitorAt, left>>
      PROVE  Located(s)'
  BY <1>1, <1>2 DEF Located, HasToken, FirstLeft
<1>3. ASSUME NEW r \in Requests, InferAccepted(r)
      PROVE  Located(s)'
  <2>1. Range(queue') = Range(queue) \cup {r}
    BY <1>3, PutRange DEF InferAccepted, Enqueue
  <2>2. CASE s = r
    BY <1>3, <2>1, <2>2 DEF InferAccepted, Enqueue, NoTask, Located, HasToken
  <2>3. CASE s # r
    BY <1>1, <1>3, <2>1, <2>3
       DEF InferAccepted, Enqueue, dispatchVars, monitorVars, Located,
           HasToken, FirstLeft
  <2> QED
    BY <2>2, <2>3
<1>4. ASSUME NEW r \in Requests, DispatchWakes(r)
      PROVE  Located(s)'
  <2>1. RetryOrFail(r) /\ UNCHANGED ready
    BY <1>4 DEF DispatchWakes
  <2>2. s # r => sleeping'[s] = sleeping[s]
    BY <1>4 DEF DispatchWakes, Less
  <2>3. CASE s = r
    BY <2>1, <2>3, RetryOrFailLocates
  <2>4. CASE s # r
    <3>1. HasToken(s) => HasToken(s)'
      BY <1>4, <2>1, <2>2, <2>4, RetryOrFailLocates
         DEF DispatchWakes, monitorVars, HasToken, FirstLeft
    <3> QED
      BY <1>1, <1>4, <2>1, <2>4, <3>1, RetryOrFailLocates, LocatedFrame
         DEF DispatchWakes
  <2> QED
    BY <2>3, <2>4
<1>5. ASSUME NEW r \in Requests, PutResumes(r)
      PROVE  Located(s)'
  <2>1. Range(queue') = Range(queue) \cup {r}
    BY <1>5, PutRange DEF PutResumes
  <2>2. s # r => putting'[s] = putting[s]
    BY <1>5 DEF PutResumes, Less
  <2> QED
    BY <1>1, <1>5, <2>1, <2>2
       DEF PutResumes, monitorVars, Located, HasToken, FirstLeft
<1>6. ASSUME NEW r \in Requests, NEW n \in Nodes, PostSucceeds(r, n)
      PROVE  Located(s)'
  <2>1. task' = [task EXCEPT ![r] = Completed(@, n)]
    BY <1>6 DEF PostSucceeds, Complete
  <2>2. CASE s = r
    <3>1. task'[s].status = "completed"
      BY <2>1, <2>2 DEF Completed, TaskRecord
    <3> QED
      BY <3>1 DEF Located
  <2>3. CASE s # r
    <3>1. HasToken(s) => HasToken(s)'
      BY <1>6 DEF PostSucceeds, monitorVars, HasToken, FirstLeft
    <3> QED
      BY <1>1, <1>6, <2>1, <2>3, <3>1, LocatedFrame DEF PostSucceeds, PostEnds
  <2> QED
    BY <2>2, <2>3
<1>7. ASSUME NEW r \in Requests, NEW n \in Nodes, PostFails(r, n)
      PROVE  Located(s)'
  <2>1. RetryOrFail(r) /\ UNCHANGED ready
    BY <1>7 DEF PostFails
  <2>2. CASE s = r
    BY <2>1, <2>2, RetryOrFailLocates
  <2>3. CASE s # r
    <3>1. HasToken(s) => HasToken(s)'
      BY <1>7, <2>1, <2>3, RetryOrFailLocates
         DEF PostFails, monitorVars, HasToken, FirstLeft
    <3> QED
      BY <1>1, <1>7, <2>1, <2>3, <3>1, RetryOrFailLocates, LocatedFrame
         DEF PostFails, PostEnds
  <2> QED
    BY <2>2, <2>3
<1>8. CASE DispatchLoop
  <2>1. Range(ready') = Range(ready) \cup Range(queue)
    BY <1>8, RangeConcatenation DEF DispatchLoop
  <2> QED
    BY <1>1, <1>8, <2>1
       DEF DispatchLoop, monitorVars, Located, HasToken, FirstLeft
<1>9. ASSUME NEW r \in Requests, DispatchSkips(r)
      PROVE  Located(s)'
  <2>1. Range(ready) = {r} \cup Range(ready')
    BY <1>9, StartsRange DEF DispatchSkips
  <2> QED
    BY <1>1, <1>9, <2>1
       DEF DispatchSkips, queueVars, monitorVars, Located, HasToken, FirstLeft
<1>10. ASSUME NEW r \in Requests, DispatchFindsNoWorker(r)
       PROVE  Located(s)'
  <2>1. Range(ready) = {r} \cup Range(ready')
    BY <1>10, StartsRange DEF DispatchFindsNoWorker
  <2>2. sleeping'[r] > 0 /\ (s # r => sleeping'[s] = sleeping[s])
    BY <1>10 DEF DispatchFindsNoWorker, More
  <2> QED
    BY <1>1, <1>10, <2>1, <2>2
       DEF DispatchFindsNoWorker, queueVars, monitorVars, Located, HasToken,
           FirstLeft
<1>11. ASSUME NEW r \in Requests, NEW n \in Nodes, DispatchTo(r, n)
       PROVE  Located(s)'
  <2>1. Range(ready) = {r} \cup Range(ready')
    BY <1>11, StartsRange DEF DispatchTo
  <2>2. /\ task' = [task EXCEPT ![r] = Assigned(@, n)]
        /\ posts' = [posts EXCEPT ![r][n] = @ + 1]
    BY <1>11 DEF DispatchTo
  <2>3. posts'[r][n] > 0
    BY <2>2
  <2>4. CASE s = r
    <3>1. task'[s].status = "assigned" /\ task'[s].worker = n
      BY <2>2, <2>4 DEF Assigned, TaskRecord
    <3> QED
      BY <2>3, <2>4, <3>1 DEF Located
  <2>5. CASE s # r
    <3>1. HasToken(s) => HasToken(s)'
      BY <1>11, <2>1, <2>5 DEF DispatchTo, monitorVars, HasToken, FirstLeft
    <3>2. \A m \in Nodes : posts[s][m] > 0 => posts'[s][m] > 0
      BY <1>11, <2>5 DEF DispatchTo
    <3> QED
      BY <1>1, <2>2, <2>5, <3>1, <3>2, LocatedFrame
  <2> QED
    BY <2>4, <2>5
<1>12. ASSUME NEW r \in Requests, MonitorRecovers(r)
       PROVE  Located(s)'
  <2>1. task' = [task EXCEPT ![r] = Retried(@)]
    BY <1>12 DEF MonitorRecovers, MarkRetrying
  <2>2. monitorAt = "recovering" /\ FirstLeft(r) /\ UNCHANGED dispatchVars
    BY <1>12 DEF MonitorRecovers
  <2>3. HasToken(r)' /\ (s # r /\ HasToken(s) => HasToken(s)')
    <3>1. CASE QueueFull
      BY <1>12, <2>2, <3>1
         DEF MonitorRecovers, dispatchVars, HasToken, FirstLeft
    <3>2. CASE ~QueueFull
      <4>1. Range(queue') = Range(queue) \cup {r} /\ UNCHANGED monitorAt
        BY <1>12, <3>2, PutRange DEF MonitorRecovers
      <4> QED
        BY <2>2, <4>1 DEF dispatchVars, HasToken
    <3> QED
      BY <3>1, <3>2
  <2>4. CASE s = r
    <3>1. task'[s].status = "retrying"
      BY <2>1, <2>4 DEF Retried, TaskRecord
    <3> QED
      BY <2>3, <2>4, <3>1 DEF Located
  <2>5. CASE s # r
    BY <1>1, <2>1, <2>2, <2>3, <2>5, LocatedFrame DEF dispatchVars
  <2> QED
    BY <2>4, <2>5
<1>13. ASSUME NEW r \in Requests, MonitorPutResumes(r)
       PROVE  Located(s)'
  <2>1. Range(queue') = Range(queue) \cup {r}
    BY <1>13, PutRange DEF MonitorPutResumes
  <2>2. FirstLeft(s) => s = r
    BY <1>13, MaxRequestsAssumption DEF MonitorPutResumes, FirstLeft, Requests
  <2> QED
    BY <1>1, <1>13, <2>1, <2>2
       DEF MonitorPutResumes, dispatchVars, Located, HasToken
<1>14. CASE MonitorStep
  BY <1>2, <1>12, <1>13, <1>14
     DEF MonitorStep, MonitorTick, MonitorSkips, MonitorVisits, MonitorPasses,
         MonitorGoesOn, MonitorSleeps, queueVars, dispatchVars
<1>15. CASE WorkerCalls
  BY <1>2, <1>15
     DEF WorkerCalls, RegisterWorker, WorkerHeartbeat, DeregisterWorker,
         DeleteWorker, PurgeInactiveWorkers, HeartbeatLapses, HeardOf, Detach,
         queueVars, dispatchVars, monitorVars
<1>16. ASSUME NEW r \in Requests,
              InferRefused(r) \/ ClientWakes(r) \/ ClientGivesUp(r)
       PROVE  Located(s)'
  BY <1>2, <1>16 DEF InferRefused, ClientWakes, ClientGivesUp, Reply,
                     queueVars, dispatchVars, monitorVars
<1>17. CASE UNCHANGED vars
  BY <1>2, <1>17 DEF vars, queueVars, dispatchVars, monitorVars
<1> QED
  BY <1>3, <1>4, <1>5, <1>6, <1>7, <1>8, <1>9, <1>10, <1>11, <1>14, <1>15,
     <1>16, <1>17 DEF Next, DispatchStarts, PostReturns

\* No request is lost: one on its way is where the master will find it, and
\* one assigned to a worker has a POST to that worker outstanding.
THEOREM NoLostTaskCorrect == Spec => []NoLostTask
<1>1. Init => NoLostTask
  BY DEF Init, QueueInit, NoLostTask, Located, NoTask
<1> QED
  BY <1>1, LocatedStep, TypeCorrect, PTL DEF Spec

-----------------------------------------------------------------------------
(* No wakeup is lost. *)

\* A caller who waits has registered its event, which leaves the table of
\* waiters only when it is set, and it is set with the outcome.
LEMMA WakeupStep ==
    ASSUME TypeOK, NoLostWakeup, [Next]_vars
    PROVE  NoLostWakeup'
<1>0. task \in [Requests -> TaskRecord] /\ client \in [Requests -> ClientStates]
  BY DEF TypeOK, QueueTypeOK
<1>1. ASSUME UNCHANGED queueVars,
             \A s \in Requests : client'[s] = "waiting" => client[s] = "waiting"
      PROVE  NoLostWakeup'
  BY <1>1 DEF NoLostWakeup, queueVars, Finished
<1>2. ASSUME UNCHANGED <<client, waiters, notified>>,
             \A s \in Requests : Finished(s)' => Finished(s)
      PROVE  NoLostWakeup'
  BY <1>2 DEF NoLostWakeup
<1>3. ASSUME NEW r \in Requests, UNCHANGED client, Notify(r),
             \A s \in Requests \ {r} : task'[s] = task[s]
      PROVE  NoLostWakeup'
  BY <1>3 DEF NoLostWakeup, Notify, Finished
<1>4. ASSUME NEW r \in Requests, MarkRetrying(r), UNCHANGED client
      PROVE  NoLostWakeup'
  BY <1>0, <1>2, <1>4 DEF MarkRetrying, Retried, Finished, TaskRecord
<1>5. ASSUME NEW r \in Requests, RetryOrFail(r), UNCHANGED client
      PROVE  NoLostWakeup'
  <2>1. CASE Requeue(r)
    BY <1>4, <1>5, <2>1 DEF Requeue
  <2>2. CASE Fail(r)
    BY <1>0, <1>3, <1>5, <2>2 DEF Fail
  <2> QED
    BY <1>5, <2>1, <2>2 DEF RetryOrFail
<1>6. ASSUME NEW r \in Requests, InferAccepted(r)
      PROVE  NoLostWakeup'
  <2>1. /\ waiters' = waiters \cup {r}
        /\ notified' = notified
        /\ client' = [client EXCEPT ![r] = "waiting"]
        /\ task' = [task EXCEPT ![r] = [NoTask EXCEPT !.status = "queued"]]
    BY <1>6 DEF InferAccepted, Enqueue, RegisterWaiter
  <2>2. ~Finished(r)'
    BY <1>0, <2>1 DEF Finished, NoTask
  <2>3. \A s \in Requests \ {r} : client'[s] = client[s] /\ task'[s] = task[s]
    BY <1>0, <2>1
  <2> QED
    BY <2>1, <2>2, <2>3 DEF NoLostWakeup, Finished
<1>7. ASSUME NEW r \in Requests, NEW n \in Nodes, PostSucceeds(r, n)
      PROVE  NoLostWakeup'
  BY <1>0, <1>3, <1>7 DEF PostSucceeds, Complete
<1>8. ASSUME NEW r \in Requests, NEW n \in Nodes, DispatchTo(r, n)
      PROVE  NoLostWakeup'
  BY <1>0, <1>2, <1>8 DEF DispatchTo, Assigned, Finished, TaskRecord
<1>9. ASSUME NEW r \in Requests,
             InferRefused(r) \/ ClientWakes(r) \/ ClientGivesUp(r)
      PROVE  NoLostWakeup'
  BY <1>0, <1>1, <1>9
     DEF InferRefused, ClientWakes, ClientGivesUp, Reply, ReplyOf
<1>10. CASE UNCHANGED <<client, task, waiters, notified>>
  BY <1>2, <1>10 DEF Finished
<1> QED
  BY <1>4, <1>5, <1>6, <1>7, <1>8, <1>9, <1>10
     DEF Next, vars, queueVars, DispatchStarts, DispatchSkips, DispatchWakes,
         DispatchFindsNoWorker, DispatchLoop, PutResumes, PostReturns,
         PostFails, MonitorStep, MonitorTick, MonitorSkips, MonitorVisits,
         MonitorPasses, MonitorRecovers, MonitorPutResumes, MonitorGoesOn,
         MonitorSleeps, WorkerCalls, RegisterWorker, WorkerHeartbeat,
         DeregisterWorker, DeleteWorker, PurgeInactiveWorkers, HeartbeatLapses

\* No interleaving of a request's outcome with its caller's wait loses the
\* wakeup.
THEOREM NoLostWakeupCorrect == Spec => []NoLostWakeup
<1>1. Init => NoLostWakeup
  BY DEF Init, NoLostWakeup
<1> QED
  BY <1>1, WakeupStep, TypeCorrect, PTL DEF Spec
=============================================================================
