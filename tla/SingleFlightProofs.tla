------------------------- MODULE SingleFlightProofs -------------------------
(***************************************************************************)
(* A request that the monitor has not requeued runs once at a time and has *)
(* one outcome; from that, that outcomes are final and that the master     *)
(* keeps the contract of POST /infer.  One that it has requeued has one    *)
(* copy more for each time, and is at rest when the last copy is gone.     *)
(***************************************************************************)
EXTENDS MasterProofs, FiniteSetTheorems

-----------------------------------------------------------------------------
(* Sequences in which an element occurs once. *)

LEMMA OnceAppend ==
    ASSUME NEW S, NEW q \in Seq(S), NEW e \in S, NEW s \in S, Once(s, q),
           s = e => s \notin Range(q)
    PROVE  Once(s, Append(q, e))
<1>1. /\ Len(q) \in Nat
      /\ DOMAIN q = 1 .. Len(q)
      /\ DOMAIN Append(q, e) = 1 .. Len(q) + 1
      /\ \A i \in 1 .. Len(q) : Append(q, e)[i] = q[i]
      /\ Append(q, e)[Len(q) + 1] = e
  BY AppendProperties, LenProperties
<1>2. \A i \in 1 .. Len(q) : q[i] \in Range(q)
  BY <1>1 DEF Range
<1> SUFFICES ASSUME NEW i \in DOMAIN Append(q, e), NEW j \in DOMAIN Append(q, e),
                    Append(q, e)[i] = s, Append(q, e)[j] = s
             PROVE  i = j
  BY DEF Once
<1>3. CASE i \in 1 .. Len(q) /\ j \in 1 .. Len(q)
  BY <1>1, <1>3 DEF Once
<1>4. CASE i = Len(q) + 1 \/ j = Len(q) + 1
  BY <1>1, <1>2, <1>4
<1> QED
  BY <1>1, <1>3, <1>4

LEMMA OnceHeadTail ==
    ASSUME NEW S, NEW q \in Seq(S), q # <<>>, NEW s \in S, Once(s, q)
    PROVE  /\ Once(s, Tail(q))
           /\ s = Head(q) => s \notin Range(Tail(q))
<1>1. /\ Tail(q) \in Seq(S)
      /\ Len(q) \in Nat
      /\ Len(q) >= 1
      /\ Len(Tail(q)) = Len(q) - 1
      /\ DOMAIN q = 1 .. Len(q)
      /\ DOMAIN Tail(q) = 1 .. Len(q) - 1
      /\ Head(q) = q[1]
      /\ \A i \in 1 .. Len(q) - 1 : Tail(q)[i] = q[i + 1]
  BY HeadTailProperties, LenProperties, EmptySeq
<1>2. Once(s, Tail(q))
  BY <1>1 DEF Once
<1>3. ASSUME s = Head(q), s \in Range(Tail(q))
      PROVE  FALSE
  <2>1. PICK i \in 1 .. Len(q) - 1 : q[i + 1] = s
    BY <1>1, <1>3 DEF Range
  <2>2. 1 = i + 1
    BY <1>1, <1>3, <2>1 DEF Once
  <2> QED
    BY <1>1, <2>1, <2>2
<1> QED
  BY <1>2, <1>3

LEMMA OnceConcat ==
    ASSUME NEW S, NEW p \in Seq(S), NEW q \in Seq(S), NEW s \in S,
           Once(s, p), Once(s, q), s \in Range(q) => s \notin Range(p)
    PROVE  Once(s, p \o q)
<1>1. /\ Len(p) \in Nat
      /\ Len(q) \in Nat
      /\ DOMAIN p = 1 .. Len(p)
      /\ DOMAIN q = 1 .. Len(q)
      /\ DOMAIN (p \o q) = 1 .. Len(p) + Len(q)
  BY ConcatProperties, LenProperties
<1>2. \A i \in 1 .. Len(p) + Len(q) :
        (p \o q)[i] = IF i <= Len(p) THEN p[i] ELSE q[i - Len(p)]
  OBVIOUS
<1>3. /\ \A i \in 1 .. Len(p) : p[i] \in Range(p)
      /\ \A i \in 1 .. Len(q) : q[i] \in Range(q)
  BY <1>1 DEF Range
<1> SUFFICES ASSUME NEW i \in 1 .. Len(p) + Len(q),
                    NEW j \in 1 .. Len(p) + Len(q),
                    (p \o q)[i] = s, (p \o q)[j] = s
             PROVE  i = j
  BY <1>1 DEF Once
<1>4. CASE i <= Len(p) /\ j <= Len(p)
  BY <1>1, <1>2, <1>4 DEF Once
<1>5. CASE i > Len(p) /\ j > Len(p)
  <2>1. i - Len(p) \in DOMAIN q /\ j - Len(p) \in DOMAIN q
    BY <1>1, <1>5
  <2>2. q[i - Len(p)] = s /\ q[j - Len(p)] = s
    BY <1>1, <1>2, <1>5
  <2>3. i - Len(p) = j - Len(p)
    BY <2>1, <2>2 DEF Once
  <2> QED
    BY <1>1, <2>3
<1>6. CASE ~(i <= Len(p) <=> j <= Len(p))
  BY <1>1, <1>2, <1>3, <1>6
<1> QED
  BY <1>1, <1>4, <1>5, <1>6

-----------------------------------------------------------------------------
(* The invariant. *)

\* A call that has not been made or has been refused has no record, and a
\* request without a record has not been requeued.
OnlyAcceptedHaveRecords ==
    \A r \in Requests :
        /\ client[r] \in {"new", "refused"} <=> task[r].status = "none"
        /\ task[r].status = "none" => recoveries[r] = 0

\* What a blocked put of the monitor holds is a request it has requeued.
HeldIsRecovered ==
    \A r \in Requests :
        monitorAt = "putting" /\ FirstLeft(r) => recoveries[r] > 0

IInv ==
    /\ TypeOK
    /\ OnlyAcceptedHaveRecords
    /\ HeldIsRecovered
    /\ SingleFlight

LEMMA InitIInv == Init => IInv
<1> SUFFICES ASSUME Init
             PROVE  OnlyAcceptedHaveRecords /\ HeldIsRecovered /\ SingleFlight
  BY TypeInit DEF IInv
<1> USE DEF Init, QueueInit, NoTask
<1>1. OnlyAcceptedHaveRecords /\ HeldIsRecovered
  BY DEF OnlyAcceptedHaveRecords, HeldIsRecovered
<1>2. Range(queue) = {} /\ Range(ready) = {}
  BY DEF Range
<1>3. SingleFlight
  BY <1>2 DEF SingleFlight, Undisturbed, OneToken, Once
<1> QED
  BY <1>1, <1>3

\* What has a coroutine has a record.
LEMMA TokensHaveRecords ==
    ASSUME IInv, NEW r \in Requests,
           \/ r \in Range(queue) \cup Range(ready)
           \/ sleeping[r] > 0
           \/ putting[r] > 0
           \/ \E n \in Nodes : posts[r][n] > 0
    PROVE  task[r].status # "none"
<1> SUFFICES ASSUME task[r].status = "none"
             PROVE  FALSE
  OBVIOUS
<1>1. Undisturbed(r)
  BY DEF IInv, OnlyAcceptedHaveRecords, SingleFlight
<1>2. sleeping[r] \in Nat /\ putting[r] \in Nat
  BY DEF IInv, TypeOK
<1> QED
  BY <1>1, <1>2 DEF Undisturbed, InFlightOn

LEMMA StartsHasRecord ==
    ASSUME IInv, NEW r \in Requests, Starts(r)
    PROVE  r \in Range(ready) /\ task[r].status # "none"
<1>1. r \in Range(ready)
  BY StartsRange DEF IInv, Starts
<1> QED
  BY <1>1, TokensHaveRecords

\* No method takes a record back to having none.
LEMMA RecordsStay ==
    ASSUME NEW t \in TaskRecord
    PROVE  /\ Retried(t).status # "none"
           /\ Failed(t).status # "none"
           /\ \A n \in Nodes : Completed(t, n).status # "none"
           /\ \A n \in Nodes : Assigned(t, n).status # "none"
  BY DEF Retried, Failed, Completed, Assigned, TaskRecord

\* A record comes into being with the acceptance of a call and never goes.
LEMMA RecordsStep ==
    ASSUME IInv, [Next]_vars
    PROVE  OnlyAcceptedHaveRecords'
<1> USE DEF OnlyAcceptedHaveRecords
<1>1. TypeOK /\ QueueTypeOK /\ OnlyAcceptedHaveRecords
  BY DEF IInv, TypeOK
<1>2. ASSUME NEW r \in Requests, InferAccepted(r)
      PROVE  OnlyAcceptedHaveRecords'
  BY <1>1, <1>2
     DEF InferAccepted, Enqueue, NextCall, NoTask, TypeOK, QueueTypeOK
<1>3. ASSUME NEW r \in Requests, InferRefused(r)
      PROVE  OnlyAcceptedHaveRecords'
  BY <1>1, <1>3 DEF InferRefused, NextCall, queueVars, TypeOK
<1>4. ASSUME NEW r \in Requests, ClientWakes(r) \/ ClientGivesUp(r)
      PROVE  OnlyAcceptedHaveRecords'
  BY <1>1, <1>4 DEF ClientWakes, ClientGivesUp, Reply, ReplyOf, queueVars, TypeOK
<1>5. ASSUME UNCHANGED <<task, client, recoveries>>
      PROVE  OnlyAcceptedHaveRecords'
  BY <1>1, <1>5
<1>6. ASSUME NEW r \in Requests, UNCHANGED <<client, recoveries>>,
             task[r].status # "none",
             NEW t, t.status # "none", task' = [task EXCEPT ![r] = t]
      PROVE  OnlyAcceptedHaveRecords'
  BY <1>1, <1>6 DEF QueueTypeOK
<1>7. ASSUME NEW r \in Requests, RetryOrFail(r),
             UNCHANGED <<client, recoveries>>, task[r].status # "none"
      PROVE  OnlyAcceptedHaveRecords'
  <2>1. task[r] \in TaskRecord
    BY <1>1 DEF QueueTypeOK
  <2>2. \/ task' = [task EXCEPT ![r] = Retried(task[r])]
        \/ task' = [task EXCEPT ![r] = Failed(task[r])]
    BY <1>7 DEF RetryOrFail, Requeue, MarkRetrying, Fail
  <2> QED
    BY <1>6, <1>7, <2>1, <2>2, RecordsStay
<1>8. ASSUME NEW r \in Requests, DispatchWakes(r)
      PROVE  OnlyAcceptedHaveRecords'
  BY <1>7, <1>8, TokensHaveRecords DEF DispatchWakes
<1>9. ASSUME NEW r \in Requests, NEW n \in Nodes, PostReturns(r, n)
      PROVE  OnlyAcceptedHaveRecords'
  <2>1. task[r].status # "none" /\ task[r] \in TaskRecord
    BY <1>1, <1>9, TokensHaveRecords
       DEF PostReturns, PostSucceeds, PostFails, PostEnds, QueueTypeOK
  <2>2. CASE PostFails(r, n)
    BY <1>7, <2>1, <2>2 DEF PostFails
  <2>3. CASE PostSucceeds(r, n)
    <3>1. task' = [task EXCEPT ![r] = Completed(task[r], n)]
      BY <2>3 DEF PostSucceeds, Complete
    <3> QED
      BY <1>6, <2>1, <2>3, <3>1, RecordsStay DEF PostSucceeds
  <2> QED
    BY <1>9, <2>2, <2>3 DEF PostReturns
<1>10. ASSUME NEW r \in Requests, NEW n \in Nodes, DispatchTo(r, n)
      PROVE  OnlyAcceptedHaveRecords'
  <2>1. task[r].status # "none" /\ task[r] \in TaskRecord
    BY <1>1, <1>10, StartsHasRecord DEF DispatchTo, QueueTypeOK
  <2>2. task' = [task EXCEPT ![r] = Assigned(task[r], n)]
    BY <1>10 DEF DispatchTo
  <2> QED
    BY <1>6, <1>10, <2>1, <2>2, RecordsStay DEF DispatchTo
<1>11. ASSUME NEW r \in Requests, MonitorRecovers(r)
       PROVE  OnlyAcceptedHaveRecords'
  <2>1. /\ task[r].status # "none"
        /\ task[r] \in TaskRecord
        /\ recoveries \in [Requests -> Nat]
        /\ task \in [Requests -> TaskRecord]
    BY <1>1, <1>11 DEF MonitorRecovers, InFlightOn, TypeOK, QueueTypeOK
  <2>2. /\ task' = [task EXCEPT ![r] = Retried(task[r])]
        /\ recoveries' = More(recoveries, r)
        /\ UNCHANGED client
    BY <1>11 DEF MonitorRecovers, MarkRetrying
  <2>3. Retried(task[r]).status # "none"
    BY <2>1, RecordsStay
  <2> QED
    BY <1>1, <2>1, <2>2, <2>3 DEF More
<1>12. CASE MonitorStep
  BY <1>5, <1>11, <1>12
     DEF MonitorStep, MonitorTick, MonitorSkips, MonitorVisits, MonitorPasses,
         MonitorPutResumes, MonitorGoesOn, MonitorSleeps, queueVars
<1>13. CASE WorkerCalls
  BY <1>5, <1>13
     DEF WorkerCalls, RegisterWorker, WorkerHeartbeat, DeregisterWorker,
         DeleteWorker, PurgeInactiveWorkers, HeartbeatLapses, queueVars
<1> QED
  BY <1>2, <1>3, <1>4, <1>5, <1>8, <1>9, <1>10, <1>12, <1>13
     DEF Next, vars, queueVars, DispatchStarts, DispatchSkips,
         DispatchFindsNoWorker, DispatchLoop, PutResumes

\* While a put of the monitor is blocked, nothing touches its list.
LEMMA HeldStep ==
    ASSUME IInv, [Next]_vars
    PROVE  HeldIsRecovered'
<1> USE DEF HeldIsRecovered
<1>1. HeldIsRecovered /\ recoveries \in [Requests -> Nat]
  BY DEF IInv, TypeOK
<1>2. ASSUME UNCHANGED recoveries,
             monitorAt' = "putting" => UNCHANGED <<monitorAt, left>>
      PROVE  HeldIsRecovered'
  BY <1>1, <1>2 DEF FirstLeft
<1>3. ASSUME NEW r \in Requests, MonitorRecovers(r)
      PROVE  HeldIsRecovered'
  <2>1. recoveries'[r] > 0
    BY <1>1, <1>3 DEF MonitorRecovers, More
  <2>2. ASSUME NEW s \in Requests, monitorAt' = "putting", FirstLeft(s)'
        PROVE  s = r
    BY <1>3, <2>2, MaxRequestsAssumption
       DEF MonitorRecovers, FirstLeft, Requests
  <2> QED
    BY <2>1, <2>2
<1>4. CASE MonitorStep
  BY <1>2, <1>3, <1>4
     DEF MonitorStep, MonitorTick, MonitorSkips, MonitorVisits, MonitorPasses,
         MonitorPutResumes, MonitorGoesOn, MonitorSleeps
<1>5. CASE WorkerCalls
  BY <1>2, <1>5
     DEF WorkerCalls, RegisterWorker, WorkerHeartbeat, DeregisterWorker,
         DeleteWorker, PurgeInactiveWorkers, HeartbeatLapses, HeardOf, Detach,
         monitorVars
<1> QED
  BY <1>2, <1>4, <1>5
     DEF Next, vars, monitorVars, DispatchStarts, DispatchSkips, DispatchTo,
         DispatchFindsNoWorker, DispatchLoop, PutResumes, InferAccepted,
         InferRefused, ClientWakes, ClientGivesUp, Reply, DispatchWakes,
         PostReturns, PostSucceeds, PostFails

-----------------------------------------------------------------------------
(* Single flight. *)

\* A step that leaves a request where it is keeps it undisturbed.
LEMMA UndisturbedFrame ==
    ASSUME NEW s \in Requests, Undisturbed(s),
           task'[s] = task[s], posts'[s] = posts[s],
           sleeping'[s] = sleeping[s], putting'[s] = putting[s],
           s \in Range(queue') <=> s \in Range(queue),
           s \in Range(ready') <=> s \in Range(ready),
           Once(s, queue'), Once(s, ready')
    PROVE  Undisturbed(s)'
  BY DEF Undisturbed, OneToken, Once, InFlightOn

\* A put leaves the other requests in the queue alone.
LEMMA PutFrame ==
    ASSUME TypeOK, NEW r \in Requests, Put(r),
           NEW s \in Requests \ {r}, Once(s, queue)
    PROVE  Once(s, queue') /\ (s \in Range(queue') <=> s \in Range(queue))
<1>1. s \in Range(queue') <=> s \in Range(queue)
  BY PutRange
<1>2. Once(s, queue')
  BY OnceAppend DEF TypeOK, QueueTypeOK, Put
<1> QED
  BY <1>1, <1>2

\* A put of a request that was not in the queue puts it there once.
LEMMA PutOnce ==
    ASSUME TypeOK, NEW r \in Requests, Put(r), r \notin Range(queue),
           Once(r, queue)
    PROVE  Once(r, queue') /\ r \in Range(queue')
<1>1. r \in Range(queue')
  BY PutRange
<1>2. Once(r, queue')
  BY OnceAppend DEF TypeOK, QueueTypeOK, Put
<1> QED
  BY <1>1, <1>2

LEMMA StartsOnce ==
    ASSUME TypeOK, NEW r \in Requests, Starts(r), NEW s \in Requests,
           Once(s, ready)
    PROVE  /\ r \in Range(ready)
           /\ Once(s, ready')
           /\ s = r => s \notin Range(ready')
           /\ s # r => (s \in Range(ready') <=> s \in Range(ready))
<1>1. Range(ready) = {r} \cup Range(ready')
  BY StartsRange
<1>2. Once(s, ready') /\ (s = r => s \notin Range(ready'))
  BY OnceHeadTail DEF TypeOK, Starts
<1> QED
  BY <1>1, <1>2

\* The end of a sleep or of a POST moves the request it is about to the queue
\* or to a blocked put, or ends it.
LEMMA RetryOrFailUndisturbed ==
    ASSUME TypeOK, NEW r \in Requests, RetryOrFail(r), UNCHANGED ready,
           Undisturbed(r), task[r].status \notin {"completed", "failed"},
           r \notin Range(queue) \cup Range(ready),
           sleeping'[r] = 0, putting[r] = 0,
           \A n \in Nodes : posts'[r][n] = 0
    PROVE  Undisturbed(r)'
<1>1. /\ Once(r, queue)
      /\ Once(r, ready)
      /\ ~task[r].result
      /\ ~task[r].error
      /\ task[r] \in TaskRecord
  BY DEF TypeOK, QueueTypeOK, Undisturbed, OneToken
<1>2. Once(r, ready') /\ r \notin Range(ready')
  BY <1>1 DEF Once
<1>3. CASE MayRetry(r) /\ Requeue(r)
  <2>1. task'[r] = Retried(task[r])
    BY <1>3 DEF Requeue, MarkRetrying, TypeOK, QueueTypeOK
  <2>2. /\ task'[r].status = "retrying"
        /\ ~task'[r].result
        /\ ~task'[r].error
    BY <1>1, <2>1 DEF Retried, TaskRecord
  <2>3. CASE QueueFull
    <3>1. queue' = queue /\ putting'[r] = 1
      BY <1>3, <2>3 DEF Requeue, More, TypeOK
    <3>2. OneToken(r)'
      BY <1>1, <1>2, <3>1 DEF OneToken, Once
    <3> QED
      BY <2>2, <3>2 DEF Undisturbed
  <2>4. CASE ~QueueFull
    <3>1. Put(r) /\ putting'[r] = 0
      BY <1>3, <2>4 DEF Requeue
    <3>2. Once(r, queue')
      BY <1>1, <3>1, PutOnce
    <3>3. OneToken(r)'
      BY <1>2, <3>1, <3>2 DEF OneToken
    <3> QED
      BY <2>2, <3>3 DEF Undisturbed
  <2> QED
    BY <2>3, <2>4
<1>4. CASE Fail(r) /\ UNCHANGED <<queue, putting>>
  <2>1. task'[r] = Failed(task[r])
    BY <1>4 DEF Fail, TypeOK, QueueTypeOK
  <2>2. task'[r].status = "failed" /\ ~task'[r].result
    BY <1>1, <2>1 DEF Failed, TaskRecord
  <2>3. OneToken(r)'
    BY <1>1, <1>2, <1>4 DEF OneToken, Once
  <2> QED
    BY <1>2, <1>4, <2>2, <2>3 DEF Undisturbed
<1> QED
  BY <1>3, <1>4 DEF RetryOrFail

\* It leaves the other requests alone.
LEMMA RetryOrFailFrame ==
    ASSUME TypeOK, NEW r \in Requests, RetryOrFail(r), UNCHANGED ready,
           NEW s \in Requests \ {r}, Undisturbed(s),
           sleeping'[s] = sleeping[s], posts'[s] = posts[s]
    PROVE  Undisturbed(s)'
<1>1. Once(s, queue) /\ Once(s, ready)
  BY DEF Undisturbed, OneToken
<1>2. task'[s] = task[s] /\ putting'[s] = putting[s]
  BY RetryOrFailLocates
<1>3. Once(s, queue') /\ (s \in Range(queue') <=> s \in Range(queue))
  BY <1>1, PutFrame DEF RetryOrFail, Requeue
<1>4. Once(s, ready') /\ (s \in Range(ready') <=> s \in Range(ready))
  BY <1>1
<1> QED
  BY <1>2, <1>3, <1>4, UndisturbedFrame

\* Each step keeps every request that the monitor has not requeued undisturbed.
LEMMA SingleFlightStep ==
    ASSUME IInv, [Next]_vars
    PROVE  SingleFlight'
<1>1. /\ TypeOK
      /\ QueueTypeOK
      /\ \A r \in Requests :
           /\ sleeping[r] \in Nat
           /\ putting[r] \in Nat
           /\ recoveries[r] \in Nat
           /\ task[r] \in TaskRecord
  BY DEF IInv, TypeOK, QueueTypeOK
<1>2. \A r \in Requests : recoveries[r] > 0 => recoveries'[r] > 0
  <2>1. CASE UNCHANGED recoveries
    BY <2>1
  <2>2. ASSUME NEW r \in Requests, MonitorRecovers(r)
        PROVE  \A s \in Requests : recoveries[s] > 0 => recoveries'[s] > 0
    BY <1>1, <2>2 DEF MonitorRecovers, More, TypeOK
  <2> QED
    BY <2>1, <2>2
       DEF Next, vars, DispatchStarts, DispatchSkips, DispatchTo,
           DispatchFindsNoWorker, DispatchLoop, PutResumes, InferAccepted,
           InferRefused, ClientWakes, ClientGivesUp, Reply, DispatchWakes,
           PostReturns, PostSucceeds, PostFails, MonitorStep, MonitorTick,
           MonitorSkips, MonitorVisits, MonitorPasses, MonitorPutResumes,
           MonitorGoesOn, MonitorSleeps, WorkerCalls, RegisterWorker,
           WorkerHeartbeat, DeregisterWorker, DeleteWorker,
           PurgeInactiveWorkers, HeartbeatLapses
<1> SUFFICES ASSUME NEW s \in Requests, recoveries'[s] = 0
             PROVE  Undisturbed(s)'
  BY DEF SingleFlight
<1>3. recoveries[s] = 0 /\ Undisturbed(s) /\ OneToken(s)
  BY <1>1, <1>2 DEF IInv, SingleFlight, Undisturbed
<1>4. Once(s, queue) /\ Once(s, ready)
  BY <1>3 DEF OneToken
<1>5. ASSUME UNCHANGED <<queue, ready, sleeping, putting, posts>>,
             task'[s] = task[s]
      PROVE  Undisturbed(s)'
  BY <1>3, <1>4, <1>5, UndisturbedFrame
<1>6. ASSUME NEW r \in Requests, InferAccepted(r)
      PROVE  Undisturbed(s)'
  <2>1. Put(r) /\ UNCHANGED dispatchVars
    BY <1>6 DEF InferAccepted, Enqueue
  <2>2. CASE s = r
    <3>1. task[r].status = "none"
      BY <1>6 DEF InferAccepted, NextCall, IInv, OnlyAcceptedHaveRecords
    <3>2. /\ r \notin Range(queue) \cup Range(ready)
          /\ sleeping[r] + putting[r] = 0
          /\ \A n \in Nodes : ~(posts[r][n] > 0)
      BY <1>3, <2>2, <3>1 DEF Undisturbed, InFlightOn
    <3>3. Once(r, queue') /\ r \in Range(queue')
      BY <1>1, <1>4, <2>1, <2>2, <3>2, PutOnce
    <3>4. task'[r] = [NoTask EXCEPT !.status = "queued"]
      BY <1>1, <1>6 DEF InferAccepted, Enqueue, QueueTypeOK
    <3>5. /\ task'[r].status = "queued"
          /\ ~task'[r].result
          /\ ~task'[r].error
      BY <3>4 DEF NoTask
    <3>6. OneToken(r)'
      BY <1>4, <2>1, <2>2, <3>2, <3>3 DEF dispatchVars, OneToken, Once
    <3> QED
      BY <2>1, <2>2, <3>2, <3>5, <3>6 DEF dispatchVars, Undisturbed
  <2>3. CASE s # r
    <3>1. Once(s, queue') /\ (s \in Range(queue') <=> s \in Range(queue))
      BY <1>1, <1>4, <2>1, <2>3, PutFrame
    <3>2. task'[s] = task[s]
      BY <1>1, <1>6, <2>3 DEF InferAccepted, Enqueue, QueueTypeOK
    <3> QED
      BY <1>3, <1>4, <2>1, <3>1, <3>2, UndisturbedFrame DEF dispatchVars
  <2> QED
    BY <2>2, <2>3
<1>7. ASSUME NEW r \in Requests, DispatchWakes(r)
      PROVE  Undisturbed(s)'
  <2>1. /\ RetryOrFail(r)
        /\ UNCHANGED <<ready, posts>>
        /\ sleeping[r] > 0
        /\ sleeping' = Less(sleeping, r)
    BY <1>7 DEF DispatchWakes
  <2>2. CASE s = r
    <3>1. /\ sleeping[r] = 1
          /\ putting[r] = 0
          /\ r \notin Range(queue) \cup Range(ready)
          /\ task[r].status \in {"queued", "retrying"}
      BY <1>1, <1>3, <2>1, <2>2 DEF Undisturbed, OneToken
    <3>2. sleeping'[r] = 0
      BY <1>1, <2>1, <3>1 DEF Less, TypeOK
    <3>3. ASSUME NEW n \in Nodes PROVE posts'[r][n] = 0
      <4>1. posts[r][n] \in Nat
        BY <1>1 DEF TypeOK
      <4>2. ~(posts[r][n] > 0)
        BY <1>3, <2>2, <3>1 DEF Undisturbed, InFlightOn
      <4> QED
        BY <2>1, <4>1, <4>2
    <3> QED
      BY <1>1, <1>3, <2>1, <2>2, <3>1, <3>2, <3>3, RetryOrFailUndisturbed
  <2>3. CASE s # r
    <3>1. sleeping'[s] = sleeping[s]
      BY <1>1, <2>1, <2>3 DEF Less, TypeOK
    <3> QED
      BY <1>1, <1>3, <2>1, <2>3, <3>1, RetryOrFailFrame
  <2> QED
    BY <2>2, <2>3
<1>8. ASSUME NEW r \in Requests, NEW n \in Nodes, PostEnds(r, n), s = r
      PROVE  /\ task[r].status \in {"assigned", "processing"}
             /\ r \notin Range(queue) \cup Range(ready)
             /\ sleeping[r] = 0
             /\ putting[r] = 0
             /\ \A m \in Nodes : posts'[r][m] = 0
  <2>1. InFlightOn(r, n) /\ posts[r][n] = 1
    BY <1>3, <1>8 DEF PostEnds, Undisturbed
  <2>2. /\ r \notin Range(queue) \cup Range(ready)
        /\ sleeping[r] + putting[r] = 0
    BY <1>3, <1>8, <2>1 DEF Undisturbed, InFlightOn
  <2>3. \A m \in Nodes : m # n => posts[r][m] = 0
    BY <1>1, <1>3, <1>8, <2>1 DEF Undisturbed, InFlightOn, TypeOK
  <2>4. \A m \in Nodes : posts'[r][m] = 0
    BY <1>1, <1>8, <2>1, <2>3 DEF PostEnds, TypeOK
  <2> QED
    BY <1>1, <2>1, <2>2, <2>4 DEF InFlightOn
<1>9. ASSUME NEW r \in Requests, NEW n \in Nodes, PostSucceeds(r, n)
      PROVE  Undisturbed(s)'
  <2>1. /\ PostEnds(r, n)
        /\ task' = [task EXCEPT ![r] = Completed(@, n)]
        /\ UNCHANGED <<queue, ready, sleeping, putting>>
    BY <1>9 DEF PostSucceeds, Complete
  <2>2. CASE s = r
    <3>1. task'[r] = Completed(task[r], n)
      BY <1>1, <2>1 DEF QueueTypeOK
    <3>2. ~task[r].error
      BY <1>3, <1>8, <2>1, <2>2 DEF Undisturbed
    <3>3. task'[r].status = "completed" /\ ~task'[r].error
      BY <1>1, <3>1, <3>2 DEF Completed, TaskRecord
    <3>4. OneToken(r)'
      BY <1>3, <2>1, <2>2 DEF OneToken, Once
    <3> QED
      BY <1>8, <2>1, <2>2, <3>3, <3>4 DEF Undisturbed
  <2>3. CASE s # r
    <3>1. task'[s] = task[s] /\ posts'[s] = posts[s]
      BY <1>1, <2>1, <2>3 DEF PostEnds, TypeOK, QueueTypeOK
    <3> QED
      BY <1>3, <1>4, <2>1, <3>1, UndisturbedFrame
  <2> QED
    BY <2>2, <2>3
<1>10. ASSUME NEW r \in Requests, NEW n \in Nodes, PostFails(r, n)
      PROVE  Undisturbed(s)'
  <2>1. /\ PostEnds(r, n)
        /\ RetryOrFail(r)
        /\ UNCHANGED <<ready, sleeping>>
    BY <1>10 DEF PostFails
  <2>2. CASE s = r
    <3>1. sleeping'[r] = 0 /\ task[r].status \notin {"completed", "failed"}
      BY <1>8, <2>1, <2>2
    <3> QED
      BY <1>1, <1>3, <1>8, <2>1, <2>2, <3>1, RetryOrFailUndisturbed
  <2>3. CASE s # r
    <3>1. posts'[s] = posts[s] /\ sleeping'[s] = sleeping[s]
      BY <1>1, <2>1, <2>3 DEF PostEnds, TypeOK
    <3> QED
      BY <1>1, <1>3, <2>1, <2>3, <3>1, RetryOrFailFrame
  <2> QED
    BY <2>2, <2>3
<1>11. ASSUME NEW r \in Requests, PutResumes(r)
       PROVE  Undisturbed(s)'
  <2>1. /\ Put(r)
        /\ putting[r] > 0
        /\ putting' = Less(putting, r)
        /\ UNCHANGED <<task, ready, sleeping, posts>>
    BY <1>11 DEF PutResumes
  <2>2. CASE s = r
    <3>1. /\ sleeping[r] = 0
          /\ putting[r] = 1
          /\ r \notin Range(queue) \cup Range(ready)
          /\ task[r].status \in {"queued", "retrying"}
      BY <1>1, <1>3, <2>1, <2>2 DEF Undisturbed, OneToken
    <3>2. putting'[r] = 0
      BY <1>1, <2>1, <3>1 DEF Less, TypeOK
    <3>3. Once(r, queue')
      BY <1>1, <1>4, <2>1, <2>2, <3>1, PutOnce
    <3>4. OneToken(r)'
      BY <1>4, <2>1, <2>2, <3>1, <3>2, <3>3 DEF OneToken, Once
    <3> QED
      BY <1>3, <2>1, <2>2, <3>1, <3>4 DEF Undisturbed, InFlightOn
  <2>3. CASE s # r
    <3>1. Once(s, queue') /\ (s \in Range(queue') <=> s \in Range(queue))
      BY <1>1, <1>4, <2>1, <2>3, PutFrame
    <3>2. putting'[s] = putting[s]
      BY <1>1, <2>1, <2>3 DEF Less, TypeOK
    <3> QED
      BY <1>3, <1>4, <2>1, <3>1, <3>2, UndisturbedFrame
  <2> QED
    BY <2>2, <2>3
<1>12. CASE DispatchLoop
  <2>1. /\ ready' = ready \o queue
        /\ queue' = <<>>
        /\ UNCHANGED <<task, sleeping, putting, posts>>
    BY <1>12 DEF DispatchLoop
  <2>2. Range(ready') = Range(ready) \cup Range(queue) /\ Range(queue') = {}
    <3>1. Range(ready \o queue) = Range(ready) \cup Range(queue)
      BY <1>1, RangeConcatenation DEF TypeOK, QueueTypeOK
    <3>2. Range(<< >>) = {}
      BY DEF Range
    <3> QED
      BY <2>1, <3>1, <3>2
  <2>3. Once(s, ready')
    BY <1>1, <1>3, <1>4, <2>1, OnceConcat DEF OneToken, TypeOK, QueueTypeOK
  <2>4. Once(s, queue')
    BY <2>1 DEF Once
  <2> QED
    BY <1>3, <2>1, <2>2, <2>3, <2>4 DEF Undisturbed, OneToken, InFlightOn
<1>13. ASSUME NEW r \in Requests, DispatchSkips(r)
       PROVE  Undisturbed(s)'
  <2>1. /\ Starts(r)
        /\ task[r].status = "failed"
        /\ UNCHANGED <<queue, task, sleeping, putting, posts>>
    BY <1>13 DEF DispatchSkips, queueVars
  <2>2. s # r
    BY <1>1, <1>3, <1>4, <2>1, StartsOnce DEF Undisturbed
  <2>3. Once(s, ready') /\ (s \in Range(ready') <=> s \in Range(ready))
    BY <1>1, <1>4, <2>1, <2>2, StartsOnce
  <2> QED
    BY <1>3, <1>4, <2>1, <2>3, UndisturbedFrame
<1>14. ASSUME NEW r \in Requests, DispatchFindsNoWorker(r)
       PROVE  Undisturbed(s)'
  <2>1. /\ Starts(r)
        /\ sleeping' = More(sleeping, r)
        /\ UNCHANGED <<queue, task, putting, posts>>
    BY <1>14 DEF DispatchFindsNoWorker, queueVars
  <2>2. CASE s = r
    <3>1. /\ r \in Range(ready)
          /\ r \notin Range(ready')
          /\ Once(r, ready')
      BY <1>1, <1>4, <2>1, <2>2, StartsOnce
    <3>2. /\ task[r].status \in {"queued", "retrying"}
          /\ sleeping[r] = 0
          /\ putting[r] = 0
          /\ r \notin Range(queue)
      BY <1>1, <1>3, <2>2, <3>1 DEF Undisturbed, OneToken
    <3>3. sleeping'[r] = 1
      BY <1>1, <2>1, <3>2 DEF More, TypeOK
    <3>4. OneToken(r)'
      BY <1>4, <2>1, <2>2, <3>1, <3>2, <3>3 DEF OneToken, Once
    <3> QED
      BY <1>3, <2>1, <2>2, <3>2, <3>4 DEF Undisturbed, InFlightOn
  <2>3. CASE s # r
    <3>1. Once(s, ready') /\ (s \in Range(ready') <=> s \in Range(ready))
      BY <1>1, <1>4, <2>1, <2>3, StartsOnce
    <3>2. sleeping'[s] = sleeping[s]
      BY <1>1, <2>1, <2>3 DEF More, TypeOK
    <3> QED
      BY <1>3, <1>4, <2>1, <3>1, <3>2, UndisturbedFrame
  <2> QED
    BY <2>2, <2>3
<1>15. ASSUME NEW r \in Requests, NEW n \in Nodes, DispatchTo(r, n)
       PROVE  Undisturbed(s)'
  <2>1. /\ Starts(r)
        /\ task' = [task EXCEPT ![r] = Assigned(@, n)]
        /\ posts' = [posts EXCEPT ![r][n] = @ + 1]
        /\ UNCHANGED <<queue, sleeping, putting>>
    BY <1>15 DEF DispatchTo
  <2>2. CASE s = r
    <3>1. /\ r \in Range(ready)
          /\ r \notin Range(ready')
          /\ Once(r, ready')
      BY <1>1, <1>4, <2>1, <2>2, StartsOnce
    <3>2. /\ task[r].status \in {"queued", "retrying"}
          /\ sleeping[r] + putting[r] = 0
          /\ r \notin Range(queue)
          /\ ~task[r].result
          /\ ~task[r].error
      BY <1>1, <1>3, <2>2, <3>1 DEF Undisturbed, OneToken
    <3>3. ASSUME NEW m \in Nodes PROVE posts[r][m] = 0
      <4>1. posts[r][m] \in Nat
        BY <1>1 DEF TypeOK
      <4>2. ~(posts[r][m] > 0)
        BY <1>3, <2>2, <3>2 DEF Undisturbed, InFlightOn
      <4> QED
        BY <4>1, <4>2
    <3>4. task'[r] = Assigned(task[r], n)
      BY <1>1, <2>1 DEF QueueTypeOK
    <3>5. /\ task'[r].status = "assigned"
          /\ task'[r].worker = n
          /\ ~task'[r].result
          /\ ~task'[r].error
      BY <1>1, <3>2, <3>4 DEF Assigned, TaskRecord
    <3>6. \A m \in Nodes : posts'[r][m] = IF m = n THEN 1 ELSE 0
      BY <1>1, <2>1, <3>3 DEF TypeOK
    <3>7. OneToken(r)'
      BY <1>4, <2>1, <2>2, <3>1, <3>2 DEF OneToken, Once
    <3> QED
      BY <2>1, <2>2, <3>1, <3>2, <3>5, <3>6, <3>7 DEF Undisturbed, InFlightOn
  <2>3. CASE s # r
    <3>1. Once(s, ready') /\ (s \in Range(ready') <=> s \in Range(ready))
      BY <1>1, <1>4, <2>1, <2>3, StartsOnce
    <3>2. task'[s] = task[s] /\ posts'[s] = posts[s]
      BY <1>1, <2>1, <2>3 DEF TypeOK, QueueTypeOK
    <3> QED
      BY <1>3, <1>4, <2>1, <3>1, <3>2, UndisturbedFrame
  <2> QED
    BY <2>2, <2>3
<1>16. ASSUME NEW r \in Requests, MonitorRecovers(r) \/ MonitorPutResumes(r)
       PROVE  Undisturbed(s)'
  <2>1. s # r
    <3>1. CASE MonitorRecovers(r)
      BY <1>1, <3>1 DEF MonitorRecovers, More, TypeOK
    <3>2. CASE MonitorPutResumes(r)
      BY <1>3, <3>2 DEF MonitorPutResumes, IInv, HeldIsRecovered
    <3> QED
      BY <1>16, <3>1, <3>2
  <2>2. task'[s] = task[s] /\ UNCHANGED dispatchVars
    BY <1>1, <1>16, <2>1
       DEF MonitorRecovers, MonitorPutResumes, MarkRetrying, QueueTypeOK
  <2>3. Put(r) \/ UNCHANGED queue
    BY <1>16 DEF MonitorRecovers, MonitorPutResumes
  <2>4. Once(s, queue') /\ (s \in Range(queue') <=> s \in Range(queue))
    BY <1>1, <1>4, <2>1, <2>3, PutFrame
  <2> QED
    BY <1>3, <1>4, <2>2, <2>4, UndisturbedFrame DEF dispatchVars
<1>17. CASE MonitorStep
  BY <1>5, <1>16, <1>17
     DEF MonitorStep, MonitorTick, MonitorSkips, MonitorVisits, MonitorPasses,
         MonitorGoesOn, MonitorSleeps, queueVars, dispatchVars
<1>18. CASE WorkerCalls
  BY <1>5, <1>18
     DEF WorkerCalls, RegisterWorker, WorkerHeartbeat, DeregisterWorker,
         DeleteWorker, PurgeInactiveWorkers, HeartbeatLapses, queueVars,
         dispatchVars
<1>19. ASSUME NEW r \in Requests,
              InferRefused(r) \/ ClientWakes(r) \/ ClientGivesUp(r)
       PROVE  Undisturbed(s)'
  BY <1>5, <1>19 DEF InferRefused, ClientWakes, ClientGivesUp, Reply,
                     queueVars, dispatchVars
<1>20. CASE UNCHANGED vars
  BY <1>5, <1>20 DEF vars, queueVars, dispatchVars
<1> QED
  BY <1>6, <1>7, <1>9, <1>10, <1>11, <1>12, <1>13, <1>14, <1>15, <1>17, <1>18,
     <1>19, <1>20 DEF Next, DispatchStarts, PostReturns

LEMMA IInvInductive ==
    ASSUME IInv, TypeOK', [Next]_vars
    PROVE  IInv'
BY RecordsStep, HeldStep, SingleFlightStep DEF IInv

LEMMA IInvCorrect == Spec => []IInv
BY InitIInv, IInvInductive, TypeCorrect, PTL DEF Spec

\* A request that the monitor has not taken away from a worker is in one
\* place, runs on one worker at a time and ends once.
THEOREM SingleFlightCorrect == Spec => []SingleFlight
<1>1. IInv => SingleFlight
  BY DEF IInv
<1> QED
  BY <1>1, IInvCorrect, PTL

-----------------------------------------------------------------------------
(* What a coroutine still holds is not over. *)

LEMMA HeldIsOpen ==
    ASSUME IInv, NEW r \in Requests,
           \/ r \in Range(queue) \cup Range(ready)
           \/ sleeping[r] > 0
           \/ \E n \in Nodes : posts[r][n] > 0
           \/ \E n \in Nodes \cup {NoNode} : InFlightOn(r, n)
    PROVE  /\ recoveries[r] = 0 => ~Finished(r)
           /\ client[r] \notin {"new", "refused"}
           /\ recoveries[r] = 0 => ~task[r].result /\ ~task[r].error
<1>1. /\ sleeping[r] \in Nat
      /\ putting[r] \in Nat
      /\ recoveries[r] \in Nat
  BY DEF IInv, TypeOK
<1>2. task[r].status # "none"
  BY TokensHaveRecords DEF InFlightOn
<1>3. client[r] \notin {"new", "refused"}
  BY <1>2 DEF IInv, OnlyAcceptedHaveRecords
<1>4. ASSUME recoveries[r] = 0
      PROVE  task[r].status \notin {"completed", "failed"}
  <2>1. Undisturbed(r)
    BY <1>4 DEF IInv, SingleFlight
  <2>2. CASE \E n \in Nodes : posts[r][n] > 0
    BY <2>1, <2>2 DEF Undisturbed, InFlightOn
  <2>3. CASE \E n \in Nodes \cup {NoNode} : InFlightOn(r, n)
    BY <2>3 DEF InFlightOn
  <2>4. CASE r \in Range(queue) \cup Range(ready) \/ sleeping[r] > 0
    BY <1>1, <2>1, <2>4 DEF Undisturbed
  <2> QED
    BY <2>2, <2>3, <2>4
<1>5. ASSUME recoveries[r] = 0
      PROVE  ~task[r].result /\ ~task[r].error
  BY <1>4, <1>5 DEF IInv, SingleFlight, Undisturbed
<1> QED
  BY <1>3, <1>4, <1>5 DEF Finished

-----------------------------------------------------------------------------
(* Outcomes are final. *)

LEMMA FinishedStep ==
    ASSUME IInv, [Next]_vars, NEW s \in Requests, recoveries[s] = 0, Finished(s)
    PROVE  task'[s] = task[s]
<1>1. QueueTypeOK
  BY DEF IInv, TypeOK
<1>2. ASSUME NEW r \in Requests, InferAccepted(r)
      PROVE  task'[s] = task[s]
  <2>1. task[r].status = "none"
    BY <1>2 DEF IInv, OnlyAcceptedHaveRecords, InferAccepted, NextCall
  <2> QED
    BY <1>1, <1>2, <2>1 DEF InferAccepted, Enqueue, Finished, QueueTypeOK
<1>3. ASSUME NEW r \in Requests, r # s, RetryOrFail(r)
      PROVE  task'[s] = task[s]
  BY <1>1, <1>3 DEF RetryOrFail, Requeue, MarkRetrying, Fail, QueueTypeOK
<1>4. ASSUME NEW r \in Requests, DispatchWakes(r)
      PROVE  task'[s] = task[s]
  BY <1>3, <1>4, HeldIsOpen DEF DispatchWakes
<1>5. ASSUME NEW r \in Requests, NEW n \in Nodes, PostSucceeds(r, n)
      PROVE  task'[s] = task[s]
  <2>1. r # s
    BY <1>5, HeldIsOpen DEF PostSucceeds, PostEnds
  <2> QED
    BY <1>1, <1>5, <2>1 DEF PostSucceeds, Complete, QueueTypeOK
<1>6. ASSUME NEW r \in Requests, NEW n \in Nodes, PostFails(r, n)
      PROVE  task'[s] = task[s]
  <2>1. r # s
    BY <1>6, HeldIsOpen DEF PostFails, PostEnds
  <2> QED
    BY <1>3, <1>6, <2>1 DEF PostFails
<1>7. ASSUME NEW r \in Requests, NEW n \in Nodes, DispatchTo(r, n)
      PROVE  task'[s] = task[s]
  <2>1. r # s
    BY <1>7, StartsHasRecord, HeldIsOpen DEF DispatchTo
  <2> QED
    BY <1>1, <1>7, <2>1 DEF DispatchTo, QueueTypeOK
<1>8. ASSUME NEW r \in Requests, MonitorRecovers(r)
      PROVE  task'[s] = task[s]
  <2>1. r # s
    BY <1>8, HeldIsOpen DEF MonitorRecovers, IInv, TypeOK
  <2> QED
    BY <1>1, <1>8, <2>1 DEF MonitorRecovers, MarkRetrying, QueueTypeOK
<1>9. CASE UNCHANGED task
  BY <1>9
<1> QED
  BY <1>2, <1>4, <1>5, <1>6, <1>7, <1>8, <1>9
     DEF Next, vars, queueVars, DispatchStarts, DispatchSkips,
         DispatchFindsNoWorker, DispatchLoop, PutResumes, InferRefused,
         ClientWakes, ClientGivesUp, Reply, PostReturns, MonitorStep,
         MonitorTick, MonitorSkips, MonitorVisits, MonitorPasses,
         MonitorPutResumes, MonitorGoesOn, MonitorSleeps, WorkerCalls,
         RegisterWorker, WorkerHeartbeat, DeregisterWorker, DeleteWorker,
         PurgeInactiveWorkers, HeartbeatLapses

\* The outcome of a request the monitor has not requeued never changes.
THEOREM FinishedIsFinalCorrect == Spec => FinishedIsFinal
<1>1. IInv /\ [Next]_vars =>
        [\A r \in Requests :
           recoveries[r] = 0 /\ Finished(r) => task'[r] = task[r]]_vars
  BY FinishedStep
<1> QED
  BY <1>1, IInvCorrect, PTL DEF Spec, FinishedIsFinal

-----------------------------------------------------------------------------
(* The contract of POST /infer. *)

Results == {r \in Requests : task[r].result}
Errors == {r \in Requests : task[r].error}
Recovered == {r \in Requests : recoveries[r] > 0}

LEMMA ContractFrame ==
    ASSUME UNCHANGED client,
           \A r \in Requests :
             /\ task'[r].result = task[r].result
             /\ task'[r].error = task[r].error
             /\ recoveries'[r] = recoveries[r]
    PROVE  UNCHANGED <<client, Results, Errors, Recovered>>
BY DEF Results, Errors, Recovered

LEMMA OpenToContract ==
    ASSUME NEW r \in Requests, recoveries[r] \in Nat,
           client[r] \notin {"new", "refused"},
           recoveries[r] = 0 => ~task[r].result /\ ~task[r].error
    PROVE  Contract!Open(r)
BY DEF Contract!Open

\* What the methods of the queue do to the two outcome fields.
LEMMA OutcomeFields ==
    ASSUME NEW t \in TaskRecord
    PROVE  /\ Retried(t).result = t.result /\ Retried(t).error = t.error
           /\ Failed(t).result = t.result /\ Failed(t).error = TRUE
           /\ \A n \in Nodes :
                /\ Completed(t, n).result = TRUE
                /\ Completed(t, n).error = t.error
                /\ Assigned(t, n).result = t.result
                /\ Assigned(t, n).error = t.error
BY DEF Retried, Failed, Completed, Assigned, TaskRecord

LEMMA RetryOrFailKeepsContract ==
    ASSUME IInv, NEW r \in Requests, RetryOrFail(r),
           UNCHANGED <<client, recoveries>>, Contract!Open(r)
    PROVE  [Contract!Next]_(Contract!contractVars)
<1>1. /\ task \in [Requests -> TaskRecord]
      /\ task[r] \in TaskRecord
  BY DEF IInv, TypeOK, QueueTypeOK
<1>2. CASE MayRetry(r) /\ Requeue(r)
  <2>1. task' = [task EXCEPT ![r] = Retried(task[r])]
    BY <1>2 DEF Requeue, MarkRetrying
  <2>2. UNCHANGED <<client, Results, Errors, Recovered>>
    BY <1>1, <2>1, OutcomeFields, ContractFrame
  <2> QED
    BY <2>2 DEF Contract!contractVars, Results, Errors, Recovered
<1>3. CASE ~MayRetry(r) /\ Fail(r)
  <2>1. task' = [task EXCEPT ![r] = Failed(task[r])]
    BY <1>3 DEF Fail
  <2>2. Results' = Results /\ Errors' = Errors \cup {r}
    <3>1. Failed(task[r]).result = task[r].result /\ Failed(task[r]).error
      BY <1>1, OutcomeFields
    <3>2. /\ task'[r] = Failed(task[r])
          /\ \A s \in Requests \ {r} : task'[s] = task[s]
      BY <1>1, <2>1
    <3> QED
      BY <3>1, <3>2 DEF Results, Errors
  <2>3. Contract!GiveUp(r)
    BY <2>2 DEF Contract!GiveUp, Results, Errors
  <2> QED
    BY <2>3 DEF Contract!Next
<1> QED
  BY <1>2, <1>3 DEF RetryOrFail

LEMMA ContractStep ==
    ASSUME IInv, [Next]_vars
    PROVE  [Contract!Next]_(Contract!contractVars)
<1>1. /\ task \in [Requests -> TaskRecord]
      /\ \A r \in Requests : task[r] \in TaskRecord
      /\ client \in [Requests -> ClientStates]
      /\ recoveries \in [Requests -> Nat]
      /\ \A r \in Requests : recoveries[r] \in Nat
  BY DEF IInv, TypeOK, QueueTypeOK
<1>2. ASSUME UNCHANGED <<client, Results, Errors, Recovered>>
      PROVE  [Contract!Next]_(Contract!contractVars)
  BY <1>2 DEF Contract!contractVars, Results, Errors, Recovered
<1>3. ASSUME NEW r \in Requests, InferAccepted(r)
      PROVE  [Contract!Next]_(Contract!contractVars)
  <2>1. /\ client[r] = "new"
        /\ client' = [client EXCEPT ![r] = "waiting"]
        /\ UNCHANGED recoveries
        /\ task' = [task EXCEPT ![r] = [NoTask EXCEPT !.status = "queued"]]
    BY <1>3 DEF InferAccepted, NextCall, Enqueue
  <2>2. ~task[r].result /\ ~task[r].error
    <3>1. task[r].status = "none" /\ recoveries[r] = 0
      BY <2>1 DEF IInv, OnlyAcceptedHaveRecords
    <3> QED
      BY <3>1 DEF IInv, SingleFlight, Undisturbed
  <2>3. ~task'[r].result /\ ~task'[r].error
    BY <1>1, <2>1 DEF NoTask
  <2>4. Results' = Results /\ Errors' = Errors
    BY <1>1, <2>1, <2>2, <2>3 DEF Results, Errors
  <2>5. Contract!Submit(r)
    BY <2>1, <2>4 DEF Contract!Submit, Results, Errors
  <2> QED
    BY <2>5 DEF Contract!Next
<1>4. ASSUME NEW r \in Requests, InferRefused(r)
      PROVE  [Contract!Next]_(Contract!contractVars)
  <2>1. Contract!Submit(r)
    BY <1>4 DEF InferRefused, NextCall, queueVars, Contract!Submit
  <2> QED
    BY <2>1 DEF Contract!Next
<1>5. ASSUME NEW r \in Requests, ClientWakes(r) \/ ClientGivesUp(r)
      PROVE  [Contract!Next]_(Contract!contractVars)
  <2>1. Contract!Tell(r)
    BY <1>5 DEF ClientWakes, ClientGivesUp, Reply, ReplyOf, queueVars,
                Contract!Tell
  <2> QED
    BY <2>1 DEF Contract!Next
<1>6. ASSUME NEW r \in Requests, DispatchWakes(r)
      PROVE  [Contract!Next]_(Contract!contractVars)
  <2>1. Contract!Open(r)
    BY <1>1, <1>6, HeldIsOpen, OpenToContract DEF DispatchWakes
  <2> QED
    BY <1>6, <2>1, RetryOrFailKeepsContract DEF DispatchWakes
<1>7. ASSUME NEW r \in Requests, NEW n \in Nodes, PostFails(r, n)
      PROVE  [Contract!Next]_(Contract!contractVars)
  <2>1. Contract!Open(r)
    BY <1>1, <1>7, HeldIsOpen, OpenToContract DEF PostFails, PostEnds
  <2> QED
    BY <1>7, <2>1, RetryOrFailKeepsContract DEF PostFails
<1>8. ASSUME NEW r \in Requests, NEW n \in Nodes, PostSucceeds(r, n)
      PROVE  [Contract!Next]_(Contract!contractVars)
  <2>1. Contract!Open(r)
    BY <1>1, <1>8, HeldIsOpen, OpenToContract DEF PostSucceeds, PostEnds
  <2>2. /\ task' = [task EXCEPT ![r] = Completed(task[r], n)]
        /\ UNCHANGED <<client, recoveries>>
    BY <1>8 DEF PostSucceeds, Complete
  <2>3. Results' = Results \cup {r} /\ Errors' = Errors
    <3>1. /\ Completed(task[r], n).result
          /\ Completed(task[r], n).error = task[r].error
      BY <1>1, OutcomeFields
    <3>2. /\ task'[r] = Completed(task[r], n)
          /\ \A s \in Requests \ {r} : task'[s] = task[s]
      BY <1>1, <2>2
    <3> QED
      BY <3>1, <3>2 DEF Results, Errors
  <2>4. Contract!Succeed(r)
    BY <2>1, <2>2, <2>3 DEF Contract!Succeed, Results, Errors
  <2> QED
    BY <2>4 DEF Contract!Next
<1>9. ASSUME NEW r \in Requests, NEW n \in Nodes, DispatchTo(r, n)
      PROVE  [Contract!Next]_(Contract!contractVars)
  <2>1. /\ task' = [task EXCEPT ![r] = Assigned(task[r], n)]
        /\ UNCHANGED <<client, recoveries>>
    BY <1>9 DEF DispatchTo
  <2>2. /\ task'[r] = Assigned(task[r], n)
        /\ \A s \in Requests \ {r} : task'[s] = task[s]
    BY <1>1, <2>1
  <2>3. /\ Assigned(task[r], n).result = task[r].result
        /\ Assigned(task[r], n).error = task[r].error
    BY <1>1, OutcomeFields
  <2>4. UNCHANGED <<client, Results, Errors, Recovered>>
    BY <2>1, <2>2, <2>3, ContractFrame
  <2> QED
    BY <1>2, <2>4
<1>10. ASSUME NEW r \in Requests, MonitorRecovers(r)
      PROVE  [Contract!Next]_(Contract!contractVars)
  <2>1. Contract!Open(r)
    BY <1>1, <1>10, HeldIsOpen, OpenToContract
       DEF MonitorRecovers, IInv, TypeOK
  <2>2. /\ task' = [task EXCEPT ![r] = Retried(task[r])]
        /\ recoveries' = [recoveries EXCEPT ![r] = recoveries[r] + 1]
        /\ UNCHANGED client
    BY <1>10 DEF MonitorRecovers, MarkRetrying, More
  <2>3. Results' = Results /\ Errors' = Errors
    <3>1. /\ Retried(task[r]).result = task[r].result
          /\ Retried(task[r]).error = task[r].error
      BY <1>1, OutcomeFields
    <3>2. /\ task'[r] = Retried(task[r])
          /\ \A s \in Requests \ {r} : task'[s] = task[s]
      BY <1>1, <2>2
    <3> QED
      BY <3>1, <3>2 DEF Results, Errors
  <2>4. Recovered' = Recovered \cup {r}
    BY <1>1, <2>2 DEF Recovered
  <2>5. Contract!Recover(r)
    BY <2>1, <2>2, <2>3, <2>4 DEF Contract!Recover, Results, Errors, Recovered
  <2> QED
    BY <2>5 DEF Contract!Next
<1>11. CASE UNCHANGED <<client, task, recoveries>>
  BY <1>2, <1>11, ContractFrame
<1> QED
  BY <1>3, <1>4, <1>5, <1>6, <1>7, <1>8, <1>9, <1>10, <1>11
     DEF Next, vars, queueVars, DispatchStarts, DispatchSkips,
         DispatchFindsNoWorker, DispatchLoop, PutResumes, PostReturns,
         MonitorStep, MonitorTick, MonitorSkips, MonitorVisits, MonitorPasses,
         MonitorPutResumes, MonitorGoesOn, MonitorSleeps, WorkerCalls,
         RegisterWorker, WorkerHeartbeat, DeregisterWorker, DeleteWorker,
         PurgeInactiveWorkers, HeartbeatLapses

\* The master implements the contract: the caller of a request is told once,
\* by the outcome if there is one, and only a request the monitor has taken
\* away from a silent worker can get a second outcome.
THEOREM KeepsContractCorrect == Spec => KeepsContract
<1>1. Init => Contract!Init
  BY DEF Init, QueueInit, NoTask, Contract!Init
<1> QED
  BY <1>1, ContractStep, IInvCorrect, PTL DEF Spec, KeepsContract, Contract!Spec

-----------------------------------------------------------------------------
(* Counting the copies of a request. *)

LEMMA OccurrencesFinite ==
    ASSUME NEW S, NEW s \in Seq(S), NEW r
    PROVE  /\ IsFiniteSet({i \in DOMAIN s : s[i] = r})
           /\ Occurrences(r, s) \in Nat
<1>1. DOMAIN s = 1 .. Len(s) /\ Len(s) \in Nat
  BY LenProperties
<1>2. IsFiniteSet(1 .. Len(s))
  BY <1>1, FS_Interval
<1>3. IsFiniteSet({i \in DOMAIN s : s[i] = r})
  BY <1>1, <1>2, FS_Subset
<1> QED
  BY <1>3, FS_CardinalityType DEF Occurrences

LEMMA OccurrencesConcat ==
    ASSUME NEW S, NEW p \in Seq(S), NEW q \in Seq(S), NEW r
    PROVE  Occurrences(r, p \o q) = Occurrences(r, p) + Occurrences(r, q)
<1> DEFINE A == {i \in DOMAIN p : p[i] = r}
           B == {i \in DOMAIN q : q[i] = r}
           C == {i \in DOMAIN (p \o q) : (p \o q)[i] = r}
           shift == [i \in B |-> i + Len(p)]
           D == {i + Len(p) : i \in B}
<1>1. /\ Len(p) \in Nat
      /\ Len(q) \in Nat
      /\ DOMAIN p = 1 .. Len(p)
      /\ DOMAIN q = 1 .. Len(q)
      /\ DOMAIN (p \o q) = 1 .. Len(p) + Len(q)
      /\ \A i \in 1 .. Len(p) + Len(q) :
           (p \o q)[i] = IF i <= Len(p) THEN p[i] ELSE q[i - Len(p)]
  BY ConcatProperties, LenProperties
<1>2. IsFiniteSet(A) /\ IsFiniteSet(B)
  BY OccurrencesFinite
<1>3. IsFiniteSet(D) /\ Cardinality(D) = Cardinality(B)
  <2>1. shift \in Bijection(B, D)
    <3>1. shift \in [B -> D] /\ \A t \in D : \E i \in B : shift[i] = t
      OBVIOUS
    <3>2. \A i, j \in B : shift[i] = shift[j] => i = j
      BY <1>1
    <3> QED
      BY <3>1, <3>2 DEF Bijection, Injection, Surjection, IsInjective
  <2> QED
    BY <1>2, <2>1, FS_Bijection DEF ExistsBijection
<1>4. C = A \cup D
  <2>1. ASSUME NEW i \in C PROVE i \in A \cup D
    <3>1. CASE i <= Len(p)
      BY <1>1, <3>1
    <3>2. CASE ~(i <= Len(p))
      <4>1. i - Len(p) \in B /\ i = (i - Len(p)) + Len(p)
        BY <1>1, <3>2
      <4> QED
        BY <4>1
    <3> QED
      BY <3>1, <3>2
  <2>2. A \subseteq C
    BY <1>1
  <2>3. ASSUME NEW i \in B PROVE i + Len(p) \in C
    <3>1. i + Len(p) \in 1 .. Len(p) + Len(q) /\ ~(i + Len(p) <= Len(p))
      BY <1>1
    <3>2. (i + Len(p)) - Len(p) = i
      BY <1>1
    <3> QED
      BY <1>1, <3>1, <3>2
  <2> QED
    BY <2>1, <2>2, <2>3
<1>5. A \cap D = {}
  BY <1>1
<1>6. /\ Occurrences(r, p) = Cardinality(A)
      /\ Occurrences(r, q) = Cardinality(B)
      /\ Occurrences(r, p \o q) = Cardinality(C)
  BY DEF Occurrences
<1> HIDE DEF A, B, C, D
<1>7. Cardinality(A) \in Nat /\ Cardinality(B) \in Nat
  BY <1>2, FS_CardinalityType
<1>8. Cardinality(A \cup D) = Cardinality(A) + Cardinality(D) - Cardinality(A \cap D)
  BY <1>2, <1>3, FS_Union
<1>9. Cardinality(A \cap D) = 0
  BY <1>5, FS_EmptySet
<1> QED
  BY <1>3, <1>4, <1>6, <1>7, <1>8, <1>9

LEMMA OccurrencesOne ==
    ASSUME NEW e, NEW r
    PROVE  Occurrences(r, <<e>>) = IF e = r THEN 1 ELSE 0
<1>1. {i \in DOMAIN <<e>> : <<e>>[i] = r} = IF e = r THEN {1} ELSE {}
  OBVIOUS
<1> QED
  BY <1>1, FS_Singleton, FS_EmptySet DEF Occurrences

LEMMA OccurrencesAppend ==
    ASSUME NEW S, NEW s \in Seq(S), NEW e \in S, NEW r
    PROVE  Occurrences(r, Append(s, e)) =
             Occurrences(r, s) + (IF e = r THEN 1 ELSE 0)
<1>1. Append(s, e) = s \o <<e>> /\ <<e>> \in Seq(S)
  BY AppendIsConcat
<1>2. Occurrences(r, s \o <<e>>) = Occurrences(r, s) + Occurrences(r, <<e>>)
  BY <1>1, OccurrencesConcat
<1> QED
  BY <1>1, <1>2, OccurrencesOne

LEMMA OccurrencesHead ==
    ASSUME NEW S, NEW s \in Seq(S), s # <<>>, NEW r
    PROVE  Occurrences(r, s) =
             Occurrences(r, Tail(s)) + (IF Head(s) = r THEN 1 ELSE 0)
<1>1. <<Head(s)>> \in Seq(S) /\ Tail(s) \in Seq(S) /\ s = <<Head(s)>> \o Tail(s)
  OBVIOUS
<1>2. Occurrences(r, Tail(s)) \in Nat
  BY <1>1, OccurrencesFinite
<1>3. Occurrences(r, s) = Occurrences(r, <<Head(s)>>) + Occurrences(r, Tail(s))
  BY <1>1, OccurrencesConcat
<1> QED
  BY <1>2, <1>3, OccurrencesOne

\* The POSTs of a request are finitely many.
LEMMA OutstandingFinite ==
    ASSUME TypeOK, NEW r \in Requests
    PROVE  IsFiniteSet(Outstanding(r)) /\ Cardinality(Outstanding(r)) \in Nat
<1> DEFINE f == [n \in Nodes |-> {n} \X (1 .. posts[r][n])]
           T == {{n} \X (1 .. posts[r][n]) : n \in Nodes}
<1>1. IsFiniteSet(T)
  <2>1. f \in Surjection(Nodes, T)
    <3>1. f \in [Nodes -> T] /\ \A t \in T : \E n \in Nodes : f[n] = t
      OBVIOUS
    <3> QED
      BY <3>1 DEF Surjection
  <2> QED
    BY <2>1, NodesAssumption, FS_Surjection
<1>2. ASSUME NEW t \in T PROVE IsFiniteSet(t)
  <2>1. PICK n \in Nodes : t = {n} \X (1 .. posts[r][n])
    OBVIOUS
  <2>2. posts[r][n] \in Nat
    BY DEF TypeOK
  <2>3. IsFiniteSet({n}) /\ IsFiniteSet(1 .. posts[r][n])
    <3>1. 1 \in Int /\ posts[r][n] \in Int
      BY <2>2
    <3> QED
      BY <3>1, FS_Singleton, FS_Interval
  <2> QED
    BY <2>1, <2>3, FS_Product
<1>3. IsFiniteSet(UNION T)
  BY <1>1, <1>2, FS_UNION
<1> QED
  BY <1>3, FS_CardinalityType DEF Outstanding

\* A pair is a POST if its number is within the count of the worker.
LEMMA OutstandingIs ==
    ASSUME NEW r
    PROVE  /\ \A e \in Outstanding(r) : \E m \in Nodes : \E i \in Nat : e = <<m, i>>
           /\ \A m \in Nodes : \A i :
                <<m, i>> \in Outstanding(r) <=> i \in 1 .. posts[r][m]
BY DEF Outstanding

LEMMA OutstandingBecomes ==
    ASSUME NEW r
    PROVE  /\ \A e \in Outstanding(r)' : \E m \in Nodes : \E i \in Nat : e = <<m, i>>
           /\ \A m \in Nodes : \A i :
                <<m, i>> \in Outstanding(r)' <=> i \in 1 .. posts'[r][m]
BY DEF Outstanding

LEMMA OneLonger ==
    ASSUME NEW k \in Nat
    PROVE  /\ 1 .. (k + 1) = (1 .. k) \cup {k + 1}
           /\ k > 0 => 1 .. (k - 1) = (1 .. k) \ {k}
OBVIOUS

\* A POST that begins or ends is one more or one less.
LEMMA PostBeginsCounts ==
    ASSUME TypeOK, NEW r \in Requests, NEW n \in Nodes,
           posts' = [posts EXCEPT ![r][n] = @ + 1], NEW s \in Requests
    PROVE  Cardinality(Outstanding(s))' =
             Cardinality(Outstanding(s)) + (IF s = r THEN 1 ELSE 0)
<1>1. posts \in [Requests -> [Nodes -> Nat]] /\ posts[r][n] \in Nat
  BY DEF TypeOK
<1>2. CASE s # r
  <2>1. posts'[s] = posts[s]
    BY <1>1, <1>2
  <2>2. Outstanding(s)' = Outstanding(s)
    BY <2>1 DEF Outstanding
  <2> QED
    BY <1>2, <2>2, OutstandingFinite
<1>3. CASE s = r
  <2>1. posts'[r][n] = posts[r][n] + 1 /\ \A m \in Nodes \ {n} : posts'[r][m] = posts[r][m]
    BY <1>1
  <2>2. Outstanding(r)' = Outstanding(r) \cup {<<n, posts[r][n] + 1>>}
    <3>1. 1 .. posts'[r][n] = (1 .. posts[r][n]) \cup {posts[r][n] + 1}
      BY <1>1, <2>1, OneLonger
    <3>2. posts[r][n] + 1 \in Nat
      BY <1>1
    <3>3. ASSUME NEW m \in Nodes, NEW i
          PROVE  <<m, i>> \in Outstanding(r)' <=>
                   <<m, i>> \in Outstanding(r) \cup {<<n, posts[r][n] + 1>>}
      <4>1. CASE m = n
        BY <3>1, <4>1, OutstandingIs, OutstandingBecomes
      <4>2. CASE m # n
        BY <2>1, <4>2, OutstandingIs, OutstandingBecomes
      <4> QED
        BY <4>1, <4>2
    <3> QED
      BY <3>2, <3>3, OutstandingIs, OutstandingBecomes
  <2>3. <<n, posts[r][n] + 1>> \notin Outstanding(r)
    BY <1>1 DEF Outstanding
  <2> QED
    BY <1>3, <2>2, <2>3, OutstandingFinite, FS_AddElement
<1> QED
  BY <1>2, <1>3

LEMMA PostEndsCounts ==
    ASSUME TypeOK, NEW r \in Requests, NEW n \in Nodes, PostEnds(r, n),
           NEW s \in Requests
    PROVE  /\ Cardinality(Outstanding(s))' =
                Cardinality(Outstanding(s)) - (IF s = r THEN 1 ELSE 0)
           /\ Cardinality(Outstanding(r)) > 0
<1>1. /\ posts \in [Requests -> [Nodes -> Nat]]
      /\ posts[r][n] \in Nat
      /\ posts[r][n] > 0
      /\ posts' = [posts EXCEPT ![r][n] = posts[r][n] - 1]
  BY DEF TypeOK, PostEnds
<1>2. <<n, posts[r][n]>> \in Outstanding(r)
  BY <1>1 DEF Outstanding
<1>3. Cardinality(Outstanding(r)) > 0
  BY <1>2, OutstandingFinite, FS_EmptySet
<1>4. CASE s # r
  <2>1. posts'[s] = posts[s]
    BY <1>1, <1>4
  <2>2. Outstanding(s)' = Outstanding(s)
    BY <2>1 DEF Outstanding
  <2> QED
    BY <1>3, <1>4, <2>2, OutstandingFinite
<1>5. CASE s = r
  <2>1. posts'[r][n] = posts[r][n] - 1 /\ \A m \in Nodes \ {n} : posts'[r][m] = posts[r][m]
    BY <1>1
  <2>2. Outstanding(r)' = Outstanding(r) \ {<<n, posts[r][n]>>}
    <3>1. 1 .. posts'[r][n] = (1 .. posts[r][n]) \ {posts[r][n]}
      BY <1>1, <2>1, OneLonger
    <3>2. posts[r][n] \in Nat
      BY <1>1
    <3>3. ASSUME NEW m \in Nodes, NEW i
          PROVE  <<m, i>> \in Outstanding(r)' <=>
                   <<m, i>> \in Outstanding(r) \ {<<n, posts[r][n]>>}
      <4>1. CASE m = n
        BY <3>1, <4>1, OutstandingIs, OutstandingBecomes
      <4>2. CASE m # n
        BY <2>1, <4>2, OutstandingIs, OutstandingBecomes
      <4> QED
        BY <4>1, <4>2
    <3> QED
      BY <3>2, <3>3, OutstandingIs, OutstandingBecomes
  <2>3. IsFiniteSet(Outstanding(r)) /\ Cardinality(Outstanding(r)) \in Nat
    BY OutstandingFinite
  <2>4. Cardinality(Outstanding(r) \ {<<n, posts[r][n]>>}) =
          Cardinality(Outstanding(r)) - 1
    BY <1>2, <2>3, FS_RemoveElement
  <2> QED
    BY <1>3, <1>5, <2>2, <2>4
<1> QED
  BY <1>4, <1>5, <1>3

One(r, s) == IF r = s THEN 1 ELSE 0

\* The terms of Copies are naturals.
CountsOK ==
    \A s \in Requests :
        /\ Occurrences(s, queue) \in Nat
        /\ Occurrences(s, ready) \in Nat
        /\ sleeping[s] \in Nat
        /\ putting[s] \in Nat
        /\ Cardinality(Outstanding(s)) \in Nat
        /\ Copies(s) \in Nat
        /\ recoveries[s] \in Nat

LEMMA CountsType == TypeOK => CountsOK
<1> SUFFICES ASSUME TypeOK, NEW s \in Requests
             PROVE  /\ Occurrences(s, queue) \in Nat
                    /\ Occurrences(s, ready) \in Nat
                    /\ sleeping[s] \in Nat
                    /\ putting[s] \in Nat
                    /\ Cardinality(Outstanding(s)) \in Nat
                    /\ Copies(s) \in Nat
                    /\ recoveries[s] \in Nat
  BY DEF CountsOK
<1>1. /\ Occurrences(s, queue) \in Nat
      /\ Occurrences(s, ready) \in Nat
      /\ sleeping[s] \in Nat
      /\ putting[s] \in Nat
      /\ recoveries[s] \in Nat
  BY OccurrencesFinite DEF TypeOK, QueueTypeOK
<1> QED
  BY <1>1, OutstandingFinite DEF Copies

LEMMA PutCounts ==
    ASSUME TypeOK, NEW r \in Requests, Put(r), NEW s \in Requests
    PROVE  Occurrences(s, queue)' = Occurrences(s, queue) + One(r, s)
<1>1. queue \in Seq(Requests) /\ queue' = Append(queue, r)
  BY DEF TypeOK, QueueTypeOK, Put
<1>2. Occurrences(s, Append(queue, r)) = Occurrences(s, queue) + One(r, s)
  BY <1>1, OccurrencesAppend DEF One
<1>3. Occurrences(s, queue)' = Occurrences(s, Append(queue, r))
  BY <1>1 DEF Occurrences
<1> QED
  BY <1>2, <1>3

LEMMA StartsCounts ==
    ASSUME TypeOK, NEW r \in Requests, Starts(r), NEW s \in Requests
    PROVE  Occurrences(s, ready) = Occurrences(s, ready)' + One(r, s)
<1>1. /\ ready \in Seq(Requests)
      /\ ready # <<>>
      /\ r = Head(ready)
      /\ ready' = Tail(ready)
  BY DEF TypeOK, Starts
<1>2. Occurrences(s, ready) = Occurrences(s, Tail(ready)) + One(r, s)
  BY <1>1, OccurrencesHead DEF One
<1>3. Occurrences(s, ready)' = Occurrences(s, Tail(ready))
  BY <1>1 DEF Occurrences
<1> QED
  BY <1>2, <1>3

\* A retry makes one copy of its request, a failure none.
LEMMA RetryOrFailCounts ==
    ASSUME TypeOK, NEW r \in Requests, RetryOrFail(r), NEW s \in Requests
    PROVE  /\ Occurrences(s, queue)' + putting'[s]
                <= Occurrences(s, queue) + putting[s] + One(r, s)
           /\ Occurrences(s, queue)' + putting'[s] \in Nat
<1>1. /\ Occurrences(s, queue) \in Nat
      /\ putting[s] \in Nat
      /\ putting \in [Requests -> Nat]
      /\ One(r, s) \in Nat
  BY CountsType DEF CountsOK, TypeOK, One
<1>2. CASE Put(r) /\ UNCHANGED putting
  BY <1>1, <1>2, PutCounts
<1>3. CASE UNCHANGED queue /\ putting' = More(putting, r)
  <2>1. Occurrences(s, queue)' = Occurrences(s, queue)
    BY <1>3 DEF Occurrences
  <2>2. putting'[s] = putting[s] + One(r, s)
    BY <1>1, <1>3 DEF More, One
  <2> QED
    BY <1>1, <2>1, <2>2
<1>4. CASE UNCHANGED <<queue, putting>>
  <2>1. Occurrences(s, queue)' = Occurrences(s, queue)
    BY <1>4 DEF Occurrences
  <2> QED
    BY <1>1, <1>4, <2>1
<1> QED
  BY <1>2, <1>3, <1>4 DEF RetryOrFail, Requeue

\* A step moves the copies of a request, or makes them fewer, unless it is its
\* acceptance, which makes the first one, or a recovery, which makes one more.
CopiesMove(s) ==
    \/ Copies(s)' <= Copies(s) /\ UNCHANGED recoveries
    \/ /\ InferAccepted(s)
       /\ Copies(s) = 0
       /\ Copies(s)' = 1
    \/ /\ MonitorRecovers(s)
       /\ Copies(s)' = Copies(s) + 1
       /\ recoveries'[s] = recoveries[s] + 1
    \/ /\ \E r \in Requests \ {s} : MonitorRecovers(r)
       /\ Copies(s)' = Copies(s)
       /\ recoveries'[s] = recoveries[s]

\* A request that has no record has no copy.
LEMMA NoRecordNoCopies ==
    ASSUME IInv, NEW r \in Requests, task[r].status = "none"
    PROVE  Copies(r) = 0
<1>1. TypeOK
  BY DEF IInv
<1>2. /\ r \notin Range(queue) \cup Range(ready)
      /\ ~(sleeping[r] > 0)
      /\ ~(putting[r] > 0)
      /\ \A n \in Nodes : ~(posts[r][n] > 0)
  BY TokensHaveRecords
<1>3. Occurrences(r, queue) = 0 /\ Occurrences(r, ready) = 0
  <2>1. /\ {i \in DOMAIN queue : queue[i] = r} = {}
        /\ {i \in DOMAIN ready : ready[i] = r} = {}
    BY <1>2 DEF Range
  <2> QED
    BY <2>1, FS_EmptySet DEF Occurrences
<1>4. sleeping[r] = 0 /\ putting[r] = 0
  BY <1>1, <1>2, CountsType DEF CountsOK
<1>5. Cardinality(Outstanding(r)) = 0
  <2>1. \A n \in Nodes : posts[r][n] = 0
    BY <1>1, <1>2 DEF TypeOK
  <2>2. Outstanding(r) = {}
    BY <2>1 DEF Outstanding
  <2> QED
    BY <2>2, FS_EmptySet
<1>6. ~Held(r)
  BY DEF Held, IInv, HeldIsRecovered, OnlyAcceptedHaveRecords
<1> QED
  BY <1>3, <1>4, <1>5, <1>6 DEF Copies

\* There is one request the monitor looks at next.
LEMMA OneFirst ==
    ASSUME NEW r \in Requests, FirstLeft(r), NEW s \in Requests
    PROVE  FirstLeft(s) <=> s = r
BY MaxRequestsAssumption DEF FirstLeft, Requests

\* A counter of coroutines goes up and down by the one that comes or goes.
LEMMA OneMoreOrLess ==
    ASSUME NEW f \in [Requests -> Nat], NEW r \in Requests, NEW s \in Requests
    PROVE  /\ More(f, r)[s] = f[s] + One(r, s)
           /\ Less(f, r)[s] + One(r, s) = f[s]
BY DEF More, Less, One

LEMMA CopiesStep ==
    ASSUME IInv, TypeOK', [Next]_vars, NEW s \in Requests
    PROVE  CopiesMove(s)
<1> DEFINE q == Occurrences(s, queue)
           d == Occurrences(s, ready)
           o == Cardinality(Outstanding(s))
           h == IF Held(s) THEN 1 ELSE 0
<1>1. /\ TypeOK
      /\ q \in Nat /\ d \in Nat /\ o \in Nat /\ h \in {0, 1}
      /\ sleeping[s] \in Nat /\ putting[s] \in Nat
      /\ recoveries[s] \in Nat
      /\ Copies(s) \in Nat
      /\ \A r : One(r, s) \in {0, 1}
  BY CountsType DEF CountsOK, IInv, One
<1>2. sleeping \in [Requests -> Nat] /\ putting \in [Requests -> Nat]
  BY <1>1 DEF TypeOK
<1>3. /\ q' \in Nat /\ d' \in Nat /\ o' \in Nat /\ h' \in {0, 1}
      /\ sleeping'[s] \in Nat /\ putting'[s] \in Nat
  <2>1. CountsOK'
    BY CountsType, PTL
  <2> QED
    BY <2>1 DEF CountsOK
<1>4. /\ Copies(s) = q + d + sleeping[s] + putting[s] + o + h
      /\ Copies(s)' = q' + d' + sleeping'[s] + putting'[s] + o' + h'
  BY DEF Copies
<1>5. /\ UNCHANGED queue => q' = q
      /\ UNCHANGED ready => d' = d
      /\ UNCHANGED posts => o' = o
      /\ UNCHANGED <<monitorAt, left>> => h' = h
  BY DEF Occurrences, Outstanding, Held, FirstLeft
<1> HIDE DEF q, d, o, h
<1>6. CASE UNCHANGED <<queue, dispatchVars, monitorAt, left, recoveries>>
  <2>1. Copies(s)' = Copies(s)
    BY <1>4, <1>5, <1>6 DEF dispatchVars
  <2> QED
    BY <1>1, <1>6, <2>1 DEF CopiesMove
<1>7. ASSUME NEW r \in Requests, InferAccepted(r)
      PROVE  CopiesMove(s)
  <2>1. /\ Put(r) /\ task[r].status = "none"
        /\ UNCHANGED <<dispatchVars, monitorVars, recoveries>>
    BY <1>7 DEF InferAccepted, NextCall, Enqueue, IInv, OnlyAcceptedHaveRecords
  <2>2. q' = q + One(r, s)
    BY <1>1, <2>1, PutCounts DEF q
  <2>3. Copies(s)' = Copies(s) + One(r, s)
    BY <1>1, <1>4, <1>5, <2>1, <2>2 DEF dispatchVars, monitorVars
  <2>4. CASE r = s
    <3>1. Copies(s) = 0
      BY <2>1, <2>4, NoRecordNoCopies
    <3> QED
      BY <1>7, <2>3, <2>4, <3>1 DEF One, CopiesMove
  <2>5. CASE r # s
    BY <1>1, <2>1, <2>3, <2>5 DEF One, CopiesMove
  <2> QED
    BY <2>4, <2>5
<1>8. ASSUME NEW r \in Requests, RetryOrFail(r), UNCHANGED <<ready, monitorVars, recoveries>>,
             sleeping'[s] + o' + One(r, s) = sleeping[s] + o
      PROVE  CopiesMove(s)
  <2>1. q' + putting'[s] <= q + putting[s] + One(r, s)
    BY <1>1, <1>8, RetryOrFailCounts DEF q
  <2>2. Copies(s)' <= Copies(s)
    BY <1>1, <1>3, <1>4, <1>5, <1>8, <2>1 DEF monitorVars
  <2> QED
    BY <1>8, <2>2 DEF CopiesMove
<1>9. ASSUME NEW r \in Requests, DispatchWakes(r)
      PROVE  CopiesMove(s)
  <2>1. /\ RetryOrFail(r)
        /\ sleeping' = Less(sleeping, r)
        /\ UNCHANGED <<ready, posts, monitorVars, recoveries>>
    BY <1>9 DEF DispatchWakes
  <2>2. sleeping'[s] + One(r, s) = sleeping[s]
    BY <1>2, <2>1, OneMoreOrLess
  <2> QED
    BY <1>1, <1>3, <1>5, <1>8, <2>1, <2>2
<1>10. ASSUME NEW r \in Requests, NEW n \in Nodes, PostEnds(r, n)
      PROVE  o' + One(r, s) = o
  BY <1>1, <1>3, <1>10, PostEndsCounts DEF o, One
<1>11. ASSUME NEW r \in Requests, NEW n \in Nodes, PostFails(r, n)
      PROVE  CopiesMove(s)
  <2>1. /\ PostEnds(r, n)
        /\ RetryOrFail(r)
        /\ UNCHANGED <<ready, sleeping, monitorVars, recoveries>>
    BY <1>11 DEF PostFails
  <2> QED
    BY <1>1, <1>3, <1>8, <1>10, <2>1
<1>12. ASSUME NEW r \in Requests, NEW n \in Nodes, PostSucceeds(r, n)
       PROVE  CopiesMove(s)
  <2>1. /\ PostEnds(r, n)
        /\ UNCHANGED <<queue, ready, sleeping, putting, monitorVars, recoveries>>
    BY <1>12 DEF PostSucceeds
  <2>2. Copies(s)' <= Copies(s)
    BY <1>1, <1>3, <1>4, <1>5, <1>10, <2>1 DEF monitorVars
  <2> QED
    BY <2>1, <2>2 DEF CopiesMove
<1>13. ASSUME NEW r \in Requests, PutResumes(r)
       PROVE  CopiesMove(s)
  <2>1. /\ Put(r)
        /\ putting' = Less(putting, r)
        /\ UNCHANGED <<ready, sleeping, posts, monitorVars, recoveries>>
    BY <1>13 DEF PutResumes
  <2>2. q' = q + One(r, s)
    BY <1>1, <2>1, PutCounts DEF q
  <2>3. putting'[s] + One(r, s) = putting[s]
    BY <1>2, <2>1, OneMoreOrLess
  <2>4. Copies(s)' <= Copies(s)
    BY <1>1, <1>3, <1>4, <1>5, <2>1, <2>2, <2>3 DEF monitorVars
  <2> QED
    BY <2>1, <2>4 DEF CopiesMove
<1>14. CASE DispatchLoop
  <2>1. /\ ready' = ready \o queue
        /\ queue' = <<>>
        /\ UNCHANGED <<sleeping, putting, posts, monitorVars, recoveries>>
    BY <1>14 DEF DispatchLoop
  <2>2. d' = d + q
    <3>1. ready \in Seq(Requests) /\ queue \in Seq(Requests)
      BY <1>1 DEF TypeOK, QueueTypeOK
    <3>2. Occurrences(s, ready \o queue) = Occurrences(s, ready) + Occurrences(s, queue)
      BY <3>1, OccurrencesConcat
    <3> QED
      BY <2>1, <3>2 DEF d, q, Occurrences
  <2>3. q' = 0
    <3>1. {i \in DOMAIN queue' : queue'[i] = s} = {}
      BY <2>1
    <3> QED
      BY <3>1, FS_EmptySet DEF q, Occurrences
  <2>4. Copies(s)' <= Copies(s)
    BY <1>1, <1>3, <1>4, <1>5, <2>1, <2>2, <2>3 DEF monitorVars
  <2> QED
    BY <2>1, <2>4 DEF CopiesMove
<1>15. ASSUME NEW r \in Requests, Starts(r)
       PROVE  d = d' + One(r, s)
  BY <1>1, <1>15, StartsCounts DEF d
<1>16. ASSUME NEW r \in Requests, DispatchSkips(r)
       PROVE  CopiesMove(s)
  <2>1. /\ Starts(r)
        /\ UNCHANGED <<queue, sleeping, putting, posts, monitorVars, recoveries>>
    BY <1>16 DEF DispatchSkips, queueVars
  <2>2. Copies(s)' <= Copies(s)
    BY <1>1, <1>3, <1>4, <1>5, <1>15, <2>1 DEF monitorVars
  <2> QED
    BY <2>1, <2>2 DEF CopiesMove
<1>17. ASSUME NEW r \in Requests, DispatchFindsNoWorker(r)
       PROVE  CopiesMove(s)
  <2>1. /\ Starts(r)
        /\ sleeping' = More(sleeping, r)
        /\ UNCHANGED <<queue, putting, posts, monitorVars, recoveries>>
    BY <1>17 DEF DispatchFindsNoWorker, queueVars
  <2>2. sleeping'[s] = sleeping[s] + One(r, s)
    BY <1>2, <2>1, OneMoreOrLess
  <2>3. Copies(s)' <= Copies(s)
    BY <1>1, <1>3, <1>4, <1>5, <1>15, <2>1, <2>2 DEF monitorVars
  <2> QED
    BY <2>1, <2>3 DEF CopiesMove
<1>18. ASSUME NEW r \in Requests, NEW n \in Nodes, DispatchTo(r, n)
       PROVE  CopiesMove(s)
  <2>1. /\ Starts(r)
        /\ posts' = [posts EXCEPT ![r][n] = @ + 1]
        /\ UNCHANGED <<queue, sleeping, putting, monitorVars, recoveries>>
    BY <1>18 DEF DispatchTo
  <2>2. o' = o + One(r, s)
    BY <1>1, <2>1, PostBeginsCounts DEF o, One
  <2>3. Copies(s)' <= Copies(s)
    BY <1>1, <1>3, <1>4, <1>5, <1>15, <2>1, <2>2 DEF monitorVars
  <2> QED
    BY <2>1, <2>3 DEF CopiesMove
<1>19. ASSUME NEW r \in Requests, MonitorRecovers(r)
       PROVE  CopiesMove(s)
  <2>1. /\ monitorAt = "recovering"
        /\ FirstLeft(r)
        /\ recoveries' = More(recoveries, r)
        /\ UNCHANGED dispatchVars
        /\ \/ /\ monitorAt' = "putting"
              /\ UNCHANGED <<queue, left>>
           \/ /\ monitorAt' = "recovering"
              /\ Put(r)
    BY <1>19 DEF MonitorRecovers
  <2>2. recoveries'[s] = recoveries[s] + One(r, s)
    <3>1. recoveries \in [Requests -> Nat]
      BY <1>1 DEF TypeOK
    <3> QED
      BY <1>1, <2>1, <3>1 DEF More, One
  <2>3. h = 0
    BY <2>1 DEF h, Held
  <2>4. q' + h' = q + One(r, s)
    <3>1. CASE monitorAt' = "recovering" /\ Put(r)
      <4>1. h' = 0
        BY <3>1 DEF h, Held
      <4>2. q' = q + One(r, s)
        BY <1>1, <3>1, PutCounts DEF q
      <4> QED
        BY <1>1, <4>1, <4>2
    <3>2. CASE monitorAt' = "putting" /\ UNCHANGED <<queue, left>>
      <4>1. Held(s)' <=> s = r
        BY <2>1, <3>2, OneFirst DEF Held, FirstLeft
      <4>2. h' = One(r, s)
        BY <4>1 DEF h, One
      <4> QED
        BY <1>5, <3>2, <4>2
    <3> QED
      BY <2>1, <3>1, <3>2
  <2>5. Copies(s)' = Copies(s) + One(r, s)
    BY <1>1, <1>3, <1>4, <1>5, <2>1, <2>3, <2>4 DEF dispatchVars
  <2>6. CASE r = s
    BY <1>19, <2>2, <2>5, <2>6 DEF One, CopiesMove
  <2>7. CASE r # s
    BY <1>1, <1>19, <2>2, <2>5, <2>7 DEF One, CopiesMove
  <2> QED
    BY <2>6, <2>7
<1>20. ASSUME NEW r \in Requests, MonitorPutResumes(r)
       PROVE  CopiesMove(s)
  <2>1. /\ monitorAt = "putting"
        /\ monitorAt' = "recovering"
        /\ FirstLeft(r)
        /\ Put(r)
        /\ UNCHANGED <<dispatchVars, recoveries>>
    BY <1>20 DEF MonitorPutResumes
  <2>2. h = One(r, s)
    <3>1. Held(s) <=> s = r
      BY <2>1, OneFirst DEF Held
    <3> QED
      BY <3>1 DEF h, One
  <2>3. h' = 0
    BY <2>1 DEF h, Held
  <2>4. q' = q + One(r, s)
    BY <1>1, <2>1, PutCounts DEF q
  <2>5. Copies(s)' <= Copies(s)
    BY <1>1, <1>3, <1>4, <1>5, <2>1, <2>2, <2>3, <2>4 DEF dispatchVars
  <2> QED
    BY <2>1, <2>5 DEF CopiesMove
<1>21. ASSUME monitorAt # "putting", monitorAt' # "putting",
              UNCHANGED <<queue, dispatchVars, recoveries>>
       PROVE  CopiesMove(s)
  <2>1. h = 0 /\ h' = 0
    BY <1>21 DEF h, Held
  <2>2. Copies(s)' = Copies(s)
    BY <1>4, <1>5, <1>21, <2>1 DEF dispatchVars
  <2> QED
    BY <1>1, <1>21, <2>2 DEF CopiesMove
<1>22. CASE MonitorStep
  BY <1>6, <1>19, <1>20, <1>21, <1>22
     DEF MonitorStep, MonitorTick, MonitorSkips, MonitorVisits, MonitorPasses,
         MonitorGoesOn, MonitorSleeps, queueVars
<1>23. CASE WorkerCalls
  BY <1>6, <1>23
     DEF WorkerCalls, RegisterWorker, WorkerHeartbeat, DeregisterWorker,
         DeleteWorker, PurgeInactiveWorkers, HeartbeatLapses, HeardOf, Detach,
         queueVars, monitorVars
<1>24. ASSUME NEW r \in Requests,
              InferRefused(r) \/ ClientWakes(r) \/ ClientGivesUp(r)
       PROVE  CopiesMove(s)
  BY <1>6, <1>24 DEF InferRefused, ClientWakes, ClientGivesUp, Reply,
                     queueVars, monitorVars
<1>25. CASE UNCHANGED vars
  BY <1>6, <1>25 DEF vars, queueVars, monitorVars
<1> QED
  BY <1>7, <1>9, <1>11, <1>12, <1>13, <1>14, <1>16, <1>17, <1>18, <1>22, <1>23,
     <1>24, <1>25 DEF Next, DispatchStarts, PostReturns

\* The monitor requeues a request when it is in flight only, and adds a copy
\* for each time it does; an accepted request has one.
LEMMA DuplicatesStep ==
    ASSUME IInv, TypeOK', [Next]_vars, OnlyMonitorDuplicates
    PROVE  OnlyMonitorDuplicates'
<1> SUFFICES ASSUME NEW s \in Requests
             PROVE  (Copies(s) <= 1 + recoveries[s])'
  BY DEF OnlyMonitorDuplicates
<1>1. Copies(s) \in Nat /\ recoveries[s] \in Nat /\ Copies(s) <= 1 + recoveries[s]
  BY CountsType DEF CountsOK, IInv, OnlyMonitorDuplicates
<1>2. Copies(s)' \in Nat /\ recoveries'[s] \in Nat
  <2>1. CountsOK'
    BY CountsType, PTL
  <2> QED
    BY <2>1 DEF CountsOK
<1>3. CopiesMove(s)
  BY CopiesStep
<1>4. InferAccepted(s) => UNCHANGED recoveries
  BY DEF InferAccepted
<1> QED
  BY <1>1, <1>2, <1>3, <1>4 DEF CopiesMove

\* Only recoveries duplicate a request: of one the monitor has never taken
\* away from a worker there is one copy, whatever runs in between.
THEOREM OnlyMonitorDuplicatesCorrect == Spec => []OnlyMonitorDuplicates
<1>1. Init => OnlyMonitorDuplicates
  <2> SUFFICES ASSUME Init, NEW s \in Requests
               PROVE  Copies(s) <= 1 + recoveries[s]
    BY DEF OnlyMonitorDuplicates
  <2>1. IInv /\ task[s].status = "none" /\ recoveries[s] = 0
    BY InitIInv DEF Init, QueueInit, NoTask
  <2>2. Copies(s) = 0
    BY <2>1, NoRecordNoCopies
  <2> QED
    BY <2>1, <2>2
<1>2. IInv /\ TypeOK' /\ [Next]_vars /\ OnlyMonitorDuplicates => OnlyMonitorDuplicates'
  BY DuplicatesStep
<1>3. IInv => TypeOK
  BY DEF IInv
<1> QED
  BY <1>1, <1>2, <1>3, IInvCorrect, PTL DEF Spec

-----------------------------------------------------------------------------
(* A request without a copy is at rest. *)

\* Whoever writes a record holds a copy of the request, accepts it or takes it
\* away from a worker.
LEMMA WritersHoldCopies ==
    ASSUME IInv, [Next]_vars, NEW s \in Requests, task'[s] # task[s]
    PROVE  \/ Copies(s) > 0
           \/ InferAccepted(s)
           \/ MonitorRecovers(s)
<1>1. TypeOK /\ QueueTypeOK /\ CountsOK
  BY CountsType DEF IInv, TypeOK
<1>2. ASSUME NEW r \in Requests, NEW t, task' = [task EXCEPT ![r] = t]
      PROVE  r = s
  BY <1>1, <1>2 DEF QueueTypeOK
<1>3. ASSUME NEW r \in Requests, RetryOrFail(r)
      PROVE  r = s
  BY <1>2, <1>3 DEF RetryOrFail, Requeue, MarkRetrying, Fail
<1>4. ASSUME NEW r \in Requests, NEW n \in Nodes, PostReturns(r, n)
      PROVE  Copies(s) > 0
  <2>1. PostEnds(r, n)
    BY <1>4 DEF PostReturns, PostSucceeds, PostFails
  <2>2. r = s
    BY <1>2, <1>3, <1>4 DEF PostReturns, PostSucceeds, PostFails, Complete
  <2>3. Cardinality(Outstanding(s)) > 0
    BY <1>1, <2>1, <2>2, PostEndsCounts
  <2> QED
    BY <1>1, <2>3 DEF CountsOK, Copies
<1>5. ASSUME NEW r \in Requests, DispatchWakes(r)
      PROVE  Copies(s) > 0
  <2>1. r = s /\ sleeping[s] > 0
    BY <1>3, <1>5 DEF DispatchWakes
  <2> QED
    BY <1>1, <2>1 DEF CountsOK, Copies
<1>6. ASSUME NEW r \in Requests, NEW n \in Nodes, DispatchTo(r, n)
      PROVE  Copies(s) > 0
  <2>1. r = s /\ Starts(s)
    BY <1>2, <1>6 DEF DispatchTo
  <2>2. /\ ready # <<>>
        /\ s = Head(ready)
        /\ ready \in Seq(Requests)
    BY <1>1, <2>1 DEF Starts, TypeOK
  <2>3. Occurrences(s, Tail(ready)) \in Nat
    BY <2>2, HeadTailProperties, OccurrencesFinite
  <2>4. Occurrences(s, ready) > 0
    BY <2>2, <2>3, OccurrencesHead
  <2> QED
    BY <1>1, <2>4 DEF CountsOK, Copies
<1>7. ASSUME NEW r \in Requests, InferAccepted(r)
      PROVE  r = s
  BY <1>2, <1>7 DEF InferAccepted, Enqueue
<1>8. ASSUME NEW r \in Requests, MonitorRecovers(r)
      PROVE  r = s
  BY <1>2, <1>8 DEF MonitorRecovers, MarkRetrying
<1> QED
  BY <1>4, <1>5, <1>6, <1>7, <1>8
     DEF Next, vars, queueVars, DispatchStarts, DispatchSkips,
         DispatchFindsNoWorker, DispatchLoop, PutResumes, InferRefused,
         ClientWakes, ClientGivesUp, Reply, MonitorStep, MonitorTick,
         MonitorSkips, MonitorVisits, MonitorPasses, MonitorPutResumes,
         MonitorGoesOn, MonitorSleeps, WorkerCalls, RegisterWorker,
         WorkerHeartbeat, DeregisterWorker, DeleteWorker,
         PurgeInactiveWorkers, HeartbeatLapses

LEMMA RestStep ==
    ASSUME IInv, TypeOK', [Next]_vars, NEW s \in Requests, AtRest(s)
    PROVE  AtRest(s)' /\ task'[s] = task[s]
<1>1. ~InferAccepted(s) /\ ~MonitorRecovers(s)
  BY DEF AtRest, Finished, InferAccepted, NextCall, MonitorRecovers, InFlightOn,
         IInv, OnlyAcceptedHaveRecords
<1>2. task'[s] = task[s]
  BY <1>1, WritersHoldCopies DEF AtRest
<1>3. Copies(s)' <= Copies(s)
  <2>1. CopiesMove(s) /\ CountsOK
    BY CopiesStep, CountsType DEF IInv
  <2> QED
    BY <1>1, <2>1 DEF CopiesMove, CountsOK
<1>4. Copies(s)' \in Nat
  <2>1. CountsOK'
    BY CountsType, PTL
  <2> QED
    BY <2>1 DEF CountsOK
<1> QED
  BY <1>2, <1>3, <1>4 DEF AtRest, Finished

\* A finished request of which no copy is left stays as it is, however often
\* the monitor has requeued it before.
THEOREM RestIsFinalCorrect == Spec => RestIsFinal
<1>1. IInv /\ TypeOK' /\ [Next]_vars =>
        [\A r \in Requests :
           AtRest(r) => AtRest(r)' /\ task'[r] = task[r]]_vars
  BY RestStep
<1>2. IInv => TypeOK
  BY DEF IInv
<1> QED
  BY <1>1, <1>2, IInvCorrect, PTL DEF Spec, RestIsFinal
=============================================================================
