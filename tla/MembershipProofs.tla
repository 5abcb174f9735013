-------------------------- MODULE MembershipProofs --------------------------
(***************************************************************************)
(* What holds of the workers' membership for any set of workers, whatever  *)
(* the network does to their calls.                                        *)
(***************************************************************************)
EXTENDS Membership, RegistryProofs

\* A coroutine that waits for a call makes one, and a registration is under
\* way only while it has an attempt left.
Sound ==
    {s \in CoroutineState :
       /\ s.stage # "none" => s.at \in Kinds
       /\ s.at = "register" => s.tries # 0}

\* The part of the invariant on the processes: one that is gone makes no call.
ProcessOK ==
    /\ phase \in [Nodes -> Phases]
    /\ coro \in [Nodes -> [Coroutines -> Sound]]
    /\ \A n \in Nodes : phase[n] = "gone" => coro[n] = [c \in Coroutines |-> Idle]

MInv ==
    /\ RegTypeOK
    /\ HealthyMeansOllama
    /\ ProcessOK
    /\ late \subseteq Request

-----------------------------------------------------------------------------
(* The coroutines. *)

LEMMA IdleSound == Idle \in Sound
BY MaxAttemptsAssumption DEF Idle, Sound, CoroutineState, Kinds

\* The requests a coroutine has sent are requests.
LEMMA UnhandledType ==
    ASSUME ProcessOK, NEW n \in Nodes, NEW S, S \subseteq Coroutines
    PROVE  Unhandled(n, S) \subseteq Request
<1> SUFFICES ASSUME NEW c \in S, coro[n][c].stage = "sent"
             PROVE  [node |-> n, kind |-> coro[n][c].at,
                     health |-> coro[n][c].health] \in Request
  BY DEF Unhandled
<1>1. coro[n][c] \in Sound
  BY DEF ProcessOK
<1> QED
  BY <1>1 DEF Sound, CoroutineState, Request

\* What a coroutine of a live process does to its state.
LEMMA BecomeKeeps ==
    ASSUME ProcessOK, NEW n \in Nodes, NEW c \in Coroutines, NEW s \in Sound,
           phase[n] # "gone", Become(n, c, s),
           \/ UNCHANGED phase
           \/ \E p \in {"starting", "serving", "stopping"} :
                phase' = [phase EXCEPT ![n] = p]
    PROVE  ProcessOK'
<1>1. coro' \in [Nodes -> [Coroutines -> Sound]]
  BY DEF ProcessOK, Become
<1>2. phase' \in [Nodes -> Phases]
  BY DEF ProcessOK, Phases
<1>3. ASSUME NEW m \in Nodes, phase'[m] = "gone"
      PROVE  coro'[m] = [d \in Coroutines |-> Idle]
  <2>1. m # n /\ phase[m] = "gone"
    BY <1>3 DEF ProcessOK
  <2> QED
    BY <2>1 DEF ProcessOK, Become
<1> QED
  BY <1>1, <1>2, <1>3 DEF ProcessOK

\* A coroutine that does something belongs to a process that is not gone.
LEMMA BusyIsAlive ==
    ASSUME ProcessOK, NEW n \in Nodes, NEW c \in Coroutines,
           coro[n][c].at # "idle" \/ coro[n][c].stage # "none"
    PROVE  phase[n] # "gone"
BY DEF ProcessOK, Idle

LEMMA EndKeeps ==
    ASSUME ProcessOK, NEW n \in Nodes, ProcessEnds(n)
    PROVE  ProcessOK'
<1>1. coro' \in [Nodes -> [Coroutines -> Sound]]
  BY IdleSound DEF ProcessOK, ProcessEnds
<1> QED
  BY <1>1 DEF ProcessOK, ProcessEnds, Phases

\* The four ways a coroutine goes on with its registration or its call.
LEMMA CallingSound ==
    ASSUME NEW h \in BOOLEAN
    PROVE  /\ Calling("heartbeat", 0, h) \in Sound
           /\ Calling("deregister", 0, h) \in Sound
           /\ \A t \in 0 .. MaxAttempts :
                t # 0 => Calling("register", t, h) \in Sound
BY MaxAttemptsAssumption DEF Calling, Sound, CoroutineState, Kinds

LEMMA CoroutinesType == "main" \in Coroutines /\ "beat" \in Coroutines
BY DEF Coroutines

\* Every step keeps the processes well-formed and those that are gone silent.
LEMMA ProcessStep ==
    ASSUME ProcessOK, [MembNext]_membVars
    PROVE  ProcessOK'
<1> USE HealthsAssumption, CoroutinesType
<1>1. ASSUME UNCHANGED <<phase, coro>>
      PROVE  ProcessOK'
  BY <1>1 DEF ProcessOK
<1>2. ASSUME NEW n \in Nodes, NEW h \in Healths, WorkerStarts(n, h)
      PROVE  ProcessOK'
  <2>1. Calling("register", MaxAttempts, h) \in Sound
    BY CallingSound, MaxAttemptsAssumption
  <2> QED
    BY <1>2, <2>1, BecomeKeeps DEF WorkerStarts, StartsRegistration
<1>3. ASSUME NEW n \in Nodes, NEW h \in Healths, HeartbeatDue(n, h)
      PROVE  ProcessOK'
  BY <1>3, CallingSound, BecomeKeeps DEF HeartbeatDue
<1>4. ASSUME NEW n \in Nodes, WorkerStops(n)
      PROVE  ProcessOK'
  BY <1>4, CallingSound, BecomeKeeps DEF WorkerStops
<1>5. ASSUME NEW n \in Nodes, WorkerCrashes(n) \/ Deregistered(n)
      PROVE  ProcessOK'
  BY <1>5, EndKeeps DEF WorkerCrashes, Deregistered
<1>6. ASSUME NEW n \in Nodes, NEW c \in Coroutines, RegistrationEnds(n, c),
             phase[n] # "gone"
      PROVE  ProcessOK'
  BY <1>6, IdleSound, BecomeKeeps DEF RegistrationEnds
<1>7. ASSUME NEW n \in Nodes, NEW c \in Coroutines, Retries(n, c)
      PROVE  ProcessOK'
  <2>1. phase[n] # "gone"
    BY <1>7, BusyIsAlive DEF Retries, TriesAgain, GivesUpRegistering
  <2>2. CASE TriesAgain(n, c)
    <3>1. coro[n][c] \in Sound
      BY DEF ProcessOK
    <3>2. Calling("register", coro[n][c].tries, coro[n][c].health) \in Sound
      BY <2>2, <3>1, CallingSound, MaxAttemptsAssumption
         DEF TriesAgain, Sound, CoroutineState
    <3> QED
      BY <2>1, <2>2, <3>2, BecomeKeeps DEF TriesAgain
  <2>3. CASE GivesUpRegistering(n, c)
    BY <1>6, <2>1, <2>3 DEF GivesUpRegistering
  <2> QED
    BY <1>7, <2>2, <2>3 DEF Retries
<1>8. ASSUME NEW n \in Nodes, NEW c \in Coroutines, CallHandled(n, c)
      PROVE  ProcessOK'
  <2>1. coro[n][c] \in Sound /\ phase[n] # "gone"
    BY <1>8, BusyIsAlive DEF CallHandled, ProcessOK
  <2>2. Answer(n, coro[n][c].at) \in {"ok", "re_register"}
    BY DEF Answer
  <2>3. [coro[n][c] EXCEPT !.stage = Answer(n, coro[n][c].at)] \in Sound
    BY <1>8, <2>1, <2>2 DEF CallHandled, Sound, CoroutineState
  <2> QED
    BY <1>8, <2>1, <2>3, BecomeKeeps DEF CallHandled
<1>9. ASSUME NEW n \in Nodes, NEW c \in Coroutines, CallEnds(n, c)
      PROVE  ProcessOK'
  <2>1. CASE Registered200(n, c)
    BY <1>6, <2>1, BusyIsAlive DEF Registered200
  <2>2. CASE HeartbeatOk(n)
    BY <2>2, IdleSound, BusyIsAlive, BecomeKeeps DEF HeartbeatOk
  <2>3. ASSUME NEW h \in Healths, ToldToReRegister(n, h)
        PROVE  ProcessOK'
    <3>1. Calling("register", MaxAttempts, h) \in Sound
      BY CallingSound, MaxAttemptsAssumption
    <3> QED
      BY <2>3, <3>1, BusyIsAlive, BecomeKeeps
         DEF ToldToReRegister, StartsRegistration
  <2> QED
    BY <1>9, <2>1, <2>2, <2>3 DEF CallEnds
<1>10. ASSUME NEW n \in Nodes, NEW c \in Coroutines, CallFails(n, c)
       PROVE  ProcessOK'
  <2>1. coro[n][c] \in Sound /\ phase[n] # "gone"
    BY <1>10, BusyIsAlive DEF CallFails, ProcessOK
  <2>2. ASSUME coro[n][c].at = "register"
        PROVE  [coro[n][c] EXCEPT !.at = "backoff", !.stage = "none",
                                  !.tries = @ - 1] \in Sound
    <3>1. coro[n][c].tries - 1 \in 0 .. MaxAttempts
      BY <2>1, <2>2, MaxAttemptsAssumption DEF Sound, CoroutineState
    <3> QED
      BY <2>1, <3>1 DEF Sound, CoroutineState
  <2> QED
    BY <1>10, <2>1, <2>2, IdleSound, BecomeKeeps DEF CallFails
<1>11. ASSUME \/ OperatorRemoves
              \/ MasterRestarts
              \/ \E n \in Nodes :
                   LateRequestEnds(n) \/ MonitorMarks(n) \/ TimePasses(n)
       PROVE  UNCHANGED <<phase, coro>>
  BY <1>11 DEF OperatorRemoves, MasterRestarts, LateRequestEnds,
               LateRequestHandled, LateRequestLost, MonitorMarks, TimePasses
<1> QED
  BY <1>1, <1>2, <1>3, <1>4, <1>5, <1>7, <1>8, <1>9, <1>10, <1>11
     DEF MembNext, membVars

-----------------------------------------------------------------------------
(* The registry. *)

\* A call the master handles keeps the registry's invariants, whichever it is.
LEMMA ProcessKeeps ==
    ASSUME RegTypeOK, HealthyMeansOllama, NEW n \in Nodes, NEW kind,
           NEW h \in BOOLEAN, Process(n, kind, h)
    PROVE  RegTypeOK' /\ HealthyMeansOllama'
<1>1. ASSUME Register(n, h)
      PROVE  RegTypeOK' /\ HealthyMeansOllama'
  BY <1>1 DEF Register, WriteTargets, RegTypeOK, WorkerRecord, WorkerStatus,
              HealthyMeansOllama
<1>2. ASSUME NEW a \in Reports, NEW o \in Overloads, UpdateHeartbeat(n, h, a, o)
      PROVE  RegTypeOK' /\ HealthyMeansOllama'
  <2>1. /\ HeartbeatStatus(workers[n].status, h, o) \in WorkerStatus
        /\ HeartbeatStatus(workers[n].status, h, o) \in {"healthy", "busy"} => h
    BY DEF HeartbeatStatus, RegTypeOK, WorkerRecord, WorkerStatus
  <2> QED
    BY <1>2, <2>1, ReportsAssumption
       DEF UpdateHeartbeat, RegTypeOK, WorkerRecord, HealthyMeansOllama
<1>3. ASSUME Deregister(n)
      PROVE  RegTypeOK' /\ HealthyMeansOllama'
  BY <1>3, RegTypeInductive, HealthyInductive DEF RegNext
<1>4. ASSUME UNCHANGED regVars
      PROVE  RegTypeOK' /\ HealthyMeansOllama'
  BY <1>4 DEF regVars, RegTypeOK, HealthyMeansOllama
<1> QED
  BY <1>1, <1>2, <1>3, <1>4 DEF Process

\* A call revives nobody but the worker it is from, and only as a
\* registration that reports a running Ollama.
LEMMA ProcessRevives ==
    ASSUME RegTypeOK, HealthyMeansOllama, NEW n \in Nodes, NEW kind,
           NEW h \in BOOLEAN, Process(n, kind, h),
           NEW m \in Nodes, ~IsSchedulable(m), IsSchedulable(m)'
    PROVE  m = n /\ kind = "register" /\ h = TRUE
<1> USE DEF IsSchedulable, MaySchedule, RegTypeOK, WorkerRecord
<1>1. CASE kind = "register" /\ Register(n, h)
  BY <1>1 DEF Register
<1>2. ~ \E a \in Reports, o \in Overloads : UpdateHeartbeat(n, h, a, o)
  BY HeartbeatRevivesNobody
<1>3. ~Deregister(n)
  BY DEF Deregister, SetStatus
<1>4. ~UNCHANGED regVars
  BY DEF regVars
<1> QED
  BY <1>1, <1>2, <1>3, <1>4 DEF Process

\* Neither does the monitor, the operator, time or a restart.
LEMMA OthersReviveNobody ==
    ASSUME RegTypeOK, NEW m \in Nodes, ~IsSchedulable(m),
           \/ OperatorRemoves
           \/ MasterRestarts
           \/ \E n \in Nodes : MonitorMarks(n) \/ TimePasses(n)
           \/ UNCHANGED regVars
    PROVE  ~IsSchedulable(m)'
<1> USE DEF IsSchedulable, MaySchedule, RegTypeOK, WorkerRecord
<1>1. CASE OperatorRemoves
  BY <1>1 DEF OperatorRemoves, PurgeInactive, Remove, Forget, Unregistered
<1>2. CASE MasterRestarts
  BY <1>2 DEF MasterRestarts, Unregistered
<1>3. ASSUME NEW n \in Nodes, MonitorMarks(n)
      PROVE  ~IsSchedulable(m)'
  BY <1>3 DEF MonitorMarks, MarkUnhealthy, SetStatus, regVars
<1>4. ASSUME NEW n \in Nodes, TimePasses(n)
      PROVE  ~IsSchedulable(m)'
  BY <1>4 DEF TimePasses, FallOverdue
<1>5. CASE UNCHANGED regVars
  BY <1>5 DEF regVars
<1> QED
  BY <1>1, <1>2, <1>3, <1>4, <1>5

\* The rest of the steps leave the registry alone.
LEMMA RegistrySteps ==
    ASSUME [MembNext]_membVars
    PROVE  \/ \E n \in Nodes, c \in Coroutines : CallHandled(n, c)
           \/ \E m \in late : m.node \in Nodes /\ LateRequestHandled(m)
           \/ OperatorRemoves
           \/ MasterRestarts
           \/ \E n \in Nodes : MonitorMarks(n) \/ TimePasses(n)
           \/ UNCHANGED regVars
<1>1. ASSUME NEW n \in Nodes,
             \/ \E h \in Healths : WorkerStarts(n, h) \/ HeartbeatDue(n, h)
             \/ WorkerStops(n)
             \/ WorkerCrashes(n)
             \/ Deregistered(n)
      PROVE  UNCHANGED regVars
  BY <1>1 DEF WorkerStarts, HeartbeatDue, WorkerStops, WorkerCrashes,
              Deregistered, ProcessEnds
<1>2. ASSUME NEW n \in Nodes, NEW c \in Coroutines,
             CallEnds(n, c) \/ CallFails(n, c) \/ Retries(n, c)
      PROVE  UNCHANGED regVars
  BY <1>2 DEF CallEnds, Registered200, HeartbeatOk, ToldToReRegister,
              CallFails, Retries, TriesAgain, GivesUpRegistering
<1>3. ASSUME NEW n \in Nodes, LateRequestEnds(n)
      PROVE  \/ \E m \in late : m.node \in Nodes /\ LateRequestHandled(m)
             \/ UNCHANGED regVars
  BY <1>3 DEF LateRequestEnds, LateRequestLost
<1>4. CASE UNCHANGED membVars
  BY <1>4 DEF membVars, regVars
<1> QED
  BY <1>1, <1>2, <1>3, <1>4 DEF MembNext

LEMMA RegistryStep ==
    ASSUME MInv, [MembNext]_membVars
    PROVE  RegTypeOK' /\ HealthyMeansOllama'
<1> USE DEF MInv
<1>1. ASSUME NEW n \in Nodes, NEW c \in Coroutines, CallHandled(n, c)
      PROVE  RegTypeOK' /\ HealthyMeansOllama'
  <2>1. coro[n][c].health \in BOOLEAN
    BY DEF ProcessOK, Sound, CoroutineState
  <2> QED
    BY <1>1, <2>1, ProcessKeeps DEF CallHandled
<1>2. ASSUME NEW m \in late, LateRequestHandled(m)
      PROVE  RegTypeOK' /\ HealthyMeansOllama'
  <2>1. m.node \in Nodes /\ m.health \in BOOLEAN
    BY DEF Request
  <2> QED
    BY <1>2, <2>1, ProcessKeeps DEF LateRequestHandled
<1>3. CASE OperatorRemoves
  <2>1. [RegNext]_regVars
    BY <1>3 DEF OperatorRemoves, RegNext
  <2> QED
    BY <2>1, RegTypeInductive, HealthyInductive
<1>4. CASE MasterRestarts
  BY <1>4 DEF MasterRestarts, Unregistered, RegTypeOK, WorkerRecord,
              WorkerStatus, HealthyMeansOllama
<1>5. ASSUME NEW n \in Nodes, MonitorMarks(n) \/ TimePasses(n)
      PROVE  RegTypeOK' /\ HealthyMeansOllama'
  <2>1. [RegNext]_regVars
    BY <1>5 DEF MonitorMarks, TimePasses, RegNext
  <2> QED
    BY <2>1, RegTypeInductive, HealthyInductive
<1>6. CASE UNCHANGED regVars
  BY <1>6, RegTypeInductive, HealthyInductive
<1> QED
  BY <1>1, <1>2, <1>3, <1>4, <1>5, <1>6, RegistrySteps

\* Only the end of a process and a call that fails leave a request behind.
LEMMA OtherStepsSendNothing ==
    ASSUME [MembNext]_membVars
    PROVE  \/ late' \subseteq late
           \/ \E n \in Nodes :
                \/ WorkerCrashes(n) \/ Deregistered(n)
                \/ \E c \in Coroutines : CallFails(n, c)
<1>1. ASSUME NEW n \in Nodes, LateRequestEnds(n)
      PROVE  late' \subseteq late
  BY <1>1 DEF LateRequestEnds, LateRequestHandled, LateRequestLost
<1>2. ASSUME NEW n \in Nodes,
             \/ \E h \in Healths : WorkerStarts(n, h) \/ HeartbeatDue(n, h)
             \/ WorkerStops(n)
             \/ MonitorMarks(n)
             \/ TimePasses(n)
             \/ \E c \in Coroutines :
                  CallHandled(n, c) \/ CallEnds(n, c) \/ Retries(n, c)
      PROVE  UNCHANGED late
  BY <1>2 DEF WorkerStarts, HeartbeatDue, WorkerStops, MonitorMarks,
              TimePasses, CallHandled, CallEnds, Registered200, HeartbeatOk,
              ToldToReRegister, Retries, TriesAgain, GivesUpRegistering
<1>3. ASSUME \/ OperatorRemoves
             \/ MasterRestarts
             \/ UNCHANGED membVars
      PROVE  UNCHANGED late
  BY <1>3 DEF OperatorRemoves, MasterRestarts, membVars
<1> QED
  BY <1>1, <1>2, <1>3 DEF MembNext

\* What is late was sent.
LEMMA LateStep ==
    ASSUME MInv, [MembNext]_membVars
    PROVE  late' \subseteq Request
<1> USE DEF MInv
<1>1. ASSUME NEW n \in Nodes, WorkerCrashes(n) \/ Deregistered(n)
      PROVE  late' \subseteq Request
  BY <1>1, UnhandledType DEF WorkerCrashes, Deregistered, ProcessEnds
<1>2. ASSUME NEW n \in Nodes, NEW c \in Coroutines, CallFails(n, c)
      PROVE  late' \subseteq Request
  <2>1. Unhandled(n, {c}) \subseteq Request
    BY UnhandledType
  <2> QED
    BY <1>2, <2>1 DEF CallFails
<1> QED
  BY <1>1, <1>2, OtherStepsSendNothing

-----------------------------------------------------------------------------
LEMMA MInvCorrect == MembSpec => []MInv
<1>1. MembInit => MInv
  BY IdleSound
     DEF MembInit, MInv, ProcessOK, RegInit, RegTypeOK, HealthyMeansOllama,
         WorkerRecord, WorkerStatus, Unregistered, Phases
<1>2. MInv /\ [MembNext]_membVars => MInv'
  <2> SUFFICES ASSUME MInv, [MembNext]_membVars
               PROVE  MInv'
    OBVIOUS
  <2>1. RegTypeOK' /\ HealthyMeansOllama'
    BY RegistryStep
  <2>2. ProcessOK'
    BY ProcessStep DEF MInv
  <2>3. late' \subseteq Request
    BY LateStep
  <2> QED
    BY <2>1, <2>2, <2>3 DEF MInv
<1> QED
  BY <1>1, <1>2, PTL DEF MembSpec

\* The records, the processes and their calls stay in their types; a
\* registration in particular never has less than no attempts left.
THEOREM MembTypeCorrect == MembSpec => []MembTypeOK
<1>1. MInv => MembTypeOK
  <2>1. Sound \subseteq CoroutineState
    BY DEF Sound
  <2> QED
    BY <2>1 DEF MInv, MembTypeOK, ProcessOK
<1> QED
  BY <1>1, MInvCorrect, PTL

\* What puts a worker whose process is gone back into the schedule is a
\* registration that is late.
LEMMA RevivedByLate ==
    ASSUME MInv, [MembNext]_membVars, NEW n \in Nodes,
           phase[n] = "gone", ~IsSchedulable(n), IsSchedulable(n)'
    PROVE  \E m \in late : m.node = n /\ m.kind = "register" /\ m.health
<1> USE DEF MInv
<1>1. ASSUME NEW k \in Nodes, NEW c \in Coroutines, CallHandled(k, c)
      PROVE  FALSE
  <2>1. coro[k][c].health \in BOOLEAN
    BY DEF ProcessOK, Sound, CoroutineState
  <2>2. k = n
    BY <1>1, <2>1, ProcessRevives DEF CallHandled
  <2>3. coro[n][c] = Idle
    BY DEF ProcessOK
  <2> QED
    BY <1>1, <2>2, <2>3 DEF CallHandled, Idle
<1>2. ASSUME NEW m \in late, LateRequestHandled(m)
      PROVE  m.node = n /\ m.kind = "register" /\ m.health = TRUE
  <2>1. m.node \in Nodes /\ m.health \in BOOLEAN
    BY DEF Request
  <2> QED
    BY <1>2, <2>1, ProcessRevives DEF LateRequestHandled
<1>3. ~(\/ OperatorRemoves
        \/ MasterRestarts
        \/ \E k \in Nodes : MonitorMarks(k) \/ TimePasses(k)
        \/ UNCHANGED regVars)
  BY OthersReviveNobody
<1> QED
  BY <1>1, <1>2, <1>3, RegistrySteps

\* A worker whose process is gone is put back into the schedule by nothing
\* but a late registration of its own.
THEOREM OnlyLateRegistrationRevivesCorrect ==
    MembSpec => OnlyLateRegistrationRevives
<1>1. ASSUME MInv, [MembNext]_membVars
      PROVE  [\A n \in Nodes :
                phase[n] = "gone" /\ ~IsSchedulable(n) /\ IsSchedulable(n)' =>
                  \E m \in late :
                    m.node = n /\ m.kind = "register" /\ m.health]_membVars
  BY <1>1, RevivedByLate
<1> QED
  BY <1>1, MInvCorrect, PTL DEF MembSpec, OnlyLateRegistrationRevives

-----------------------------------------------------------------------------
(* The targets file. *)

\* Nothing here marks a worker offline, so a method that writes the file names
\* all workers there are.
Scraped ==
    /\ \A n \in Nodes : workers[n].status # "offline"
    /\ NoWorkerUnscraped

LEMMA WrittenIsScraped ==
    ASSUME WriteTargets, \A n \in Nodes : workers'[n].status # "offline"
    PROVE  Scraped'
BY DEF WriteTargets, Scraped, NoWorkerUnscraped, Registered

\* A method that does not write it registers nobody.
LEMMA UnwrittenIsScraped ==
    ASSUME Scraped, UNCHANGED targets,
           \A n \in Nodes :
               /\ workers'[n].status # "offline"
               /\ workers[n].status = "absent" => workers'[n].status = "absent"
    PROVE  Scraped'
BY DEF Scraped, NoWorkerUnscraped, Registered

LEMMA ProcessScraped ==
    ASSUME RegTypeOK, Scraped, NEW n \in Nodes, NEW kind, NEW h \in BOOLEAN,
           Process(n, kind, h)
    PROVE  Scraped'
<1> USE DEF Registered, RegTypeOK, WorkerRecord, WorkerStatus
<1>1. CASE Register(n, h)
  <2>1. \A m \in Nodes : workers'[m].status # "offline"
    BY <1>1 DEF Register, Scraped
  <2>2. CASE n \in Registered
    BY <1>1, <2>1, <2>2, UnwrittenIsScraped DEF Register
  <2>3. CASE n \notin Registered
    BY <1>1, <2>1, <2>3, WrittenIsScraped DEF Register
  <2> QED
    BY <2>2, <2>3
<1>2. ASSUME NEW a, NEW o, UpdateHeartbeat(n, h, a, o)
      PROVE  Scraped'
  <2>1. HeartbeatStatus(workers[n].status, h, o) # "offline"
    BY DEF HeartbeatStatus, Scraped
  <2>2. \A m \in Nodes :
            /\ workers'[m].status # "offline"
            /\ workers[m].status = "absent" => workers'[m].status = "absent"
    BY <1>2, <2>1 DEF UpdateHeartbeat, Scraped
  <2> QED
    BY <1>2, <2>2, UnwrittenIsScraped DEF UpdateHeartbeat
<1>3. CASE Deregister(n)
  <2>1. \A m \in Nodes : workers'[m].status # "offline"
    BY <1>3 DEF Deregister, SetStatus, Scraped
  <2> QED
    BY <1>3, <2>1, WrittenIsScraped DEF Deregister
<1>4. CASE UNCHANGED regVars
  BY <1>4 DEF regVars, Scraped, NoWorkerUnscraped
<1> QED
  BY <1>1, <1>2, <1>3, <1>4 DEF Process

LEMMA ScrapedStep ==
    ASSUME MInv, Scraped, [MembNext]_membVars
    PROVE  Scraped'
<1> USE DEF MInv
<1>1. ASSUME NEW n \in Nodes, NEW c \in Coroutines, CallHandled(n, c)
      PROVE  Scraped'
  <2>1. coro[n][c].health \in BOOLEAN
    BY DEF ProcessOK, Sound, CoroutineState
  <2> QED
    BY <1>1, <2>1, ProcessScraped DEF CallHandled
<1>2. ASSUME NEW m \in late, LateRequestHandled(m)
      PROVE  Scraped'
  <2>1. m.node \in Nodes /\ m.health \in BOOLEAN
    BY DEF Request
  <2> QED
    BY <1>2, <2>1, ProcessScraped DEF LateRequestHandled
<1>3. ASSUME NEW S, Forget(S)
      PROVE  Scraped'
  <2>1. \A n \in Nodes : workers'[n].status # "offline"
    BY <1>3 DEF Forget, Unregistered, Scraped
  <2> QED
    BY <1>3, <2>1, WrittenIsScraped DEF Forget
<1>4. CASE OperatorRemoves
  BY <1>3, <1>4 DEF OperatorRemoves, PurgeInactive, Remove
<1>5. CASE MasterRestarts
  BY <1>5, UnwrittenIsScraped DEF MasterRestarts, Unregistered
<1>6. CASE UNCHANGED regVars
  BY <1>6 DEF regVars, Scraped, NoWorkerUnscraped, Registered
<1>7. ASSUME NEW n \in Nodes, MonitorMarks(n)
      PROVE  Scraped'
  <2>1. UNCHANGED regVars \/ (SetStatus(n, "unhealthy") /\ WriteTargets)
    BY <1>7 DEF MonitorMarks, MarkUnhealthy
  <2>2. ASSUME SetStatus(n, "unhealthy")
        PROVE  \A m \in Nodes : workers'[m].status # "offline"
    BY <2>2 DEF SetStatus, Scraped, RegTypeOK, WorkerRecord
  <2> QED
    BY <1>6, <2>1, <2>2, WrittenIsScraped
<1>8. ASSUME NEW n \in Nodes, TimePasses(n)
      PROVE  Scraped'
  <2>1. \A m \in Nodes : workers'[m].status = workers[m].status
    BY <1>8 DEF TimePasses, FallOverdue, RegTypeOK, WorkerRecord
  <2> QED
    BY <1>8, <2>1, UnwrittenIsScraped DEF TimePasses, FallOverdue, Scraped
<1> QED
  BY <1>1, <1>2, <1>4, <1>5, <1>6, <1>7, <1>8, RegistrySteps

\* Every worker the registry has is in the file, over all restarts.
THEOREM NoWorkerUnscrapedCorrect == MembSpec => []NoWorkerUnscraped
<1>1. MembInit => Scraped
  BY DEF MembInit, RegInit, Scraped, NoWorkerUnscraped, Registered, Unregistered
<1>2. MInv /\ Scraped /\ [MembNext]_membVars => Scraped'
  BY ScrapedStep
<1>3. Scraped => NoWorkerUnscraped
  BY DEF Scraped
<1> QED
  BY <1>1, <1>2, <1>3, MInvCorrect, PTL DEF MembSpec

-----------------------------------------------------------------------------
(* A process that is gone. *)

\* It does not come back: a coroutine goes on only in a live process, and a
\* process that starts was never there.
LEMMA GoneStays ==
    ASSUME ProcessOK, [MembNext]_membVars, NEW n \in Nodes, phase[n] = "gone"
    PROVE  phase'[n] = "gone"
<1> USE DEF ProcessOK
<1>1. ASSUME NEW k \in Nodes,
             \/ \E h \in Healths : WorkerStarts(k, h) \/ HeartbeatDue(k, h)
             \/ WorkerStops(k)
             \/ WorkerCrashes(k)
             \/ Deregistered(k)
      PROVE  phase'[n] = "gone"
  BY <1>1 DEF WorkerStarts, HeartbeatDue, WorkerStops, WorkerCrashes,
              Deregistered, ProcessEnds
<1>2. ASSUME NEW k \in Nodes, NEW c \in Coroutines,
             CallHandled(k, c) \/ CallEnds(k, c) \/ CallFails(k, c) \/ Retries(k, c)
      PROVE  phase'[n] = "gone"
  <2>1. phase[k] # "gone"
    BY <1>2, BusyIsAlive, CoroutinesType
       DEF CallHandled, CallEnds, Registered200, HeartbeatOk, ToldToReRegister,
           CallFails, Retries, TriesAgain, GivesUpRegistering
  <2>2. UNCHANGED phase \/ phase' = [phase EXCEPT ![k] = "serving"]
    BY <1>2 DEF CallHandled, CallEnds, Registered200, HeartbeatOk,
                ToldToReRegister, CallFails, Retries, TriesAgain,
                GivesUpRegistering, RegistrationEnds
  <2> QED
    BY <2>1, <2>2
<1>3. ASSUME \/ OperatorRemoves
             \/ MasterRestarts
             \/ \E k \in Nodes :
                  LateRequestEnds(k) \/ MonitorMarks(k) \/ TimePasses(k)
             \/ UNCHANGED membVars
      PROVE  UNCHANGED phase
  BY <1>3 DEF OperatorRemoves, MasterRestarts, LateRequestEnds,
              LateRequestHandled, LateRequestLost, MonitorMarks, TimePasses,
              membVars
<1> QED
  BY <1>1, <1>2, <1>3 DEF MembNext

\* Nothing is sent in its name: what is late of it was late before.
LEMMA GoneSendsNothing ==
    ASSUME MInv, [MembNext]_membVars, NEW n \in Nodes, phase[n] = "gone",
           NEW m \in late', m.node = n
    PROVE  m \in late
<1> USE DEF MInv
<1>1. ASSUME NEW k \in Nodes, NEW S, S \subseteq Coroutines, m \in Unhandled(k, S)
      PROVE  FALSE
  <2>1. PICK c \in S : coro[k][c].stage = "sent" /\ m.node = k
    BY <1>1 DEF Unhandled
  <2>2. coro[n][c] = Idle
    BY <1>1, <2>1 DEF ProcessOK
  <2> QED
    BY <2>1, <2>2 DEF Idle
<1>2. ASSUME NEW k \in Nodes, WorkerCrashes(k) \/ Deregistered(k)
      PROVE  m \in late
  BY <1>1, <1>2 DEF WorkerCrashes, Deregistered, ProcessEnds
<1>3. ASSUME NEW k \in Nodes, NEW c \in Coroutines, CallFails(k, c)
      PROVE  m \in late
  BY <1>1, <1>3 DEF CallFails
<1>4. late' \subseteq late \/ \E k \in Nodes :
          \/ WorkerCrashes(k) \/ Deregistered(k)
          \/ \E c \in Coroutines : CallFails(k, c)
  BY OtherStepsSendNothing
<1> QED
  BY <1>2, <1>3, <1>4

\* A worker that is sidelined stays so.
THEOREM SidelinedForGoodCorrect == MembSpec => SidelinedForGood
<1>1. ASSUME MInv, [MembNext]_membVars, NEW n \in Nodes, Sidelined(n)
      PROVE  Sidelined(n)'
  <2>1. phase[n] = "gone" /\ ~IsSchedulable(n)
    BY <1>1 DEF Sidelined
  <2>2. phase'[n] = "gone"
    BY <1>1, <2>1, GoneStays DEF MInv
  <2>3. ~IsSchedulable(n)'
    BY <1>1, <2>1, RevivedByLate DEF Sidelined
  <2>4. ASSUME NEW m \in late', m.node = n
        PROVE  ~(m.kind = "register" /\ m.health)
    BY <1>1, <2>1, <2>4, GoneSendsNothing DEF Sidelined
  <2> QED
    BY <2>2, <2>3, <2>4 DEF Sidelined
<1>2. ASSUME MInv, [MembNext]_membVars
      PROVE  [\A n \in Nodes : Sidelined(n) => Sidelined(n)']_membVars
  BY <1>1, <1>2
<1> QED
  BY <1>2, MInvCorrect, PTL DEF MembSpec, SidelinedForGood

\* The status and the Ollama flag of a record agree as they do in the registry
\* alone, though the master restarts and calls are handled late.
THEOREM HealthyInMembership == MembSpec => []HealthyMeansOllama
<1>1. MInv => HealthyMeansOllama
  BY DEF MInv
<1> QED
  BY <1>1, MInvCorrect, PTL
=============================================================================
