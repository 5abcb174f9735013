--------------------------- MODULE RegistryProofs ---------------------------
(***************************************************************************)
(* What holds of the registry for any set of workers and any sequence of   *)
(* calls.                                                                  *)
(***************************************************************************)
EXTENDS Registry, TLAPS

\* The fields stay in their types; the count of active requests in particular
\* never becomes negative, whatever decrements follow a deletion.
LEMMA RegTypeInductive ==
    ASSUME RegTypeOK, [RegNext]_regVars
    PROVE  RegTypeOK'
<1> USE HealthsAssumption, ReportsAssumption
<1> USE DEF RegTypeOK, WorkerRecord, WorkerStatus, Registered
<1> SUFFICES ASSUME RegNext
             PROVE  RegTypeOK'
  BY DEF regVars
<1>1. CASE PurgeInactive
  BY <1>1 DEF PurgeInactive, Forget, Unregistered, WriteTargets
<1>2. ASSUME NEW n \in Nodes, NEW h \in Healths, Register(n, h)
      PROVE  RegTypeOK'
  BY <1>2 DEF Register, WriteTargets
<1>3. ASSUME NEW n \in Nodes, NEW h \in Healths, NEW a \in Reports,
             NEW o \in Overloads, UpdateHeartbeat(n, h, a, o)
      PROVE  RegTypeOK'
  <2>1. HeartbeatStatus(workers[n].status, h, o) \in WorkerStatus
    BY DEF HeartbeatStatus
  <2> QED
    BY <1>3, <2>1 DEF UpdateHeartbeat
<1>4. ASSUME NEW n \in Nodes, Deregister(n)
      PROVE  RegTypeOK'
  BY <1>4 DEF Deregister, SetStatus, WriteTargets
<1>5. ASSUME NEW n \in Nodes, MarkUnhealthy(n)
      PROVE  RegTypeOK'
  BY <1>5 DEF MarkUnhealthy, SetStatus, WriteTargets, regVars
<1>6. ASSUME NEW n \in Nodes, Remove(n)
      PROVE  RegTypeOK'
  BY <1>6 DEF Remove, Forget, Unregistered, WriteTargets
<1>7. ASSUME NEW n \in Nodes, MarkOffline(n)
      PROVE  RegTypeOK'
  BY <1>7 DEF MarkOffline, SetStatus
<1>8. ASSUME NEW n \in Nodes, IncrementActive(n)
      PROVE  RegTypeOK'
  BY <1>8 DEF IncrementActive
<1>9. ASSUME NEW n \in Nodes, NEW times \in {1, 2}, DecrementActive(n, times)
      PROVE  RegTypeOK'
  BY <1>9 DEF DecrementActive
<1>10. ASSUME NEW n \in Nodes, FallOverdue(n)
       PROVE  RegTypeOK'
  BY <1>10 DEF FallOverdue
<1> QED
  BY <1>1, <1>2, <1>3, <1>4, <1>5, <1>6, <1>7, <1>8, <1>9, <1>10 DEF RegNext

\* RegTypeOK holds in every state of the registry.
THEOREM RegTypeCorrect == RegSpec => []RegTypeOK
<1>1. RegInit => RegTypeOK
  BY DEF RegInit, RegTypeOK, WorkerRecord, WorkerStatus, Unregistered
<1> QED
  BY <1>1, RegTypeInductive, PTL DEF RegSpec

\* Each method keeps the status and the Ollama flag of a record in agreement.
LEMMA HealthyInductive ==
    ASSUME RegTypeOK, HealthyMeansOllama, [RegNext]_regVars
    PROVE  HealthyMeansOllama'
<1> USE HealthsAssumption DEF RegTypeOK, WorkerRecord, HealthyMeansOllama
<1> SUFFICES ASSUME RegNext
             PROVE  HealthyMeansOllama'
  BY DEF regVars
<1>1. CASE PurgeInactive
  BY <1>1 DEF PurgeInactive, Forget, Unregistered
<1>2. ASSUME NEW n \in Nodes, NEW h \in Healths, Register(n, h)
      PROVE  HealthyMeansOllama'
  BY <1>2 DEF Register
<1>3. ASSUME NEW n \in Nodes, NEW h \in Healths, NEW a \in Reports,
             NEW o \in Overloads, UpdateHeartbeat(n, h, a, o)
      PROVE  HealthyMeansOllama'
  <2>1. HeartbeatStatus(workers[n].status, h, o) \in {"healthy", "busy"} => h
    BY DEF HeartbeatStatus
  <2> QED
    BY <1>3, <2>1 DEF UpdateHeartbeat
<1>4. ASSUME NEW n \in Nodes, Deregister(n)
      PROVE  HealthyMeansOllama'
  BY <1>4 DEF Deregister, SetStatus
<1>5. ASSUME NEW n \in Nodes, MarkUnhealthy(n)
      PROVE  HealthyMeansOllama'
  BY <1>5 DEF MarkUnhealthy, SetStatus, regVars
<1>6. ASSUME NEW n \in Nodes, Remove(n)
      PROVE  HealthyMeansOllama'
  BY <1>6 DEF Remove, Forget, Unregistered
<1>7. ASSUME NEW n \in Nodes, MarkOffline(n)
      PROVE  HealthyMeansOllama'
  BY <1>7 DEF MarkOffline, SetStatus
<1>8. ASSUME NEW n \in Nodes,
             \/ IncrementActive(n)
             \/ \E times \in {1, 2} : DecrementActive(n, times)
             \/ FallOverdue(n)
      PROVE  HealthyMeansOllama'
  BY <1>8 DEF IncrementActive, DecrementActive, FallOverdue
<1> QED
  BY <1>1, <1>2, <1>3, <1>4, <1>5, <1>6, <1>7, <1>8 DEF RegNext

\* A worker that counts as serving has a running Ollama.
THEOREM HealthyCorrect == RegSpec => []HealthyMeansOllama
<1>1. RegInit => HealthyMeansOllama
  BY DEF RegInit, HealthyMeansOllama, Unregistered
<1> QED
  BY <1>1, HealthyInductive, RegTypeCorrect, PTL DEF RegSpec

\* The file is rewritten by each method that deletes a record, and each other
\* method that rewrites it lists workers that are in the registry.
LEMMA TargetsInductive ==
    ASSUME RegTypeOK, TargetsAreRegistered, [RegNext]_regVars
    PROVE  TargetsAreRegistered'
<1> USE DEF TargetsAreRegistered, Registered, RegTypeOK
<1> SUFFICES ASSUME RegNext
             PROVE  TargetsAreRegistered'
  BY DEF regVars
<1>1. ASSUME WriteTargets
      PROVE  TargetsAreRegistered'
  BY <1>1 DEF WriteTargets
<1>2. ASSUME UNCHANGED targets,
             \A n \in Nodes : workers[n].status # "absent" =>
                              workers'[n].status # "absent"
      PROVE  TargetsAreRegistered'
  BY <1>2
<1>3. ASSUME NEW n \in Nodes, NEW h \in Healths, Register(n, h)
      PROVE  TargetsAreRegistered'
  BY <1>1, <1>2, <1>3 DEF Register
<1>4. ASSUME NEW n \in Nodes, NEW h \in Healths, NEW a \in Reports,
             NEW o \in Overloads, UpdateHeartbeat(n, h, a, o)
      PROVE  TargetsAreRegistered'
  <2>1. HeartbeatStatus(workers[n].status, h, o) # "absent"
    BY <1>4 DEF UpdateHeartbeat, HeartbeatStatus
  <2> QED
    BY <1>2, <1>4, <2>1 DEF UpdateHeartbeat
<1>5. ASSUME NEW n \in Nodes, MarkUnhealthy(n)
      PROVE  TargetsAreRegistered'
  BY <1>1, <1>5 DEF MarkUnhealthy, regVars
<1>6. ASSUME NEW n \in Nodes,
             \/ MarkOffline(n)
             \/ IncrementActive(n)
             \/ \E times \in {1, 2} : DecrementActive(n, times)
             \/ FallOverdue(n)
      PROVE  TargetsAreRegistered'
  BY <1>2, <1>6
     DEF MarkOffline, SetStatus, IncrementActive, DecrementActive, FallOverdue,
         WorkerRecord
<1> QED
  BY <1>1, <1>3, <1>4, <1>5, <1>6
     DEF RegNext, PurgeInactive, Remove, Forget, Deregister

\* No forgotten worker stays in the targets file.
THEOREM TargetsCorrect == RegSpec => []TargetsAreRegistered
<1>1. RegInit => TargetsAreRegistered
  BY DEF RegInit, TargetsAreRegistered
<1> QED
  BY <1>1, TargetsInductive, RegTypeCorrect, PTL DEF RegSpec

\* A heartbeat keeps a worker out of the schedule that is out of it, because
\* the status of a worker without Ollama is never one of those that it resets.
LEMMA HeartbeatRevivesNobody ==
    ASSUME RegTypeOK, HealthyMeansOllama,
           NEW n \in Nodes, NEW h, NEW a, NEW o, UpdateHeartbeat(n, h, a, o),
           NEW m \in Nodes, ~IsSchedulable(m)
    PROVE  ~IsSchedulable(m)'
<1> USE DEF IsSchedulable, MaySchedule, RegTypeOK, WorkerRecord
<1>1. workers[n].status # "absent"
  BY DEF UpdateHeartbeat, Registered
<1>2. CASE m = n
  <2>1. workers[n].status \in {"draining", "unhealthy", "offline"}
    BY <1>1, <1>2 DEF HealthyMeansOllama, WorkerStatus
  <2>2. HeartbeatStatus(workers[n].status, h, o) \notin {"healthy", "busy"}
    BY <2>1 DEF HeartbeatStatus
  <2> QED
    BY <1>2, <2>2 DEF UpdateHeartbeat
<1>3. CASE m # n
  BY <1>3 DEF UpdateHeartbeat
<1> QED
  BY <1>2, <1>3

\* A worker that comes back into the schedule is one that registers.
LEMMA RevivedByRegister ==
    ASSUME RegTypeOK, HealthyMeansOllama, RegNext,
           NEW m \in Nodes, ~IsSchedulable(m), IsSchedulable(m)'
    PROVE  Register(m, TRUE)
<1> USE DEF IsSchedulable, MaySchedule, RegTypeOK, WorkerRecord
<1>1. ASSUME NEW n \in Nodes, NEW h \in Healths, Register(n, h)
      PROVE  Register(m, TRUE)
  <2>1. m = n /\ h = TRUE
    BY <1>1, HealthsAssumption DEF Register
  <2> QED
    BY <1>1, <2>1
<1>2. ~ \E n \in Nodes, h \in Healths, a \in Reports, o \in Overloads :
           UpdateHeartbeat(n, h, a, o)
  BY HeartbeatRevivesNobody
<1>3. ~PurgeInactive
  BY DEF PurgeInactive, Forget, Unregistered
<1>4. ASSUME NEW n \in Nodes
      PROVE  ~(\/ Deregister(n)
               \/ MarkUnhealthy(n)
               \/ Remove(n)
               \/ MarkOffline(n))
  BY DEF Deregister, MarkUnhealthy, Remove, MarkOffline, SetStatus, Forget,
         Unregistered, regVars
<1>5. ASSUME NEW n \in Nodes
      PROVE  ~(\/ IncrementActive(n)
               \/ \E times \in {1, 2} : DecrementActive(n, times)
               \/ FallOverdue(n))
  BY DEF IncrementActive, DecrementActive, FallOverdue
<1> QED
  BY <1>1, <1>2, <1>3, <1>4, <1>5 DEF RegNext

\* Only a registration brings a worker back into the schedule.
THEOREM OnlyRegisterRevivesCorrect == RegSpec => OnlyRegisterRevives
<1>1. ASSUME RegTypeOK, HealthyMeansOllama, [RegNext]_regVars
      PROVE  [\A n \in Nodes :
                ~IsSchedulable(n) /\ IsSchedulable(n)' => Register(n, TRUE)]_regVars
  BY <1>1, RevivedByRegister
<1> QED
  BY <1>1, RegTypeCorrect, HealthyCorrect, PTL
     DEF RegSpec, OnlyRegisterRevives
=============================================================================
