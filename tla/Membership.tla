----------------------------- MODULE Membership -----------------------------
(***************************************************************************)
(* How a worker joins, stays in and leaves the cluster: the agent of       *)
(* worker/agent.py and the life of its process in worker/main.py, over the *)
(* registry the master keeps and the calls that connect the two.           *)
(*                                                                         *)
(* A node id is made anew by every process, so a worker that restarts is   *)
(* another node.  Two coroutines of a process call the master: the main    *)
(* one, which registers at startup and deregisters at shutdown, and the    *)
(* heartbeat loop, which runs until the deregistration has ended.          *)
(*                                                                         *)
(* A call fails when its request or its answer is lost or late; the        *)
(* request of a call that has failed may still reach the master.           *)
(***************************************************************************)
EXTENDS Registry

CONSTANT MaxAttempts      \* how often a registration is tried (_RETRY_DELAYS)

ASSUME MaxAttemptsAssumption == MaxAttempts \in Nat \ {0}

VARIABLES
    phase,        \* node -> where its process is in its life
    coro,         \* node -> coroutine -> its state
    late          \* the requests of failed calls, which may yet be handled

membVars == <<workers, targets, phase, coro, late>>

Phases == {"down", "starting", "serving", "stopping", "gone"}
Coroutines == {"main", "beat"}
Kinds == {"register", "heartbeat", "deregister"}

\* at: the call the coroutine makes, "backoff" between two attempts of a
\* registration, "idle" otherwise.  stage: how far that call has got.
CoroutineState ==
    [at : Kinds \cup {"idle", "backoff"},
     stage : {"none", "sent", "ok", "re_register"},
     tries : 0 .. MaxAttempts,
     health : BOOLEAN]

Idle == [at |-> "idle", stage |-> "none", tries |-> 0, health |-> FALSE]

Request == [node : Nodes, kind : Kinds, health : BOOLEAN]

MembTypeOK ==
    /\ RegTypeOK
    /\ phase \in [Nodes -> Phases]
    /\ coro \in [Nodes -> [Coroutines -> CoroutineState]]
    /\ late \subseteq Request

MembInit ==
    /\ RegInit
    /\ phase = [n \in Nodes |-> "down"]
    /\ coro = [n \in Nodes |-> [c \in Coroutines |-> Idle]]
    /\ late = {}

Become(n, c, state) == coro' = [coro EXCEPT ![n][c] = state]

\* A call of the given kind is sent.
Calling(kind, tries, h) ==
    [at |-> kind, stage |-> "sent", tries |-> tries, health |-> h]

-----------------------------------------------------------------------------
(* The registration loop, which both coroutines run. *)

\* The health of Ollama is looked at once, before the first attempt.
StartsRegistration(n, c, h) ==
    Become(n, c, Calling("register", MaxAttempts, h))

\* Mutant: the loop does not end with its last attempt.
TriesAgainEndlessly(n, c) ==
    /\ coro[n][c].at = "backoff"
    /\ Become(n, c, Calling("register", coro[n][c].tries, coro[n][c].health))
    /\ UNCHANGED <<regVars, phase, late>>

TriesAgain(n, c) ==
    /\ coro[n][c].at = "backoff"
    /\ coro[n][c].tries > 0
    /\ Become(n, c, Calling("register", coro[n][c].tries, coro[n][c].health))
    /\ UNCHANGED <<regVars, phase, late>>

\* The main coroutine goes on to serve, registered or not.
RegistrationEnds(n, c) ==
    /\ Become(n, c, Idle)
    /\ phase' = IF c = "main" THEN [phase EXCEPT ![n] = "serving"] ELSE phase

GivesUpRegistering(n, c) ==
    /\ coro[n][c].at = "backoff"
    /\ coro[n][c].tries = 0
    /\ RegistrationEnds(n, c)
    /\ UNCHANGED <<regVars, late>>

-----------------------------------------------------------------------------
(* The process. *)

WorkerStarts(n, h) ==
    /\ phase[n] = "down"
    /\ phase' = [phase EXCEPT ![n] = "starting"]
    /\ StartsRegistration(n, "main", h)
    /\ UNCHANGED <<regVars, late>>

\* A heartbeat is due; the loop also runs while the process deregisters.
HeartbeatDue(n, h) ==
    /\ phase[n] \in {"serving", "stopping"}
    /\ coro[n]["beat"].at = "idle"
    /\ Become(n, "beat", Calling("heartbeat", 0, h))
    /\ UNCHANGED <<regVars, phase, late>>

WorkerStops(n) ==
    /\ phase[n] = "serving"
    /\ phase' = [phase EXCEPT ![n] = "stopping"]
    /\ Become(n, "main", Calling("deregister", 0, FALSE))
    /\ UNCHANGED <<regVars, late>>

\* The requests of the given coroutines that have not been handled.
Unhandled(n, S) ==
    {[node |-> n, kind |-> coro[n][c].at, health |-> coro[n][c].health] :
       c \in {d \in S : coro[n][d].stage = "sent"}}

\* Mutant: the heartbeat loop is not cancelled at the end of the lifespan.
ProcessEndsWithoutCancel(n) ==
    /\ phase' = [phase EXCEPT ![n] = "gone"]
    /\ coro' = [coro EXCEPT ![n]["main"] = Idle]
    /\ late' = late \cup Unhandled(n, {"main"})
    /\ UNCHANGED regVars

\* The process is gone, and with it its coroutines; what they have sent may
\* still arrive.
ProcessEnds(n) ==
    /\ phase' = [phase EXCEPT ![n] = "gone"]
    /\ coro' = [coro EXCEPT ![n] = [c \in Coroutines |-> Idle]]
    /\ late' = late \cup Unhandled(n, Coroutines)
    /\ UNCHANGED regVars

WorkerCrashes(n) == phase[n] \notin {"down", "gone"} /\ ProcessEnds(n)

-----------------------------------------------------------------------------
(* The master's side of a call. *)

\* Mutant: the master does not say that it does not know the worker.
AnswerOk(n, kind) == "ok"

\* A heartbeat of an unknown worker is answered with the wish that it
\* register again.
Answer(n, kind) ==
    IF kind = "heartbeat" /\ n \notin Registered THEN "re_register" ELSE "ok"

Process(n, kind, h) ==
    \/ kind = "register" /\ Register(n, h)
    \/ /\ kind = "heartbeat"
       /\ \E a \in Reports, o \in Overloads : UpdateHeartbeat(n, h, a, o)
    \/ kind = "deregister" /\ Deregister(n)
    \/ kind # "register" /\ n \notin Registered /\ UNCHANGED regVars

CallHandled(n, c) ==
    /\ coro[n][c].stage = "sent"
    /\ Process(n, coro[n][c].at, coro[n][c].health)
    /\ Become(n, c, [coro[n][c] EXCEPT !.stage = Answer(n, coro[n][c].at)])
    /\ UNCHANGED <<phase, late>>

LateRequestHandled(m) ==
    /\ m \in late
    /\ Process(m.node, m.kind, m.health)
    /\ late' = late \ {m}
    /\ UNCHANGED <<phase, coro>>

LateRequestLost(m) ==
    /\ m \in late
    /\ late' = late \ {m}
    /\ UNCHANGED <<regVars, phase, coro>>

-----------------------------------------------------------------------------
(* The end of a call. *)

Registered200(n, c) ==
    /\ coro[n][c].at = "register"
    /\ coro[n][c].stage = "ok"
    /\ RegistrationEnds(n, c)
    /\ UNCHANGED <<regVars, late>>

HeartbeatOk(n) ==
    /\ coro[n]["beat"].at = "heartbeat"
    /\ coro[n]["beat"].stage = "ok"
    /\ Become(n, "beat", Idle)
    /\ UNCHANGED <<regVars, phase, late>>

\* The loop registers with the health of Ollama as it is then.
ToldToReRegister(n, h) ==
    /\ coro[n]["beat"].stage = "re_register"
    /\ StartsRegistration(n, "beat", h)
    /\ UNCHANGED <<regVars, phase, late>>

\* The process ends when its deregistration has been answered or has failed.
Deregistered(n) ==
    /\ coro[n]["main"].at = "deregister"
    /\ ProcessEnds(n)

\* A failed attempt to register is followed by a pause, a failed heartbeat
\* by the next one.
CallFails(n, c) ==
    /\ coro[n][c].stage # "none"
    /\ late' = late \cup Unhandled(n, {c})
    /\ \/ /\ coro[n][c].at = "register"
          /\ Become(n, c, [coro[n][c] EXCEPT !.at = "backoff", !.stage = "none",
                                             !.tries = @ - 1])
       \/ coro[n][c].at = "heartbeat" /\ Become(n, c, Idle)
    /\ UNCHANGED <<regVars, phase>>

-----------------------------------------------------------------------------
(* The master: its health monitor, its operator, its restart. *)

\* run_health_monitor, without the recovery of requests.
MonitorMarks(n) ==
    /\ workers[n].overdue
    /\ workers[n].status \notin {"draining", "offline"}
    /\ MarkUnhealthy(n)
    /\ UNCHANGED <<phase, coro, late>>

TimePasses(n) == FallOverdue(n) /\ UNCHANGED <<phase, coro, late>>

OperatorRemoves ==
    /\ PurgeInactive \/ \E n \in Nodes : Remove(n)
    /\ UNCHANGED <<phase, coro, late>>

\* The registry starts empty; the targets file is on disk and stays.
MasterRestarts ==
    /\ workers' = [n \in Nodes |-> Unregistered]
    /\ UNCHANGED <<targets, phase, coro, late>>

-----------------------------------------------------------------------------
CallEnds(n, c) ==
    \/ Registered200(n, c)
    \/ c = "beat" /\ HeartbeatOk(n)
    \/ c = "beat" /\ \E h \in Healths : ToldToReRegister(n, h)

Retries(n, c) == TriesAgain(n, c) \/ GivesUpRegistering(n, c)

LateRequestEnds(n) ==
    \E m \in late : m.node = n /\ (LateRequestHandled(m) \/ LateRequestLost(m))

MembNext ==
    \/ OperatorRemoves
    \/ MasterRestarts
    \/ \E n \in Nodes :
         \/ \E h \in Healths : WorkerStarts(n, h) \/ HeartbeatDue(n, h)
         \/ WorkerStops(n)
         \/ WorkerCrashes(n)
         \/ Deregistered(n)
         \/ LateRequestEnds(n)
         \/ MonitorMarks(n)
         \/ TimePasses(n)
         \/ \E c \in Coroutines :
              CallHandled(n, c) \/ CallEnds(n, c) \/ CallFails(n, c)
                \/ Retries(n, c)

MembSpec == MembInit /\ [][MembNext]_membVars

\* The coroutines of a live process go on, its sleeps end, the monitor wakes,
\* time passes for a process that is gone, and a request does not travel for
\* ever.  Of the network it is assumed that of the calls of a kind that are
\* made again and again some get through, there and back.
MembFairness ==
    \A n \in Nodes :
        /\ WF_membVars(\E h \in Healths : HeartbeatDue(n, h))
        /\ WF_membVars(LateRequestEnds(n))
        /\ WF_membVars(MonitorMarks(n))
        /\ WF_membVars(phase[n] = "gone" /\ TimePasses(n))
        /\ WF_membVars(Deregistered(n))
        /\ \A c \in Coroutines :
             /\ WF_membVars(Retries(n, c))
             /\ \A kind \in Kinds :
                  /\ SF_membVars(coro[n][c].at = kind /\ CallHandled(n, c))
                  /\ SF_membVars(coro[n][c].at = kind /\ CallEnds(n, c))

MembFairSpec == MembSpec /\ MembFairness

-----------------------------------------------------------------------------
(* Properties. *)

\* Prometheus never misses a worker the registry has: a restart may leave names
\* in the file that nobody has registered yet, but each registration, also the
\* first one after it, is written before it is answered.
NoWorkerUnscraped == Registered \subseteq targets

\* A worker whose process is gone comes back into the schedule by nothing but
\* a registration it sent while it lived: no heartbeat that arrives late and
\* no act of the monitor, the operator or a restarted master brings it back.
OnlyLateRegistrationRevives ==
    [][\A n \in Nodes :
         phase[n] = "gone" /\ ~IsSchedulable(n) /\ IsSchedulable(n)' =>
           \E m \in late : m.node = n /\ m.kind = "register" /\ m.health]_membVars

\* A process that is gone leaves the schedule for good, however it went and
\* whatever of it was still under way when it did.
GoneIsSidelined ==
    \A n \in Nodes : phase[n] = "gone" ~> [](~IsSchedulable(n))

\* Once a dead process is out of the schedule and no registration of it is on
\* its way any more, it stays so: nothing is sent in its name again, and none of
\* its late heartbeats and deregistrations, the monitor, the operator and the
\* restarts of the master brings it back.
Sidelined(n) ==
    /\ phase[n] = "gone"
    /\ ~IsSchedulable(n)
    /\ ~ \E m \in late : m.node = n /\ m.kind = "register" /\ m.health

SidelinedForGood == [][\A n \in Nodes : Sidelined(n) => Sidelined(n)']_membVars

\* A worker that serves gets back into the registry after the operator has
\* removed it, the master has restarted or its registration has failed.
ServingIsKnown ==
    \A n \in Nodes :
        phase[n] = "serving" ~> n \in Registered \/ phase[n] # "serving"

\* The targets file a restarted master finds is put right by the workers that
\* come back.
TargetsCatchUp ==
    targets # Registered ~>
      \/ targets = Registered
      \/ \A n \in Nodes : phase[n] # "serving"

\* test_fault_tolerance.py: a draining worker is excluded from scheduling.  A
\* worker whose deregistration the master has answered is not scheduled.
DeregisteredIsExcluded ==
    \A n \in Nodes :
        coro[n]["main"].at = "deregister" /\ coro[n]["main"].stage = "ok" =>
          ~IsSchedulable(n)
=============================================================================
