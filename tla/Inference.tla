----------------------------- MODULE Inference -----------------------------
(***************************************************************************)
(* The generation of answers by the workers (infer and record_inference of *)
(* worker/agent.py, worker/routers/cluster.py, worker/ollama_client.py)    *)
(* and the books both sides keep of it: the worker's counters, which its   *)
(* heartbeats carry, and the figures in the master's record of it.         *)
(*                                                                         *)
(* A call is one POST of the master's _dispatch.  The master gives it up   *)
(* after a timeout or when the connection breaks; the worker is not told   *)
(* and goes on.  What the master does with a request before and after the  *)
(* POST is the subject of Master, how a worker comes and goes that of      *)
(* Membership: here a worker lives, is registered and removed at any time. *)
(***************************************************************************)
EXTENDS Registry, LoadScore

CONSTANT MaxCalls         \* bound: the POSTs of the master

ASSUME MaxCallsAssumption == MaxCalls \in Nat

VARIABLES
    call,         \* POST -> where it is, for the master and for the worker
    counted,      \* node -> _active_requests of its agent
    completed,    \* node -> _total_completed of its agent
    credited,     \* node -> total_completed of the master's record
    figures,      \* node -> the figures of the heartbeat handled last
    load,         \* node -> current_load of the master's record
    beat,         \* node -> its heartbeat under way
    late          \* heartbeats given up that may still be handled

agentVars == <<counted, completed>>
bookVars == <<credited, figures, load>>
beatVars == <<beat, late>>
infVars == <<workers, targets, call, agentVars, bookVars, beatVars>>

Calls == 1 .. MaxCalls

\* post: what the master knows of it.  job: what becomes of it at the worker;
\* "answering" is the answer on its way back, ok whether it holds a result.
CallRecord ==
    [node : Nodes \cup {NoNode},
     post : {"none", "open", "closed"},
     job  : {"none", "travelling", "running", "answering", "over"},
     ok   : BOOLEAN]

NoCall == [node |-> NoNode, post |-> "none", job |-> "none", ok |-> FALSE]

NoBeat == [sent |-> FALSE, active |-> 0]

InfTypeOK ==
    /\ RegTypeOK
    /\ call \in [Calls -> CallRecord]
    /\ counted \in [Nodes -> Nat]
    /\ completed \in [Nodes -> Nat]
    /\ credited \in [Nodes -> Nat]
    /\ figures \in [Nodes -> FigureRecord]
    /\ load \in [Nodes -> 0 .. Full]
    /\ beat \in [Nodes -> [sent : BOOLEAN, active : Nat]]
    /\ late \subseteq [node : Nodes, active : Nat]

InfInit ==
    /\ RegInit
    /\ call = [c \in Calls |-> NoCall]
    /\ counted = [n \in Nodes |-> 0]
    /\ completed = [n \in Nodes |-> 0]
    /\ credited = [n \in Nodes |-> 0]
    /\ figures = [n \in Nodes |-> NoFigures]
    /\ load = [n \in Nodes |-> 0]
    /\ beat = [n \in Nodes |-> NoBeat]
    /\ late = {}

Count(f, n, change) == [f EXCEPT ![n] = @ + change]

Goes(c, post, job, ok) ==
    call' = [call EXCEPT ![c] = [node |-> call[c].node, post |-> post,
                                 job |-> job, ok |-> ok]]

Running(n) == {c \in Calls : call[c].node = n /\ call[c].job = "running"}
OpenPosts(n) == {c \in Calls : call[c].node = n /\ call[c].post = "open"}

-----------------------------------------------------------------------------
(* The master sends. *)

Unused(c) == call[c].post = "none" /\ \A d \in Calls : d < c => call[d].post # "none"

Dispatch(c, n) ==
    /\ Unused(c)
    /\ n \in Schedulable
    /\ IncrementActive(n)
    /\ call' = [call EXCEPT ![c] = [node |-> n, post |-> "open",
                                    job |-> "travelling", ok |-> FALSE]]
    /\ UNCHANGED <<agentVars, bookVars, beatVars>>

-----------------------------------------------------------------------------
(* The worker: infer. *)

RequestLost(c) ==
    /\ call[c].job = "travelling"
    /\ Goes(c, call[c].post, "over", FALSE)
    /\ UNCHANGED <<regVars, agentVars, bookVars, beatVars>>

\* Every request is begun at once, however many run.
InferBegins(c) ==
    /\ call[c].job = "travelling"
    /\ Goes(c, call[c].post, "running", FALSE)
    /\ counted' = Count(counted, call[c].node, 1)
    /\ UNCHANGED <<regVars, completed, bookVars, beatVars>>

\* Mutant: only a generation that succeeds is counted off.
InferEndsWithoutFinally(c, ok) ==
    /\ call[c].job = "running"
    /\ Goes(c, call[c].post, "answering", ok)
    /\ counted' = Count(counted, call[c].node, IF ok THEN -1 ELSE 0)
    /\ completed' = Count(completed, call[c].node, IF ok THEN 1 ELSE 0)
    /\ UNCHANGED <<regVars, bookVars, beatVars>>

\* The generation ends with a text, or with the timeout or an error of
\* Ollama; whether the master still waits makes no difference.
InferEnds(c, ok) ==
    /\ call[c].job = "running"
    /\ Goes(c, call[c].post, "answering", ok)
    /\ counted' = Count(counted, call[c].node, -1)
    /\ completed' = Count(completed, call[c].node, IF ok THEN 1 ELSE 0)
    /\ UNCHANGED <<regVars, bookVars, beatVars>>

-----------------------------------------------------------------------------
(* The master hears, or does not. *)

\* Mutant: an answer is a completion whatever it says.
CreditOfAnyAnswer(c) ==
    IF call[c].node \in Registered
    THEN Count(credited, call[c].node, 1) ELSE credited

\* record_completion, for a worker that still has a record.
CreditOf(c) ==
    IF call[c].node \in Registered /\ call[c].ok
    THEN Count(credited, call[c].node, 1) ELSE credited

AnswerArrives(c) ==
    /\ call[c].job = "answering"
    /\ call[c].post = "open"
    /\ Goes(c, "closed", "over", call[c].ok)
    /\ DecrementActive(call[c].node, 1)
    /\ credited' = CreditOf(c)
    /\ UNCHANGED <<agentVars, figures, load, beatVars>>

\* The body does not parse: the call is counted off when it arrives and again
\* by the handler of the exception.
AnswerUnreadable(c) ==
    /\ call[c].job = "answering"
    /\ call[c].post = "open"
    /\ Goes(c, "closed", "over", call[c].ok)
    /\ DecrementActive(call[c].node, 2)
    /\ UNCHANGED <<agentVars, bookVars, beatVars>>

\* Mutant: the handler of the timeout does not count the call off.
PostFailsUncounted(c) ==
    /\ call[c].post = "open"
    /\ Goes(c, "closed", IF call[c].job = "answering" THEN "over" ELSE call[c].job,
            call[c].ok)
    /\ UNCHANGED <<regVars, agentVars, bookVars, beatVars>>

\* The timeout of the POST or a broken connection.
PostFails(c) ==
    /\ call[c].post = "open"
    /\ Goes(c, "closed", IF call[c].job = "answering" THEN "over" ELSE call[c].job,
            call[c].ok)
    /\ DecrementActive(call[c].node, 1)
    /\ UNCHANGED <<agentVars, bookVars, beatVars>>

\* The answer to a call the master has given up.
AnswerDropped(c) ==
    /\ call[c].job = "answering"
    /\ call[c].post = "closed"
    /\ Goes(c, "closed", "over", call[c].ok)
    /\ UNCHANGED <<regVars, agentVars, bookVars, beatVars>>

-----------------------------------------------------------------------------
(* Heartbeats, registrations and removals. *)

\* Mutant: the heartbeat carries the other of the agent's two counters.
HeartbeatSentWithTotal(n) ==
    /\ ~beat[n].sent
    /\ beat' = [beat EXCEPT ![n] = [sent |-> TRUE, active |-> completed[n]]]
    /\ UNCHANGED <<regVars, call, agentVars, bookVars, late>>

HeartbeatSent(n) ==
    /\ ~beat[n].sent
    /\ beat' = [beat EXCEPT ![n] = [sent |-> TRUE, active |-> counted[n]]]
    /\ UNCHANGED <<regVars, call, agentVars, bookVars, late>>

\* update_heartbeat with the count the worker had when it sent it.
BeatUpdates(n, active) ==
    \/ n \notin Registered /\ UNCHANGED <<regVars, bookVars>>
    \/ \E h \in Healths, g \in Figures :
         LET f == [g EXCEPT !.active = active]
         IN  /\ UpdateHeartbeat(n, h, active, Overloaded(Score(f)))
             /\ figures' = [figures EXCEPT ![n] = f]
             /\ load' = [load EXCEPT ![n] = Score(f)]
             /\ UNCHANGED credited

HeartbeatHandled(n) ==
    /\ beat[n].sent
    /\ BeatUpdates(n, beat[n].active)
    /\ beat' = [beat EXCEPT ![n] = NoBeat]
    /\ UNCHANGED <<call, agentVars, late>>

\* The worker gives up on a heartbeat, which may still be on its way.
HeartbeatFails(n) ==
    /\ beat[n].sent
    /\ late' = late \cup {[node |-> n, active |-> beat[n].active]}
    /\ beat' = [beat EXCEPT ![n] = NoBeat]
    /\ UNCHANGED <<regVars, call, agentVars, bookVars>>

LateHeartbeatHandled(m) ==
    /\ m \in late
    /\ BeatUpdates(m.node, m.active)
    /\ late' = late \ {m}
    /\ UNCHANGED <<call, agentVars, beat>>

LateHeartbeatLost(m) ==
    /\ m \in late
    /\ late' = late \ {m}
    /\ UNCHANGED <<regVars, call, agentVars, bookVars, beat>>

\* A new record starts from nothing, a known one keeps its figures.
WorkerRegisters(n, h) ==
    /\ Register(n, h)
    /\ UNCHANGED <<call, agentVars, bookVars, beatVars>>

\* With the record go its figures.
WorkerRemoved(n) ==
    /\ Remove(n)
    /\ credited' = [credited EXCEPT ![n] = 0]
    /\ figures' = [figures EXCEPT ![n] = NoFigures]
    /\ load' = [load EXCEPT ![n] = 0]
    /\ UNCHANGED <<call, agentVars, beatVars>>

-----------------------------------------------------------------------------
RequestTravels(c) == InferBegins(c) \/ RequestLost(c)
Generation(c) == \E ok \in BOOLEAN : InferEnds(c, ok)
PostReturns(c) == AnswerArrives(c) \/ AnswerUnreadable(c) \/ PostFails(c)

LateHeartbeatEnds == \E m \in late : LateHeartbeatHandled(m) \/ LateHeartbeatLost(m)

InfNext ==
    \/ \E c \in Calls :
         \/ \E n \in Nodes : Dispatch(c, n)
         \/ RequestTravels(c)
         \/ Generation(c)
         \/ PostReturns(c)
         \/ AnswerDropped(c)
    \/ \E n \in Nodes :
         \/ HeartbeatSent(n)
         \/ HeartbeatHandled(n)
         \/ HeartbeatFails(n)
         \/ \E h \in Healths : WorkerRegisters(n, h)
         \/ WorkerRemoved(n)
    \/ LateHeartbeatEnds

InfSpec == InfInit /\ [][InfNext]_infVars

\* Messages do not travel for ever, a generation and a POST have timeouts,
\* and of the heartbeats, sent again and again, some get through.
InfFairness ==
    /\ \A c \in Calls :
         /\ WF_infVars(RequestTravels(c))
         /\ WF_infVars(Generation(c))
         /\ WF_infVars(PostReturns(c))
    /\ WF_infVars(LateHeartbeatEnds)
    /\ \A n \in Nodes :
         /\ WF_infVars(HeartbeatSent(n))
         /\ SF_infVars(HeartbeatHandled(n))

InfFairSpec == InfSpec /\ InfFairness

-----------------------------------------------------------------------------
\* The worker's count is the number of generations that run on it, however
\* they end and whether or not the master still waits for them: the count its
\* heartbeats carry includes the ones the master has given up.
ActiveIsRunning == \A n \in Nodes : counted[n] = Cardinality(Running(n))

\* The master credits a worker with no more completions than it has made:
\* an answer is counted once, an error or a late answer never.
CreditedWasServed == \A n \in Nodes : credited[n] <= completed[n]

\* A worker turns busy, and is passed over by load_aware as overloaded, only
\* if it reports a GPU that is busy for more than a third: one without a
\* figure for a GPU never does, with all other figures at their limit.
BusyNeedsGpu ==
    \A n \in Nodes : workers[n].status = "busy" => figures[n].gpu > 33

\* Between heartbeats the master's count follows its POSTs: of every POST that
\* begins or ends, on whichever path of _dispatch, it counts one up or down.
\* What drifts is a heartbeat, a new record, a body that does not parse, or a
\* count that is already zero.
Drift(n) == workers[n].active - Cardinality(OpenPosts(n))

CountFollowsPosts ==
    [][\A n \in Registered \cap Registered' :
         \/ Drift(n)' = Drift(n)
         \/ workers[n].active = 0
         \/ BeatUpdates(n, workers'[n].active)
         \/ \E c \in OpenPosts(n) : AnswerUnreadable(c)]_infVars

\* Whatever drifted comes right by the heartbeats: when nothing is under way
\* to a worker any more, the master's count of it and the share of its
\* requests in its load are zero in the end and stay so.
AtRest(n) ==
    \A c \in Calls : call[c].node = n => call[c].post = "closed" /\ call[c].job = "over"

BooksSettle ==
    \A n \in Nodes :
        <>[](AtRest(n)) => <>[](workers[n].active = 0 /\ figures[n].active = 0)

\* The books of a worker to which nothing is under way are right on both sides
\* and in every message between them; nothing but a dispatch to it disturbs
\* them, no heartbeat that is late, no registration, no removal.
Settled(n) ==
    /\ AtRest(n)
    /\ workers[n].active = 0 /\ figures[n].active = 0
    /\ beat[n].active = 0
    /\ \A m \in late : m.node = n => m.active = 0

SettledTillDispatch ==
    [][\A n \in Nodes :
         Settled(n) => Settled(n)' \/ \E c \in Calls : Dispatch(c, n)]_infVars
=============================================================================
