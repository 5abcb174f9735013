------------------------------- MODULE Common -------------------------------
(***************************************************************************)
(* The data the parts of the master share: common/enums.py and             *)
(* common/models.py, cut down to the fields that some guard of the master  *)
(* or some property of this project reads.                                 *)
(***************************************************************************)
EXTENDS Naturals, FiniteSets

CONSTANTS
    Nodes,        \* the node ids of the workers
    NoNode,       \* None, as the assigned worker of a request
    MaxRequests   \* bound: how many calls of POST /infer the clients make

ASSUME NodesAssumption == IsFiniteSet(Nodes) /\ NoNode \notin Nodes
ASSUME MaxRequestsAssumption == MaxRequests \in Nat

\* A request is named by its place in the order of arrival, which is also
\* the order task_registry lists it in.
Requests == 1 .. MaxRequests

\* "absent" stands for a node id that is not a key of the registry.
WorkerStatus ==
    {"absent", "healthy", "busy", "draining", "unhealthy", "offline"}

\* "none" stands for a request the queue has no record of.
TaskStatus ==
    {"none", "queued", "assigned", "processing", "completed", "failed",
     "retrying"}

\* overdue: last_heartbeat is older than the heartbeat timeout.
WorkerRecord ==
    [status : WorkerStatus, ollama : BOOLEAN, overdue : BOOLEAN, active : Nat]

Unregistered ==
    [status |-> "absent", ollama |-> FALSE, overdue |-> FALSE, active |-> 0]

\* result and error: whether the field of that name has been given a value.
TaskRecord ==
    [status : TaskStatus, worker : Nodes \cup {NoNode}, retries : Nat,
     result : BOOLEAN, error : BOOLEAN]

NoTask ==
    [status |-> "none", worker |-> NoNode, retries |-> 0,
     result |-> FALSE, error |-> FALSE]

\* WorkerRecord.is_schedulable.
MaySchedule(record) == record.status \in {"healthy", "busy"} /\ record.ollama
=============================================================================
