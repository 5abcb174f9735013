----------------------------- MODULE Strategies -----------------------------
(***************************************************************************)
(* The strategies of master/strategies and their exchange while the master *)
(* runs (set_strategy, POST /config/strategy): which of the schedulable    *)
(* workers a request goes to.                                              *)
(*                                                                         *)
(* A strategy sees the list of schedulable workers in the order of their   *)
(* registration, which changes between two choices in any way, and of      *)
(* every worker one figure: the count of active requests, the average      *)
(* latency or the load score, whichever it compares workers by.            *)
(***************************************************************************)
EXTENDS Naturals, FiniteSets, Sequences, Functions

CONSTANTS
    Nodes,        \* the node ids of the workers
    NoNode,       \* no worker to choose
    Figures,      \* the figures workers are compared by
    Overload,     \* the load from which load_aware passes a worker over
    MaxTurns      \* bound: how often a worker is counted to be chosen

ASSUME StrategiesAssumption ==
    /\ IsFiniteSet(Nodes)
    /\ NoNode \notin Nodes
    /\ Figures \subseteq Nat
    /\ Overload \in Nat
    /\ MaxTurns \in Nat

VARIABLES
    strategy,     \* the strategy in use
    index,        \* _index of round_robin
    roster,       \* the list of schedulable workers
    figure,       \* node -> the figure it is compared by
    picked,       \* the latest choice
    turns         \* history: node -> choices of it from the present list

stratVars == <<strategy, index, roster, figure, picked, turns>>

\* VALID_STRATEGIES, which has the keys of _STRATEGY_MAP.
Names == {"round_robin", "least_active", "load_aware", "lowest_latency"}

Rosters ==
    {s \in UNION {[1 .. k -> Nodes] : k \in 0 .. Cardinality(Nodes)} :
       IsInjective(s)}

NoTurns == [n \in Nodes |-> 0]

\* With the types: whoever has had a turn from the present list is on it, so
\* that no choice (select_worker) is ever of a worker that cannot be scheduled.
StratTypeOK ==
    /\ strategy \in Names
    /\ index \in Nat
    /\ roster \in Seq(Nodes)
    /\ figure \in [Nodes -> Figures]
    /\ picked \in Nodes \cup {NoNode}
    /\ turns \in [Nodes -> Nat]
    /\ \A n \in Nodes : turns[n] > 0 => n \in Range(roster)

StratInit ==
    /\ strategy \in Names
    /\ index = 0
    /\ roster = <<>>
    /\ figure \in [Nodes -> Figures]
    /\ picked = NoNode
    /\ turns = NoTurns

-----------------------------------------------------------------------------
(* select_worker of the strategies; min returns the first of the least. *)

RoundRobin(s, i) == s[(i % Len(s)) + 1]

\* Mutant: the index runs one past the end of the list.
NextIndexPastEnd(s, i) == (i + 1) % (Len(s) + 1)

NextIndex(s, i) == (i + 1) % Len(s)

LeastOf(s, positions) ==
    CHOOSE i \in positions :
        \A j \in positions :
            figure[s[i]] < figure[s[j]] \/ (figure[s[i]] = figure[s[j]] /\ i <= j)

\* Mutant: the least of all workers, not of those of the list.
LeastOfAll(s) == CHOOSE n \in Nodes : \A m \in Nodes : figure[n] <= figure[m]

Least(s) == s[LeastOf(s, DOMAIN s)]

Eligible(s) == {i \in DOMAIN s : figure[s[i]] < Overload}

\* Mutant: the overloaded are passed over for the first one that is not.
LoadAwareFirst(s) ==
    s[IF Eligible(s) = {} THEN 1
      ELSE CHOOSE i \in Eligible(s) : \A j \in Eligible(s) : i <= j]

LoadAware(s) ==
    s[LeastOf(s, IF Eligible(s) = {} THEN DOMAIN s ELSE Eligible(s))]

SelectWorker(s) ==
    IF s = <<>> THEN NoNode
    ELSE CASE strategy = "round_robin" -> RoundRobin(s, index)
           [] strategy = "load_aware" -> LoadAware(s)
           [] OTHER -> Least(s)

-----------------------------------------------------------------------------
\* One choice, as the scheduler makes it for every request.
Choose ==
    /\ picked' = SelectWorker(roster)
    /\ index' = IF strategy = "round_robin" /\ roster # <<>>
                THEN NextIndex(roster, index) ELSE index
    /\ turns' = IF roster = <<>> THEN turns
                ELSE [turns EXCEPT ![picked'] = @ + 1]
    /\ \A n \in Nodes : turns'[n] <= MaxTurns
    /\ UNCHANGED <<strategy, roster, figure>>

\* A new strategy is a new object, also if it is the one in use.
SetStrategy(name) ==
    /\ strategy' = name
    /\ index' = 0
    /\ turns' = NoTurns
    /\ UNCHANGED <<roster, figure, picked>>

\* Workers join, leave, fall ill or recover.
RosterChanges ==
    /\ roster' \in Rosters \ {roster}
    /\ turns' = NoTurns
    /\ UNCHANGED <<strategy, index, figure, picked>>

\* A heartbeat, a dispatch or an answer changes a figure.
FigureChanges(n, f) ==
    /\ figure' = [figure EXCEPT ![n] = f]
    /\ UNCHANGED <<strategy, index, roster, picked, turns>>

StratNext ==
    \/ Choose
    \/ \E name \in Names : SetStrategy(name)
    \/ RosterChanges
    \/ \E n \in Nodes, f \in Figures : FigureChanges(n, f)

StratSpec == StratInit /\ [][StratNext]_stratVars

-----------------------------------------------------------------------------
\* round_robin serves the workers evenly: from a list that stays the same no
\* worker is chosen twice more than another, wherever the index stood when
\* the list became what it is, past its end included.
EvenTurns ==
    strategy = "round_robin" =>
        \A a, b \in Range(roster) : turns[a] <= turns[b] + 1

\* The threshold of load_aware changes nothing: with the workers past it left
\* out, the choice is the one made among all of them.
ThresholdIsIdle == roster # <<>> => LoadAware(roster) = Least(roster)
=============================================================================
