--------------------------- MODULE LoadGenerator ---------------------------
(***************************************************************************)
(* scripts/send-project-requests.py: levels of so and so many users, one   *)
(* after the other, each user a call of POST /infer made by a thread of a  *)
(* pool.  In a burst the threads of a level wait for each other at a       *)
(* barrier before they send; in a ramp each first sleeps for its delay.    *)
(*                                                                         *)
(* Left out: the texts printed, the queries, and the totals that are       *)
(* printed only; kept are the results, the percentile and the exit status.   *)
(***************************************************************************)
EXTENDS Naturals, FiniteSets, SequencesExt

CONSTANTS
    LevelLists,   \* what --levels may be: sequences of numbers of users
    Modes,        \* "burst", "ramp" (--ramp) and "batched" (neither)
    Replies,      \* what a call of POST /infer may come to
    Latencies,    \* the latency of a completed one
    Percents      \* the share percentile is asked for, in hundredths

ASSUME LevelListsAssumption == LevelLists \subseteq Seq(Nat) \ {<<>>}
ASSUME ModesAssumption == Modes \subseteq {"burst", "ramp", "batched"}
ASSUME LatenciesAssumption == Latencies \subseteq Nat
ASSUME PercentsAssumption == Percents \subseteq 0 .. 100

VARIABLES
    levels,       \* the arguments of this run of the program
    mode,
    level,        \* the position in levels of the level under way
    main,         \* what the main thread does
    submitted,    \* how many calls of the level the pool has been given
    user,         \* level -> user -> how far its call is
    arrived,      \* level -> how many threads have come to its barrier
    outcome,      \* level -> user -> what its call came to
    results       \* all_results and results: whose result is collected

genVars == <<levels, mode, level, main, submitted, user, arrived, outcome,
             results>>

\* Of the states after the end, "ok" and "failed" are main returning 0 and 1,
\* "aborted" is an exception it does not catch.
MainStates == {"submitting", "collecting", "ok", "failed", "aborted"}

Ended == main \in {"ok", "failed", "aborted"}

\* Python ends with status 1 after an uncaught exception as well.
ExitStatus == IF main = "ok" THEN 0 ELSE 1

UserStates == {"none", "queued", "delayed", "at_barrier", "posting", "over"}

\* A reply of 200 whose result is empty text counts as failed, as do an
\* error, a result of null and a status other than 200.
IsCompleted(o) == o.reply = "result"

Outcomes ==
    [reply : Replies \cap {"result"}, latency : Latencies]
      \cup [reply : Replies \ {"result"}, latency : {0}]

NoOutcome == [reply |-> "none", latency |-> 0]

UsersOf(k) == 1 .. levels[k]
Users == UNION {{k} \X UsersOf(k) : k \in DOMAIN levels}

GenTypeOK ==
    /\ levels \in LevelLists
    /\ mode \in Modes
    /\ level \in DOMAIN levels
    /\ main \in MainStates
    /\ submitted \in 0 .. levels[level]
    /\ DOMAIN user = DOMAIN levels
    /\ DOMAIN outcome = DOMAIN levels
    /\ arrived \in [DOMAIN levels -> Nat]
    /\ \A k \in DOMAIN levels :
         /\ user[k] \in [UsersOf(k) -> UserStates]
         /\ outcome[k] \in [UsersOf(k) -> Outcomes \cup {NoOutcome}]
    /\ results \subseteq Users

GenInit ==
    /\ levels \in LevelLists
    /\ mode \in Modes
    /\ level = 1
    /\ main = "submitting"
    /\ submitted = 0
    /\ user = [k \in DOMAIN levels |-> [i \in UsersOf(k) |-> "none"]]
    /\ arrived = [k \in DOMAIN levels |-> 0]
    /\ outcome = [k \in DOMAIN levels |-> [i \in UsersOf(k) |-> NoOutcome]]
    /\ results = {}

Move(k, i, s) == user' = [user EXCEPT ![k][i] = s]

-----------------------------------------------------------------------------
(* The main thread: run_level, and main around it. *)

\* A pool of no threads is refused with an exception that ends the program.
Aborts ==
    /\ main = "submitting"
    /\ levels[level] = 0
    /\ main' = "aborted"
    /\ UNCHANGED <<levels, mode, level, submitted, user, arrived, outcome,
                   results>>

Submit(i) ==
    /\ main = "submitting"
    /\ i = submitted + 1
    /\ i \in UsersOf(level)
    /\ submitted' = i
    /\ Move(level, i, "queued")
    /\ main' = IF i = levels[level] THEN "collecting" ELSE main
    /\ UNCHANGED <<levels, mode, level, arrived, outcome, results>>

\* as_completed hands over the calls that are over, in any order.
Collect(i) ==
    /\ main = "collecting"
    /\ user[level][i] = "over"
    /\ <<level, i>> \notin results
    /\ results' = results \cup {<<level, i>>}
    /\ UNCHANGED <<levels, mode, level, main, submitted, user, arrived,
                   outcome>>

Collected(k) == {i \in UsersOf(k) : <<k, i>> \in results}

\* Mutant: a level is left when its first result is in.
LevelDoneEarly(k) == Collected(k) # {}

LevelDone(k) == Collected(k) = UsersOf(k)

\* Mutant: the list of futures is kept from level to level.
NextLevelKeepingFutures ==
    /\ main = "collecting"
    /\ LevelDone(level)
    /\ level < Len(levels)
    /\ level' = level + 1
    /\ main' = "submitting"
    /\ UNCHANGED <<levels, mode, submitted, user, arrived, outcome, results>>

NextLevel ==
    /\ main = "collecting"
    /\ LevelDone(level)
    /\ level < Len(levels)
    /\ level' = level + 1
    /\ main' = "submitting"
    /\ submitted' = 0
    /\ UNCHANGED <<levels, mode, user, arrived, outcome, results>>

\* Mutant: what main returns goes by the last level.
ExitCodeOfLast(R) ==
    IF \E u \in R : u[1] = level /\ ~IsCompleted(outcome[u[1]][u[2]])
    THEN "failed" ELSE "ok"

ExitCode(R) ==
    IF \E u \in R : ~IsCompleted(outcome[u[1]][u[2]]) THEN "failed" ELSE "ok"

Exits ==
    /\ main = "collecting"
    /\ LevelDone(level)
    /\ level = Len(levels)
    /\ main' = ExitCode(results)
    /\ UNCHANGED <<levels, mode, level, submitted, user, arrived, outcome,
                   results>>

-----------------------------------------------------------------------------
(* The threads of a level: send_one. *)

Busy(k) ==
    {i \in UsersOf(k) : user[k][i] \in {"delayed", "at_barrier", "posting"}}

\* Mutant: a pool one thread short of its level.
SmallPool(k) == levels[k] - 1

Threads(k) == levels[k]

\* A thread takes the call that has waited longest.
Takes(k, i) ==
    /\ user[k][i] = "queued"
    /\ \A j \in UsersOf(k) : user[k][j] = "queued" => i <= j
    /\ Cardinality(Busy(k)) < Threads(k)

\* The delay of the first user is 0.
Sleeps(k, i) ==
    /\ Takes(k, i)
    /\ mode = "ramp"
    /\ i > 1
    /\ Move(k, i, "delayed")
    /\ UNCHANGED <<levels, mode, level, main, submitted, arrived, outcome,
                   results>>

SendsAtOnce(k, i) ==
    /\ Takes(k, i)
    /\ mode = "batched" \/ (mode = "ramp" /\ i = 1)
    /\ Move(k, i, "posting")
    /\ UNCHANGED <<levels, mode, level, main, submitted, arrived, outcome,
                   results>>

Wakes(k, i) ==
    /\ user[k][i] = "delayed"
    /\ Move(k, i, "posting")
    /\ UNCHANGED <<levels, mode, level, main, submitted, arrived, outcome,
                   results>>

ComesToBarrier(k, i) ==
    /\ Takes(k, i)
    /\ mode = "burst"
    /\ Move(k, i, "at_barrier")
    /\ arrived' = [arrived EXCEPT ![k] = @ + 1]
    /\ UNCHANGED <<levels, mode, level, main, submitted, outcome, results>>

\* Mutant: a barrier for one thread less than the level has.
SmallBarrier(k) == levels[k] - 1

Parties(k) == levels[k]

LeavesBarrier(k, i) ==
    /\ user[k][i] = "at_barrier"
    /\ arrived[k] >= Parties(k)
    /\ Move(k, i, "posting")
    /\ UNCHANGED <<levels, mode, level, main, submitted, arrived, outcome,
                   results>>

\* Every way the call can end is a result: there is one per call.
PostEnds(k, i) ==
    /\ user[k][i] = "posting"
    /\ Move(k, i, "over")
    /\ \E o \in Outcomes : outcome' = [outcome EXCEPT ![k][i] = o]
    /\ UNCHANGED <<levels, mode, level, main, submitted, arrived, results>>

-----------------------------------------------------------------------------
(* percentile. *)

\* The latencies of the completed calls among R, in ascending order.
Ordered(R) ==
    LET completed == {u \in R : IsCompleted(outcome[u[1]][u[2]])}
        latency(u) == outcome[u[1]][u[2]].latency
        order == CHOOSE f \in [1 .. Cardinality(completed) -> completed] :
                   /\ IsInjective(f)
                   /\ \A i, j \in DOMAIN f : i < j => latency(f[i]) <= latency(f[j])
    IN  [n \in DOMAIN order |-> latency(order[n])]

\* Mutant: the position is rounded down once more.
PercentileTooLow(values, percent) ==
    LET position == (Len(values) * percent) \div 100
    IN  values[IF position > 1 THEN position - 1 ELSE 1]

\* Positions count from 1 here and from 0 in the code.
Percentile(values, percent) ==
    LET position == (Len(values) * percent) \div 100 + 1
    IN  values[IF position < Len(values) THEN position ELSE Len(values)]

-----------------------------------------------------------------------------
ThreadStep(k, i) ==
    \/ Sleeps(k, i)
    \/ SendsAtOnce(k, i)
    \/ Wakes(k, i)
    \/ ComesToBarrier(k, i)
    \/ LeavesBarrier(k, i)
    \/ PostEnds(k, i)

MainStep ==
    \/ Aborts
    \/ \E i \in UsersOf(level) : Submit(i) \/ Collect(i)
    \/ NextLevel
    \/ Exits

GenNext == MainStep \/ \E k \in DOMAIN levels : \E i \in UsersOf(k) : ThreadStep(k, i)

GenSpec == GenInit /\ [][GenNext]_genVars

\* Threads run, sleeps end, and a call ends because it is given a timeout.
GenFairness ==
    /\ WF_genVars(MainStep)
    /\ WF_genVars(\E k \in DOMAIN levels : \E i \in UsersOf(k) : ThreadStep(k, i))

GenFairSpec == GenSpec /\ GenFairness

-----------------------------------------------------------------------------
\* A burst is a burst: when one thread of a level has sent its call, all of
\* the level have come to the barrier, the ones submitted last included.
BurstTogether ==
    \A k \in DOMAIN levels : \A i, j \in UsersOf(k) :
        mode = "burst" /\ user[k][i] \in {"posting", "over"} =>
            user[k][j] \in {"at_barrier", "posting", "over"}

\* A level does not weigh on the next: all its calls are over, and their
\* results collected, before a call of a later one is made.
LevelsApart ==
    \A k, m \in DOMAIN levels : \A i \in UsersOf(m) :
        k < m /\ user[m][i] # "none" => Collected(k) = UsersOf(k)

\* The exit status (main, sys.exit) is 0 if and only if no level was without
\* users and every user of every level got a result.  Status 1 does not tell a
\* call that failed from a level of no users, which ends the program with an
\* exception before the levels after it have run; only where main returns it
\* are all results in.
ExitTellsTruth ==
    /\ Ended =>
         (ExitStatus = 0 <=>
             \A k \in DOMAIN levels :
                 /\ levels[k] > 0
                 /\ \A i \in UsersOf(k) : IsCompleted(outcome[k][i]))
    /\ main \in {"ok", "failed"} => results = Users

\* What is printed as a percentile is one: at most the given share of the
\* latencies lies below it, and at least that share at or below it.
PercentileIsQuantile ==
    \A k \in DOMAIN levels : \A p \in Percents :
        LET values == Ordered({k} \X Collected(k))
            value  == Percentile(values, p)
            Below(v) == {n \in DOMAIN values : values[n] < v}
            AtOrBelow(v) == {n \in DOMAIN values : values[n] <= v}
        IN  values # <<>> =>
              /\ 100 * Cardinality(Below(value)) <= p * Len(values)
              /\ 100 * Cardinality(AtOrBelow(value)) >= p * Len(values)

\* While the results of a level are waited for, one of its calls can go on or be
\* collected: no thread waits at a barrier that cannot fill because the rest of
\* the level has no thread, and no call is without one that will come free.
CanGoOn(k, i) ==
    \/ Takes(k, i)
    \/ user[k][i] \in {"delayed", "posting"}
    \/ user[k][i] = "at_barrier" /\ arrived[k] >= Parties(k)
    \/ user[k][i] = "over" /\ <<k, i>> \notin results

NobodyLeftBehind ==
    /\ main = "submitting" => submitted < levels[level] \/ levels[level] = 0
    /\ main = "collecting" =>
         LevelDone(level) \/ \E i \in UsersOf(level) : CanGoOn(level, i)

\* The program comes to an end: no thread is left behind at a barrier and no
\* call without a thread, however threads and answers are ordered.
ProgramEnds == <>Ended
=============================================================================
