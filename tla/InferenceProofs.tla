--------------------------- MODULE InferenceProofs ---------------------------
(***************************************************************************)
(* The books of master and worker for any number of workers and calls, and *)
(* the range of the load score for all figures a worker may report.        *)
(***************************************************************************)
EXTENDS Inference, RegistryProofs, FiniteSetTheorems

-----------------------------------------------------------------------------
(* The load score. *)

\* Both caps of the score hold: FullCount requests and thirty seconds.
LEMMA CappedShare ==
    ASSUME NEW x \in Nat, NEW cap \in Nat
    PROVE  AtMost(x, cap) \in 0 .. cap
  BY DEF AtMost

LEMMA Multiples ==
    ASSUME NEW b \in Nat, NEW x \in Nat, NEW y \in Nat, x <= y
    PROVE  b * x \in Nat /\ b * y \in Nat /\ b * x <= b * y
  <1>1. PICK d \in Nat : y = x + d
    BY SMT
  <1>2. b * y = b * x + b * d /\ b * x \in Nat /\ b * d \in Nat
    BY <1>1, SMT
  <1> QED
    BY <1>2, SMT

\* The score of any report is a share of the full load, and it reaches the
\* threshold only with more than a third of a GPU: the other four figures
\* together weigh 0.85.
LEMMA ScoreRange ==
    ASSUME NEW f \in FigureRecord
    PROVE  /\ Score(f) \in 0 .. Full
           /\ Overloaded(Score(f)) => f.gpu > 33
  <1> DEFINE a == AtMost(f.active, FullCount)
             l == AtMost(f.latency, 30)
             c == f.cpu
             r == f.ram
             g == IF f.gpu < 0 THEN 0 ELSE f.gpu
             machine == 12 * c + 12 * r
             gpu == 9 * g
             latency == 20 * l
             others == machine + gpu + latency
             b == FullCount
  <1>1. a \in 0 .. b /\ l \in 0 .. 30 /\ b \in Nat \ {0}
    BY CappedShare, FullCountAssumption DEF FigureRecord
  <1>2. c \in 0 .. 100 /\ r \in 0 .. 100 /\ f.gpu \in -1 .. 100
    BY DEF FigureRecord
  <1>3. g \in 0 .. 100 /\ (g > 33 => f.gpu > 33)
    BY <1>2
  <1>4. Score(f) = 2100 * a + b * others
    BY DEF Score
  <1> HIDE DEF a, l, g, c, r, b
  <1>5. others \in 0 .. 3900 /\ (g <= 33 => others <= 3299)
    <2>1. machine \in 0 .. 2400
      BY <1>2
    <2>2. gpu \in 0 .. 900 /\ (g <= 33 => gpu <= 297)
      BY <1>3
    <2>3. latency \in 0 .. 600
      BY <1>1
    <2> HIDE DEF machine, gpu, latency
    <2> QED
      BY <2>1, <2>2, <2>3
  <1> HIDE DEF others
  <1> DEFINE s == Score(f)
             product == b * others
  <1>6. /\ product \in Nat /\ product <= 3900 * b
        /\ g <= 33 => product <= 3299 * b
    <2>1. b * others \in Nat /\ b * others <= b * 3900
      BY <1>1, <1>5, Multiples
    <2>2. ASSUME g <= 33
          PROVE  b * others <= b * 3299
      BY <1>1, <1>5, <2>2, Multiples
    <2> QED
      BY <1>1, <2>1, <2>2
  <1>7. s = 2100 * a + product
    BY <1>4
  <1> HIDE DEF s, product
  <1>8. s \in 0 .. 6000 * b
    BY <1>1, <1>6, <1>7
  <1>9. g <= 33 => s < 5400 * b
    BY <1>1, <1>6, <1>7
  <1>10. s \in 0 .. Full
    BY <1>8 DEF Full, b
  <1>11. Overloaded(s) => f.gpu > 33
    <2>1. g <= 33 => ~ Overloaded(s)
      BY <1>1, <1>8, <1>9 DEF Overloaded, Threshold, b
    <2> QED
      BY <1>3, <2>1
  <1> QED
    BY <1>10, <1>11 DEF s

LEMMA FullIsPositive == 0 \in 0 .. Full
  BY FullCountAssumption DEF Full

\* What a heartbeat leaves in the record has the types of the figures.
LEMMA BeatFigures ==
    ASSUME NEW g \in Figures, NEW active \in Nat
    PROVE  [g EXCEPT !.active = active] \in FigureRecord
  BY FiguresAssumption DEF FigureRecord

-----------------------------------------------------------------------------
(* The calls. *)

CallsOK == call \in [Calls -> CallRecord]

LEMMA CallsFinite ==
    ASSUME NEW S, S \subseteq Calls
    PROVE  IsFiniteSet(S) /\ Cardinality(S) \in Nat
  <1>1. IsFiniteSet(Calls)
    BY MaxCallsAssumption, FS_Interval DEF Calls
  <1> QED
    BY <1>1, FS_Subset, FS_CardinalityType

\* One call goes on and the others stay where they are.
Becomes(c, node, post, job, ok) ==
    /\ call'[c].node = node
    /\ call'[c].post = post
    /\ call'[c].job = job
    /\ call'[c].ok = ok
    /\ \A d \in Calls \ {c} : call'[d] = call[d]

LEMMA CallBecomes ==
    ASSUME CallsOK, NEW c \in Calls, NEW r \in CallRecord,
           call' = [call EXCEPT ![c] = r]
    PROVE  CallsOK' /\ Becomes(c, r.node, r.post, r.job, r.ok)
  <1>1. CallsOK'
    BY DEF CallsOK
  <1>2. call'[c] = r /\ \A d \in Calls \ {c} : call'[d] = call[d]
    BY DEF CallsOK
  <1> QED
    BY <1>1, <1>2 DEF Becomes

LEMMA GoesOn ==
    ASSUME CallsOK, NEW c \in Calls,
           NEW post \in {"none", "open", "closed"},
           NEW job \in {"none", "travelling", "running", "answering", "over"},
           NEW ok \in BOOLEAN,
           Goes(c, post, job, ok)
    PROVE  CallsOK' /\ Becomes(c, call[c].node, post, job, ok)
  <1> DEFINE r == [node |-> call[c].node, post |-> post, job |-> job, ok |-> ok]
  <1>1. r \in CallRecord
    BY DEF CallsOK, CallRecord
  <1>2. r.node = call[c].node /\ r.post = post /\ r.job = job /\ r.ok = ok
    OBVIOUS
  <1>3. call' = [call EXCEPT ![c] = r]
    BY DEF Goes
  <1> HIDE DEF r
  <1>4. CallsOK' /\ Becomes(c, r.node, r.post, r.job, r.ok)
    BY <1>1, <1>3, CallBecomes
  <1> QED
    BY <1>2, <1>4

\* The step that makes a call.
Dispatched(c, n) ==
    /\ call[c].post = "none"
    /\ call' = [call EXCEPT ![c] = [node |-> n, post |-> "open",
                                    job |-> "travelling", ok |-> FALSE]]

LEMMA DispatchedCall ==
    ASSUME CallsOK, NEW c \in Calls, NEW n \in Nodes, Dispatched(c, n)
    PROVE  CallsOK' /\ Becomes(c, n, "open", "travelling", FALSE)
  <1> DEFINE r == [node |-> n, post |-> "open", job |-> "travelling", ok |-> FALSE]
  <1>1. r \in CallRecord
    BY DEF CallRecord
  <1>2. r.node = n /\ r.post = "open" /\ r.job = "travelling" /\ r.ok = FALSE
    OBVIOUS
  <1>3. call' = [call EXCEPT ![c] = r]
    BY DEF Dispatched
  <1> HIDE DEF r
  <1>4. CallsOK' /\ Becomes(c, r.node, r.post, r.job, r.ok)
    BY <1>1, <1>3, CallBecomes
  <1> QED
    BY <1>2, <1>4

\* A call that has not been made is at no node's work and no node's answer.
Fresh == \A c \in Calls : call[c].post = "none" => call[c].job = "none"

\* Every step keeps the calls in their types.
LEMMA CallStep ==
    ASSUME CallsOK, Fresh, [InfNext]_infVars
    PROVE  CallsOK' /\ Fresh'
  <1>1. CASE UNCHANGED call
    BY <1>1 DEF CallsOK, Fresh
  <1>2. ASSUME NEW c \in Calls, NEW n \in Nodes, Dispatch(c, n)
        PROVE  CallsOK' /\ Fresh'
    <2>1. Dispatched(c, n)
      BY <1>2 DEF Dispatch, Dispatched, Unused
    <2>2. CallsOK' /\ Becomes(c, n, "open", "travelling", FALSE)
      BY <2>1, DispatchedCall
    <2> QED
      BY <2>2 DEF Fresh, Becomes
  <1>3. ASSUME NEW c \in Calls,
               NEW post \in {"open", "closed"},
               NEW job \in {"none", "travelling", "running", "answering", "over"},
               NEW ok \in BOOLEAN,
               Goes(c, post, job, ok)
        PROVE  CallsOK' /\ Fresh'
    <2>1. CallsOK' /\ Becomes(c, call[c].node, post, job, ok)
      BY <1>3, GoesOn
    <2> QED
      BY <1>3, <2>1 DEF Fresh, Becomes
  <1>4. ASSUME NEW c \in Calls, \/ RequestTravels(c) \/ Generation(c)
                                \/ PostReturns(c) \/ AnswerDropped(c)
        PROVE  CallsOK' /\ Fresh'
    <2>1. /\ call[c].job \in {"none", "travelling", "running", "answering", "over"}
          /\ call[c].ok \in BOOLEAN
          /\ call[c].post \in {"none", "open", "closed"}
          /\ call[c].post = "none" => call[c].job = "none"
      BY DEF CallsOK, CallRecord, Fresh
    <2> QED
      BY <1>3, <1>4, <2>1
         DEF RequestTravels, InferBegins, RequestLost, Generation, InferEnds,
             PostReturns, AnswerArrives, AnswerUnreadable, PostFails,
             AnswerDropped
  <1>5. ASSUME NEW n \in Nodes,
               \/ HeartbeatSent(n) \/ HeartbeatHandled(n) \/ HeartbeatFails(n)
               \/ \E h \in Healths : WorkerRegisters(n, h)
               \/ WorkerRemoved(n)
        PROVE  UNCHANGED call
    BY <1>5 DEF HeartbeatSent, HeartbeatHandled, HeartbeatFails,
                WorkerRegisters, WorkerRemoved
  <1>6. LateHeartbeatEnds => UNCHANGED call
    BY DEF LateHeartbeatEnds, LateHeartbeatHandled, LateHeartbeatLost
  <1> QED
    BY <1>1, <1>2, <1>4, <1>5, <1>6 DEF InfNext, infVars

\* The steps that touch no call touch no counter of a worker either.
LEMMA NoCallStep ==
    ASSUME [InfNext]_infVars
    PROVE  \/ UNCHANGED <<call, counted, completed>>
           \/ \E c \in Calls :
                \/ \E n \in Nodes : Dispatch(c, n)
                \/ RequestTravels(c) \/ Generation(c)
                \/ PostReturns(c) \/ AnswerDropped(c)
  <1>1. ASSUME NEW n \in Nodes,
               \/ HeartbeatSent(n) \/ HeartbeatHandled(n) \/ HeartbeatFails(n)
               \/ \E h \in Healths : WorkerRegisters(n, h)
               \/ WorkerRemoved(n)
        PROVE  UNCHANGED <<call, counted, completed>>
    BY <1>1 DEF HeartbeatSent, HeartbeatHandled, HeartbeatFails,
                WorkerRegisters, WorkerRemoved, agentVars
  <1>2. LateHeartbeatEnds => UNCHANGED <<call, counted, completed>>
    BY DEF LateHeartbeatEnds, LateHeartbeatHandled, LateHeartbeatLost, agentVars
  <1> QED
    BY <1>1, <1>2 DEF InfNext, infVars, agentVars

-----------------------------------------------------------------------------
(* The worker's count. *)

\* Sets of calls that gain or lose one.
LEMMA OneMore ==
    ASSUME NEW S, S \subseteq Calls, NEW c \in Calls, c \notin S
    PROVE  Cardinality(S \cup {c}) = Cardinality(S) + 1
  BY CallsFinite, FS_AddElement

LEMMA OneLess ==
    ASSUME NEW S, S \subseteq Calls, NEW c \in S
    PROVE  Cardinality(S \ {c}) = Cardinality(S) - 1
  BY CallsFinite, FS_RemoveElement

CountOK == counted \in [Nodes -> Nat] /\ ActiveIsRunning

LEMMA RunningIsCalls ==
    ASSUME NEW n
    PROVE  Running(n) \subseteq Calls
  BY DEF Running

\* A call that begins to run, ends, or does neither, and what becomes of the
\* calls that run on a worker.
LEMMA RunningBecomes ==
    ASSUME NEW c \in Calls, NEW node, NEW post, NEW job, NEW ok,
           Becomes(c, node, post, job, ok), NEW n
    PROVE  Running(n)' = IF node = n /\ job = "running" THEN Running(n) \cup {c}
                                                       ELSE Running(n) \ {c}
  BY DEF Becomes, Running

\* The worker's count follows the calls that run.
LEMMA CountStep ==
    ASSUME CallsOK, Fresh, CountOK, [InfNext]_infVars
    PROVE  CountOK'
  <1>1. CASE UNCHANGED <<call, counted>>
    BY <1>1 DEF CountOK, ActiveIsRunning, Running
  <1>2. ASSUME NEW c \in Calls, NEW node, NEW post, NEW job, NEW ok,
               Becomes(c, node, post, job, ok),
               \/ job # "running" /\ call[c].job # "running"
               \/ job = call[c].job /\ node = call[c].node,
               UNCHANGED counted
        PROVE  CountOK'
    <2>1. ASSUME NEW n \in Nodes
          PROVE  Running(n)' = Running(n)
      BY <1>2 DEF Becomes, Running
    <2> QED
      BY <1>2, <2>1 DEF CountOK, ActiveIsRunning
  <1>3. ASSUME NEW c \in Calls, NEW n \in Nodes, Dispatch(c, n)
        PROVE  CountOK'
    <2>1. Dispatched(c, n) /\ call[c].job # "running" /\ UNCHANGED counted
      BY <1>3 DEF Dispatch, Dispatched, Unused, Fresh, agentVars
    <2> QED
      BY <1>2, <2>1, DispatchedCall
  <1>4. ASSUME NEW c \in Calls, InferBegins(c)
        PROVE  CountOK'
    <2>1. Becomes(c, call[c].node, call[c].post, "running", FALSE)
      BY <1>4, GoesOn DEF InferBegins, CallsOK, CallRecord
    <2>2. ASSUME NEW n \in Nodes
          PROVE  counted'[n] \in Nat /\ counted'[n] = Cardinality(Running(n)')
      <3>1. c \notin Running(n)
        BY <1>4 DEF InferBegins, Running
      <3>2. CASE call[c].node = n
        <4>1. Running(n)' = Running(n) \cup {c}
          BY <2>1, <3>2, RunningBecomes
        <4>2. Cardinality(Running(n)') = Cardinality(Running(n)) + 1
          BY <3>1, <4>1, OneMore, RunningIsCalls
        <4> QED
          BY <1>4, <3>2, <4>2 DEF InferBegins, Count, CountOK, ActiveIsRunning
      <3>3. CASE call[c].node # n
        <4>1. Running(n)' = Running(n) \ {c}
          BY <2>1, <3>3, RunningBecomes
        <4>2. Running(n)' = Running(n)
          BY <3>1, <4>1
        <4> QED
          BY <1>4, <3>3, <4>2 DEF InferBegins, Count, CountOK, ActiveIsRunning
      <3> QED
        BY <3>2, <3>3
    <2>3. counted' = [n \in Nodes |-> counted'[n]]
      BY <1>4 DEF InferBegins, Count, CountOK
    <2> QED
      BY <2>2, <2>3 DEF CountOK, ActiveIsRunning
  <1>5. ASSUME NEW c \in Calls, NEW ok \in BOOLEAN, InferEnds(c, ok)
        PROVE  CountOK'
    <2>1. Becomes(c, call[c].node, call[c].post, "answering", ok)
      BY <1>5, GoesOn DEF InferEnds, CallsOK, CallRecord
    <2>2. ASSUME NEW n \in Nodes
          PROVE  counted'[n] \in Nat /\ counted'[n] = Cardinality(Running(n)')
      <3>1. Running(n)' = Running(n) \ {c}
        BY <2>1, RunningBecomes
      <3>2. Cardinality(Running(n)') \in Nat
        BY <3>1, CallsFinite, RunningIsCalls
      <3>3. CASE call[c].node = n
        <4>1. c \in Running(n)
          BY <1>5, <3>3 DEF InferEnds, Running
        <4>2. Cardinality(Running(n)') = Cardinality(Running(n)) - 1
          BY <3>1, <4>1, OneLess, RunningIsCalls
        <4> QED
          BY <1>5, <3>2, <3>3, <4>2 DEF InferEnds, Count, CountOK, ActiveIsRunning
      <3>4. CASE call[c].node # n
        <4>1. Running(n)' = Running(n)
          BY <3>1, <3>4 DEF Running
        <4> QED
          BY <1>5, <3>4, <4>1 DEF InferEnds, Count, CountOK, ActiveIsRunning
      <3> QED
        BY <3>3, <3>4
    <2>3. counted' = [n \in Nodes |-> counted'[n]]
      BY <1>5 DEF InferEnds, Count, CountOK
    <2> QED
      BY <2>2, <2>3 DEF CountOK, ActiveIsRunning
  <1>6. ASSUME NEW c \in Calls,
               RequestLost(c) \/ PostReturns(c) \/ AnswerDropped(c)
        PROVE  CountOK'
    <2>1. /\ call[c].job \in {"none", "travelling", "running", "answering", "over"}
          /\ call[c].post \in {"none", "open", "closed"}
          /\ call[c].ok \in BOOLEAN
      BY DEF CallsOK, CallRecord
    <2>2. UNCHANGED counted
      BY <1>6 DEF RequestLost, PostReturns, AnswerArrives, AnswerUnreadable,
                  PostFails, AnswerDropped, agentVars
    <2>3. ASSUME call[c].job \in {"travelling", "answering"},
                 NEW post \in {"none", "open", "closed"}, NEW ok \in BOOLEAN,
                 Goes(c, post, "over", ok)
          PROVE  CountOK'
      BY <1>2, <2>2, <2>3, GoesOn
    <2>4. CASE PostFails(c)
      <3>1. CASE call[c].job = "answering"
        BY <2>1, <2>3, <2>4, <3>1 DEF PostFails
      <3>2. CASE call[c].job # "answering"
        <4>1. Goes(c, "closed", call[c].job, call[c].ok)
          BY <2>4, <3>2 DEF PostFails
        <4>2. Becomes(c, call[c].node, "closed", call[c].job, call[c].ok)
          BY <2>1, <4>1, GoesOn
        <4> QED
          BY <1>2, <2>2, <4>2
      <3> QED
        BY <3>1, <3>2
    <2>5. CASE RequestLost(c) \/ AnswerArrives(c) \/ AnswerUnreadable(c)
                 \/ AnswerDropped(c)
      BY <2>1, <2>3, <2>5
         DEF RequestLost, AnswerArrives, AnswerUnreadable, AnswerDropped
    <2> QED
      BY <1>6, <2>4, <2>5 DEF PostReturns
  <1> QED
    BY <1>1, <1>3, <1>4, <1>5, <1>6, NoCallStep DEF RequestTravels, Generation

-----------------------------------------------------------------------------
(* The completions. *)

\* The answers with a result that the master may still hear.
Pending(n) ==
    {c \in Calls : /\ call[c].node = n
                   /\ call[c].post = "open"
                   /\ call[c].job = "answering"
                   /\ call[c].ok}

\* A completion that is credited, or may still be, was made.
CreditOK ==
    /\ credited \in [Nodes -> Nat]
    /\ completed \in [Nodes -> Nat]
    /\ \A n \in Nodes : credited[n] + Cardinality(Pending(n)) <= completed[n]

LEMMA PendingCount ==
    ASSUME NEW n
    PROVE  Pending(n) \subseteq Calls /\ Cardinality(Pending(n)) \in Nat
  <1>1. Pending(n) \subseteq Calls
    BY DEF Pending
  <1> QED
    BY <1>1, CallsFinite

LEMMA CountType ==
    ASSUME NEW f \in [Nodes -> Nat], NEW x, NEW change \in Nat
    PROVE  Count(f, x, change) \in [Nodes -> Nat]
  <1>1. CASE x \in Nodes
    <2>1. f[x] + change \in Nat
      BY <1>1
    <2> QED
      BY <2>1 DEF Count
  <1>2. CASE x \notin Nodes
    BY <1>2 DEF Count
  <1> QED
    BY <1>1, <1>2

\* No answer more is on its way, and no completion is credited.
LEMMA CreditKept ==
    ASSUME CreditOK,
           \A n \in Nodes : Pending(n)' \subseteq Pending(n),
           credited' \in [Nodes -> Nat],
           \A n \in Nodes : credited'[n] <= credited[n],
           UNCHANGED completed
    PROVE  CreditOK'
  <1>1. ASSUME NEW n \in Nodes
        PROVE  credited'[n] + Cardinality(Pending(n)') <= completed'[n]
    <2> DEFINE k == Cardinality(Pending(n))
               m == Cardinality(Pending(n)')
    <2>1. IsFiniteSet(Pending(n)) /\ k \in Nat
      BY PendingCount, CallsFinite
    <2>2. m <= k /\ m \in Nat
      BY <2>1, FS_Subset, FS_CardinalityType
    <2>3. credited[n] + k <= completed[n]
      BY DEF CreditOK
    <2>4. credited[n] \in Nat /\ completed[n] \in Nat /\ credited'[n] \in Nat
      BY DEF CreditOK
    <2> HIDE DEF k, m
    <2>5. credited'[n] + m <= completed[n]
      BY <2>1, <2>2, <2>3, <2>4
    <2> QED
      BY <2>5 DEF m
  <1> QED
    BY <1>1 DEF CreditOK

LEMMA PendingBecomes ==
    ASSUME NEW c \in Calls, NEW node, NEW post, NEW job, NEW ok \in BOOLEAN,
           Becomes(c, node, post, job, ok), NEW n
    PROVE  Pending(n)' = IF node = n /\ post = "open" /\ job = "answering" /\ ok
                         THEN Pending(n) \cup {c} ELSE Pending(n) \ {c}
  BY DEF Becomes, Pending

\* The end of a generation is counted before its answer can be credited.
LEMMA EndIsCounted ==
    ASSUME CallsOK, CreditOK, NEW c \in Calls, NEW ok \in BOOLEAN, InferEnds(c, ok)
    PROVE  CreditOK'
  <1>1. Becomes(c, call[c].node, call[c].post, "answering", ok)
    BY GoesOn DEF InferEnds, CallsOK, CallRecord
  <1>2. UNCHANGED credited
    BY DEF InferEnds, bookVars
  <1>3. completed' = Count(completed, call[c].node, IF ok THEN 1 ELSE 0)
    BY DEF InferEnds
  <1>4. completed' \in [Nodes -> Nat]
    BY <1>3, CountType DEF CreditOK
  <1>5. ASSUME NEW n \in Nodes
        PROVE  credited[n] + Cardinality(Pending(n)') <= completed'[n]
    <2> DEFINE k == Cardinality(Pending(n))
               m == Cardinality(Pending(n)')
    <2>1. k \in Nat /\ IsFiniteSet(Pending(n))
      BY PendingCount, CallsFinite
    <2>2. /\ credited[n] + k <= completed[n]
          /\ credited[n] \in Nat /\ completed[n] \in Nat /\ completed'[n] \in Nat
      BY <1>4 DEF CreditOK
    <2>3. CASE ok /\ call[c].node = n
      <3>1. Pending(n)' \subseteq Pending(n) \cup {c}
        BY <1>1, PendingBecomes
      <3>2. c \notin Pending(n)
        BY DEF InferEnds, Pending
      <3>3. Cardinality(Pending(n) \cup {c}) = k + 1
        BY <3>2, OneMore, PendingCount
      <3>4. IsFiniteSet(Pending(n) \cup {c})
        BY <2>1, FS_AddElement
      <3>5. m \in Nat /\ m <= k + 1
        BY <3>1, <3>3, <3>4, FS_Subset, FS_CardinalityType
      <3>6. completed'[n] = completed[n] + 1
        BY <1>3, <2>3 DEF Count, CreditOK
      <3> HIDE DEF k, m
      <3>7. credited[n] + m <= completed'[n]
        BY <2>1, <2>2, <3>5, <3>6
      <3> QED
        BY <3>7 DEF m
    <2>4. CASE ~(ok /\ call[c].node = n)
      <3>1. Pending(n)' = Pending(n) \ {c}
        BY <1>1, <2>4, PendingBecomes
      <3>2. Pending(n)' \subseteq Pending(n)
        BY <3>1
      <3>3. m \in Nat /\ m <= k
        BY <2>1, <3>2, FS_Subset, FS_CardinalityType
      <3>4. completed'[n] = completed[n]
        BY <1>3, <2>2, <2>4 DEF Count, CreditOK
      <3> HIDE DEF k, m
      <3>5. credited[n] + m <= completed'[n]
        BY <2>1, <2>2, <3>3, <3>4
      <3> QED
        BY <3>5 DEF m
    <2> QED
      BY <2>3, <2>4
  <1> QED
    BY <1>2, <1>4, <1>5 DEF CreditOK

\* An answer that is credited is one the master was still to hear.
LEMMA AnswerIsCredited ==
    ASSUME CallsOK, CreditOK, NEW c \in Calls, AnswerArrives(c)
    PROVE  CreditOK'
  <1>1. Becomes(c, call[c].node, "closed", "over", call[c].ok)
    BY GoesOn DEF AnswerArrives, CallsOK, CallRecord
  <1>2. ASSUME NEW n
        PROVE  Pending(n)' = Pending(n) \ {c}
    BY <1>1, PendingBecomes DEF CallsOK, CallRecord
  <1>3. UNCHANGED completed /\ credited' = CreditOf(c)
    BY DEF AnswerArrives, agentVars
  <1>4. CASE call[c].node \in Registered /\ call[c].ok
    <2>1. credited' = Count(credited, call[c].node, 1)
      BY <1>3, <1>4 DEF CreditOf
    <2>2. credited' \in [Nodes -> Nat]
      BY <2>1, CountType DEF CreditOK
    <2>3. ASSUME NEW n \in Nodes
          PROVE  credited'[n] + Cardinality(Pending(n)') <= completed[n]
      <3> DEFINE k == Cardinality(Pending(n))
                 m == Cardinality(Pending(n)')
      <3>1. k \in Nat /\ m \in Nat
        <4>1. Pending(n)' \subseteq Calls
          BY <1>2, PendingCount
        <4> QED
          BY <4>1, PendingCount, CallsFinite
      <3>2. /\ credited[n] + k <= completed[n]
            /\ credited[n] \in Nat /\ completed[n] \in Nat
        BY DEF CreditOK
      <3>3. CASE call[c].node = n
        <4>1. c \in Pending(n)
          BY <1>4, <3>3 DEF AnswerArrives, Pending
        <4>2. m = k - 1
          BY <1>2, <4>1, OneLess, PendingCount
        <4>3. credited'[n] = credited[n] + 1
          BY <2>1, <3>3 DEF Count, CreditOK
        <4> HIDE DEF k, m
        <4>4. credited'[n] + m <= completed[n]
          BY <3>1, <3>2, <4>2, <4>3
        <4> QED
          BY <4>4 DEF m
      <3>4. CASE call[c].node # n
        <4>1. Pending(n)' = Pending(n)
          BY <1>2, <3>4 DEF Pending
        <4>2. credited'[n] = credited[n]
          BY <2>1, <3>4 DEF Count, CreditOK
        <4> QED
          BY <3>2, <4>1, <4>2
      <3> QED
        BY <3>3, <3>4
    <2> QED
      BY <1>3, <2>2, <2>3 DEF CreditOK
  <1>5. CASE ~(call[c].node \in Registered /\ call[c].ok)
    <2>1. UNCHANGED credited
      BY <1>3, <1>5 DEF CreditOf
    <2> QED
      BY <1>2, <1>3, <2>1, CreditKept DEF CreditOK
  <1> QED
    BY <1>4, <1>5

LEMMA CreditStep ==
    ASSUME CallsOK, CreditOK, [InfNext]_infVars
    PROVE  CreditOK'
  <1>1. ASSUME UNCHANGED <<call, credited, completed>>
        PROVE  CreditOK'
    BY <1>1 DEF CreditOK, Pending
  <1>2. ASSUME NEW n, NEW active, BeatUpdates(n, active)
        PROVE  UNCHANGED credited
    BY <1>2 DEF BeatUpdates, bookVars
  <1>3. ASSUME NEW n \in Nodes, HeartbeatSent(n) \/ HeartbeatHandled(n)
               \/ HeartbeatFails(n) \/ \E h \in Healths : WorkerRegisters(n, h)
        PROVE  UNCHANGED <<call, credited, completed>>
    BY <1>2, <1>3 DEF HeartbeatSent, HeartbeatHandled, HeartbeatFails,
                      WorkerRegisters, agentVars, bookVars
  <1>4. ASSUME NEW m \in late,
               LateHeartbeatHandled(m) \/ LateHeartbeatLost(m)
        PROVE  UNCHANGED <<call, credited, completed>>
    BY <1>2, <1>4 DEF LateHeartbeatHandled, LateHeartbeatLost, agentVars, bookVars
  <1>5. ASSUME NEW n \in Nodes, WorkerRemoved(n)
        PROVE  CreditOK'
    <2>1. UNCHANGED <<call, completed>> /\ credited' = [credited EXCEPT ![n] = 0]
      BY <1>5 DEF WorkerRemoved, agentVars
    <2>2. /\ credited' \in [Nodes -> Nat]
          /\ \A m \in Nodes : credited'[m] <= credited[m]
          /\ \A m \in Nodes : Pending(m)' \subseteq Pending(m)
      BY <2>1 DEF CreditOK, Pending
    <2> QED
      BY <2>1, <2>2, CreditKept
  <1>6. ASSUME NEW c \in Calls, NEW node, NEW post, NEW job, NEW ok \in BOOLEAN,
               Becomes(c, node, post, job, ok),
               post # "open" \/ job # "answering",
               UNCHANGED <<credited, completed>>
        PROVE  CreditOK'
    <2>1. \A n \in Nodes : Pending(n)' \subseteq Pending(n)
      BY <1>6, PendingBecomes
    <2> QED
      BY <1>6, <2>1, CreditKept DEF CreditOK
  <1>7. ASSUME NEW c \in Calls, NEW n \in Nodes, Dispatch(c, n)
        PROVE  CreditOK'
    <2>1. Dispatched(c, n) /\ UNCHANGED <<credited, completed>>
      BY <1>7 DEF Dispatch, Dispatched, Unused, agentVars, bookVars
    <2> QED
      BY <1>6, <2>1, DispatchedCall
  <1>8. ASSUME NEW c \in Calls, RequestTravels(c) \/ AnswerUnreadable(c)
                                 \/ PostFails(c) \/ AnswerDropped(c)
        PROVE  CreditOK'
    <2>1. /\ call[c].job \in {"none", "travelling", "running", "answering", "over"}
          /\ call[c].post \in {"none", "open", "closed"}
          /\ call[c].ok \in BOOLEAN
      BY DEF CallsOK, CallRecord
    <2>2. UNCHANGED <<credited, completed>>
      BY <1>8 DEF RequestTravels, RequestLost, InferBegins, AnswerUnreadable,
                  PostFails, AnswerDropped, agentVars, bookVars
    <2>3. ASSUME NEW post \in {"none", "open", "closed"},
                 NEW job \in {"travelling", "running", "answering", "over", "none"},
                 NEW ok \in BOOLEAN, Goes(c, post, job, ok),
                 post # "open" \/ job # "answering"
          PROVE  CreditOK'
      BY <1>6, <2>2, <2>3, GoesOn
    <2>4. CASE RequestTravels(c)
      BY <2>1, <2>3, <2>4 DEF RequestTravels, RequestLost, InferBegins
    <2>5. CASE AnswerUnreadable(c) \/ AnswerDropped(c)
      BY <2>1, <2>3, <2>5 DEF AnswerUnreadable, AnswerDropped
    <2>6. CASE PostFails(c)
      BY <2>1, <2>3, <2>6 DEF PostFails
    <2> QED
      BY <1>8, <2>4, <2>5, <2>6
  <1> QED
    BY <1>1, <1>3, <1>4, <1>5, <1>7, <1>8, EndIsCounted, AnswerIsCredited
       DEF InfNext, infVars, agentVars, bookVars, Generation, PostReturns,
           LateHeartbeatEnds

-----------------------------------------------------------------------------
(* The records of the master. *)

BooksOK ==
    /\ RegTypeOK
    /\ figures \in [Nodes -> FigureRecord]
    /\ load \in [Nodes -> 0 .. Full]
    /\ beat \in [Nodes -> [sent : BOOLEAN, active : Nat]]
    /\ late \subseteq [node : Nodes, active : Nat]
    /\ BusyNeedsGpu

\* A worker that is busy after a heartbeat was overloaded by its figures.
LEMMA BeatKeeps ==
    ASSUME RegTypeOK, BusyNeedsGpu,
           figures \in [Nodes -> FigureRecord], load \in [Nodes -> 0 .. Full],
           NEW n \in Nodes, NEW active \in Nat, BeatUpdates(n, active)
    PROVE  /\ RegTypeOK' /\ BusyNeedsGpu'
           /\ figures' \in [Nodes -> FigureRecord]
           /\ load' \in [Nodes -> 0 .. Full]
  <1>1. CASE UNCHANGED <<regVars, bookVars>>
    BY <1>1 DEF regVars, bookVars, RegTypeOK, BusyNeedsGpu
  <1>2. ASSUME NEW h \in Healths, NEW f \in FigureRecord,
               UpdateHeartbeat(n, h, active, Overloaded(Score(f))),
               figures' = [figures EXCEPT ![n] = f],
               load' = [load EXCEPT ![n] = Score(f)]
        PROVE  /\ RegTypeOK' /\ BusyNeedsGpu'
               /\ figures' \in [Nodes -> FigureRecord]
               /\ load' \in [Nodes -> 0 .. Full]
    <2> DEFINE o == Overloaded(Score(f))
               s == HeartbeatStatus(workers[n].status, h, o)
    <2>1. (o => f.gpu > 33) /\ Score(f) \in 0 .. Full
      BY ScoreRange
    <2>2. workers[n].status \in WorkerStatus /\ n \in Registered
      BY <1>2 DEF RegTypeOK, WorkerRecord, UpdateHeartbeat
    <2>3. s \in WorkerStatus /\ (s = "busy" => o)
      BY <2>2 DEF HeartbeatStatus, WorkerStatus
    <2>4. /\ workers' = [workers EXCEPT ![n] =
                           [status |-> s, ollama |-> h, overdue |-> FALSE,
                            active |-> active]]
          /\ UNCHANGED targets
      BY <1>2 DEF UpdateHeartbeat
    <2> HIDE DEF o, s
    <2>5. RegTypeOK'
      BY <2>3, <2>4, HealthsAssumption DEF RegTypeOK, WorkerRecord
    <2>6. figures'[n] = f /\ \A m \in Nodes \ {n} : figures'[m] = figures[m]
      BY <1>2
    <2>7. workers'[n].status = s /\ \A m \in Nodes \ {n} : workers'[m] = workers[m]
      BY <2>4 DEF RegTypeOK
    <2>8. BusyNeedsGpu'
      BY <2>1, <2>3, <2>6, <2>7 DEF BusyNeedsGpu
    <2> QED
      BY <1>2, <2>1, <2>5, <2>8
  <1> QED
    <2>1. CASE n \notin Registered /\ UNCHANGED <<regVars, bookVars>>
      BY <1>1, <2>1
    <2>2. ASSUME NEW h \in Healths, NEW g \in Figures,
                 LET f == [g EXCEPT !.active = active]
                 IN  /\ UpdateHeartbeat(n, h, active, Overloaded(Score(f)))
                     /\ figures' = [figures EXCEPT ![n] = f]
                     /\ load' = [load EXCEPT ![n] = Score(f)]
          PROVE  /\ RegTypeOK' /\ BusyNeedsGpu'
                 /\ figures' \in [Nodes -> FigureRecord]
                 /\ load' \in [Nodes -> 0 .. Full]
      BY <1>2, <2>2, BeatFigures
    <2> QED
      BY <2>1, <2>2 DEF BeatUpdates

\* The count of a record may change as it likes: no other field does.
LEMMA CountingKeeps ==
    ASSUME RegTypeOK, BusyNeedsGpu, NEW n,
           IncrementActive(n) \/ \E times \in {1, 2} : DecrementActive(n, times)
    PROVE  RegTypeOK' /\ (UNCHANGED figures => BusyNeedsGpu')
  <1>1. CASE n \in Nodes
    <2>1. RegTypeOK'
      BY <1>1 DEF IncrementActive, DecrementActive, RegTypeOK, WorkerRecord
    <2>2. \A m \in Nodes : workers'[m].status = workers[m].status
      BY <1>1 DEF IncrementActive, DecrementActive, RegTypeOK, WorkerRecord
    <2> QED
      BY <2>1, <2>2 DEF BusyNeedsGpu
  <1>2. CASE n \notin Nodes
    <2>1. UNCHANGED regVars
      BY <1>2 DEF IncrementActive, DecrementActive, RegTypeOK, Registered, regVars
    <2> QED
      BY <2>1 DEF RegTypeOK, BusyNeedsGpu, regVars
  <1> QED
    BY <1>1, <1>2

LEMMA BooksStep ==
    ASSUME BooksOK, counted \in [Nodes -> Nat], [InfNext]_infVars
    PROVE  BooksOK'
  <1> USE DEF BooksOK
  <1>1. CASE UNCHANGED <<regVars, figures, load, beat, late>>
    BY <1>1 DEF RegTypeOK, BusyNeedsGpu, regVars
  <1>2. ASSUME NEW n, UNCHANGED <<figures, load, beat, late>>,
               IncrementActive(n) \/ \E times \in {1, 2} : DecrementActive(n, times)
        PROVE  BooksOK'
    BY <1>2, CountingKeeps
  <1>3. ASSUME NEW c \in Calls,
               \/ \E n \in Nodes : Dispatch(c, n)
               \/ RequestTravels(c) \/ Generation(c)
               \/ PostReturns(c) \/ AnswerDropped(c)
        PROVE  BooksOK'
    BY <1>1, <1>2, <1>3
       DEF Dispatch, RequestTravels, RequestLost, InferBegins, Generation,
           InferEnds, PostReturns, AnswerArrives, AnswerUnreadable, PostFails,
           AnswerDropped, bookVars, beatVars
  <1>4. ASSUME NEW n \in Nodes, HeartbeatSent(n)
        PROVE  BooksOK'
    BY <1>4 DEF HeartbeatSent, RegTypeOK, BusyNeedsGpu, regVars, bookVars
  <1>5. ASSUME NEW n \in Nodes, HeartbeatHandled(n)
        PROVE  BooksOK'
    <2>1. beat' \in [Nodes -> [sent : BOOLEAN, active : Nat]] /\ UNCHANGED late
      BY <1>5 DEF HeartbeatHandled, NoBeat
    <2> QED
      BY <1>5, <2>1, BeatKeeps DEF HeartbeatHandled
  <1>6. ASSUME NEW n \in Nodes, HeartbeatFails(n)
        PROVE  BooksOK'
    <2>1. beat' \in [Nodes -> [sent : BOOLEAN, active : Nat]]
      BY <1>6 DEF HeartbeatFails, NoBeat
    <2>2. late' \subseteq [node : Nodes, active : Nat]
      BY <1>6 DEF HeartbeatFails
    <2> QED
      BY <1>6, <2>1, <2>2
         DEF HeartbeatFails, RegTypeOK, BusyNeedsGpu, regVars, bookVars
  <1>7. ASSUME NEW n \in Nodes, NEW h \in Healths, WorkerRegisters(n, h)
        PROVE  BooksOK'
    <2>1. RegTypeOK' /\ workers'[n].status # "busy"
          /\ \A m \in Nodes \ {n} : workers'[m] = workers[m]
      BY <1>7, HealthsAssumption
         DEF WorkerRegisters, Register, WriteTargets, RegTypeOK, WorkerRecord,
             WorkerStatus
    <2> QED
      BY <1>7, <2>1 DEF WorkerRegisters, BusyNeedsGpu, bookVars, beatVars
  <1>8. ASSUME NEW n \in Nodes, WorkerRemoved(n)
        PROVE  BooksOK'
    <2>1. RegTypeOK' /\ workers'[n].status # "busy"
          /\ \A m \in Nodes \ {n} : workers'[m] = workers[m]
      BY <1>8 DEF WorkerRemoved, Remove, Forget, WriteTargets, RegTypeOK,
                  Unregistered, WorkerRecord, WorkerStatus
    <2>2. figures' \in [Nodes -> FigureRecord] /\ load' \in [Nodes -> 0 .. Full]
      BY <1>8, FullIsPositive DEF WorkerRemoved, NoFigures, FigureRecord
    <2> QED
      BY <1>8, <2>1, <2>2 DEF WorkerRemoved, BusyNeedsGpu, beatVars
  <1>9. ASSUME NEW m \in late, LateHeartbeatHandled(m)
        PROVE  BooksOK'
    BY <1>9, BeatKeeps DEF LateHeartbeatHandled
  <1>10. ASSUME NEW m \in late, LateHeartbeatLost(m)
         PROVE  BooksOK'
    BY <1>10 DEF LateHeartbeatLost, RegTypeOK, BusyNeedsGpu, regVars, bookVars
  <1> QED
    BY <1>1, <1>3, <1>4, <1>5, <1>6, <1>7, <1>8, <1>9, <1>10
       DEF InfNext, infVars, bookVars, beatVars, regVars, LateHeartbeatEnds

-----------------------------------------------------------------------------
(* The theorems. *)

InfInv == CallsOK /\ Fresh /\ CountOK /\ CreditOK /\ BooksOK

LEMMA InfInvCorrect == InfSpec => []InfInv
  <1>1. InfInit => InfInv
    <2> SUFFICES ASSUME InfInit PROVE InfInv
      OBVIOUS
    <2> USE DEF InfInit
    <2>1. CallsOK /\ Fresh
      BY DEF CallsOK, Fresh, CallRecord, NoCall
    <2>2. \A n \in Nodes : Running(n) = {} /\ Pending(n) = {}
      BY DEF Running, Pending, NoCall
    <2>3. CountOK /\ CreditOK
      BY <2>2, FS_EmptySet DEF CountOK, CreditOK, ActiveIsRunning
    <2>4. BooksOK
      BY FullIsPositive
         DEF BooksOK, RegInit, RegTypeOK, BusyNeedsGpu, Unregistered,
             WorkerRecord, WorkerStatus, NoFigures, FigureRecord, NoBeat
    <2> QED
      BY <2>1, <2>3, <2>4 DEF InfInv
  <1>2. InfInv /\ [InfNext]_infVars => InfInv'
    BY CallStep, CountStep, CreditStep, BooksStep DEF InfInv, CountOK
  <1> QED
    BY <1>1, <1>2, PTL DEF InfSpec

\* Every part of the state keeps its type, the load score its range.
THEOREM InfTypeCorrect == InfSpec => []InfTypeOK
  <1>1. InfInv => InfTypeOK
    BY DEF InfInv, InfTypeOK, CallsOK, CountOK, CreditOK, BooksOK
  <1> QED
    BY <1>1, InfInvCorrect, PTL

\* A worker's count of active requests is the number of those it works on.
THEOREM ActiveIsRunningCorrect == InfSpec => []ActiveIsRunning
  <1>1. InfInv => ActiveIsRunning
    BY DEF InfInv, CountOK
  <1> QED
    BY <1>1, InfInvCorrect, PTL

\* The master credits no completion the worker did not make.
THEOREM CreditedWasServedCorrect == InfSpec => []CreditedWasServed
  <1>1. InfInv => CreditedWasServed
    <2> SUFFICES ASSUME InfInv, NEW n \in Nodes
                 PROVE  credited[n] <= completed[n]
      BY DEF CreditedWasServed
    <2> DEFINE k == Cardinality(Pending(n))
    <2>1. /\ credited[n] + k <= completed[n] /\ k \in Nat
          /\ credited[n] \in Nat /\ completed[n] \in Nat
      BY PendingCount DEF InfInv, CreditOK
    <2> HIDE DEF k
    <2> QED
      BY <2>1
  <1> QED
    BY <1>1, InfInvCorrect, PTL

\* No worker turns busy by its load without the figure of a GPU.
THEOREM BusyNeedsGpuCorrect == InfSpec => []BusyNeedsGpu
  <1>1. InfInv => BusyNeedsGpu
    BY DEF InfInv, BooksOK
  <1> QED
    BY <1>1, InfInvCorrect, PTL

LEMMA OpenBecomes ==
    ASSUME NEW c \in Calls, NEW node, NEW post, NEW job, NEW ok,
           Becomes(c, node, post, job, ok), NEW n
    PROVE  OpenPosts(n)' = IF node = n /\ post = "open" THEN OpenPosts(n) \cup {c}
                                                         ELSE OpenPosts(n) \ {c}
  BY DEF Becomes, OpenPosts

LEMMA OpenCount ==
    ASSUME NEW n
    PROVE  OpenPosts(n) \subseteq Calls /\ Cardinality(OpenPosts(n)) \in Nat
  <1>1. OpenPosts(n) \subseteq Calls
    BY DEF OpenPosts
  <1> QED
    BY <1>1, CallsFinite

\* What is allowed to happen to the count of a worker that stays registered.
Follows(n) ==
    \/ Drift(n)' = Drift(n)
    \/ workers[n].active = 0
    \/ BeatUpdates(n, workers'[n].active)
    \/ \E c \in OpenPosts(n) : AnswerUnreadable(c)

\* A POST that begins is counted up.
LEMMA DispatchFollows ==
    ASSUME InfInv, NEW c \in Calls, NEW m \in Nodes, Dispatch(c, m),
           NEW n \in Registered
    PROVE  Drift(n)' = Drift(n)
  <1>1. Becomes(c, m, "open", "travelling", FALSE)
    BY DispatchedCall DEF Dispatch, Dispatched, Unused, InfInv
  <1>2. c \notin OpenPosts(n) /\ IncrementActive(m) /\ n \in Nodes
    BY DEF Dispatch, Unused, OpenPosts, Registered
  <1>3. m \in Registered
    BY DEF Dispatch, Schedulable, IsSchedulable, MaySchedule, Registered
  <1>4. CASE m = n
    <2>1. OpenPosts(n)' = OpenPosts(n) \cup {c}
      BY <1>1, <1>4, OpenBecomes
    <2>2. Cardinality(OpenPosts(n)') = Cardinality(OpenPosts(n)) + 1
      BY <1>2, <2>1, OneMore, OpenCount
    <2>3. workers'[n].active = workers[n].active + 1 /\ workers[n].active \in Nat
      BY <1>2, <1>3, <1>4 DEF IncrementActive, InfInv, BooksOK, RegTypeOK, WorkerRecord
    <2> QED
      BY <2>2, <2>3, OpenCount DEF Drift
  <1>5. CASE m # n
    <2>1. OpenPosts(n)' = OpenPosts(n)
      BY <1>1, <1>2, <1>5 DEF Becomes, OpenPosts
    <2>2. workers'[n] = workers[n]
      BY <1>2, <1>5 DEF IncrementActive, InfInv, BooksOK, RegTypeOK
    <2> QED
      BY <2>1, <2>2 DEF Drift
  <1> QED
    BY <1>4, <1>5

\* A POST that ends is counted down, unless the count is zero already.
LEMMA EndFollows ==
    ASSUME InfInv, NEW c \in Calls, NEW job, NEW ok,
           call[c].post = "open",
           Becomes(c, call[c].node, "closed", job, ok),
           DecrementActive(call[c].node, 1),
           NEW n \in Registered, workers[n].active # 0
    PROVE  Drift(n)' = Drift(n)
  <1>1. OpenPosts(n)' = OpenPosts(n) \ {c} /\ n \in Nodes
    BY OpenBecomes DEF Registered
  <1>2. workers \in [Nodes -> WorkerRecord] /\ workers[n].active \in Nat \ {0}
    BY <1>1 DEF InfInv, BooksOK, RegTypeOK, WorkerRecord
  <1>3. CASE call[c].node = n
    <2>1. c \in OpenPosts(n)
      BY <1>3 DEF OpenPosts
    <2>2. Cardinality(OpenPosts(n)') = Cardinality(OpenPosts(n)) - 1
      BY <1>1, <2>1, OneLess, OpenCount
    <2>3. workers'[n].active = workers[n].active - 1
      BY <1>1, <1>2, <1>3 DEF DecrementActive, WorkerRecord
    <2> QED
      BY <1>2, <2>2, <2>3, OpenCount DEF Drift
  <1>4. CASE call[c].node # n
    <2>1. OpenPosts(n)' = OpenPosts(n)
      BY <1>1, <1>4 DEF OpenPosts
    <2>2. workers'[n] = workers[n]
      BY <1>1, <1>2, <1>4 DEF DecrementActive
    <2> QED
      BY <2>1, <2>2 DEF Drift
  <1> QED
    BY <1>3, <1>4

\* The count of a registered worker follows its POSTs between heartbeats.
THEOREM CountFollowsPostsCorrect == InfSpec => CountFollowsPosts
  <1>1. ASSUME InfInv, InfNext, NEW n \in Registered, n \in Registered'
        PROVE  Follows(n)
    <2> n \in Nodes
      BY <1>1 DEF Registered
    <2> workers \in [Nodes -> WorkerRecord]
      BY <1>1 DEF InfInv, BooksOK, RegTypeOK
    <2>1. ASSUME UNCHANGED call, workers'[n].active = workers[n].active
          PROVE  Follows(n)
      BY <2>1 DEF Follows, Drift, OpenPosts
    <2>2. ASSUME NEW c \in Calls, NEW m \in Nodes, Dispatch(c, m)
          PROVE  Follows(n)
      BY <1>1, <2>2, DispatchFollows DEF Follows
    <2>3. ASSUME NEW c \in Calls, RequestTravels(c) \/ Generation(c)
                                   \/ AnswerDropped(c)
          PROVE  Follows(n)
      <3>1. /\ call[c].job \in {"none", "travelling", "running", "answering", "over"}
            /\ call[c].post \in {"none", "open", "closed"}
            /\ call[c].ok \in BOOLEAN
        BY <1>1 DEF InfInv, CallsOK, CallRecord
      <3>2. \E job \in {"running", "answering", "over"}, ok \in BOOLEAN :
               Goes(c, call[c].post, job, ok)
        BY <2>3, <3>1 DEF RequestTravels, RequestLost, InferBegins, Generation,
                          InferEnds, AnswerDropped
      <3>3. PICK job \in {"running", "answering", "over"}, ok \in BOOLEAN :
               Becomes(c, call[c].node, call[c].post, job, ok)
        BY <1>1, <3>1, <3>2, GoesOn DEF InfInv
      <3>4. OpenPosts(n)' = OpenPosts(n)
        BY <3>3 DEF Becomes, OpenPosts
      <3>5. UNCHANGED workers
        BY <2>3 DEF RequestTravels, RequestLost, InferBegins, Generation,
                    InferEnds, AnswerDropped, regVars
      <3> QED
        BY <3>4, <3>5 DEF Follows, Drift
    <2>4. ASSUME NEW c \in Calls, AnswerArrives(c) \/ PostFails(c)
          PROVE  Follows(n)
      <3>1. /\ call[c].job \in {"none", "travelling", "running", "answering", "over"}
            /\ call[c].ok \in BOOLEAN
        BY <1>1 DEF InfInv, CallsOK, CallRecord
      <3>2. /\ call[c].post = "open"
            /\ DecrementActive(call[c].node, 1)
            /\ \E job \in {"none", "travelling", "running", "answering", "over"} :
                 Goes(c, "closed", job, call[c].ok)
        BY <2>4, <3>1 DEF AnswerArrives, PostFails
      <3>3. PICK job \in {"none", "travelling", "running", "answering", "over"} :
                 Becomes(c, call[c].node, "closed", job, call[c].ok)
        BY <1>1, <3>1, <3>2, GoesOn DEF InfInv
      <3> QED
        BY <1>1, <3>2, <3>3, EndFollows DEF Follows
    <2>5. ASSUME NEW c \in Calls, AnswerUnreadable(c)
          PROVE  Follows(n)
      <3>1. CASE call[c].node = n
        BY <2>5, <3>1 DEF AnswerUnreadable, OpenPosts, Follows
      <3>2. CASE call[c].node # n
        <4>1. Becomes(c, call[c].node, "closed", "over", call[c].ok)
          BY <1>1, <2>5, GoesOn DEF AnswerUnreadable, InfInv, CallsOK, CallRecord
        <4>2. OpenPosts(n)' = OpenPosts(n)
          BY <3>2, <4>1 DEF Becomes, OpenPosts
        <4>3. workers'[n] = workers[n]
          BY <2>5, <3>2 DEF AnswerUnreadable, DecrementActive
        <4> QED
          BY <4>2, <4>3 DEF Follows, Drift
      <3> QED
        BY <3>1, <3>2
    <2>6. ASSUME NEW m \in Nodes, NEW active \in Nat, BeatUpdates(m, active),
                 UNCHANGED call
          PROVE  Follows(n)
      <3>1. CASE UNCHANGED workers
        BY <2>1, <2>6, <3>1
      <3>2. ASSUME NEW h, NEW o, UpdateHeartbeat(m, h, active, o)
            PROVE  Follows(n)
        <4>1. CASE m = n
          <5>1. workers'[n].active = active
            BY <3>2, <4>1 DEF UpdateHeartbeat
          <5> QED
            BY <2>6, <4>1, <5>1 DEF Follows
        <4>2. CASE m # n
          BY <2>1, <2>6, <3>2, <4>2 DEF UpdateHeartbeat
        <4> QED
          BY <4>1, <4>2
      <3> QED
        BY <2>6, <3>1, <3>2 DEF BeatUpdates, regVars
    <2>7. ASSUME NEW m \in Nodes, HeartbeatSent(m) \/ HeartbeatFails(m)
          PROVE  Follows(n)
      BY <2>1, <2>7 DEF HeartbeatSent, HeartbeatFails, regVars
    <2>8. ASSUME NEW m \in Nodes, HeartbeatHandled(m)
          PROVE  Follows(n)
      BY <1>1, <2>6, <2>8 DEF HeartbeatHandled, InfInv, BooksOK
    <2>9. ASSUME NEW m \in Nodes, NEW h \in Healths, WorkerRegisters(m, h)
          PROVE  Follows(n)
      <3>1. workers'[n].active = workers[n].active
        BY <2>9 DEF WorkerRegisters, Register
      <3> QED
        BY <2>1, <2>9, <3>1 DEF WorkerRegisters
    <2>10. ASSUME NEW m \in Nodes, WorkerRemoved(m)
           PROVE  Follows(n)
      <3>1. m # n
        BY <1>1, <2>10 DEF WorkerRemoved, Remove, Forget, Unregistered, Registered
      <3>2. workers'[n] = workers[n]
        BY <2>10, <3>1 DEF WorkerRemoved, Remove, Forget
      <3> QED
        BY <2>1, <2>10, <3>2 DEF WorkerRemoved
    <2>11. ASSUME NEW m \in late, LateHeartbeatHandled(m) \/ LateHeartbeatLost(m)
           PROVE  Follows(n)
      <3>1. m.node \in Nodes /\ m.active \in Nat
        BY <1>1 DEF InfInv, BooksOK
      <3> QED
        BY <2>1, <2>6, <2>11, <3>1
           DEF LateHeartbeatHandled, LateHeartbeatLost, regVars
    <2> QED
      BY <1>1, <2>2, <2>3, <2>4, <2>5, <2>7, <2>8, <2>9, <2>10, <2>11
         DEF InfNext, PostReturns, LateHeartbeatEnds
  <1>2. ASSUME InfInv, [InfNext]_infVars
        PROVE  [\A n \in Registered \cap Registered' : Follows(n)]_infVars
    BY <1>1, <1>2
  <1> QED
    BY <1>2, InfInvCorrect, PTL DEF InfSpec, CountFollowsPosts, Follows

-----------------------------------------------------------------------------
(* Settled books. *)

\* Nothing runs on a worker to which nothing is under way, and the worker counts
\* nothing.
LEMMA RestCountsNothing ==
    ASSUME InfInv, NEW n \in Nodes, AtRest(n)
    PROVE  counted[n] = 0
  <1>1. Running(n) = {}
    BY DEF AtRest, Running
  <1> QED
    BY <1>1, FS_EmptySet DEF InfInv, CountOK, ActiveIsRunning

\* A call that is over goes no further, whoever it was made to.
LEMMA RestKept ==
    ASSUME InfInv, [InfNext]_infVars, NEW n \in Nodes, AtRest(n),
           ~ \E c \in Calls : Dispatch(c, n)
    PROVE  AtRest(n)'
  <1>1. CASE UNCHANGED call
    BY <1>1 DEF AtRest
  <1>2. ASSUME NEW c \in Calls, NEW m, m # n, NEW post, NEW job, NEW ok,
               Becomes(c, m, post, job, ok)
        PROVE  AtRest(n)'
    BY <1>2 DEF AtRest, Becomes
  <1>3. ASSUME NEW c \in Calls, NEW m \in Nodes, Dispatch(c, m)
        PROVE  AtRest(n)'
    <2>1. m # n
      BY <1>3
    <2>2. Dispatched(c, m)
      BY <1>3 DEF Dispatch, Dispatched, Unused
    <2> QED
      BY <1>2, <2>1, <2>2, DispatchedCall DEF InfInv
  <1>4. ASSUME NEW c \in Calls, \/ RequestTravels(c) \/ Generation(c)
                                \/ PostReturns(c) \/ AnswerDropped(c)
        PROVE  AtRest(n)'
    <2>1. /\ call[c].job \in {"none", "travelling", "running", "answering", "over"}
          /\ call[c].post \in {"none", "open", "closed"}
          /\ call[c].ok \in BOOLEAN
      BY DEF InfInv, CallsOK, CallRecord
    <2>2. call[c].node # n
      BY <1>4 DEF AtRest, RequestTravels, InferBegins, RequestLost, Generation,
                  InferEnds, PostReturns, AnswerArrives, AnswerUnreadable,
                  PostFails, AnswerDropped
    <2>3. \E post \in {"none", "open", "closed"},
             job \in {"none", "travelling", "running", "answering", "over"},
             ok \in BOOLEAN : Goes(c, post, job, ok)
      BY <1>4, <2>1
         DEF RequestTravels, InferBegins, RequestLost, Generation, InferEnds,
             PostReturns, AnswerArrives, AnswerUnreadable, PostFails,
             AnswerDropped
    <2>4. \E post, job, ok : Becomes(c, call[c].node, post, job, ok)
      BY <2>3, GoesOn DEF InfInv
    <2> QED
      BY <1>2, <2>2, <2>4
  <1> QED
    BY <1>1, <1>3, <1>4, NoCallStep

\* The figures both sides have of the worker, in their records and in their
\* messages.
NothingCounted(n) ==
    /\ workers[n].active = 0 /\ figures[n].active = 0
    /\ beat[n].active = 0
    /\ \A m \in late : m.node = n => m.active = 0

\* A count that is zero is not raised but by a dispatch.
LEMMA ZeroStaysZero ==
    ASSUME RegTypeOK, NEW n \in Nodes, workers[n].active = 0, NEW k,
           \/ k # n /\ IncrementActive(k)
           \/ \E times \in {1, 2} : DecrementActive(k, times)
    PROVE  workers'[n].active = 0
  BY DEF RegTypeOK, WorkerRecord, IncrementActive, DecrementActive

\* A heartbeat that carries zero leaves it behind, one of another worker
\* touches nothing.
LEMMA BeatKeepsZero ==
    ASSUME InfInv, NEW n \in Nodes, NothingCounted(n), NEW k \in Nodes,
           NEW active, k = n => active = 0, BeatUpdates(k, active)
    PROVE  workers'[n].active = 0 /\ figures'[n].active = 0
  <1> USE DEF NothingCounted
  <1>1. CASE UNCHANGED <<regVars, bookVars>>
    BY <1>1 DEF regVars, bookVars
  <1>2. ASSUME NEW h \in Healths, NEW g \in Figures, NEW o, NEW f,
               f = [g EXCEPT !.active = active],
               UpdateHeartbeat(k, h, active, o),
               figures' = [figures EXCEPT ![k] = f]
        PROVE  workers'[n].active = 0 /\ figures'[n].active = 0
    <2>1. workers \in [Nodes -> WorkerRecord] /\ figures \in [Nodes -> FigureRecord]
      BY DEF InfInv, BooksOK, RegTypeOK
    <2>2. f.active = active
      BY <1>2, FiguresAssumption DEF FigureRecord
    <2> QED
      BY <1>2, <2>1, <2>2 DEF UpdateHeartbeat
  <1> QED
    BY <1>1, <1>2 DEF BeatUpdates

LEMMA NothingCountedKept ==
    ASSUME InfInv, [InfNext]_infVars, NEW n \in Nodes, AtRest(n),
           NothingCounted(n), ~ \E c \in Calls : Dispatch(c, n)
    PROVE  NothingCounted(n)'
  <1> USE DEF NothingCounted
  <1>1. CASE UNCHANGED <<regVars, figures, beat, late>>
    BY <1>1 DEF regVars
  <1>2. ASSUME NEW c \in Calls,
               \/ \E k \in Nodes : Dispatch(c, k)
               \/ RequestTravels(c) \/ Generation(c)
               \/ PostReturns(c) \/ AnswerDropped(c)
        PROVE  NothingCounted(n)'
    <2>1. UNCHANGED <<figures, beat, late>>
      BY <1>2 DEF Dispatch, RequestTravels, RequestLost, InferBegins,
                  Generation, InferEnds, PostReturns, AnswerArrives,
                  AnswerUnreadable, PostFails, AnswerDropped, bookVars, beatVars
    <2>2. \/ UNCHANGED regVars
          \/ \E k : \/ k # n /\ IncrementActive(k)
                    \/ \E times \in {1, 2} : DecrementActive(k, times)
      BY <1>2 DEF Dispatch, RequestTravels, RequestLost, InferBegins,
                  Generation, InferEnds, PostReturns, AnswerArrives,
                  AnswerUnreadable, PostFails, AnswerDropped
    <2>3. workers'[n].active = 0
      BY <2>2, ZeroStaysZero DEF InfInv, BooksOK, regVars
    <2> QED
      BY <2>1, <2>3
  <1>3. ASSUME NEW k \in Nodes, HeartbeatSent(k)
        PROVE  NothingCounted(n)'
    <2>1. counted[n] = 0
      BY RestCountsNothing
    <2>2. beat \in [Nodes -> [sent : BOOLEAN, active : Nat]]
      BY DEF InfInv, BooksOK
    <2>3. beat'[n].active = 0
      BY <1>3, <2>1, <2>2 DEF HeartbeatSent
    <2> QED
      BY <1>3, <2>3 DEF HeartbeatSent, regVars, bookVars
  <1>4. ASSUME NEW k \in Nodes, HeartbeatHandled(k) \/ HeartbeatFails(k)
        PROVE  beat'[n].active = 0
    BY <1>4 DEF HeartbeatHandled, HeartbeatFails, NoBeat, InfInv, BooksOK
  <1>5. ASSUME NEW k \in Nodes, HeartbeatHandled(k)
        PROVE  NothingCounted(n)'
    <2>1. workers'[n].active = 0 /\ figures'[n].active = 0
      BY <1>5, BeatKeepsZero DEF HeartbeatHandled
    <2> QED
      BY <1>4, <1>5, <2>1 DEF HeartbeatHandled
  <1>6. ASSUME NEW k \in Nodes, HeartbeatFails(k)
        PROVE  NothingCounted(n)'
    <2>1. \A m \in late' : m.node = n => m.active = 0
      BY <1>6 DEF HeartbeatFails
    <2> QED
      BY <1>4, <1>6, <2>1 DEF HeartbeatFails, regVars, bookVars
  <1>7. ASSUME NEW m \in late, LateHeartbeatHandled(m)
        PROVE  NothingCounted(n)'
    <2>1. m.node \in Nodes /\ (m.node = n => m.active = 0)
      BY DEF InfInv, BooksOK
    <2>2. workers'[n].active = 0 /\ figures'[n].active = 0
      BY <1>7, <2>1, BeatKeepsZero DEF LateHeartbeatHandled
    <2> QED
      BY <1>7, <2>2 DEF LateHeartbeatHandled
  <1>8. ASSUME NEW m \in late, LateHeartbeatLost(m)
        PROVE  NothingCounted(n)'
    BY <1>8 DEF LateHeartbeatLost, regVars, bookVars
  <1>9. ASSUME NEW k \in Nodes, NEW h \in Healths, WorkerRegisters(k, h)
        PROVE  NothingCounted(n)'
    <2>1. workers'[n].active = 0
      BY <1>9 DEF WorkerRegisters, Register, InfInv, BooksOK, RegTypeOK
    <2> QED
      BY <1>9, <2>1 DEF WorkerRegisters, bookVars, beatVars
  <1>10. ASSUME NEW k \in Nodes, WorkerRemoved(k)
         PROVE  NothingCounted(n)'
    <2>1. workers'[n].active = 0
      BY <1>10 DEF WorkerRemoved, Remove, Forget, Unregistered, InfInv,
                   BooksOK, RegTypeOK
    <2>2. figures'[n].active = 0
      BY <1>10 DEF WorkerRemoved, NoFigures, InfInv, BooksOK
    <2> QED
      BY <1>10, <2>1, <2>2 DEF WorkerRemoved, beatVars
  <1> QED
    BY <1>1, <1>2, <1>3, <1>5, <1>6, <1>7, <1>8, <1>9, <1>10
       DEF InfNext, infVars, bookVars, beatVars, regVars, LateHeartbeatEnds

\* Books that are settled stay so until the worker is given something to do.
THEOREM SettledTillDispatchCorrect == InfSpec => SettledTillDispatch
  <1>1. ASSUME InfInv, [InfNext]_infVars, NEW n \in Nodes, Settled(n)
        PROVE  Settled(n)' \/ \E c \in Calls : Dispatch(c, n)
    BY <1>1, RestKept, NothingCountedKept DEF Settled, NothingCounted
  <1>2. ASSUME InfInv, [InfNext]_infVars
        PROVE  [\A n \in Nodes :
                  Settled(n) =>
                    Settled(n)' \/ \E c \in Calls : Dispatch(c, n)]_infVars
    BY <1>1, <1>2
  <1> QED
    BY <1>2, InfInvCorrect, PTL DEF InfSpec, SettledTillDispatch

-----------------------------------------------------------------------------
(* The registry, with heartbeats whose load is computed. *)

\* Every step is one of the registry's methods, a heartbeat with a count and a
\* load of its own, or leaves the registry alone.
LEMMA RegistrySteps ==
    ASSUME RegTypeOK, [InfNext]_infVars
    PROVE  \/ [RegNext]_regVars
           \/ \E n \in Nodes, h \in Healths : \E active, o :
                UpdateHeartbeat(n, h, active, o)
  <1>1. ASSUME NEW k, NEW times \in {1, 2}, DecrementActive(k, times)
        PROVE  [RegNext]_regVars
    <2>1. CASE k \in Nodes
      BY <1>1, <2>1 DEF RegNext
    <2>2. CASE k \notin Nodes
      BY <1>1, <2>2 DEF DecrementActive, RegTypeOK, regVars
    <2> QED
      BY <2>1, <2>2
  <1>2. ASSUME NEW c \in Calls, PostReturns(c)
        PROVE  [RegNext]_regVars
    <2>1. \E times \in {1, 2} : DecrementActive(call[c].node, times)
      BY <1>2 DEF PostReturns, AnswerArrives, AnswerUnreadable, PostFails
    <2> QED
      BY <1>1, <2>1
  <1>3. ASSUME NEW c \in Calls, NEW n \in Nodes, Dispatch(c, n)
        PROVE  [RegNext]_regVars
    BY <1>3 DEF Dispatch, RegNext
  <1>4. ASSUME NEW c \in Calls,
               RequestTravels(c) \/ Generation(c) \/ AnswerDropped(c)
        PROVE  UNCHANGED regVars
    BY <1>4 DEF RequestTravels, RequestLost, InferBegins, Generation, InferEnds,
                AnswerDropped
  <1>5. ASSUME NEW n \in Nodes, HeartbeatSent(n) \/ HeartbeatFails(n)
        PROVE  UNCHANGED regVars
    BY <1>5 DEF HeartbeatSent, HeartbeatFails
  <1>6. ASSUME NEW n, NEW active, BeatUpdates(n, active)
        PROVE  \/ UNCHANGED regVars
               \/ /\ n \in Nodes
                  /\ \E h \in Healths : \E o :
                       UpdateHeartbeat(n, h, active, o)
    BY <1>6 DEF BeatUpdates, UpdateHeartbeat, Registered
  <1>7. ASSUME \/ \E n \in Nodes : HeartbeatHandled(n)
               \/ LateHeartbeatEnds
        PROVE  \/ UNCHANGED regVars
               \/ \E n \in Nodes, h \in Healths : \E active, o :
                    UpdateHeartbeat(n, h, active, o)
    <2>1. \/ UNCHANGED regVars
          \/ \E n, active : BeatUpdates(n, active)
      BY <1>7 DEF HeartbeatHandled, LateHeartbeatEnds, LateHeartbeatHandled,
                  LateHeartbeatLost
    <2> QED
      BY <1>6, <2>1
  <1>8. ASSUME NEW n \in Nodes,
               WorkerRemoved(n) \/ \E h \in Healths : WorkerRegisters(n, h)
        PROVE  [RegNext]_regVars
    BY <1>8 DEF WorkerRemoved, WorkerRegisters, RegNext
  <1>9. CASE UNCHANGED infVars
    BY <1>9 DEF infVars, regVars
  <1> QED
    BY <1>2, <1>3, <1>4, <1>5, <1>7, <1>8, <1>9 DEF InfNext

LEMMA HealthyStep ==
    ASSUME RegTypeOK, HealthyMeansOllama, [InfNext]_infVars
    PROVE  HealthyMeansOllama'
  <1>1. ASSUME NEW n \in Nodes, NEW h \in Healths, NEW active, NEW o,
               UpdateHeartbeat(n, h, active, o)
        PROVE  HealthyMeansOllama'
    <2>1. HeartbeatStatus(workers[n].status, h, o) \in {"healthy", "busy"} => h
      BY HealthsAssumption DEF HeartbeatStatus, RegTypeOK, WorkerRecord
    <2> QED
      BY <1>1, <2>1 DEF UpdateHeartbeat, RegTypeOK, HealthyMeansOllama
  <1> QED
    BY <1>1, HealthyInductive, RegistrySteps

\* A worker that counts as serving, also one its load has turned busy, has a
\* running Ollama, whatever it reports.
THEOREM HealthyInInference == InfSpec => []HealthyMeansOllama
  <1>1. InfInit => HealthyMeansOllama
    BY DEF InfInit, RegInit, HealthyMeansOllama, Unregistered
  <1>2. InfInv /\ HealthyMeansOllama /\ [InfNext]_infVars => HealthyMeansOllama'
    BY HealthyStep DEF InfInv, BooksOK
  <1> QED
    BY <1>1, <1>2, InfInvCorrect, PTL DEF InfSpec

\* No figures a heartbeat may carry, and no answer, bring a worker back into
\* the schedule.
THEOREM OnlyRegisterRevivesInInference == InfSpec => OnlyRegisterRevives
  <1>1. ASSUME InfInv, HealthyMeansOllama, [InfNext]_infVars,
               NEW m \in Nodes, ~IsSchedulable(m), IsSchedulable(m)'
        PROVE  Register(m, TRUE)
    <2>1. RegTypeOK
      BY <1>1 DEF InfInv, BooksOK
    <2>2. ~ \E n \in Nodes, h \in Healths : \E active, o :
               UpdateHeartbeat(n, h, active, o)
      BY <1>1, <2>1, HeartbeatRevivesNobody
    <2>3. ~UNCHANGED regVars
      BY <1>1 DEF regVars, IsSchedulable, MaySchedule
    <2> QED
      BY <1>1, <2>1, <2>2, <2>3, RegistrySteps, RevivedByRegister
  <1>2. ASSUME InfInv, HealthyMeansOllama, [InfNext]_infVars
        PROVE  [\A n \in Nodes :
                  ~IsSchedulable(n) /\ IsSchedulable(n)' => Register(n, TRUE)]_regVars
    BY <1>1, <1>2
  <1> QED
    BY <1>2, InfInvCorrect, HealthyInInference, PTL
       DEF InfSpec, OnlyRegisterRevives
=============================================================================
