------------------------- MODULE LoadGeneratorProofs -------------------------
(***************************************************************************)
(* The load generator for any list of levels with any numbers of users.    *)
(***************************************************************************)
EXTENDS LoadGenerator, WellFoundedInduction, FiniteSetTheorems,
        SequenceTheorems, TLAPS

\* The types in a form that is easily kept: by level and by user.
LevelsOK ==
    /\ levels \in LevelLists
    /\ mode \in Modes
    /\ level \in DOMAIN levels
    /\ main \in MainStates
    /\ submitted \in 0 .. levels[level]
    /\ results \subseteq Users
    /\ arrived \in [DOMAIN levels -> Nat]

UsersOK ==
    /\ DOMAIN user = DOMAIN levels
    /\ DOMAIN outcome = DOMAIN levels
    /\ \A k \in DOMAIN levels :
         /\ user[k] \in [UsersOf(k) -> UserStates]
         /\ outcome[k] \in [UsersOf(k) -> Outcomes \cup {NoOutcome}]

\* A level has a natural number of users.
LEMMA LevelTypes ==
    ASSUME levels \in LevelLists
    PROVE  /\ \A k \in DOMAIN levels : levels[k] \in Nat
           /\ DOMAIN levels = 1 .. Len(levels)
           /\ Len(levels) \in Nat \ {0}
  <1>1. levels \in Seq(Nat) /\ levels # <<>>
    BY LevelListsAssumption
  <1> QED
    BY <1>1

LEMMA UsersAre ==
    ASSUME NEW k, NEW i
    PROVE  <<k, i>> \in Users <=> k \in DOMAIN levels /\ i \in UsersOf(k)
  BY DEF Users

\* A non-empty set of naturals has a least element.
LEMMA LeastOf ==
    ASSUME NEW T, T \subseteq Nat, T # {}
    PROVE  \E x \in T : \A y \in T : x <= y
  <1>1. PICK x \in T : \A y \in T : ~ (<<y, x>> \in OpToRel(<, Nat))
    BY WFMin, NatLessThanWellFounded
  <1>2. \A y \in T : ~ (y < x)
    BY <1>1 DEF OpToRel
  <1> QED
    BY <1>2

\* A step of one user leaves the others where they are.
Moved(k, i, s) ==
    /\ user'[k][i] = s
    /\ \A m \in DOMAIN levels : \A j \in UsersOf(m) :
         m # k \/ j # i => user'[m][j] = user[m][j]

LEMMA MoveKeeps ==
    ASSUME UsersOK, NEW k \in DOMAIN levels, NEW i \in UsersOf(k),
           NEW s \in UserStates, Move(k, i, s), UNCHANGED <<levels, outcome>>
    PROVE  UsersOK' /\ Moved(k, i, s)
  <1>1. /\ DOMAIN user' = DOMAIN levels
        /\ user'[k] = [user[k] EXCEPT ![i] = s]
        /\ \A m \in DOMAIN levels \ {k} : user'[m] = user[m]
    BY DEF Move, UsersOK
  <1>2. user[k] \in [UsersOf(k) -> UserStates]
    BY DEF UsersOK
  <1>3. user'[k] \in [UsersOf(k) -> UserStates]
    BY <1>1, <1>2
  <1>4. Moved(k, i, s)
    BY <1>1, <1>2 DEF Moved
  <1> QED
    BY <1>1, <1>3, <1>4 DEF UsersOK, UsersOf

\* The steps of the threads.
LEMMA ThreadMoves ==
    ASSUME LevelsOK, UsersOK, NEW k \in DOMAIN levels, NEW i \in UsersOf(k),
           ThreadStep(k, i)
    PROVE  /\ UsersOK'
           /\ UNCHANGED <<levels, mode, level, main, submitted, results>>
           /\ \E s \in {"delayed", "at_barrier", "posting", "over"} :
                Moved(k, i, s)
           /\ user[k][i] \in {"queued", "delayed", "at_barrier", "posting"}
  <1>1. ASSUME \/ Sleeps(k, i) \/ SendsAtOnce(k, i) \/ Wakes(k, i)
               \/ ComesToBarrier(k, i) \/ LeavesBarrier(k, i)
        PROVE  /\ UsersOK'
               /\ UNCHANGED <<levels, mode, level, main, submitted, results>>
               /\ \E s \in {"delayed", "at_barrier", "posting", "over"} :
                    Moved(k, i, s)
               /\ user[k][i] \in {"queued", "delayed", "at_barrier", "posting"}
    <2>1. PICK s \in {"delayed", "at_barrier", "posting"} : Move(k, i, s)
      BY <1>1 DEF Sleeps, SendsAtOnce, Wakes, ComesToBarrier, LeavesBarrier
    <2>2. /\ UNCHANGED <<levels, mode, level, main, submitted, outcome, results>>
          /\ user[k][i] \in {"queued", "delayed", "at_barrier", "posting"}
      BY <1>1 DEF Sleeps, SendsAtOnce, Wakes, ComesToBarrier, LeavesBarrier, Takes
    <2>3. UsersOK' /\ Moved(k, i, s)
      BY <2>1, <2>2, MoveKeeps DEF UserStates
    <2> QED
      BY <2>2, <2>3
  <1>2. CASE PostEnds(k, i)
    <2>1. PICK o \in Outcomes : outcome' = [outcome EXCEPT ![k][i] = o]
      BY <1>2 DEF PostEnds
    <2>2. /\ DOMAIN user' = DOMAIN levels
          /\ user'[k] = [user[k] EXCEPT ![i] = "over"]
          /\ \A m \in DOMAIN levels \ {k} : user'[m] = user[m]
          /\ DOMAIN outcome' = DOMAIN levels
          /\ outcome'[k] = [outcome[k] EXCEPT ![i] = o]
          /\ \A m \in DOMAIN levels \ {k} : outcome'[m] = outcome[m]
      BY <1>2, <2>1 DEF PostEnds, Move, UsersOK
    <2>3. /\ user[k] \in [UsersOf(k) -> UserStates]
          /\ outcome[k] \in [UsersOf(k) -> Outcomes \cup {NoOutcome}]
      BY DEF UsersOK
    <2>4. /\ user'[k] \in [UsersOf(k) -> UserStates]
          /\ outcome'[k] \in [UsersOf(k) -> Outcomes \cup {NoOutcome}]
      BY <2>2, <2>3 DEF UserStates
    <2>5. UNCHANGED <<levels, mode, level, main, submitted, results>>
      BY <1>2 DEF PostEnds
    <2>6. UsersOf(k)' = UsersOf(k) /\ \A m : UsersOf(m)' = UsersOf(m)
      BY <2>5 DEF UsersOf
    <2>7. UsersOK'
      BY <2>2, <2>4, <2>5, <2>6 DEF UsersOK, Outcomes
    <2>8. Moved(k, i, "over")
      BY <2>2, <2>3 DEF Moved
    <2> QED
      BY <1>2, <2>5, <2>7, <2>8 DEF PostEnds
  <1> QED
    BY <1>1, <1>2 DEF ThreadStep

LEMMA TypeStep ==
    ASSUME LevelsOK, UsersOK, [GenNext]_genVars
    PROVE  LevelsOK' /\ UsersOK'
  <1> USE LevelTypes DEF LevelsOK
  <1>1. CASE UNCHANGED genVars
    BY <1>1 DEF genVars, UsersOK, UsersOf, Users, Outcomes
  <1>2. ASSUME NEW k \in DOMAIN levels, NEW i \in UsersOf(k), ThreadStep(k, i)
        PROVE  LevelsOK' /\ UsersOK'
    <2>1. UsersOK' /\ UNCHANGED <<levels, mode, level, main, submitted, results>>
      BY <1>2, ThreadMoves
    <2>2. arrived' \in [DOMAIN levels -> Nat]
      BY <1>2 DEF ThreadStep, Sleeps, SendsAtOnce, Wakes, ComesToBarrier,
                  LeavesBarrier, PostEnds
    <2>3. Users' = Users
      BY <2>1 DEF Users, UsersOf
    <2> QED
      BY <2>1, <2>2, <2>3
  <1>3. ASSUME NEW i \in UsersOf(level), Submit(i)
        PROVE  LevelsOK' /\ UsersOK'
    <2>1. UNCHANGED <<levels, mode, level, outcome, results, arrived>>
          /\ Move(level, i, "queued") /\ submitted' = i /\ main' \in MainStates
      BY <1>3 DEF Submit, MainStates
    <2>2. UsersOK'
      BY <2>1, MoveKeeps DEF UserStates
    <2>3. i \in 0 .. levels[level] /\ Users' = Users
      BY <2>1 DEF UsersOf, Users
    <2> QED
      BY <2>1, <2>2, <2>3
  <1>4. ASSUME NEW i \in UsersOf(level), Collect(i)
        PROVE  LevelsOK' /\ UsersOK'
    <2>1. UNCHANGED <<levels, mode, level, main, submitted, user, arrived, outcome>>
          /\ results' = results \cup {<<level, i>>}
      BY <1>4 DEF Collect
    <2>2. Users' = Users /\ <<level, i>> \in Users
      BY <2>1, UsersAre DEF Users, UsersOf
    <2> QED
      BY <2>1, <2>2 DEF UsersOK, UsersOf, Outcomes
  <1>5. CASE NextLevel
    <2>1. /\ UNCHANGED <<levels, mode, user, arrived, outcome, results>>
          /\ level' = level + 1 /\ level < Len(levels)
          /\ main' = "submitting" /\ submitted' = 0
      BY <1>5 DEF NextLevel
    <2>2. level' \in DOMAIN levels /\ Users' = Users
      BY <2>1 DEF Users, UsersOf
    <2>3. 0 \in 0 .. levels[level']
      BY <2>2
    <2> QED
      BY <2>1, <2>2, <2>3 DEF UsersOK, UsersOf, Outcomes, MainStates
  <1>6. CASE Aborts \/ Exits
    <2>1. /\ UNCHANGED <<levels, mode, level, submitted, user, arrived, outcome,
                         results>>
          /\ main' \in MainStates
      BY <1>6 DEF Aborts, Exits, ExitCode, MainStates
    <2>2. Users' = Users
      BY <2>1 DEF Users, UsersOf
    <2> QED
      BY <2>1, <2>2 DEF UsersOK, UsersOf, Outcomes
  <1> QED
    BY <1>1, <1>2, <1>3, <1>4, <1>5, <1>6 DEF GenNext, MainStep

-----------------------------------------------------------------------------
(* One level after the other. *)

\* The levels behind are collected, those ahead untouched, as are the users of
\* this one that are yet to be submitted; a result is of a call that is over.
OrderOK ==
    /\ \A k \in DOMAIN levels : k < level => Collected(k) = UsersOf(k)
    /\ \A k \in DOMAIN levels : \A i \in UsersOf(k) :
         k > level \/ (k = level /\ i > submitted) => user[k][i] = "none"
    /\ \A k \in DOMAIN levels : \A i \in UsersOf(k) :
         <<k, i>> \in results => user[k][i] = "over"

LEMMA OrderKept ==
    ASSUME OrderOK, UNCHANGED <<levels, level, submitted, user, results>>
    PROVE  OrderOK'
  <1>1. \A k : UsersOf(k)' = UsersOf(k) /\ Collected(k)' = Collected(k)
    BY DEF UsersOf, Collected
  <1> QED
    BY <1>1 DEF OrderOK

LEMMA OrderStep ==
    ASSUME LevelsOK, UsersOK, OrderOK, [GenNext]_genVars
    PROVE  OrderOK'
  <1> USE LevelTypes DEF LevelsOK
  <1>1. CASE UNCHANGED genVars
    BY <1>1, OrderKept DEF genVars
  <1>2. ASSUME NEW k \in DOMAIN levels, NEW i \in UsersOf(k), ThreadStep(k, i)
        PROVE  OrderOK'
    <2>1. /\ UNCHANGED <<levels, mode, level, main, submitted, results>>
          /\ user[k][i] \in {"queued", "delayed", "at_barrier", "posting"}
      BY <1>2, ThreadMoves
    <2>2. PICK s : Moved(k, i, s)
      BY <1>2, ThreadMoves
    <2>3. \A m : UsersOf(m)' = UsersOf(m) /\ Collected(m)' = Collected(m)
      BY <2>1 DEF UsersOf, Collected
    <2>4. <<k, i>> \notin results /\ user[k][i] # "none"
      BY <2>1 DEF OrderOK
    <2>5. \A m \in DOMAIN levels : \A j \in UsersOf(m) :
            m > level \/ (m = level /\ j > submitted) => user'[m][j] = "none"
      <3> SUFFICES ASSUME NEW m \in DOMAIN levels, NEW j \in UsersOf(m),
                          m > level \/ (m = level /\ j > submitted)
                   PROVE  user'[m][j] = "none"
        OBVIOUS
      <3>1. user[m][j] = "none"
        BY DEF OrderOK
      <3> QED
        BY <3>1, <2>2, <2>4 DEF Moved
    <2>6. \A m \in DOMAIN levels : \A j \in UsersOf(m) :
            <<m, j>> \in results => user'[m][j] = "over"
      <3> SUFFICES ASSUME NEW m \in DOMAIN levels, NEW j \in UsersOf(m),
                          <<m, j>> \in results
                   PROVE  user'[m][j] = "over"
        OBVIOUS
      <3>1. user[m][j] = "over" /\ (m # k \/ j # i)
        BY <2>4 DEF OrderOK
      <3> QED
        BY <3>1, <2>2 DEF Moved
    <2> QED
      BY <2>1, <2>3, <2>5, <2>6 DEF OrderOK
  <1>3. ASSUME NEW i \in UsersOf(level), Submit(i)
        PROVE  OrderOK'
    <2>1. UNCHANGED <<levels, mode, level, outcome, results, arrived>>
          /\ Move(level, i, "queued") /\ submitted' = i /\ i = submitted + 1
      BY <1>3 DEF Submit
    <2>2. Moved(level, i, "queued")
      BY <2>1, MoveKeeps DEF UserStates
    <2>3. <<level, i>> \notin results
      BY <2>1 DEF OrderOK, UsersOf
    <2>4. \A k \in DOMAIN levels : UsersOf(k)' = UsersOf(k)
                                   /\ Collected(k)' = Collected(k)
      BY <2>1 DEF UsersOf, Collected
    <2>5. \A k \in DOMAIN levels : \A j \in UsersOf(k) :
            k > level \/ (k = level /\ j > i) => user'[k][j] = "none"
      BY <2>1, <2>2 DEF OrderOK, Moved, UsersOf
    <2>6. \A k \in DOMAIN levels : \A j \in UsersOf(k) :
            <<k, j>> \in results => user'[k][j] = "over"
      <3> SUFFICES ASSUME NEW k \in DOMAIN levels, NEW j \in UsersOf(k),
                          <<k, j>> \in results
                   PROVE  user'[k][j] = "over"
        OBVIOUS
      <3>1. user[k][j] = "over" /\ (k # level \/ j # i)
        BY <2>3 DEF OrderOK
      <3> QED
        BY <3>1, <2>2 DEF Moved
    <2>7. \A k \in DOMAIN levels : k < level => Collected(k)' = UsersOf(k)'
      BY <2>4 DEF OrderOK
    <2>8. /\ levels' = levels /\ level' = level /\ results' = results
          /\ submitted' = i
      BY <2>1
    <2> QED
      BY <2>4, <2>5, <2>6, <2>7, <2>8 DEF OrderOK
  <1>4. ASSUME NEW i \in UsersOf(level), Collect(i)
        PROVE  OrderOK'
    <2>1. UNCHANGED <<levels, mode, level, main, submitted, user, arrived, outcome>>
          /\ results' = results \cup {<<level, i>>} /\ user[level][i] = "over"
      BY <1>4 DEF Collect
    <2>2. \A k : UsersOf(k)' = UsersOf(k)
      BY <2>1 DEF UsersOf
    <2>3. \A k \in DOMAIN levels : k < level => Collected(k)' = UsersOf(k)
      <3> SUFFICES ASSUME NEW k \in DOMAIN levels, k < level
                   PROVE  Collected(k)' = UsersOf(k)
        OBVIOUS
      <3>1. Collected(k) = UsersOf(k)
        BY DEF OrderOK
      <3> QED
        BY <3>1, <2>1, <2>2 DEF Collected
    <2>4. \A k \in DOMAIN levels : \A j \in UsersOf(k) :
            <<k, j>> \in results' => user[k][j] = "over"
      BY <2>1 DEF OrderOK
    <2> QED
      BY <2>1, <2>2, <2>3, <2>4 DEF OrderOK
  <1>5. CASE NextLevel
    <2>1. /\ UNCHANGED <<levels, mode, user, arrived, outcome, results>>
          /\ level' = level + 1 /\ submitted' = 0
          /\ Collected(level) = UsersOf(level)
      BY <1>5 DEF NextLevel, LevelDone
    <2>2. \A k \in DOMAIN levels : Collected(k)' = Collected(k)
                                   /\ UsersOf(k)' = UsersOf(k)
      BY <2>1 DEF Collected, UsersOf
    <2>3. \A k \in DOMAIN levels : k < level' => Collected(k) = UsersOf(k)
      BY <2>1 DEF OrderOK
    <2>4. \A k \in DOMAIN levels : k > level' \/ k = level' => k > level
      BY <2>1
    <2> QED
      BY <2>1, <2>2, <2>3, <2>4 DEF OrderOK
  <1>6. CASE Aborts \/ Exits
    <2>1. UNCHANGED <<levels, level, submitted, user, results>>
      BY <1>6 DEF Aborts, Exits
    <2> QED
      BY <2>1, OrderKept
  <1> QED
    BY <1>1, <1>2, <1>3, <1>4, <1>5, <1>6 DEF GenNext, MainStep

-----------------------------------------------------------------------------
(* The barrier of a burst. *)

Past(k) == {i \in UsersOf(k) : user[k][i] \in {"at_barrier", "posting", "over"}}

\* As many threads have been counted at a barrier as have come to it.
BarrierOK ==
    mode = "burst" =>
        \A k \in DOMAIN levels :
            /\ \A i \in UsersOf(k) : user[k][i] # "delayed"
            /\ arrived[k] = Cardinality(Past(k))

LEMMA PastFinite ==
    ASSUME levels \in LevelLists, NEW k \in DOMAIN levels
    PROVE  /\ IsFiniteSet(UsersOf(k)) /\ Cardinality(UsersOf(k)) = levels[k]
           /\ IsFiniteSet(Past(k)) /\ Cardinality(Past(k)) \in Nat
  <1>1. levels[k] \in Nat
    BY LevelTypes
  <1>2. IsFiniteSet(1 .. levels[k]) /\ Cardinality(1 .. levels[k]) = levels[k]
    BY <1>1, FS_Interval
  <1>3. Past(k) \subseteq UsersOf(k)
    BY DEF Past
  <1> QED
    BY <1>2, <1>3, FS_Subset, FS_CardinalityType DEF UsersOf

\* When the barrier opens everybody is there.
LEMMA BarrierIsFull ==
    ASSUME LevelsOK, BarrierOK, mode = "burst", NEW k \in DOMAIN levels,
           arrived[k] >= Parties(k)
    PROVE  Past(k) = UsersOf(k)
  <1>1. arrived[k] <= Cardinality(Past(k)) /\ arrived[k] \in Nat
    BY DEF BarrierOK, LevelsOK
  <1>2. /\ IsFiniteSet(UsersOf(k)) /\ Cardinality(UsersOf(k)) = levels[k]
        /\ Cardinality(Past(k)) \in Nat /\ levels[k] \in Nat
    BY PastFinite, LevelTypes DEF LevelsOK
  <1>3. Past(k) \subseteq UsersOf(k)
    BY DEF Past
  <1>4. Cardinality(Past(k)) <= Cardinality(UsersOf(k))
    BY <1>2, <1>3, FS_Subset
  <1>5. Cardinality(Past(k)) = Cardinality(UsersOf(k))
    BY <1>1, <1>2, <1>4 DEF Parties
  <1> QED
    BY <1>2, <1>3, <1>5, FS_Subset

\* A step that lets nobody come to the barrier and counts nobody.
LEMMA BarrierKept ==
    ASSUME LevelsOK, BarrierOK, UNCHANGED <<levels, mode, arrived>>,
           \A k \in DOMAIN levels : Past(k)' = Past(k),
           mode = "burst" => \A k \in DOMAIN levels : \A i \in UsersOf(k) :
                               user'[k][i] # "delayed"
    PROVE  BarrierOK'
  BY DEF BarrierOK, UsersOf

\* What a thread does in a burst: it comes to the barrier and is counted
\* there, or goes on from it, which it may do when all have been counted.
Comes(k, i) ==
    /\ user[k][i] = "queued"
    /\ Moved(k, i, "at_barrier")
    /\ arrived' = [arrived EXCEPT ![k] = @ + 1]

Opens(k, i) ==
    /\ user[k][i] = "at_barrier"
    /\ arrived[k] >= Parties(k)
    /\ Moved(k, i, "posting")
    /\ arrived' = arrived

Ends(k, i) ==
    /\ user[k][i] = "posting"
    /\ Moved(k, i, "over")
    /\ arrived' = arrived

LEMMA BurstMoves ==
    ASSUME LevelsOK, UsersOK, BarrierOK, mode = "burst",
           NEW k \in DOMAIN levels, NEW i \in UsersOf(k), ThreadStep(k, i)
    PROVE  Comes(k, i) \/ Opens(k, i) \/ Ends(k, i)
  <1>1. PICK s : Moved(k, i, s)
    BY ThreadMoves
  <1>2. i \in DOMAIN user[k] /\ k \in DOMAIN user
    BY DEF UsersOK
  <1>3. user'[k][i] = s
    BY <1>1 DEF Moved
  <1>4. \/ ComesToBarrier(k, i)
        \/ LeavesBarrier(k, i)
        \/ PostEnds(k, i)
    BY DEF ThreadStep, Sleeps, SendsAtOnce, Wakes, BarrierOK
  <1>5. CASE ComesToBarrier(k, i)
    <2>1. user'[k][i] = "at_barrier"
      BY <1>5, <1>2 DEF ComesToBarrier, Move
    <2> QED
      BY <2>1, <1>1, <1>3, <1>5 DEF ComesToBarrier, Takes, Comes
  <1>6. CASE LeavesBarrier(k, i)
    <2>1. user'[k][i] = "posting"
      BY <1>6, <1>2 DEF LeavesBarrier, Move
    <2> QED
      BY <2>1, <1>1, <1>3, <1>6 DEF LeavesBarrier, Opens
  <1>7. CASE PostEnds(k, i)
    <2>1. user'[k][i] = "over"
      BY <1>7, <1>2 DEF PostEnds, Move
    <2> QED
      BY <2>1, <1>1, <1>3, <1>7 DEF PostEnds, Ends
  <1> QED
    BY <1>4, <1>5, <1>6, <1>7

LEMMA BarrierStep ==
    ASSUME LevelsOK, UsersOK, OrderOK, BarrierOK, [GenNext]_genVars
    PROVE  BarrierOK'
  <1> USE LevelTypes DEF LevelsOK
  <1>1. ASSUME UNCHANGED <<levels, mode, user, arrived>>
        PROVE  BarrierOK'
    BY <1>1 DEF BarrierOK, Past, UsersOf
  <1>2. ASSUME NEW k \in DOMAIN levels, NEW i \in UsersOf(k), ThreadStep(k, i)
        PROVE  BarrierOK'
    <2>1. UNCHANGED <<levels, mode>>
      BY <1>2, ThreadMoves
    <2> SUFFICES ASSUME mode = "burst" PROVE BarrierOK'
      BY <2>1 DEF BarrierOK
    <2>2. CASE Opens(k, i) \/ Ends(k, i)
      <3>1. PICK s \in {"posting", "over"} : Moved(k, i, s)
        BY <2>2 DEF Opens, Ends
      <3>2. \A m \in DOMAIN levels : \A j \in UsersOf(m) :
              user'[m][j] = user[m][j] \/ user'[m][j] \in {"posting", "over"}
        BY <3>1 DEF Moved
      <3>3. \A m \in DOMAIN levels : Past(m)' = Past(m)
        BY <2>1, <2>2, <3>1 DEF Past, UsersOf, Moved, Opens, Ends
      <3>4. \A m \in DOMAIN levels : \A j \in UsersOf(m) :
              user'[m][j] # "delayed"
        BY <3>2 DEF BarrierOK
      <3>5. arrived' = arrived
        BY <2>2 DEF Opens, Ends
      <3> QED
        BY <2>1, <3>3, <3>4, <3>5, BarrierKept
    <2>3. CASE Comes(k, i)
      <3>1. Moved(k, i, "at_barrier") /\ user[k][i] = "queued"
        BY <2>3 DEF Comes
      <3>2. \A m : UsersOf(m)' = UsersOf(m)
        BY <2>1 DEF UsersOf
      <3>3. Past(k)' = Past(k) \cup {i} /\ i \notin Past(k)
        BY <3>1, <3>2 DEF Past, Moved
      <3>4. Cardinality(Past(k)') = Cardinality(Past(k)) + 1
        BY <3>3, PastFinite, FS_AddElement
      <3>5. \A m \in DOMAIN levels : m # k => Past(m)' = Past(m)
        BY <3>1, <3>2 DEF Past, Moved
      <3>6. /\ arrived'[k] = arrived[k] + 1
            /\ \A m \in DOMAIN levels : m # k => arrived'[m] = arrived[m]
        BY <2>3 DEF Comes
      <3>7. \A m \in DOMAIN levels : \A j \in UsersOf(m) :
              user'[m][j] # "delayed"
        BY <3>1 DEF BarrierOK, Moved
      <3>8. arrived'[k] = Cardinality(Past(k)')
        <4> DEFINE a == Cardinality(Past(k))
        <4>1. a \in Nat /\ arrived[k] \in Nat /\ arrived[k] = a
          BY PastFinite DEF BarrierOK
        <4>2. Cardinality(Past(k)') = a + 1
          BY <3>4
        <4> HIDE DEF a
        <4> QED
          BY <4>1, <4>2, <3>6
      <3>9. \A m \in DOMAIN levels : m # k => arrived'[m] = Cardinality(Past(m)')
        BY <3>5, <3>6 DEF BarrierOK
      <3> QED
        BY <2>1, <3>2, <3>7, <3>8, <3>9 DEF BarrierOK
    <2> QED
      BY <1>2, <2>2, <2>3, BurstMoves
  <1>3. ASSUME NEW i \in UsersOf(level), Submit(i)
        PROVE  BarrierOK'
    <2>1. UNCHANGED <<levels, mode, level, outcome, results, arrived>>
          /\ Move(level, i, "queued") /\ i = submitted + 1
      BY <1>3 DEF Submit
    <2>2. Moved(level, i, "queued")
      BY <2>1, MoveKeeps DEF UserStates
    <2>3. user[level][i] = "none"
      BY <2>1 DEF OrderOK, UsersOf
    <2>4. \A k \in DOMAIN levels : Past(k)' = Past(k)
      BY <2>1, <2>2, <2>3 DEF Past, UsersOf, Moved
    <2>5. mode = "burst" => \A k \in DOMAIN levels : \A j \in UsersOf(k) :
            user'[k][j] # "delayed"
      BY <2>2 DEF BarrierOK, Moved
    <2> QED
      BY <2>1, <2>4, <2>5, BarrierKept
  <1>4. ASSUME NEW i \in UsersOf(level), Collect(i)
        PROVE  BarrierOK'
    BY <1>4, <1>1 DEF Collect
  <1>5. CASE NextLevel \/ Aborts \/ Exits \/ UNCHANGED genVars
    BY <1>5, <1>1 DEF NextLevel, Aborts, Exits, genVars
  <1> QED
    BY <1>2, <1>3, <1>4, <1>5 DEF GenNext, MainStep

LEMMA BurstStep ==
    ASSUME LevelsOK, UsersOK, OrderOK, BarrierOK, BurstTogether,
           [GenNext]_genVars
    PROVE  BurstTogether'
  <1> USE LevelTypes DEF LevelsOK
  <1>1. ASSUME UNCHANGED <<levels, mode, user>>
        PROVE  BurstTogether'
    BY <1>1 DEF BurstTogether, UsersOf
  <1>2. ASSUME NEW k \in DOMAIN levels, NEW i \in UsersOf(k), ThreadStep(k, i)
        PROVE  BurstTogether'
    <2>1. UNCHANGED <<levels, mode>>
      BY <1>2, ThreadMoves
    <2>2. \A m : UsersOf(m)' = UsersOf(m)
      BY <2>1 DEF UsersOf
    <2> SUFFICES ASSUME mode = "burst",
                        NEW m \in DOMAIN levels, NEW h \in UsersOf(m),
                        NEW j \in UsersOf(m),
                        user'[m][h] \in {"posting", "over"}
                 PROVE  user'[m][j] \in {"at_barrier", "posting", "over"}
      BY <2>1, <2>2 DEF BurstTogether
    <2>3. PICK s \in {"at_barrier", "posting", "over"} : Moved(k, i, s)
      BY <1>2, BurstMoves DEF Comes, Opens, Ends
    <2>4. \/ user[m][j] \in {"at_barrier", "posting", "over"}
          \/ m = k /\ j = i
      <3>1. CASE user[m][h] \in {"posting", "over"}
        BY <3>1 DEF BurstTogether
      <3>2. CASE user[m][h] \notin {"posting", "over"}
        <4>1. m = k /\ h = i
          BY <3>2, <2>3 DEF Moved
        <4>2. Opens(k, i)
          BY <1>2, <4>1, <3>2, BurstMoves DEF Comes, Opens, Ends, Moved
        <4>3. Past(m) = UsersOf(m)
          BY <4>1, <4>2, BarrierIsFull DEF Opens
        <4> QED
          BY <4>3 DEF Past
      <3> QED
        BY <3>1, <3>2
    <2> QED
      BY <2>3, <2>4 DEF Moved
  <1>3. ASSUME NEW i \in UsersOf(level), Submit(i)
        PROVE  BurstTogether'
    <2>1. UNCHANGED <<levels, mode, level, outcome, results, arrived>>
          /\ Move(level, i, "queued") /\ i = submitted + 1
      BY <1>3 DEF Submit
    <2>2. Moved(level, i, "queued") /\ user[level][i] = "none"
      BY <2>1, MoveKeeps DEF UserStates, OrderOK, UsersOf
    <2>3. \A m : UsersOf(m)' = UsersOf(m)
      BY <2>1 DEF UsersOf
    <2> SUFFICES ASSUME mode = "burst",
                        NEW m \in DOMAIN levels, NEW h \in UsersOf(m),
                        NEW j \in UsersOf(m),
                        user'[m][h] \in {"posting", "over"}
                 PROVE  user'[m][j] \in {"at_barrier", "posting", "over"}
      BY <2>1, <2>3 DEF BurstTogether
    <2>4. user[m][h] \in {"posting", "over"}
      BY <2>2 DEF Moved
    <2>5. user[m][j] \in {"at_barrier", "posting", "over"}
      BY <2>4 DEF BurstTogether
    <2> QED
      BY <2>2, <2>5 DEF Moved
  <1>4. ASSUME NEW i \in UsersOf(level), Collect(i)
        PROVE  BurstTogether'
    BY <1>4, <1>1 DEF Collect
  <1>5. CASE NextLevel \/ Aborts \/ Exits \/ UNCHANGED genVars
    BY <1>5, <1>1 DEF NextLevel, Aborts, Exits, genVars
  <1> QED
    BY <1>2, <1>3, <1>4, <1>5 DEF GenNext, MainStep

-----------------------------------------------------------------------------
(* Nobody is left behind. *)

\* The main thread waits for results when it has submitted all of a level, and
\* what it has submitted has begun; only a burst has a barrier.
SubmitOK ==
    /\ main = "submitting" => submitted < levels[level] \/ levels[level] = 0
    /\ main = "collecting" => submitted = levels[level]
    /\ \A i \in UsersOf(level) : i <= submitted => user[level][i] # "none"
    /\ mode # "burst" => \A k \in DOMAIN levels : \A i \in UsersOf(k) :
                           user[k][i] # "at_barrier"

LEMMA SubmitStep ==
    ASSUME LevelsOK, UsersOK, SubmitOK, [GenNext]_genVars
    PROVE  SubmitOK'
  <1> USE LevelTypes DEF LevelsOK
  <1>1. ASSUME UNCHANGED <<levels, mode, level, submitted, user>>,
               main' \in {main, "ok", "failed", "aborted"}
        PROVE  SubmitOK'
    BY <1>1 DEF SubmitOK, UsersOf
  <1>2. ASSUME NEW k \in DOMAIN levels, NEW i \in UsersOf(k), ThreadStep(k, i)
        PROVE  SubmitOK'
    <2>1. UNCHANGED <<levels, mode, level, main, submitted, results>>
      BY <1>2, ThreadMoves
    <2>2. PICK s \in {"delayed", "at_barrier", "posting", "over"} : Moved(k, i, s)
      BY <1>2, ThreadMoves
    <2>3. mode # "burst" => s # "at_barrier"
      <3> SUFFICES ASSUME mode # "burst" PROVE s # "at_barrier"
        OBVIOUS
      <3>1. \E t \in {"delayed", "posting", "over"} : Move(k, i, t)
        BY <1>2 DEF ThreadStep, Sleeps, SendsAtOnce, Wakes, ComesToBarrier,
                    LeavesBarrier, PostEnds
      <3>2. user'[k][i] # "at_barrier"
        BY <3>1 DEF Move, UsersOK
      <3> QED
        BY <2>2, <3>2 DEF Moved
    <2>4. \A m : UsersOf(m)' = UsersOf(m)
      BY <2>1 DEF UsersOf
    <2>5. \A m \in DOMAIN levels : \A j \in UsersOf(m) :
            user'[m][j] = user[m][j] \/ user'[m][j] = s
      BY <2>2 DEF Moved
    <2>6. \A j \in UsersOf(level) : j <= submitted => user'[level][j] # "none"
      BY <2>5 DEF SubmitOK
    <2>7. mode # "burst" => \A m \in DOMAIN levels : \A j \in UsersOf(m) :
                              user'[m][j] # "at_barrier"
      BY <2>3, <2>5 DEF SubmitOK
    <2> QED
      BY <2>1, <2>4, <2>6, <2>7 DEF SubmitOK
  <1>3. ASSUME NEW i \in UsersOf(level), Submit(i)
        PROVE  SubmitOK'
    <2>1. /\ UNCHANGED <<levels, mode, level, outcome, results, arrived>>
          /\ Move(level, i, "queued") /\ i = submitted + 1 /\ submitted' = i
          /\ main' = IF i = levels[level] THEN "collecting" ELSE "submitting"
          /\ i \in 1 .. levels[level]
      BY <1>3 DEF Submit, UsersOf
    <2>2. Moved(level, i, "queued")
      BY <2>1, MoveKeeps DEF UserStates
    <2>3. \A m : UsersOf(m)' = UsersOf(m)
      BY <2>1 DEF UsersOf
    <2>4. \A j \in UsersOf(level) : j <= i => user'[level][j] # "none"
      <3> SUFFICES ASSUME NEW j \in UsersOf(level), j <= i
                   PROVE  user'[level][j] # "none"
        OBVIOUS
      <3>1. j = i \/ j <= submitted
        BY <2>1 DEF UsersOf
      <3> QED
        BY <2>2, <3>1 DEF Moved, SubmitOK
    <2>5. mode # "burst" => \A m \in DOMAIN levels : \A j \in UsersOf(m) :
                              user'[m][j] # "at_barrier"
      BY <2>2 DEF SubmitOK, Moved
    <2>6. /\ main' = "submitting" => submitted' < levels[level]
          /\ main' = "collecting" => submitted' = levels[level]
      BY <2>1
    <2> QED
      BY <2>1, <2>3, <2>4, <2>5, <2>6 DEF SubmitOK
  <1>4. ASSUME NEW i \in UsersOf(level), Collect(i)
        PROVE  SubmitOK'
    BY <1>1, <1>4 DEF Collect
  <1>5. CASE NextLevel
    <2>1. /\ UNCHANGED <<levels, mode, user>>
          /\ main' = "submitting" /\ submitted' = 0
          /\ level' = level + 1 /\ level < Len(levels)
      BY <1>5 DEF NextLevel
    <2>2. level' \in DOMAIN levels
      BY <2>1
    <2>3. levels[level'] \in Nat
      BY <2>2
    <2>4. \A j \in UsersOf(level)' : ~(j <= 0)
      BY <2>1, <2>3 DEF UsersOf
    <2> QED
      BY <2>1, <2>3, <2>4 DEF SubmitOK, UsersOf
  <1>6. CASE Aborts \/ Exits
    BY <1>1, <1>6 DEF Aborts, Exits, ExitCode
  <1>7. CASE UNCHANGED genVars
    BY <1>1, <1>7 DEF genVars
  <1> QED
    BY <1>2, <1>3, <1>4, <1>5, <1>6, <1>7 DEF GenNext, MainStep

\* A call that waits leaves a thread of the pool without one.
LEMMA ThreadIsFree ==
    ASSUME LevelsOK, NEW k \in DOMAIN levels, NEW i \in UsersOf(k),
           user[k][i] = "queued"
    PROVE  Cardinality(Busy(k)) < Threads(k)
  <1>1. /\ IsFiniteSet(UsersOf(k)) /\ Cardinality(UsersOf(k)) = levels[k]
        /\ levels[k] \in Nat
    BY PastFinite, LevelTypes DEF LevelsOK
  <1>2. Busy(k) \subseteq UsersOf(k) /\ i \notin Busy(k)
    BY DEF Busy
  <1>3. /\ Cardinality(Busy(k)) <= Cardinality(UsersOf(k))
        /\ Cardinality(Busy(k)) # Cardinality(UsersOf(k))
        /\ Cardinality(Busy(k)) \in Nat
    BY <1>1, <1>2, FS_Subset, FS_CardinalityType
  <1> QED
    BY <1>1, <1>3 DEF Threads

\* So the call that has waited longest is taken.
LEMMA FirstIsTaken ==
    ASSUME LevelsOK, NEW k \in DOMAIN levels, NEW i \in UsersOf(k),
           user[k][i] = "queued"
    PROVE  \E j \in UsersOf(k) : Takes(k, j)
  <1> DEFINE Q == {j \in UsersOf(k) : user[k][j] = "queued"}
  <1>1. Q \subseteq Nat /\ Q # {}
    BY DEF UsersOf
  <1>2. PICK j \in Q : \A h \in Q : j <= h
    <2> HIDE DEF Q
    <2> QED
      BY <1>1, LeastOf
  <1> QED
    BY <1>2, ThreadIsFree DEF Takes

\* A barrier at which a thread waits opens, or a thread is still to come to it.
LEMMA BarrierFills ==
    ASSUME LevelsOK, BarrierOK, SubmitOK, main = "collecting",
           NEW i \in UsersOf(level), user[level][i] = "at_barrier",
           UsersOK, \A j \in UsersOf(level) : user[level][j] # "queued"
    PROVE  arrived[level] >= Parties(level)
  <1>1. mode = "burst" /\ level \in DOMAIN levels
    BY DEF SubmitOK, LevelsOK
  <1>2. \A j \in UsersOf(level) : user[level][j] \in UserStates \ {"none", "queued", "delayed"}
    <2>1. \A j \in UsersOf(level) : j <= submitted
      BY LevelTypes DEF SubmitOK, UsersOf, LevelsOK
    <2> QED
      BY <1>1, <2>1 DEF SubmitOK, BarrierOK, UsersOK
  <1>3. Past(level) = UsersOf(level)
    BY <1>2 DEF Past, UserStates
  <1>4. arrived[level] = levels[level] /\ levels[level] \in Nat
    BY <1>1, <1>3, PastFinite, LevelTypes DEF BarrierOK, LevelsOK
  <1> QED
    BY <1>4 DEF Parties

-----------------------------------------------------------------------------
(* The exit status. *)

\* main returns at the end of its last level, by all results; it does not come
\* past a level of no users.
ReturnOK ==
    main \in {"ok", "failed"} =>
        /\ level = Len(levels)
        /\ Collected(level) = UsersOf(level)
        /\ main = ExitCode(results)

NoLevelEmpty ==
    /\ \A k \in DOMAIN levels : k < level => levels[k] > 0
    /\ main \in {"collecting", "ok", "failed"} => levels[level] > 0
    /\ main = "aborted" => levels[level] = 0

ExitOK == ReturnOK /\ NoLevelEmpty

LEMMA ReturnStep ==
    ASSUME LevelsOK, UsersOK, OrderOK, ReturnOK, [GenNext]_genVars
    PROVE  ReturnOK'
  <1> USE LevelTypes DEF LevelsOK
  <1>1. CASE UNCHANGED genVars
    BY <1>1 DEF genVars, ReturnOK, ExitCode, Collected, UsersOf
  <1>2. ASSUME NEW k \in DOMAIN levels, NEW i \in UsersOf(k), ThreadStep(k, i)
        PROVE  ReturnOK'
    <2>1. /\ UNCHANGED <<levels, mode, level, main, submitted, results>>
          /\ user[k][i] # "over"
      BY <1>2, ThreadMoves
    <2>2. <<k, i>> \notin results
      BY <2>1 DEF OrderOK
    <2>3. \A m \in DOMAIN levels : \A j \in UsersOf(m) :
            m # k \/ j # i => outcome'[m][j] = outcome[m][j]
      <3>1. \/ outcome' = outcome
            \/ \E o : outcome' = [outcome EXCEPT ![k][i] = o]
        BY <1>2 DEF ThreadStep, Sleeps, SendsAtOnce, Wakes, ComesToBarrier,
                    LeavesBarrier, PostEnds
      <3> QED
        BY <3>1 DEF UsersOK
    <2>4. \A u \in results : outcome'[u[1]][u[2]] = outcome[u[1]][u[2]]
      <3> SUFFICES ASSUME NEW u \in results
                   PROVE  outcome'[u[1]][u[2]] = outcome[u[1]][u[2]]
        OBVIOUS
      <3>1. PICK m \in DOMAIN levels : u \in {m} \X UsersOf(m)
        BY DEF Users
      <3>2. u[1] = m /\ u[2] \in UsersOf(m) /\ u = <<m, u[2]>>
        BY <3>1
      <3>3. m # k \/ u[2] # i
        BY <3>2, <2>2
      <3> QED
        BY <3>2, <3>3, <2>3
    <2>5. ExitCode(results)' = ExitCode(results)
      BY <2>1, <2>4 DEF ExitCode, IsCompleted
    <2> QED
      BY <2>1, <2>5 DEF ReturnOK, Collected, UsersOf
  <1>3. ASSUME NEW i \in UsersOf(level), Submit(i) \/ Collect(i)
        PROVE  ReturnOK'
    BY <1>3 DEF Submit, Collect, ReturnOK
  <1>4. CASE NextLevel \/ Aborts
    BY <1>4 DEF NextLevel, Aborts, ReturnOK
  <1>5. CASE Exits
    BY <1>5 DEF Exits, ReturnOK, ExitCode, IsCompleted, LevelDone, Collected, UsersOf
  <1> QED
    BY <1>1, <1>2, <1>3, <1>4, <1>5 DEF GenNext, MainStep

LEMMA EmptyStep ==
    ASSUME LevelsOK, UsersOK, NoLevelEmpty, [GenNext]_genVars
    PROVE  NoLevelEmpty'
  <1>1. \A k \in DOMAIN levels : levels[k] \in Nat
    BY LevelTypes DEF LevelsOK
  <1>2. level \in DOMAIN levels /\ DOMAIN levels = 1 .. Len(levels)
    BY LevelTypes DEF LevelsOK
  <1>3. ASSUME UNCHANGED <<levels, level, main>>
        PROVE  NoLevelEmpty'
    BY <1>3 DEF NoLevelEmpty
  <1>4. ASSUME NEW k \in DOMAIN levels, NEW i \in UsersOf(k), ThreadStep(k, i)
        PROVE  NoLevelEmpty'
    BY <1>3, <1>4, ThreadMoves
  <1>5. ASSUME NEW i \in UsersOf(level), Submit(i) \/ Collect(i)
        PROVE  NoLevelEmpty'
    <2>1. levels[level] > 0
      BY <1>1, <1>2 DEF UsersOf
    <2>2. /\ UNCHANGED <<levels, level>>
          /\ main' \in {main, "collecting"} /\ main # "aborted"
      BY <1>5 DEF Submit, Collect
    <2> QED
      BY <2>1, <2>2 DEF NoLevelEmpty
  <1>6. CASE NextLevel
    <2>1. /\ UNCHANGED levels
          /\ level' = level + 1 /\ main' = "submitting" /\ main = "collecting"
      BY <1>6 DEF NextLevel
    <2>2. \A k \in DOMAIN levels : k < level + 1 => k < level \/ k = level
      BY <1>2
    <2> QED
      BY <2>1, <2>2 DEF NoLevelEmpty
  <1>7. CASE Aborts
    BY <1>7 DEF Aborts, NoLevelEmpty
  <1>8. CASE Exits
    BY <1>8 DEF Exits, ExitCode, NoLevelEmpty
  <1>9. CASE UNCHANGED genVars
    BY <1>3, <1>9 DEF genVars
  <1> QED
    BY <1>4, <1>5, <1>6, <1>7, <1>8, <1>9 DEF GenNext, MainStep

LEMMA ExitStep ==
    ASSUME LevelsOK, UsersOK, OrderOK, ExitOK, [GenNext]_genVars
    PROVE  ExitOK'
  BY ReturnStep, EmptyStep DEF ExitOK

\* When the last level is collected every user has a result.
LEMMA AllCollected ==
    ASSUME LevelsOK, OrderOK, level = Len(levels),
           Collected(level) = UsersOf(level)
    PROVE  results = Users
  <1>1. ASSUME NEW k \in DOMAIN levels
        PROVE  Collected(k) = UsersOf(k)
    BY <1>1, LevelTypes DEF OrderOK, LevelsOK
  <1>2. Users \subseteq results
    BY <1>1 DEF Users, Collected
  <1> QED
    BY <1>2 DEF LevelsOK

-----------------------------------------------------------------------------
(* Latencies in order. *)

\* f lists S, each element once, by ascending figures g.
Lists(f, n, S, g) ==
    /\ f \in [1 .. n -> S]
    /\ IsInjective(f)
    /\ \A i, j \in 1 .. n : i < j => g[f[i]] <= g[f[j]]

\* The element of the least figure goes before the rest of the list.
LEMMA ListsOneMore ==
    ASSUME NEW n \in Nat, NEW S, NEW g \in [S -> Nat], NEW v \in S,
           \A w \in S : g[v] <= g[w], NEW f, Lists(f, n, S \ {v}, g)
    PROVE  \E h : Lists(h, n + 1, S, g)
  <1> DEFINE h == [i \in 1 .. n + 1 |-> IF i = 1 THEN v ELSE f[i - 1]]
  <1>1. f \in [1 .. n -> S \ {v}] /\ DOMAIN f = 1 .. n
    BY DEF Lists
  <1>2. \A i \in 1 .. n + 1 : i # 1 => i - 1 \in 1 .. n
    OBVIOUS
  <1>3. /\ h \in [1 .. n + 1 -> S] /\ DOMAIN h = 1 .. n + 1
        /\ \A i \in 1 .. n + 1 : i # 1 => h[i] = f[i - 1] /\ h[i] # v
        /\ h[1] = v
    BY <1>1, <1>2
  <1> HIDE DEF h
  <1>4. IsInjective(h)
    <2> SUFFICES ASSUME NEW i \in 1 .. n + 1, NEW j \in 1 .. n + 1, h[i] = h[j]
                 PROVE  i = j
      BY <1>3 DEF IsInjective
    <2>1. CASE i = 1 \/ j = 1
      BY <1>3, <2>1
    <2>2. CASE i # 1 /\ j # 1
      <3>1. f[i - 1] = f[j - 1] /\ i - 1 \in 1 .. n /\ j - 1 \in 1 .. n
        BY <1>2, <1>3, <2>2
      <3>2. i - 1 = j - 1
        BY <1>1, <3>1 DEF Lists, IsInjective
      <3> QED
        BY <3>2
    <2> QED
      BY <2>1, <2>2
  <1>5. ASSUME NEW i \in 1 .. n + 1, NEW j \in 1 .. n + 1, i < j
        PROVE  g[h[i]] <= g[h[j]]
    <2>1. CASE i = 1
      BY <1>3, <2>1
    <2>2. CASE i # 1
      <3>1. /\ j # 1 /\ i - 1 \in 1 .. n /\ j - 1 \in 1 .. n /\ i - 1 < j - 1
            /\ h[i] = f[i - 1] /\ h[j] = f[j - 1]
        BY <1>2, <1>3, <1>5, <2>2
      <3> QED
        BY <3>1 DEF Lists
    <2> QED
      BY <2>1, <2>2
  <1> QED
    BY <1>3, <1>4, <1>5 DEF Lists

\* A finite set can be listed by ascending figures.
LEMMA ListExists ==
    ASSUME NEW S, IsFiniteSet(S), NEW g \in [S -> Nat]
    PROVE  \E f : Lists(f, Cardinality(S), S, g)
  <1> DEFINE Listed(T) == \E f : Lists(f, Cardinality(T), T, g)
             Bad == {T \in SUBSET S : ~ Listed(T)}
             Sizes == {Cardinality(T) : T \in Bad}
  <1>1. \A T \in SUBSET S : IsFiniteSet(T) /\ Cardinality(T) \in Nat
    BY FS_Subset, FS_CardinalityType
  <1> SUFFICES ASSUME Bad # {} PROVE FALSE
    BY Zenon
  <1>2. PICK T \in Bad : \A U \in Bad : Cardinality(T) <= Cardinality(U)
    <2>1. Sizes \subseteq Nat /\ Sizes # {}
      <3> HIDE DEF Listed
      <3> QED
        BY <1>1
    <2> HIDE DEF Listed
    <2>2. PICK n \in Sizes : \A m \in Sizes : n <= m
      <3> HIDE DEF Sizes
      <3> QED
        BY <2>1, LeastOf
    <2> QED
      BY <2>2
  <1>3. T \in SUBSET S /\ IsFiniteSet(T) /\ Cardinality(T) \in Nat /\ ~ Listed(T)
    BY <1>1
  <1>4. T # {}
    <2> SUFFICES ASSUME T = {} PROVE FALSE
      OBVIOUS
    <2>1. Cardinality(T) = 0
      BY FS_EmptySet
    <2>2. Lists(<<>>, 0, T, g)
      BY DEF Lists, IsInjective
    <2> QED
      BY <1>3, <2>1, <2>2
  <1>5. PICK v \in T : \A w \in T : g[v] <= g[w]
    <2> DEFINE F == {g[w] : w \in T}
    <2>1. F \subseteq Nat /\ F # {}
      BY <1>3, <1>4
    <2>2. PICK x \in F : \A y \in F : x <= y
      <3> HIDE DEF F
      <3> QED
        BY <2>1, LeastOf
    <2> QED
      BY <2>2
  <1> DEFINE R == T \ {v}
             k == Cardinality(R)
  <1>6. /\ k = Cardinality(T) - 1 /\ k \in Nat /\ R \in SUBSET S
    BY <1>1, <1>3, FS_RemoveElement
  <1>7. PICK f : Lists(f, k, R, g)
    <2>1. ~ (Cardinality(T) <= Cardinality(R))
      BY <1>3, <1>6
    <2>2. R \notin Bad
      <3> HIDE DEF Bad, R, Listed
      <3> QED
        BY <1>2, <2>1
    <2>3. Listed(R)
      <3> HIDE DEF Listed, R
      <3> QED
        BY <1>6, <2>2
    <2> QED
      BY <2>3
  <1>8. \E h : Lists(h, k + 1, T, g)
    <2> DEFINE gT == [w \in T |-> g[w]]
    <2>1. /\ gT \in [T -> Nat] /\ \A w \in T : gT[w] = g[w]
      BY <1>3
    <2>2. Lists(f, k, R, gT)
      BY <1>7, <2>1 DEF Lists
    <2> HIDE DEF gT, k
    <2>3. PICK h : Lists(h, k + 1, T, gT)
      <3>1. \A w \in T : gT[v] <= gT[w]
        BY <1>5, <2>1
      <3> QED
        BY <1>6, <2>1, <2>2, <3>1, ListsOneMore
    <2>4. h \in [1 .. k + 1 -> T]
      BY <2>3 DEF Lists
    <2>5. \A i \in 1 .. k + 1 : gT[h[i]] = g[h[i]]
      BY <2>1, <2>4
    <2>6. Lists(h, k + 1, T, g)
      BY <2>3, <2>5 DEF Lists
    <2> QED
      BY <2>6
  <1>9. k + 1 = Cardinality(T)
    BY <1>3, <1>6
  <1> QED
    BY <1>3, <1>8, <1>9

\* The latencies of the completed calls are numbers, as many as there are
\* such calls, in ascending order.
LEMMA OrderedIs ==
    ASSUME UsersOK, NEW k \in DOMAIN levels, levels[k] \in Nat
    PROVE  LET values == Ordered({k} \X Collected(k))
           IN  /\ Len(values) \in Nat
               /\ DOMAIN values = 1 .. Len(values)
               /\ \A i \in DOMAIN values : values[i] \in Nat
               /\ \A i, j \in DOMAIN values : i < j => values[i] <= values[j]
               /\ values # <<>> => Len(values) # 0
  <1> DEFINE R == {k} \X Collected(k)
             completed == {u \in R : IsCompleted(outcome[u[1]][u[2]])}
             latency(u) == outcome[u[1]][u[2]].latency
             N == Cardinality(completed)
             g == [u \in completed |-> latency(u)]
             Is(f) == /\ IsInjective(f)
                      /\ \A i, j \in DOMAIN f : i < j => latency(f[i]) <= latency(f[j])
             order == CHOOSE f \in [1 .. N -> completed] : Is(f)
  <1>1. \A u \in R : u[1] = k /\ u[2] \in UsersOf(k) /\ u = <<k, u[2]>>
    BY DEF Collected
  <1>2. IsFiniteSet(completed) /\ N \in Nat
    <2>1. IsFiniteSet(UsersOf(k))
      BY FS_Interval DEF UsersOf
    <2>2. IsFiniteSet({k} \X UsersOf(k))
      BY <2>1, FS_Singleton, FS_Product
    <2>3. completed \subseteq {k} \X UsersOf(k)
      BY DEF Collected
    <2> QED
      BY <2>2, <2>3, FS_Subset, FS_CardinalityType
  <1>3. ASSUME NEW u \in completed
        PROVE  latency(u) \in Nat
    <2>1. outcome[k][u[2]] \in Outcomes \cup {NoOutcome}
      BY <1>1 DEF UsersOK
    <2>2. \A o \in Outcomes \cup {NoOutcome} : o.latency \in Nat
      <3>1. \A o \in Outcomes : o.latency \in Latencies \cup {0}
        BY DEF Outcomes
      <3>2. NoOutcome.latency = 0
        BY DEF NoOutcome
      <3>3. \A l \in Latencies \cup {0} : l \in Nat
        BY LatenciesAssumption
      <3> SUFFICES ASSUME NEW o \in Outcomes \cup {NoOutcome}
                   PROVE  o.latency \in Latencies \cup {0}
        BY <3>3
      <3>4. CASE o \in Outcomes
        BY <3>1, <3>4
      <3>5. CASE o = NoOutcome
        BY <3>2, <3>5
      <3> QED
        BY <3>4, <3>5
    <2> QED
      BY <1>1, <2>1, <2>2
  <1>4. g \in [completed -> Nat]
    BY <1>3
  <1>5. \E f \in [1 .. N -> completed] : Is(f)
    <2>1. PICK f : Lists(f, N, completed, g)
      <3> HIDE DEF g, completed
      <3> QED
        BY <1>2, <1>4, ListExists
    <2>2. f \in [1 .. N -> completed] /\ DOMAIN f = 1 .. N
      BY <2>1 DEF Lists
    <2>3. \A i \in 1 .. N : g[f[i]] = latency(f[i])
      <3> HIDE DEF completed, latency
      <3> QED
        BY <2>2
    <2>4. Is(f)
      <3> HIDE DEF g, completed, latency
      <3> QED
        BY <2>1, <2>2, <2>3 DEF Lists
    <2> QED
      BY <2>2, <2>4
  <1>6. order \in [1 .. N -> completed] /\ Is(order)
    <2> HIDE DEF Is, N, completed
    <2> QED
      BY <1>5
  <1> DEFINE values == [n \in DOMAIN order |-> latency(order[n])]
  <1>7. Ordered(R) = values
    BY DEF Ordered
  <1> HIDE DEF order, completed, latency, N, R
  <1>8. DOMAIN order = 1 .. N
    BY <1>6
  <1>9. values \in [1 .. N -> Nat]
    BY <1>3, <1>6, <1>8
  <1>10. Len(values) = N /\ DOMAIN values = 1 .. N
    BY <1>2, <1>9
  <1>11. \A i, j \in 1 .. N : i < j => values[i] <= values[j]
    BY <1>6, <1>8
  <1>12. values # <<>> => N # 0
    <2> SUFFICES ASSUME N = 0 PROVE values = <<>>
      OBVIOUS
    <2>1. values \in Seq(Nat)
      BY <1>2, <1>9
    <2> QED
      BY <1>10, <2>1, EmptySeq
  <1> HIDE DEF values
  <1> QED
    BY <1>2, <1>7, <1>9, <1>10, <1>11, <1>12 DEF R

\* Where percentile looks, and how that compares with the share.
LEMMA PositionIs ==
    ASSUME NEW N \in Nat \ {0}, NEW p \in 0 .. 100,
           NEW q, q = (N * p) \div 100 + 1, NEW r, r = IF q < N THEN q ELSE N
    PROVE  /\ r \in 1 .. N
           /\ 100 * (r - 1) <= p * N
           /\ 100 * r >= p * N
  <1> DEFINE x == N * p
             d == x \div 100
  <1>1. x \in Nat /\ x = p * N
    OBVIOUS
  <1>2. x <= 100 * N
    OBVIOUS
  <1> HIDE DEF x
  <1>3. d \in Nat /\ 100 * d <= x /\ x < 100 * d + 100
    BY <1>1
  <1>4. q = d + 1
    BY DEF x
  <1> HIDE DEF d
  <1> QED
    BY <1>1, <1>2, <1>3, <1>4

\* At most the share is below the value at that place, at least it up to it.
LEMMA QuantileAt ==
    ASSUME NEW N \in Nat, NEW values, DOMAIN values = 1 .. N,
           \A i \in 1 .. N : values[i] \in Nat,
           \A i, j \in 1 .. N : i < j => values[i] <= values[j],
           NEW r \in 1 .. N
    PROVE  /\ Cardinality({n \in 1 .. N : values[n] < values[r]}) \in 0 .. r - 1
           /\ Cardinality({n \in 1 .. N : values[n] <= values[r]}) \in Nat
           /\ Cardinality({n \in 1 .. N : values[n] <= values[r]}) >= r
  <1> DEFINE Below == {n \in 1 .. N : values[n] < values[r]}
             AtOrBelow == {n \in 1 .. N : values[n] <= values[r]}
  <1>1. Below \subseteq 1 .. r - 1
    <2> SUFFICES ASSUME NEW n \in 1 .. N, values[n] < values[r]
                 PROVE  n \in 1 .. r - 1
      OBVIOUS
    <2>1. ~ (r < n) /\ r # n
      OBVIOUS
    <2> QED
      BY <2>1
  <1>2. 1 .. r \subseteq AtOrBelow
    <2> SUFFICES ASSUME NEW n \in 1 .. r
                 PROVE  n \in 1 .. N /\ values[n] <= values[r]
      OBVIOUS
    <2>1. n = r \/ n < r
      OBVIOUS
    <2> QED
      BY <2>1
  <1>3. /\ IsFiniteSet(1 .. r - 1) /\ Cardinality(1 .. r - 1) = r - 1
        /\ Cardinality(1 .. r) = r /\ IsFiniteSet(1 .. N)
    <2>1. r \in Int /\ r - 1 \in Int /\ N \in Int /\ 1 <= r
      OBVIOUS
    <2>2. /\ IsFiniteSet(1 .. r - 1)
          /\ Cardinality(1 .. r - 1) = IF 1 > r - 1 THEN 0 ELSE (r - 1) - 1 + 1
      BY <2>1, FS_Interval
    <2>3. Cardinality(1 .. r) = IF 1 > r THEN 0 ELSE r - 1 + 1
      BY <2>1, FS_Interval
    <2>4. IsFiniteSet(1 .. N)
      BY <2>1, FS_Interval
    <2> QED
      BY <2>1, <2>2, <2>3, <2>4
  <1> HIDE DEF Below
  <1>4. Cardinality(Below) <= r - 1 /\ Cardinality(Below) \in Nat
    BY <1>1, <1>3, FS_Subset, FS_CardinalityType
  <1>5. IsFiniteSet(AtOrBelow)
    <2>1. AtOrBelow \subseteq 1 .. N
      OBVIOUS
    <2> QED
      BY <1>3, <2>1, FS_Subset
  <1> HIDE DEF AtOrBelow
  <1>6. Cardinality(AtOrBelow) >= r /\ Cardinality(AtOrBelow) \in Nat
    BY <1>2, <1>3, <1>5, FS_Subset, FS_CardinalityType
  <1> QED
    BY <1>4, <1>6 DEF Below, AtOrBelow

LEMMA QuantileOfLevel ==
    ASSUME LevelsOK, UsersOK, NEW k \in DOMAIN levels, NEW p \in Percents
    PROVE  LET values == Ordered({k} \X Collected(k))
               value  == Percentile(values, p)
               Below(v) == {n \in DOMAIN values : values[n] < v}
               AtOrBelow(v) == {n \in DOMAIN values : values[n] <= v}
           IN  values # <<>> =>
                 /\ 100 * Cardinality(Below(value)) <= p * Len(values)
                 /\ 100 * Cardinality(AtOrBelow(value)) >= p * Len(values)
  <1> DEFINE values == Ordered({k} \X Collected(k))
             value == Percentile(values, p)
             N == Len(values)
             q == (N * p) \div 100 + 1
             r == IF q < N THEN q ELSE N
  <1> SUFFICES ASSUME values # <<>>
               PROVE  /\ 100 * Cardinality({n \in DOMAIN values : values[n] < value})
                           <= p * N
                      /\ 100 * Cardinality({n \in DOMAIN values : values[n] <= value})
                           >= p * N
    BY Zenon
  <1>1. levels[k] \in Nat
    BY LevelTypes DEF LevelsOK
  <1>2. /\ N \in Nat \ {0}
        /\ DOMAIN values = 1 .. N
        /\ \A i \in 1 .. N : values[i] \in Nat
        /\ \A i, j \in 1 .. N : i < j => values[i] <= values[j]
    BY <1>1, OrderedIs
  <1>3. p \in 0 .. 100
    BY PercentsAssumption
  <1> HIDE DEF values
  <1>4. r \in 1 .. N /\ 100 * (r - 1) <= p * N /\ 100 * r >= p * N
    <2>1. q = (N * p) \div 100 + 1 /\ r = IF q < N THEN q ELSE N
      OBVIOUS
    <2>2. N \in Nat \ {0}
      BY <1>2
    <2> HIDE DEF N, q, r
    <2> QED
      BY <1>3, <2>1, <2>2, PositionIs, ZenonT(60)
  <1>5. value = values[r]
    BY DEF Percentile
  <1> HIDE DEF r, q, value
  <1> DEFINE b == Cardinality({n \in 1 .. N : values[n] < values[r]})
             a == Cardinality({n \in 1 .. N : values[n] <= values[r]})
  <1>6. b \in 0 .. r - 1 /\ a \in Nat /\ a >= r
    <2> HIDE DEF N
    <2> QED
      BY <1>2, <1>4, QuantileAt
  <1>7. 100 * b <= p * N /\ 100 * a >= p * N
    <2> DEFINE x == p * N
    <2>1. x \in Nat
      BY <1>2, <1>3
    <2> HIDE DEF a, b, x, N
    <2>2. 100 * (r - 1) <= x /\ 100 * r >= x
      BY <1>4 DEF x
    <2>3. 100 * b <= x /\ 100 * a >= x
      BY <1>2, <1>4, <1>6, <2>1, <2>2
    <2> QED
      BY <2>3 DEF x
  <1> QED
    BY <1>2, <1>5, <1>7

-----------------------------------------------------------------------------
(* The theorems. *)

GenInv ==
    /\ LevelsOK /\ UsersOK
    /\ OrderOK /\ SubmitOK
    /\ BarrierOK /\ BurstTogether
    /\ ExitOK

LEMMA GenInvInit == ASSUME GenInit PROVE GenInv
  <1>1. levels \in LevelLists /\ mode \in Modes
    BY DEF GenInit
  <1>2. 1 \in DOMAIN levels /\ \A k \in DOMAIN levels : levels[k] \in Nat
    BY <1>1, LevelTypes
  <1>3. LevelsOK
    BY <1>2 DEF GenInit, LevelsOK, MainStates
  <1>4. \A k \in DOMAIN levels : \A i \in UsersOf(k) : user[k][i] = "none"
    BY DEF GenInit
  <1>5. UsersOK
    BY DEF GenInit, UsersOK, UserStates
  <1>6. OrderOK
    BY <1>2, <1>4, LevelTypes DEF GenInit, OrderOK
  <1>7. \A k \in DOMAIN levels : Cardinality(Past(k)) = 0 /\ arrived[k] = 0
    <2>1. \A k \in DOMAIN levels : Past(k) = {} /\ arrived[k] = 0
      BY <1>4 DEF Past, GenInit
    <2> QED
      BY <2>1, FS_EmptySet
  <1>8. BarrierOK
    BY <1>4, <1>7 DEF BarrierOK
  <1>9. BurstTogether /\ ExitOK
    <2>1. \A k \in DOMAIN levels : ~(k < 1)
      BY <1>1, LevelTypes
    <2> QED
      BY <1>4, <2>1 DEF GenInit, BurstTogether, ExitOK, ReturnOK, NoLevelEmpty
  <1>10. SubmitOK
    BY <1>2, <1>4 DEF GenInit, SubmitOK, UsersOf
  <1> QED
    BY <1>3, <1>5, <1>6, <1>8, <1>9, <1>10 DEF GenInv

LEMMA GenInvStep == ASSUME GenInv, [GenNext]_genVars PROVE GenInv'
  BY TypeStep, OrderStep, SubmitStep, BarrierStep, BurstStep, ExitStep
     DEF GenInv

LEMMA GenInvCorrect == GenSpec => []GenInv
  BY GenInvInit, GenInvStep, PTL DEF GenSpec

\* The variables keep their types.
THEOREM GenTypeCorrect == GenSpec => []GenTypeOK
  <1>1. GenInv => GenTypeOK
    BY DEF GenInv, LevelsOK, UsersOK, GenTypeOK
  <1> QED
    BY <1>1, GenInvCorrect, PTL

\* A burst is a burst (run_level, send_one): no thread sends before all of its
\* level have come to the barrier.
THEOREM BurstTogetherCorrect == GenSpec => []BurstTogether
  <1>1. GenInv => BurstTogether
    BY DEF GenInv
  <1> QED
    BY <1>1, GenInvCorrect, PTL

\* The levels follow each other (main, run_level): no call of one is made
\* before every result of those before it is collected.
THEOREM LevelsApartCorrect == GenSpec => []LevelsApart
  <1>1. ASSUME GenInv
        PROVE  LevelsApart
    <2> SUFFICES ASSUME NEW k \in DOMAIN levels, NEW m \in DOMAIN levels,
                        NEW i \in UsersOf(m), k < m, user[m][i] # "none"
                 PROVE  Collected(k) = UsersOf(k)
      BY DEF LevelsApart
    <2>1. m <= level
      BY <1>1, LevelTypes DEF GenInv, LevelsOK, OrderOK
    <2>2. k < level
      BY <2>1, <1>1, LevelTypes DEF GenInv, LevelsOK
    <2> QED
      BY <2>2, <1>1 DEF GenInv, OrderOK
  <1> QED
    BY <1>1, GenInvCorrect, PTL

\* The exit status (main, sys.exit) is 0 if and only if no level was without
\* users and every user of every level got a result; where main returns it, all
\* results are in.
THEOREM ExitTellsTruthCorrect == GenSpec => []ExitTellsTruth
  <1>1. ASSUME GenInv
        PROVE  ExitTellsTruth
    <2> DEFINE Fine == \A k \in DOMAIN levels :
                         /\ levels[k] > 0
                         /\ \A i \in UsersOf(k) : IsCompleted(outcome[k][i])
    <2>1. ASSUME main \in {"ok", "failed"}
          PROVE  results = Users /\ main = ExitCode(results)
      BY <1>1, <2>1, AllCollected DEF GenInv, ExitOK, ReturnOK
    <2>2. ASSUME main = "ok"
          PROVE  Fine
      <3>1. ASSUME NEW k \in DOMAIN levels, NEW i \in UsersOf(k)
            PROVE  IsCompleted(outcome[k][i])
        <4>1. <<k, i>> \in results
          BY <2>1, <2>2, UsersAre
        <4> QED
          BY <2>1, <2>2, <4>1 DEF ExitCode
      <3>2. ASSUME NEW k \in DOMAIN levels
            PROVE  levels[k] > 0
        <4>1. level = Len(levels) /\ (k < level \/ k = level)
          BY <1>1, <2>2, LevelTypes DEF GenInv, LevelsOK, ExitOK, ReturnOK
        <4> QED
          BY <1>1, <2>2, <4>1 DEF GenInv, ExitOK, NoLevelEmpty
      <3> QED
        BY <3>1, <3>2
    <2>3. ASSUME main = "failed"
          PROVE  ~Fine
      <3>1. PICK u \in Users : ~IsCompleted(outcome[u[1]][u[2]])
        BY <2>1, <2>3 DEF ExitCode
      <3>2. PICK k \in DOMAIN levels : u \in {k} \X UsersOf(k)
        BY DEF Users
      <3>3. u[1] = k /\ u[2] \in UsersOf(k)
        BY <3>2
      <3> QED
        BY <3>1, <3>3
    <2>4. ASSUME main = "aborted"
          PROVE  ~Fine
      <3>1. level \in DOMAIN levels /\ levels[level] = 0
        BY <1>1, <2>4 DEF GenInv, LevelsOK, ExitOK, NoLevelEmpty
      <3> QED
        BY <3>1
    <2> QED
      BY <2>1, <2>2, <2>3, <2>4 DEF ExitTellsTruth, Ended, ExitStatus
  <1> QED
    BY <1>1, GenInvCorrect, PTL

\* What percentile returns is a quantile of the latencies of a level, for any
\* number of them and any share.
THEOREM PercentileIsQuantileCorrect == GenSpec => []PercentileIsQuantile
  <1>1. ASSUME GenInv
        PROVE  PercentileIsQuantile
    <2>1. LevelsOK /\ UsersOK
      BY <1>1 DEF GenInv
    <2> QED
      BY <2>1, QuantileOfLevel, Zenon DEF PercentileIsQuantile
  <1> QED
    BY <1>1, GenInvCorrect, PTL

\* While calls of a level are out one of them can go on (run_level): the pool
\* has a thread for every call, and a barrier opens when all have come.
THEOREM NobodyLeftBehindCorrect == GenSpec => []NobodyLeftBehind
  <1>1. ASSUME GenInv
        PROVE  NobodyLeftBehind
    <2> USE <1>1 DEF GenInv
    <2>1. main = "submitting" => submitted < levels[level] \/ levels[level] = 0
      BY DEF SubmitOK
    <2>2. ASSUME main = "collecting", ~LevelDone(level)
          PROVE  \E i \in UsersOf(level) : CanGoOn(level, i)
      <3>1. PICK i \in UsersOf(level) : <<level, i>> \notin results
        BY <2>2 DEF LevelDone, Collected
      <3>2. level \in DOMAIN levels /\ submitted = levels[level]
        BY <2>2 DEF LevelsOK, SubmitOK
      <3>3. user[level][i] \in UserStates \ {"none"}
        <4>1. i <= submitted
          BY <3>2, LevelTypes DEF UsersOf, LevelsOK
        <4> QED
          BY <3>2, <4>1 DEF SubmitOK, UsersOK
      <3>4. ASSUME NEW j \in UsersOf(level), user[level][j] = "queued"
            PROVE  \E h \in UsersOf(level) : CanGoOn(level, h)
        BY <3>2, <3>4, FirstIsTaken DEF CanGoOn
      <3>5. ASSUME user[level][i] = "at_barrier",
                   \A j \in UsersOf(level) : user[level][j] # "queued"
            PROVE  CanGoOn(level, i)
        BY <2>2, <3>5, BarrierFills DEF CanGoOn
      <3>6. CASE user[level][i] \in {"delayed", "posting", "over"}
        BY <3>1, <3>6 DEF CanGoOn
      <3> QED
        BY <3>3, <3>4, <3>5, <3>6 DEF UserStates
    <2> QED
      BY <2>1, <2>2 DEF NobodyLeftBehind
  <1> QED
    BY <1>1, GenInvCorrect, PTL
=============================================================================
