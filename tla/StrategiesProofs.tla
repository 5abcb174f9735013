--------------------------- MODULE StrategiesProofs ---------------------------
(***************************************************************************)
(* The strategies for any set of workers and any figures.                  *)
(***************************************************************************)
EXTENDS Strategies, WellFoundedInduction, FiniteSetTheorems,
        SequenceTheorems, TLAPS

-----------------------------------------------------------------------------
(* The least of a list. *)

\* A non-empty set of naturals has a least element.
LEMMA LeastNatural ==
    ASSUME NEW T, T \subseteq Nat, T # {}
    PROVE  \E x \in T : \A y \in T : x <= y
  <1>1. PICK x \in T : \A y \in T : ~ (<<y, x>> \in OpToRel(<, Nat))
    BY WFMin, NatLessThanWellFounded
  <1>2. \A y \in T : ~ (y < x)
    BY <1>1 DEF OpToRel
  <1> QED
    BY <1>2

\* The figures of the workers of a list are natural numbers.
LEMMA FiguresAre ==
    ASSUME figure \in [Nodes -> Figures], NEW s \in Seq(Nodes)
    PROVE  /\ DOMAIN s = 1 .. Len(s) /\ Len(s) \in Nat
           /\ \A i \in DOMAIN s : s[i] \in Nodes /\ figure[s[i]] \in Nat
  <1>1. DOMAIN s = 1 .. Len(s) /\ Len(s) \in Nat
    OBVIOUS
  <1>2. \A i \in DOMAIN s : s[i] \in Nodes
    BY <1>1
  <1>3. \A n \in Nodes : figure[n] \in Nat
    BY StrategiesAssumption
  <1> QED
    BY <1>1, <1>2, <1>3

\* min returns a position of a least figure.
LEMMA LeastIs ==
    ASSUME figure \in [Nodes -> Figures], NEW s \in Seq(Nodes),
           NEW P, P \subseteq DOMAIN s, P # {}
    PROVE  /\ LeastOf(s, P) \in P
           /\ \A j \in P : \/ figure[s[LeastOf(s, P)]] < figure[s[j]]
                           \/ /\ figure[s[LeastOf(s, P)]] = figure[s[j]]
                              /\ LeastOf(s, P) <= j
  <1> DEFINE F == {figure[s[i]] : i \in P}
             Best(i) == \A j \in P : \/ figure[s[i]] < figure[s[j]]
                                     \/ figure[s[i]] = figure[s[j]] /\ i <= j
  <1>1. F \subseteq Nat /\ F # {} /\ P \subseteq Nat
    BY FiguresAre
  <1>2. PICK f \in F : \A g \in F : f <= g
    BY <1>1, LeastNatural
  <1> DEFINE Q == {i \in P : figure[s[i]] = f}
  <1>3. Q \subseteq Nat /\ Q # {}
    BY <1>1
  <1>4. PICK i \in Q : \A j \in Q : i <= j
    <2> HIDE DEF Q
    <2> QED
      BY <1>3, LeastNatural
  <1>5. Best(i)
    <2> SUFFICES ASSUME NEW j \in P
                 PROVE  \/ figure[s[i]] < figure[s[j]]
                        \/ figure[s[i]] = figure[s[j]] /\ i <= j
      OBVIOUS
    <2>1. figure[s[j]] \in F /\ figure[s[i]] = f
      BY <1>4
    <2>2. f <= figure[s[j]] /\ f \in Nat /\ figure[s[j]] \in Nat
      BY <1>1, <1>2, <2>1
    <2>3. figure[s[j]] = f => i <= j
      BY <1>4
    <2> QED
      BY <2>1, <2>2, <2>3
  <1>6. i \in P /\ Best(i)
    BY <1>4, <1>5
  <1>7. LeastOf(s, P) = CHOOSE n \in P : Best(n)
    BY DEF LeastOf
  <1> HIDE DEF Best
  <1>8. LeastOf(s, P) \in P /\ Best(LeastOf(s, P))
    BY <1>6, <1>7
  <1> QED
    BY <1>8 DEF Best

-----------------------------------------------------------------------------
(* Positions modulo the length of the list. *)

LEMMA Quotient ==
    ASSUME NEW i \in Nat, NEW n \in Nat \ {0}
    PROVE  i \div n \in Nat /\ i % n \in 0 .. n - 1 /\ i = n * (i \div n) + (i % n)
  BY SMT

LEMMA RangesOfNaturals ==
    ASSUME NEW n \in Nat, NEW x \in 0 .. n - 1
    PROVE  x \in Nat
  OBVIOUS

LEMMA MultiplesApart ==
    ASSUME NEW n \in Nat, NEW a \in Nat, NEW b \in Nat, a < b
    PROVE  n * a + n <= n * b
  <1>1. PICK d \in Nat : b = a + 1 + d
    BY SMT
  <1>2. n * b = n * a + n + n * d
    BY <1>1, SMT
  <1>3. n * d \in Nat /\ n * a \in Nat
    BY SMT
  <1> QED
    BY <1>2, <1>3, SMT

LEMMA RemainderIsUnique ==
    ASSUME NEW n \in Nat, NEW a \in Nat, NEW b \in Nat,
           NEW r \in 0 .. n - 1, NEW s \in 0 .. n - 1, n * a + r = n * b + s
    PROVE  r = s
  <1>1. n * a \in Nat /\ n * b \in Nat
    BY SMT
  <1>2. a < b => n * a + n <= n * b
    BY MultiplesApart
  <1>3. b < a => n * b + n <= n * a
    BY MultiplesApart
  <1>4. a = b
    BY <1>1, <1>2, <1>3
  <1> QED
    BY <1>1, <1>4

\* The position that follows x in a list of n.
Successor(x, n) == IF x + 1 = n THEN 0 ELSE x + 1

LEMMA NextPosition ==
    ASSUME NEW i \in Nat, NEW n \in Nat \ {0}
    PROVE  (i + 1) % n = Successor(i % n, n)
  <1> DEFINE a == (i + 1) \div n
             r == (i + 1) % n
             b == i \div n
             s == i % n
             c == IF s + 1 = n THEN b + 1 ELSE b
  <1>1. /\ a \in Nat /\ r \in 0 .. n - 1 /\ i + 1 = n * a + r
        /\ b \in Nat /\ s \in 0 .. n - 1 /\ i = n * b + s
    <2>1. i + 1 \in Nat
      OBVIOUS
    <2> QED
      BY <2>1, Quotient
  <1> HIDE DEF a, r, b, s
  <1>2. n * (b + 1) = n * b + n /\ n * b \in Nat
    BY <1>1
  <1>3. n * a + r = n * c + Successor(s, n)
    BY <1>1, <1>2 DEF Successor
  <1>4. c \in Nat /\ Successor(s, n) \in 0 .. n - 1
    BY <1>1 DEF Successor
  <1> HIDE DEF c
  <1>5. r = Successor(s, n)
    BY <1>1, <1>3, <1>4, RemainderIsUnique
  <1> QED
    BY <1>5 DEF r, s

-----------------------------------------------------------------------------
(* The turns of round_robin. *)

\* The lists a strategy may see.
LEMMA RostersAre ==
    ASSUME NEW s \in Rosters
    PROVE  s \in Seq(Nodes) /\ IsInjective(s)
  <1>1. PICK k \in 0 .. Cardinality(Nodes) : s \in [1 .. k -> Nodes]
    BY DEF Rosters
  <1>2. Cardinality(Nodes) \in Nat
    BY StrategiesAssumption, FS_CardinalityType
  <1>3. s \in Seq(Nodes)
    BY <1>1, <1>2, SeqDef
  <1> QED
    BY <1>3 DEF Rosters

\* The positions already passed in the present turn, which began at start and
\* has come to x.
Passed(start, x, p) ==
    \/ start <= p /\ p < x
    \/ x < start /\ (start <= p \/ p < x)

\* Of the present list every worker has been chosen in each of the full turns,
\* and those passed in the present turn once more.
InTurn(full, start) ==
    \A p \in 0 .. Len(roster) - 1 :
        turns[roster[p + 1]] =
            IF Passed(start, index % Len(roster), p) THEN full + 1 ELSE full

TurnsOK ==
    strategy = "round_robin" /\ roster # <<>> =>
        \E full \in Nat : \E start \in 0 .. Len(roster) - 1 : InTurn(full, start)

StratInv == StratTypeOK /\ roster \in Rosters /\ TurnsOK

\* Nobody has been chosen from a list that is new.
LEMMA NewTurns ==
    ASSUME roster \in Rosters, turns = NoTurns, index \in Nat
    PROVE  TurnsOK
  <1> SUFFICES ASSUME roster # <<>>
               PROVE  \E start \in 0 .. Len(roster) - 1 : InTurn(0, start)
    BY DEF TurnsOK
  <1>1. Len(roster) \in Nat \ {0} /\ roster \in Seq(Nodes)
    BY RostersAre
  <1>2. index % Len(roster) \in 0 .. Len(roster) - 1
    BY <1>1, Quotient
  <1>3. \A p \in 0 .. Len(roster) - 1 : roster[p + 1] \in Nodes
    BY <1>1
  <1>4. InTurn(0, index % Len(roster))
    BY <1>2, <1>3 DEF InTurn, Passed, NoTurns
  <1> QED
    BY <1>2, <1>4

\* One choice more.
LEMMA TurnTaken ==
    ASSUME StratInv, Choose, strategy = "round_robin", roster # <<>>
    PROVE  TurnsOK'
  <1> DEFINE n == Len(roster)
             x == index % n
             y == index' % n
  <1>1. roster \in Seq(Nodes) /\ IsInjective(roster) /\ n \in Nat \ {0}
    BY RostersAre DEF StratInv
  <1>2. index \in Nat /\ turns \in [Nodes -> Nat]
    BY DEF StratInv, StratTypeOK
  <1>3. x \in 0 .. n - 1
    BY <1>1, <1>2, Quotient
  <1>4. index' = Successor(x, n) /\ index' \in 0 .. n - 1
    <2>1. index' = (index + 1) % n
      BY DEF Choose, NextIndex
    <2> QED
      <3>1. (index + 1) % n = Successor(index % n, n)
        BY <1>1, <1>2, NextPosition
      <3>2. Successor(x, n) \in 0 .. n - 1
        <4> HIDE DEF x, n
        <4> QED
          BY <1>1, <1>3 DEF Successor
      <3> QED
        BY <2>1, <3>1, <3>2
  <1>5. y = Successor(x, n)
    <2>1. \A i \in 0 .. n - 1 : i % n = i
      BY <1>1, SMT
    <2> QED
      BY <1>4, <2>1
  <1>6. turns' = [turns EXCEPT ![roster[x + 1]] = @ + 1]
    BY DEF Choose, SelectWorker, RoundRobin
  <1>7. \A p \in 0 .. n - 1 : roster[p + 1] \in Nodes
    BY <1>1
  <1>8. \A p \in 0 .. n - 1 : p # x => roster[p + 1] # roster[x + 1]
    <2>1. \A p \in 0 .. n - 1 : p + 1 \in DOMAIN roster
      BY <1>1
    <2> QED
      BY <2>1, <1>1, <1>3 DEF IsInjective
  <1>9. PICK full \in Nat, start \in 0 .. n - 1 : InTurn(full, start)
    BY DEF StratInv, TurnsOK
  <1>10. UNCHANGED <<strategy, roster>>
    BY DEF Choose
  <1>11. \A p \in 0 .. n - 1 :
           turns'[roster[p + 1]] = IF p = x THEN turns[roster[p + 1]] + 1
                                   ELSE turns[roster[p + 1]]
    BY <1>2, <1>3, <1>6, <1>7, <1>8
  <1>12. \A p \in 0 .. n - 1 :
           turns[roster[p + 1]] = IF Passed(start, x, p) THEN full + 1 ELSE full
    BY <1>9 DEF InTurn
  <1>13. n' = n /\ roster' = roster /\ y = index' % Len(roster')
    BY <1>10
  <1> HIDE DEF n, x, y
  <1>14. CASE y # start
    <2>1. \A p \in 0 .. n - 1 :
            Passed(start, y, p) <=> Passed(start, x, p) \/ p = x
      BY <1>1, <1>3, <1>5, <1>14 DEF Passed, Successor
    <2>2. ~ Passed(start, x, x)
      BY <1>1, <1>3 DEF Passed
    <2>3. \A p \in 0 .. n - 1 :
            turns'[roster[p + 1]] = IF Passed(start, y, p) THEN full + 1 ELSE full
      BY <1>11, <1>12, <2>1, <2>2
    <2>4. InTurn(full, start)'
      BY <2>3, <1>13 DEF InTurn, n
    <2> QED
      BY <2>4, <1>13 DEF TurnsOK, n
  <1>15. CASE y = start
    <2>1. \A p \in 0 .. n - 1 : Passed(start, x, p) <=> p # x
      BY <1>1, <1>3, <1>5, <1>15 DEF Passed, Successor
    <2>2. \A p \in 0 .. n - 1 : ~ Passed(start, y, p)
      BY <1>1, <1>15 DEF Passed
    <2>3. \A p \in 0 .. n - 1 :
            turns'[roster[p + 1]] =
                IF Passed(start, y, p) THEN full + 2 ELSE full + 1
      BY <1>11, <1>12, <2>1, <2>2
    <2>4. InTurn(full + 1, start)'
      BY <2>2, <2>3, <1>13 DEF InTurn, n
    <2> QED
      BY <2>4, <1>13 DEF TurnsOK, n
  <1> QED
    BY <1>14, <1>15

-----------------------------------------------------------------------------
(* The invariant and the theorems. *)

LEMMA ListNotEmpty ==
    ASSUME NEW s \in Seq(Nodes), s # <<>>
    PROVE  DOMAIN s # {} /\ Len(s) \in Nat \ {0} /\ DOMAIN s = 1 .. Len(s)
  OBVIOUS

\* What is chosen is on the list.
LEMMA ChoiceIsListed ==
    ASSUME figure \in [Nodes -> Figures], index \in Nat, strategy \in Names,
           NEW s \in Seq(Nodes), s # <<>>
    PROVE  SelectWorker(s) \in Nodes /\ SelectWorker(s) \in Range(s)
  <1>1. DOMAIN s # {} /\ Len(s) \in Nat \ {0} /\ DOMAIN s = 1 .. Len(s)
    BY ListNotEmpty
  <1>2. \A i \in DOMAIN s : s[i] \in Nodes /\ s[i] \in Range(s)
    BY FiguresAre DEF Range
  <1>3. Least(s) \in Nodes /\ Least(s) \in Range(s)
    BY <1>1, <1>2, LeastIs DEF Least
  <1>4. LoadAware(s) \in Nodes /\ LoadAware(s) \in Range(s)
    <2> DEFINE P == IF Eligible(s) = {} THEN DOMAIN s ELSE Eligible(s)
    <2>1. P \subseteq DOMAIN s /\ P # {}
      BY <1>1 DEF Eligible
    <2>2. LeastOf(s, P) \in DOMAIN s
      <3> HIDE DEF P
      <3> QED
        BY <2>1, LeastIs
    <2> QED
      BY <2>2, <1>2 DEF LoadAware
  <1>5. RoundRobin(s, index) \in Nodes /\ RoundRobin(s, index) \in Range(s)
    <2>1. index % Len(s) \in 0 .. Len(s) - 1
      BY <1>1, Quotient
    <2>2. (index % Len(s)) + 1 \in 1 .. Len(s)
      BY <1>1, <2>1
    <2> QED
      BY <1>1, <1>2, <2>2 DEF RoundRobin
  <1> QED
    BY <1>3, <1>4, <1>5 DEF SelectWorker

LEMMA ChoosePreserves ==
    ASSUME StratInv, Choose
    PROVE  StratInv'
  <1>1. /\ index \in Nat /\ turns \in [Nodes -> Nat] /\ strategy \in Names
        /\ figure \in [Nodes -> Figures] /\ roster \in Seq(Nodes)
        /\ \A n \in Nodes : turns[n] > 0 => n \in Range(roster)
    BY DEF StratInv, StratTypeOK
  <1>2. UNCHANGED <<strategy, roster, figure>>
    BY DEF Choose
  <1>3. picked' \in Nodes \cup {NoNode}
    BY <1>1, ChoiceIsListed DEF Choose, SelectWorker
  <1>4. index' \in Nat
    <2>1. ASSUME roster # <<>>
          PROVE  (index + 1) % Len(roster) \in Nat
      <3>1. Len(roster) \in Nat \ {0} /\ index + 1 \in Nat
        BY <1>1, <2>1, ListNotEmpty
      <3>2. (index + 1) % Len(roster) \in 0 .. Len(roster) - 1
        BY <3>1, Quotient, Zenon
      <3> QED
        BY <3>1, <3>2, RangesOfNaturals
    <2> QED
      BY <1>1, <2>1 DEF Choose, NextIndex
  <1>5. /\ turns' \in [Nodes -> Nat]
        /\ \A n \in Nodes : turns'[n] > 0 => n \in Range(roster)
    <2>1. CASE roster = <<>>
      BY <1>1, <2>1 DEF Choose
    <2>2. CASE roster # <<>>
      <3>1. /\ picked' \in Nodes /\ picked' \in Range(roster)
            /\ turns' = [turns EXCEPT ![picked'] = @ + 1]
        BY <1>1, <2>2, ChoiceIsListed DEF Choose
      <3> QED
        BY <1>1, <3>1
    <2> QED
      BY <2>1, <2>2
  <1>6. TurnsOK'
    <2>1. CASE strategy = "round_robin" /\ roster # <<>>
      BY <2>1, TurnTaken
    <2>2. CASE ~(strategy = "round_robin" /\ roster # <<>>)
      BY <2>2, <1>2 DEF TurnsOK
    <2> QED
      BY <2>1, <2>2
  <1>7. (Range(roster))' = Range(roster)
    BY <1>2
  <1> QED
    BY <1>1, <1>2, <1>3, <1>4, <1>5, <1>6, <1>7 DEF StratInv, StratTypeOK

LEMMA StratInvInit == ASSUME StratInit PROVE StratInv
  <1>1. <<>> \in Seq(Nodes) /\ <<>> \in [1 .. 0 -> Nodes]
    OBVIOUS
  <1>2. roster \in Rosters
    <2>1. Cardinality(Nodes) \in Nat
      BY StrategiesAssumption, FS_CardinalityType
    <2>2. IsInjective(<<>>)
      BY DEF IsInjective
    <2>3. 0 \in 0 .. Cardinality(Nodes)
      BY <2>1
    <2> QED
      BY <1>1, <2>2, <2>3 DEF StratInit, Rosters
  <1>3. /\ turns = NoTurns /\ index \in Nat /\ turns \in [Nodes -> Nat]
        /\ \A n \in Nodes : ~(turns[n] > 0)
    BY DEF StratInit, NoTurns
  <1> QED
    BY <1>1, <1>2, <1>3, NewTurns DEF StratInit, StratInv, StratTypeOK

LEMMA StratInvStep == ASSUME StratInv, [StratNext]_stratVars PROVE StratInv'
  <1>1. CASE Choose
    BY <1>1, ChoosePreserves
  <1>2. ASSUME NEW name \in Names, SetStrategy(name)
        PROVE  StratInv'
    <2>1. /\ strategy' = name /\ index' = 0 /\ turns' = NoTurns
          /\ UNCHANGED <<roster, figure, picked>>
      BY <1>2 DEF SetStrategy
    <2>2. TurnsOK'
      <3>1. (roster \in Rosters)' /\ (turns = NoTurns)' /\ (index \in Nat)'
        BY <2>1 DEF StratInv, NoTurns
      <3> QED
        BY <3>1, NewTurns, PTL
    <2>3. turns' \in [Nodes -> Nat] /\ \A n \in Nodes : ~(turns'[n] > 0)
      BY <2>1 DEF NoTurns
    <2> QED
      BY <2>1, <2>2, <2>3 DEF StratInv, StratTypeOK
  <1>3. CASE RosterChanges
    <2>1. /\ roster' \in Rosters /\ turns' = NoTurns
          /\ UNCHANGED <<strategy, index, figure, picked>>
      BY <1>3 DEF RosterChanges
    <2>2. TurnsOK'
      <3>1. (roster \in Rosters)' /\ (turns = NoTurns)' /\ (index \in Nat)'
        BY <2>1 DEF StratInv, StratTypeOK, NoTurns, Rosters
      <3> QED
        BY <3>1, NewTurns, PTL
    <2>3. /\ turns' \in [Nodes -> Nat] /\ roster' \in Seq(Nodes)
          /\ \A n \in Nodes : ~(turns'[n] > 0)
      BY <2>1, RostersAre DEF NoTurns
    <2>4. roster' \in Rosters'
      BY <2>1 DEF Rosters
    <2> QED
      BY <2>1, <2>2, <2>3, <2>4 DEF StratInv, StratTypeOK
  <1>4. ASSUME NEW n \in Nodes, NEW f \in Figures, FigureChanges(n, f)
        PROVE  StratInv'
    <2>1. /\ figure' \in [Nodes -> Figures]
          /\ UNCHANGED <<strategy, index, roster, picked, turns>>
      BY <1>4 DEF FigureChanges, StratInv, StratTypeOK
    <2> QED
      BY <2>1 DEF StratInv, StratTypeOK, TurnsOK, InTurn, Rosters
  <1>5. CASE UNCHANGED stratVars
    BY <1>5 DEF stratVars, StratInv, StratTypeOK, TurnsOK, InTurn, Rosters
  <1> QED
    BY <1>1, <1>2, <1>3, <1>4, <1>5 DEF StratNext

LEMMA StratInvCorrect == StratSpec => []StratInv
  BY StratInvInit, StratInvStep, PTL DEF StratSpec

\* The variables keep their types, and only workers of the present list have had
\* a turn from it (select_worker of every strategy).
THEOREM StratTypeCorrect == StratSpec => []StratTypeOK
  <1>1. StratInv => StratTypeOK
    BY DEF StratInv
  <1> QED
    BY <1>1, StratInvCorrect, PTL

\* round_robin is even while its list stays the same (round_robin.py), for
\* lists of any length.
THEOREM EvenTurnsCorrect == StratSpec => []EvenTurns
  <1>1. ASSUME StratInv
        PROVE  EvenTurns
    <2> SUFFICES ASSUME strategy = "round_robin",
                        NEW a \in Range(roster), NEW b \in Range(roster)
                 PROVE  turns[a] <= turns[b] + 1
      BY DEF EvenTurns
    <2>1. roster \in Seq(Nodes) /\ roster # <<>>
      BY <1>1 DEF Range, StratInv, StratTypeOK
    <2>2. PICK full \in Nat, start \in 0 .. Len(roster) - 1 : InTurn(full, start)
      BY <1>1, <2>1 DEF StratInv, TurnsOK
    <2>3. ASSUME NEW c \in Range(roster)
          PROVE  turns[c] \in {full, full + 1}
      <3>1. PICK q \in 1 .. Len(roster) : c = roster[q]
        BY <2>1 DEF Range
      <3>2. q - 1 \in 0 .. Len(roster) - 1 /\ (q - 1) + 1 = q
        BY <2>1
      <3> QED
        BY <2>2, <3>1, <3>2 DEF InTurn
    <2> QED
      BY <2>2, <2>3
  <1> QED
    BY <1>1, StratInvCorrect, PTL

\* The threshold of load_aware never changes its choice (load_aware.py), for
\* any list and any loads.
THEOREM ThresholdIsIdleCorrect == StratSpec => []ThresholdIsIdle
  <1>1. ASSUME StratInv
        PROVE  ThresholdIsIdle
    <2> SUFFICES ASSUME roster # <<>>, Eligible(roster) # {}
                 PROVE  LoadAware(roster) = Least(roster)
      BY DEF ThresholdIsIdle, LoadAware, Least
    <2> DEFINE E == Eligible(roster)
               i == LeastOf(roster, DOMAIN roster)
               j == LeastOf(roster, E)
               Load(p) == figure[roster[p]]
    <2>1. roster \in Seq(Nodes) /\ figure \in [Nodes -> Figures]
      BY <1>1 DEF StratInv, StratTypeOK
    <2>2. E \subseteq DOMAIN roster /\ DOMAIN roster # {}
      BY <2>1, ListNotEmpty DEF Eligible
    <2>3. /\ i \in DOMAIN roster
          /\ \A p \in DOMAIN roster : \/ Load(i) < Load(p)
                                     \/ (Load(i) = Load(p) /\ i <= p)
      BY <2>1, <2>2, LeastIs
    <2>4. /\ j \in E
          /\ \A p \in E : Load(j) < Load(p) \/ (Load(j) = Load(p) /\ j <= p)
      BY <2>1, <2>2, LeastIs
    <2>5. /\ \A p \in DOMAIN roster : Load(p) \in Nat
          /\ DOMAIN roster \subseteq Nat /\ Overload \in Nat
      BY <2>1, FiguresAre, StrategiesAssumption
    <2>6. \A p \in DOMAIN roster : p \in E <=> Load(p) < Overload
      BY DEF Eligible
    <2>7. LoadAware(roster) = roster[j] /\ Least(roster) = roster[i]
      BY DEF LoadAware, Least
    <2> HIDE DEF E, i, j, Load
    <2>8. i \in E
      BY <2>2, <2>3, <2>4, <2>5, <2>6
    <2>9. i = j
      BY <2>2, <2>3, <2>4, <2>5, <2>8
    <2> QED
      BY <2>7, <2>9
  <1> QED
    BY <1>1, StratInvCorrect, PTL
=============================================================================
