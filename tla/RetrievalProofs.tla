--------------------------- MODULE RetrievalProofs ---------------------------
(***************************************************************************)
(* The index on disk and what is retrieved from it, for any documents, any *)
(* edits and any sequence of starts, stops and failures of ChromaDB; and   *)
(* the split of a text, for texts of any length.                           *)
(*                                                                         *)
(* The split is a loop.  The induction over its rounds is one over sets:   *)
(* of the positions that lack what is claimed one is the least.  That its  *)
(* recursive functions satisfy their equations is proved with it too.      *)
(***************************************************************************)
EXTENDS Retrieval, WellFoundedInduction, SequenceTheorems, TLAPS

-----------------------------------------------------------------------------
(* The index. *)

\* The chunks of the documents as they are now are chunks.
LEMMA LoadedType ==
    ASSUME base \in [Stems -> Texts]
    PROVE  LoadChunks \subseteq AllChunks
  <1> SUFFICES ASSUME NEW stem \in Stems, NEW c \in ChunksOf(stem, base[stem])
               PROVE  c \in AllChunks
    BY DEF LoadChunks
  <1>1. base[stem] \in Texts
    OBVIOUS
  <1> QED
    BY <1>1 DEF AllChunks

\* After an upsert every chunk given is there, and no other one with its id.
LEMMA UpsertedIsCurrent ==
    ASSUME NEW chunks, chunks \subseteq AllChunks, disk \subseteq AllChunks
    PROVE  /\ chunks \subseteq Upserted(chunks)
           /\ Upserted(chunks) \subseteq AllChunks
           /\ \A c \in Upserted(chunks) : c.id \in Ids(chunks) => c \in chunks
  BY DEF Upserted

\* A collection in use has been filled, since an empty base opens none: with
\* this EmptyBaseRetrievesNothing is inductive.
RetInv ==
    /\ RetTypeOK
    /\ IndexIsCurrent
    /\ collection => fallback # {}
    /\ EmptyBaseRetrievesNothing

\* Starting fills the memory and the collection, or the memory alone.
LEMMA StartStep ==
    ASSUME RetInv,
           StartsWithoutRag \/ FindsNoDocuments \/ Indexes \/ FallsBack
    PROVE  RetInv'
  <1> USE DEF RetInv, RetTypeOK, IndexIsCurrent, EmptyBaseRetrievesNothing, NoAnswer
  <1>1. LoadChunks \subseteq AllChunks
    BY LoadedType
  <1>2. CASE StartsWithoutRag
    BY <1>2 DEF StartsWithoutRag
  <1>3. CASE FindsNoDocuments
    <2>1. ~collection
      BY <1>3 DEF FindsNoDocuments, Initializes
    <2> QED
      BY <1>1, <1>3, <2>1 DEF FindsNoDocuments, Initializes
  <1>4. CASE Indexes
    <2>1. /\ LoadChunks \subseteq Upserted(LoadChunks)
          /\ Upserted(LoadChunks) \subseteq AllChunks
          /\ \A c \in Upserted(LoadChunks) :
               c.id \in Ids(LoadChunks) => c \in LoadChunks
      BY <1>1, UpsertedIsCurrent
    <2>2. /\ disk' = Upserted(LoadChunks) /\ fallback' = LoadChunks
          /\ collection' = TRUE /\ up' = TRUE /\ enabled' = TRUE
          /\ answer' = NoAnswer /\ UNCHANGED base /\ LoadChunks # {}
      BY <1>4 DEF Indexes, Initializes
    <2>3. Ids(fallback)' = Ids(LoadChunks)
      BY <2>2 DEF Ids
    <2> QED
      BY <1>1, <2>1, <2>2, <2>3
  <1>5. CASE FallsBack
    <2>1. PICK part \in SUBSET LoadChunks : disk' = Upserted(part)
      BY <1>5 DEF FallsBack
    <2>2. disk' \subseteq AllChunks
      BY <1>1, <2>1, UpsertedIsCurrent
    <2>3. ~collection
      BY <1>5 DEF FallsBack, Initializes
    <2> QED
      BY <1>1, <1>5, <2>2, <2>3 DEF FallsBack, Initializes
  <1> QED
    BY <1>2, <1>3, <1>4, <1>5

\* What is found is in the collection if there is one and in memory if not.
LEMMA RetrieveStep ==
    ASSUME RetInv,
           PreparesPlain \/ QueriesCollection \/ QueryFails \/ SearchesMemory
    PROVE  RetInv'
  <1>1. /\ UNCHANGED <<base, disk, up, enabled, fallback, collection>>
        /\ answer'.kind \in {"none", "prepared", "error"}
    BY DEF PreparesPlain, QueriesCollection, QueryFails, SearchesMemory, masterVars
  <1>2. answer'.chunks \subseteq AllChunks /\ (fallback = {} => answer'.chunks = {})
    BY DEF PreparesPlain, QueriesCollection, QueryFails, SearchesMemory,
           AtMostOf, RetInv, RetTypeOK
  <1> QED
    BY <1>1, <1>2
       DEF RetInv, RetTypeOK, IndexIsCurrent, EmptyBaseRetrievesNothing, Ids

LEMMA RetInvCorrect == RetSpec => []RetInv
  <1>1. RetInit => RetInv
    <2> SUFFICES ASSUME RetInit PROVE RetInv
      OBVIOUS
    <2>1. RetTypeOK
      BY DEF RetInit, RetTypeOK, NoAnswer
    <2>2. ~collection /\ answer.chunks = {}
      BY DEF RetInit, NoAnswer
    <2> QED
      BY <2>1, <2>2 DEF RetInv, IndexIsCurrent, EmptyBaseRetrievesNothing
  <1>2. RetInv /\ [RetNext]_retVars => RetInv'
    <2> SUFFICES ASSUME RetInv, [RetNext]_retVars
                 PROVE  RetInv'
      OBVIOUS
    <2>1. CASE UNCHANGED retVars
      BY <2>1 DEF retVars, masterVars, RetInv, RetTypeOK, IndexIsCurrent,
                  EmptyBaseRetrievesNothing, Ids
    <2>2. ASSUME NEW stem \in Stems, NEW text \in Texts, DocumentChanges(stem, text)
          PROVE  RetInv'
      <3>1. base' \in [Stems -> Texts]
        BY <2>2 DEF DocumentChanges, RetInv, RetTypeOK
      <3> QED
        BY <2>2, <3>1
           DEF DocumentChanges, masterVars, RetInv, RetTypeOK, IndexIsCurrent,
               EmptyBaseRetrievesNothing, NoAnswer, Ids
    <2>3. CASE MasterStops
      BY <2>3 DEF MasterStops, RetInv, RetTypeOK, IndexIsCurrent,
                  EmptyBaseRetrievesNothing, NoAnswer
    <2> QED
      BY <2>1, <2>2, <2>3, StartStep, RetrieveStep DEF RetNext
  <1> QED
    BY <1>1, <1>2, PTL DEF RetSpec

\* The state of the retriever keeps its types, and a collection is in use
\* only in a master that runs with retrieval.
THEOREM RetTypeCorrect == RetSpec => []RetTypeOK
  <1>1. RetInv => RetTypeOK
    BY DEF RetInv
  <1> QED
    BY <1>1, RetInvCorrect, PTL

\* The index in use holds the loaded chunks, and nothing else under their ids.
THEOREM IndexIsCurrentCorrect == RetSpec => []IndexIsCurrent
  <1>1. RetInv => IndexIsCurrent
    BY DEF RetInv
  <1> QED
    BY <1>1, RetInvCorrect, PTL

\* A master without documents retrieves nothing.
THEOREM EmptyBaseRetrievesNothingCorrect == RetSpec => []EmptyBaseRetrievesNothing
  <1>1. RetInv => EmptyBaseRetrievesNothing
    BY DEF RetInv
  <1> QED
    BY <1>1, RetInvCorrect, PTL

-----------------------------------------------------------------------------
(* Induction over positions. *)

\* A set with 0 in it and with every successor holds every natural number:
\* else one it lacks is the least, and its predecessor is there.
LEMMA Induction ==
    ASSUME NEW I, 0 \in I, \A n \in I : n \in Nat => n + 1 \in I
    PROVE  Nat \subseteq I
  <1> DEFINE T == Nat \ I
  <1> SUFFICES ASSUME T # {} PROVE FALSE
    OBVIOUS
  <1>1. T \subseteq Nat
    OBVIOUS
  <1>2. PICK x \in T : \A y \in T : ~ (<<y, x>> \in OpToRel(<, Nat))
    <2> HIDE DEF T
    <2> QED
      BY <1>1, WFMin, NatLessThanWellFounded
  <1>3. \A y \in T : ~ (y < x)
    BY <1>2 DEF OpToRel
  <1>4. x \in Nat /\ x # 0
    OBVIOUS
  <1>5. x - 1 \in Nat /\ x - 1 < x /\ (x - 1) + 1 = x
    BY <1>4
  <1> QED
    BY <1>3, <1>5

\* g is c at first and follows step from one position to the next.
Follows(g, c, step, n) ==
    g[0] = c /\ \A i \in 1 .. n : g[i] = step[i][g[i - 1]]

\* What is said from one position to the next is a function.
LEMMA RecursionExists ==
    ASSUME NEW V, NEW c \in V, NEW n \in Nat,
           NEW step \in [1 .. n -> [V -> V]]
    PROVE  \E g \in [0 .. n -> V] : Follows(g, c, step, n)
  <1> DEFINE Is(g, k) == g[0] = c /\ \A i \in 1 .. k : g[i] = step[i][g[i - 1]]
             I == {j \in Nat : j <= n => \E g \in [0 .. j -> V] : Is(g, j)}
  <1>1. 0 \in I
    <2> DEFINE g == [i \in 0 .. 0 |-> c]
    <2>1. g \in [0 .. 0 -> V] /\ Is(g, 0)
      OBVIOUS
    <2> HIDE DEF g
    <2> QED
      BY <2>1
  <1>2. ASSUME NEW j \in I, j + 1 <= n
        PROVE  \E g \in [0 .. j + 1 -> V] : Is(g, j + 1)
    <2>1. PICK h \in [0 .. j -> V] : Is(h, j)
      BY <1>2
    <2> DEFINE k == j + 1
               g == [i \in 0 .. k |-> IF i = k THEN step[k][h[k - 1]] ELSE h[i]]
    <2>2. h[k - 1] \in V /\ k \in 1 .. n
      BY <1>2
    <2>3. step[k][h[k - 1]] \in V
      <3> HIDE DEF k
      <3>1. step[k] \in [V -> V]
        BY <2>2
      <3> QED
        BY <2>2, <3>1
    <2>4. /\ g \in [0 .. k -> V]
          /\ g[k] = step[k][h[k - 1]]
          /\ \A i \in 0 .. j : g[i] = h[i]
      BY <2>3
    <2>5. \A i \in 1 .. k : g[i] = step[i][g[i - 1]]
      <3> HIDE DEF g
      <3> SUFFICES ASSUME NEW i \in 1 .. k PROVE g[i] = step[i][g[i - 1]]
        OBVIOUS
      <3>1. i - 1 \in 0 .. j /\ (i = k \/ i \in 1 .. j)
        OBVIOUS
      <3>2. CASE i = k
        BY <2>4, <3>1, <3>2
      <3>3. CASE i \in 1 .. j
        <4>1. g[i] = h[i] /\ g[i - 1] = h[i - 1]
          BY <2>4, <3>1, <3>3
        <4> QED
          BY <2>1, <3>3, <4>1
      <3> QED
        BY <3>1, <3>2, <3>3
    <2>6. g[0] = c
      <3> HIDE DEF g
      <3> QED
        BY <2>1, <2>4
    <2> HIDE DEF g
    <2> QED
      BY <2>4, <2>5, <2>6
  <1>3. \A j \in I : j \in Nat => j + 1 \in I
    <2> SUFFICES ASSUME NEW j \in I, j + 1 <= n
                 PROVE  \E g \in [0 .. j + 1 -> V] : Is(g, j + 1)
      <3> HIDE DEF Is
      <3> QED
        OBVIOUS
    <2> QED
      BY <1>2
  <1>4. n \in I
    <2> HIDE DEF I
    <2> QED
      BY <1>1, <1>3, Induction
  <1> QED
    BY <1>4 DEF Follows

\* What holds at the first position and from one to the next holds at all.
LEMMA PositionInduction ==
    ASSUME NEW G, NEW n \in Nat, 0 \in G,
           \A i \in 1 .. n : i - 1 \in G => i \in G
    PROVE  0 .. n \subseteq G
  <1> DEFINE I == {i \in Nat : i <= n => i \in G}
  <1>1. 0 \in I /\ \A i \in I : i \in Nat => i + 1 \in I
    <2> SUFFICES ASSUME NEW i \in I, i + 1 <= n PROVE i + 1 \in G
      OBVIOUS
    <2>1. i + 1 \in 1 .. n /\ (i + 1) - 1 = i /\ i \in G
      OBVIOUS
    <2> QED
      BY <2>1
  <1>2. Nat \subseteq I
    <2> HIDE DEF I
    <2> QED
      BY <1>1, Induction
  <1> QED
    BY <1>2

-----------------------------------------------------------------------------
(* The length of a text. *)

LEMMA LengthBySteps ==
    ASSUME NEW text \in Seq(Paragraphs)
    PROVE  \E g \in [0 .. Len(text) -> Int] :
             /\ g[0] = -2
             /\ \A n \in 1 .. Len(text) : g[n] = g[n - 1] + 2 + Size[text[n]]
             /\ text # <<>> => Length(text) = g[Len(text)]
  <1> DEFINE N == Len(text)
             Is(g) == g = [n \in 0 .. N |-> IF n = 0 THEN -2
                                          ELSE g[n - 1] + 2 + Size[text[n]]]
             upTo == CHOOSE g : Is(g)
             step == [n \in 1 .. N |-> [x \in Int |-> x + 2 + Size[text[n]]]]
  <1>1. N \in Nat /\ \A n \in 1 .. N : Size[text[n]] \in Nat
    BY SizeAssumption
  <1>2. step \in [1 .. N -> [Int -> Int]]
    BY <1>1
  <1>3. PICK h \in [0 .. N -> Int] :
          h[0] = -2 /\ \A i \in 1 .. N : h[i] = step[i][h[i - 1]]
    <2> DEFINE c == -2
               V == Int
    <2>1. c \in V /\ step \in [1 .. N -> [V -> V]]
      BY <1>2
    <2> HIDE DEF step, N, c, V
    <2>2. \E h \in [0 .. N -> V] : Follows(h, c, step, N)
      BY <1>1, <2>1, RecursionExists
    <2> QED
      BY <2>2 DEF c, V, Follows
  <1>4. \A i \in 1 .. N : h[i] = h[i - 1] + 2 + Size[text[i]]
    <2> SUFFICES ASSUME NEW i \in 1 .. N
                 PROVE  h[i] = h[i - 1] + 2 + Size[text[i]]
      OBVIOUS
    <2>1. h[i - 1] \in Int
      BY <1>1
    <2> QED
      BY <1>3, <2>1
  <1>5. Is(h)
    <2> HIDE DEF N
    <2>1. \A n \in 0 .. N : h[n] = IF n = 0 THEN -2 ELSE h[n - 1] + 2 + Size[text[n]]
      <3>1. \A n \in 0 .. N : n # 0 => n \in 1 .. N
        BY <1>1
      <3> QED
        BY <1>3, <1>4, <3>1
    <2> QED
      BY <1>3, <2>1
  <1>6. Is(upTo)
    <2> HIDE DEF Is
    <2> QED
      BY <1>5
  <1>7. \A n \in 0 .. N : upTo[n] = IF n = 0 THEN -2
                                  ELSE upTo[n - 1] + 2 + Size[text[n]]
    <2> HIDE DEF upTo, N
    <2> QED
      BY <1>6
  <1>8. upTo \in [0 .. N -> Int]
    <2> HIDE DEF upTo, N
    <2> DEFINE G == {n \in 0 .. N : upTo[n] \in Int}
    <2>1. 0 \in G /\ \A i \in 1 .. N : i - 1 \in G => i \in G
      <3>1. 0 \in G
        BY <1>1, <1>7
      <3>2. ASSUME NEW i \in 1 .. N, i - 1 \in G PROVE i \in G
        <4>1. i \in 0 .. N /\ i # 0
          BY <1>1
        <4>2. upTo[i] = upTo[i - 1] + 2 + Size[text[i]]
          BY <1>7, <4>1
        <4>3. upTo[i - 1] \in Int /\ Size[text[i]] \in Int
          BY <1>1, <3>2
        <4> QED
          BY <4>1, <4>2, <4>3
      <3> QED
        BY <3>1, <3>2
    <2>2. 0 .. N \subseteq G
      <3> HIDE DEF G
      <3> QED
        BY <1>1, <2>1, PositionInduction
    <2>3. upTo = [n \in 0 .. N |-> upTo[n]]
      BY <1>6
    <2> QED
      BY <2>2, <2>3
  <1>9. text # <<>> => Length(text) = upTo[N]
    BY DEF Length
  <1>10. \A n \in 1 .. N : n # 0 /\ n \in 0 .. N
    BY <1>1
  <1>11. upTo[0] = -2 /\ \A n \in 1 .. N : upTo[n] = upTo[n - 1] + 2 + Size[text[n]]
    <2> HIDE DEF upTo, N
    <2> QED
      BY <1>1, <1>7, <1>10
  <1> HIDE DEF upTo
  <1> QED
    BY <1>8, <1>9, <1>11

\* A paragraph more makes a text longer by itself and two line ends.
LEMMA LengthOfAppend ==
    ASSUME NEW text \in Seq(Paragraphs), NEW p \in Paragraphs
    PROVE  /\ Length(<<>>) = 0
           /\ Length(text) \in Int
           /\ Length(<<p>>) = Size[p]
           /\ text # <<>> => Length(Append(text, p)) = Length(text) + 2 + Size[p]
  <1>1. Length(<<>>) = 0
    BY DEF Length
  <1>2. PICK g \in [0 .. Len(text) -> Int] :
          /\ g[0] = -2
          /\ \A n \in 1 .. Len(text) : g[n] = g[n - 1] + 2 + Size[text[n]]
          /\ text # <<>> => Length(text) = g[Len(text)]
    BY LengthBySteps
  <1>3. Length(text) \in Int
    BY <1>1, <1>2
  <1>4. Length(<<p>>) = Size[p]
    <2>1. <<p>> \in Seq(Paragraphs) /\ Len(<<p>>) = 1 /\ <<p>> # <<>> /\ <<p>>[1] = p
      OBVIOUS
    <2>2. PICK h \in [0 .. 1 -> Int] :
            /\ h[0] = -2
            /\ h[1] = h[0] + 2 + Size[p]
            /\ Length(<<p>>) = h[1]
      BY <2>1, LengthBySteps
    <2> QED
      BY <2>2, SizeAssumption
  <1> DEFINE more == Append(text, p)
  <1>5. /\ more \in Seq(Paragraphs) /\ Len(more) = Len(text) + 1 /\ more # <<>>
        /\ more[Len(text) + 1] = p
        /\ \A n \in 1 .. Len(text) : more[n] = text[n]
        /\ Len(text) \in Nat
    OBVIOUS
  <1>6. PICK h \in [0 .. Len(more) -> Int] :
          /\ h[0] = -2
          /\ \A n \in 1 .. Len(more) : h[n] = h[n - 1] + 2 + Size[more[n]]
          /\ more # <<>> => Length(more) = h[Len(more)]
    <2> HIDE DEF more
    <2> QED
      BY <1>5, LengthBySteps
  <1> DEFINE G == {n \in 0 .. Len(text) : g[n] = h[n]}
  <1>7. 0 \in G /\ \A n \in 1 .. Len(text) : n - 1 \in G => n \in G
    <2>1. 0 \in G
      BY <1>2, <1>5, <1>6
    <2>2. ASSUME NEW n \in 1 .. Len(text), n - 1 \in G
          PROVE  n \in G
      <3>1. n \in 1 .. Len(more) /\ n \in 0 .. Len(text) /\ more[n] = text[n]
        BY <1>5
      <3> HIDE DEF more
      <3> QED
        BY <1>2, <1>6, <2>2, <3>1
    <2> QED
      BY <2>1, <2>2
  <1>8. 0 .. Len(text) \subseteq G
    <2> HIDE DEF G
    <2> QED
      BY <1>5, <1>7, PositionInduction
  <1>9. h[Len(text)] = g[Len(text)]
    BY <1>5, <1>8
  <1>10. Length(more) = h[Len(text)] + 2 + Size[p]
    <2>1. Len(more) \in 1 .. Len(more) /\ Len(more) - 1 = Len(text)
      BY <1>5
    <2> HIDE DEF more
    <2> QED
      BY <1>5, <1>6, <2>1
  <1> QED
    BY <1>1, <1>2, <1>3, <1>4, <1>9, <1>10

\* A text of any paragraphs is longer than nothing.
LEMMA LengthPositive ==
    ASSUME NEW text \in Seq(Paragraphs), text # <<>>
    PROVE  Length(text) \in Nat /\ Length(text) >= 1
  <1>1. PICK g \in [0 .. Len(text) -> Int] :
          /\ g[0] = -2
          /\ \A n \in 1 .. Len(text) : g[n] = g[n - 1] + 2 + Size[text[n]]
          /\ text # <<>> => Length(text) = g[Len(text)]
    BY LengthBySteps
  <1>2. /\ Len(text) \in Nat /\ Len(text) # 0 /\ Len(text) \in 0 .. Len(text)
        /\ \A n \in 1 .. Len(text) : Size[text[n]] \in Nat /\ Size[text[n]] >= 1
    BY SizeAssumption
  <1> DEFINE G == {n \in 0 .. Len(text) : n = 0 \/ g[n] >= 1}
  <1>3. 0 \in G
    BY <1>2
  <1>4. ASSUME NEW n \in 1 .. Len(text), n - 1 \in G
        PROVE  n \in G
    <2>1. n \in 0 .. Len(text) /\ g[n] = g[n - 1] + 2 + Size[text[n]]
          /\ g[n - 1] \in Int /\ Size[text[n]] \in Nat /\ Size[text[n]] >= 1
      BY <1>1, <1>2
    <2>2. g[n - 1] >= -2
      <3>1. CASE n = 1
        BY <1>1, <3>1
      <3>2. CASE n # 1
        BY <1>4, <2>1, <3>2
      <3> QED
        BY <3>1, <3>2
    <2> QED
      BY <2>1, <2>2
  <1>5. 0 .. Len(text) \subseteq G
    <2> HIDE DEF G
    <2> QED
      BY <1>2, <1>3, <1>4, PositionInduction
  <1>6. g[Len(text)] >= 1 /\ g[Len(text)] \in Int
    BY <1>2, <1>5
  <1> QED
    BY <1>1, <1>6

-----------------------------------------------------------------------------
(* Chunks put together. *)

LEMMA FlattenBySteps ==
    ASSUME NEW chunks \in Seq(Seq(Paragraphs))
    PROVE  \E g \in [0 .. Len(chunks) -> Seq(Paragraphs)] :
             /\ g[0] = <<>>
             /\ \A n \in 1 .. Len(chunks) : g[n] = g[n - 1] \o chunks[n]
             /\ FlattenSeq(chunks) = g[Len(chunks)]
  <1> DEFINE N == Len(chunks)
             V == Seq(Paragraphs)
             Is(g) == g = [i \in 1 .. N |-> IF i = 1 THEN chunks[i]
                                          ELSE g[i - 1] \o chunks[i]]
             flatten == CHOOSE g : Is(g)
             step == [i \in 1 .. N |-> [x \in V |-> x \o chunks[i]]]
  <1>1. N \in Nat /\ \A n \in 1 .. N : chunks[n] \in V
    OBVIOUS
  <1>2. step \in [1 .. N -> [V -> V]] /\ <<>> \in V
    BY <1>1
  <1>3. PICK h \in [0 .. N -> V] : Follows(h, <<>>, step, N)
    <2> HIDE DEF step, N, V
    <2> QED
      BY <1>1, <1>2, RecursionExists
  <1>4. h[0] = <<>> /\ \A i \in 1 .. N : h[i] = h[i - 1] \o chunks[i]
    <2>1. h[0] = <<>>
      BY <1>3 DEF Follows
    <2> SUFFICES ASSUME NEW i \in 1 .. N
                 PROVE  h[i] = h[i - 1] \o chunks[i]
      BY <2>1
    <2>2. h[i - 1] \in V
      <3>1. i - 1 \in 0 .. N
        BY <1>1
      <3> HIDE DEF N, V
      <3> QED
        BY <3>1
    <2>3. h[i] = step[i][h[i - 1]]
      BY <1>3 DEF Follows
    <2> QED
      BY <2>2, <2>3
  <1> DEFINE e == [i \in 1 .. N |-> h[i]]
  <1>5. 1 \in 1 .. N => h[1] = chunks[1]
    <2> SUFFICES ASSUME 1 \in 1 .. N PROVE h[1] = chunks[1]
      OBVIOUS
    <2>1. h[1] = h[1 - 1] \o chunks[1] /\ chunks[1] \in V
      BY <1>1, <1>4
    <2>2. h[1 - 1] = <<>>
      BY <1>4
    <2> HIDE DEF N
    <2> QED
      BY <2>1, <2>2, ConcatEmptySeq
  <1>6. Is(e)
    <2>2. \A i \in 1 .. N : i # 1 => i - 1 \in 1 .. N
      BY <1>1
    <2> HIDE DEF N
    <2> QED
      BY <1>4, <1>5, <2>2
  <1>7. Is(flatten)
    <2> HIDE DEF Is, e
    <2> QED
      BY <1>6
  <1>8. \A i \in 1 .. N : flatten[i] = IF i = 1 THEN chunks[i]
                                       ELSE flatten[i - 1] \o chunks[i]
    <2> HIDE DEF flatten, N
    <2> QED
      BY <1>7
  <1>9. FlattenSeq(chunks) = IF N = 0 THEN chunks ELSE flatten[N]
    BY DEF FlattenSeq
  <1>10. \A i \in 1 .. N : flatten[i] = h[i]
    <2> HIDE DEF flatten, N
    <2> DEFINE G == {i \in 0 .. N : i # 0 => flatten[i] = h[i]}
    <2>1. 0 \in G
      BY <1>1
    <2>2. ASSUME NEW i \in 1 .. N, i - 1 \in G
          PROVE  i \in G
      <3>1. i \in 0 .. N /\ (i # 1 => flatten[i - 1] = h[i - 1])
        BY <1>1, <2>2
      <3>2. CASE i = 1
        BY <1>5, <1>8, <3>1, <3>2
      <3>3. CASE i # 1
        <4>1. flatten[i] = flatten[i - 1] \o chunks[i]
          BY <1>8, <3>3
        <4> QED
          BY <1>4, <3>1, <3>3, <4>1
      <3> QED
        BY <3>2, <3>3
    <2>3. 0 .. N \subseteq G
      <3> HIDE DEF G
      <3> QED
        BY <1>1, <2>1, <2>2, PositionInduction
    <2> QED
      BY <1>1, <2>3
  <1>11. FlattenSeq(chunks) = h[N]
    <2>1. CASE N = 0
      BY <1>4, <1>9, <2>1
    <2>2. CASE N # 0
      <3> HIDE DEF flatten, N
      <3>1. N \in 1 .. N
        BY <1>1, <2>2
      <3> QED
        BY <1>9, <1>10, <2>2, <3>1
    <2> QED
      BY <2>1, <2>2
  <1> QED
    BY <1>4, <1>11

\* Chunks put together are a text, and one more is put at its end.
LEMMA FlattenOfAppend ==
    ASSUME NEW chunks \in Seq(Seq(Paragraphs)), NEW c \in Seq(Paragraphs)
    PROVE  /\ FlattenSeq(<<>>) = <<>>
           /\ FlattenSeq(chunks) \in Seq(Paragraphs)
           /\ FlattenSeq(Append(chunks, c)) = FlattenSeq(chunks) \o c
  <1>1. FlattenSeq(<<>>) = <<>>
    BY DEF FlattenSeq
  <1>2. PICK g \in [0 .. Len(chunks) -> Seq(Paragraphs)] :
          /\ g[0] = <<>>
          /\ \A n \in 1 .. Len(chunks) : g[n] = g[n - 1] \o chunks[n]
          /\ FlattenSeq(chunks) = g[Len(chunks)]
    BY FlattenBySteps
  <1> DEFINE more == Append(chunks, c)
  <1>3. /\ more \in Seq(Seq(Paragraphs)) /\ Len(more) = Len(chunks) + 1
        /\ more[Len(chunks) + 1] = c
        /\ \A n \in 1 .. Len(chunks) : more[n] = chunks[n]
        /\ Len(chunks) \in Nat
    OBVIOUS
  <1> HIDE DEF more
  <1>4. PICK h \in [0 .. Len(more) -> Seq(Paragraphs)] :
          /\ h[0] = <<>>
          /\ \A n \in 1 .. Len(more) : h[n] = h[n - 1] \o more[n]
          /\ FlattenSeq(more) = h[Len(more)]
    BY <1>3, FlattenBySteps
  <1> DEFINE G == {n \in 0 .. Len(chunks) : g[n] = h[n]}
  <1>5. 0 \in G
    BY <1>2, <1>3, <1>4
  <1>6. ASSUME NEW n \in 1 .. Len(chunks), n - 1 \in G
        PROVE  n \in G
    <2>1. n \in 1 .. Len(more) /\ n \in 0 .. Len(chunks) /\ more[n] = chunks[n]
      BY <1>3
    <2> QED
      BY <1>2, <1>4, <1>6, <2>1
  <1>7. 0 .. Len(chunks) \subseteq G
    <2> HIDE DEF G
    <2> QED
      BY <1>3, <1>5, <1>6, PositionInduction
  <1>8. Len(chunks) \in 0 .. Len(chunks)
    BY <1>3
  <1>9. h[Len(chunks)] = g[Len(chunks)]
    BY <1>8, <1>7
  <1>10. FlattenSeq(more) = h[Len(chunks)] \o c
    <2>1. Len(more) \in 1 .. Len(more) /\ Len(more) - 1 = Len(chunks)
      BY <1>3
    <2> QED
      BY <1>3, <1>4, <2>1
  <1>11. FlattenSeq(chunks) \in Seq(Paragraphs)
    BY <1>8, <1>2
  <1> QED
    BY <1>1, <1>2, <1>9, <1>10, <1>11 DEF more

-----------------------------------------------------------------------------
(* The split. *)

\* What _split_text has at one moment: the chunks and the one it adds to.
Splits == [chunks : Seq(Seq(Paragraphs)), current : Seq(Paragraphs)]

LEMMA AddParagraphType ==
    ASSUME NEW s \in Splits, NEW p \in Paragraphs
    PROVE  AddParagraph(s, p) \in Splits
  <1>1. s.chunks \in Seq(Seq(Paragraphs)) /\ s.current \in Seq(Paragraphs)
    BY DEF Splits
  <1>2. Append(s.current, p) \in Seq(Paragraphs) /\ <<p>> \in Seq(Paragraphs)
    BY <1>1
  <1>3. Pushed(s.chunks, s.current) \in Seq(Seq(Paragraphs))
    BY <1>1 DEF Pushed
  <1> QED
    BY <1>2, <1>3 DEF AddParagraph, Splits

LEMMA SplitBySteps ==
    ASSUME NEW text \in Seq(Paragraphs)
    PROVE  \E a \in [0 .. Len(text) -> Splits] :
             /\ a[0] = [chunks |-> <<>>, current |-> <<>>]
             /\ \A n \in 1 .. Len(text) : a[n] = AddParagraph(a[n - 1], text[n])
             /\ Split(text) = Pushed(a[Len(text)].chunks, a[Len(text)].current)
  <1> DEFINE N == Len(text)
             first == [chunks |-> <<>>, current |-> <<>>]
             Is(g) == g = [n \in 0 .. N |-> IF n = 0 THEN first
                                          ELSE AddParagraph(g[n - 1], text[n])]
             after == CHOOSE g : Is(g)
             step == [n \in 1 .. N |-> [s \in Splits |-> AddParagraph(s, text[n])]]
  <1>1. N \in Nat /\ first \in Splits
    BY DEF Splits
  <1>2. step \in [1 .. N -> [Splits -> Splits]]
    BY AddParagraphType
  <1>3. Split(text) = Pushed(after[N].chunks, after[N].current)
    BY DEF Split
  <1> HIDE DEF first
  <1>4. PICK h \in [0 .. N -> Splits] : Follows(h, first, step, N)
    <2> HIDE DEF step, N
    <2> QED
      BY <1>1, <1>2, RecursionExists
  <1>5. h[0] = first /\ \A i \in 1 .. N : h[i] = AddParagraph(h[i - 1], text[i])
    <2>1. h[0] = first
      BY <1>4 DEF Follows
    <2> SUFFICES ASSUME NEW i \in 1 .. N
                 PROVE  h[i] = AddParagraph(h[i - 1], text[i])
      BY <2>1
    <2>2. h[i - 1] \in Splits
      <3>1. i - 1 \in 0 .. N
        BY <1>1
      <3> HIDE DEF N
      <3> QED
        BY <3>1
    <2>3. h[i] = step[i][h[i - 1]]
      BY <1>4 DEF Follows
    <2> QED
      BY <2>2, <2>3
  <1>6. Is(h)
    <2> HIDE DEF N
    <2> QED
      BY <1>1, <1>5
  <1>7. Is(after)
    <2> HIDE DEF Is
    <2> QED
      BY <1>6
  <1> HIDE DEF after, step
  <1>8. \A n \in 0 .. N : after[n] = IF n = 0 THEN first
                                   ELSE AddParagraph(after[n - 1], text[n])
    <2> HIDE DEF N
    <2> QED
      BY <1>7
  <1> DEFINE G == {n \in 0 .. N : after[n] \in Splits}
  <1>9. 0 \in G
    BY <1>1, <1>8
  <1>10. ASSUME NEW i \in 1 .. N, i - 1 \in G PROVE i \in G
    <2>1. i \in 0 .. N /\ i # 0 /\ text[i] \in Paragraphs
      OBVIOUS
    <2> HIDE DEF N
    <2>2. after[i] = AddParagraph(after[i - 1], text[i])
      BY <1>8, <2>1
    <2> QED
      BY <1>10, <2>1, <2>2, AddParagraphType
  <1>11. 0 .. N \subseteq G
    <2> HIDE DEF G, N
    <2> QED
      BY <1>1, <1>9, <1>10, PositionInduction
  <1>12. after \in [0 .. N -> Splits]
    <2> HIDE DEF N
    <2>1. after = [n \in 0 .. N |-> after[n]]
      BY <1>7
    <2> QED
      BY <1>11, <2>1
  <1>13. \A n \in 1 .. N : n # 0 /\ n \in 0 .. N
    BY <1>1
  <1>14. 0 \in 0 .. N
    BY <1>1
  <1> QED
    BY <1>3, <1>8, <1>12, <1>13, <1>14 DEF first

LEMMA AppendIsNotEmpty ==
    ASSUME NEW V, NEW s \in Seq(V), NEW v \in V
    PROVE  Append(s, v) # <<>>
  <1>1. Len(Append(s, v)) = Len(s) + 1 /\ Len(s) \in Nat
    OBVIOUS
  <1>2. Len(<<>>) = 0
    OBVIOUS
  <1> QED
    BY <1>1, <1>2

\* What is put at the end of a sequence is there, and the rest is as it was.
LEMMA AppendIs ==
    ASSUME NEW V, NEW s \in Seq(V), NEW v \in V
    PROVE  /\ Append(s, v) \in Seq(V) /\ Append(s, v) = s \o <<v>>
           /\ Append(s, v) # <<>> /\ DOMAIN Append(s, v) = 1 .. Len(s) + 1
           /\ Len(Append(s, v)) = Len(s) + 1 /\ Len(s) \in Nat
           /\ Append(s, v)[Len(s) + 1] = v
           /\ \A i \in 1 .. Len(s) : Append(s, v)[i] = s[i]
           /\ s # <<>> => Head(Append(s, v)) = Head(s)
  <1>1. /\ Append(s, v) \in Seq(V)
        /\ Append(s, v) # <<>> /\ DOMAIN Append(s, v) = 1 .. Len(s) + 1
        /\ Len(Append(s, v)) = Len(s) + 1 /\ Len(s) \in Nat
        /\ Append(s, v)[Len(s) + 1] = v
        /\ \A i \in 1 .. Len(s) : Append(s, v)[i] = s[i]
    OBVIOUS
  <1>2. s \o <<v>> \in Seq(V) /\ <<v>> \in Seq(V) /\ Len(<<v>>) = 1 /\ <<v>>[1] = v
    OBVIOUS
  <1>3. /\ Len(s \o <<v>>) = Len(s) + 1
        /\ \A i \in 1 .. Len(s) + 1 :
             (s \o <<v>>)[i] = IF i <= Len(s) THEN s[i] ELSE <<v>>[i - Len(s)]
    BY <1>2, ConcatProperties
  <1>4. \A i \in 1 .. Len(s) + 1 : Append(s, v)[i] = (s \o <<v>>)[i]
    <2> SUFFICES ASSUME NEW i \in 1 .. Len(s) + 1
                 PROVE  Append(s, v)[i] = (s \o <<v>>)[i]
      OBVIOUS
    <2>1. CASE i = Len(s) + 1
      <3>1. i - Len(s) = 1 /\ ~ (i <= Len(s))
        BY <2>1, <1>1
      <3> QED
        BY <2>1, <3>1, <1>1, <1>2, <1>3
    <2>2. CASE i # Len(s) + 1
      <3>1. i \in 1 .. Len(s) /\ i <= Len(s)
        BY <2>2, <1>1
      <3> QED
        BY <3>1, <1>1, <1>3
    <2> QED
      BY <2>1, <2>2
  <1>5. Append(s, v) = s \o <<v>>
    BY <1>1, <1>2, <1>3, <1>4, SeqEqual
  <1>6. s # <<>> => Head(Append(s, v)) = Head(s)
    OBVIOUS
  <1> QED
    BY <1>1, <1>5, <1>6

\* What is put at the end of the last chunk is put at the end of the text.
LEMMA FlattenOfLonger ==
    ASSUME NEW chunks \in Seq(Seq(Paragraphs)), NEW c \in Seq(Paragraphs),
           NEW e \in Seq(Paragraphs)
    PROVE  FlattenSeq(Append(chunks, c \o e)) = FlattenSeq(Append(chunks, c)) \o e
  <1> DEFINE f == FlattenSeq(chunks)
  <1>1. c \o e \in Seq(Paragraphs)
    BY ConcatProperties
  <1>2. f \in Seq(Paragraphs)
    BY FlattenOfAppend
  <1>3. /\ FlattenSeq(Append(chunks, c)) = f \o c
        /\ FlattenSeq(Append(chunks, c \o e)) = f \o (c \o e)
    BY <1>1, FlattenOfAppend
  <1> HIDE DEF f
  <1>4. (f \o c) \o e = f \o (c \o e)
    BY <1>2, ConcatAssociative, SMTT(30)
  <1> QED
    BY <1>3, <1>4

\* A paragraph alone is split into itself.
LEMMA GreedyFirst ==
    ASSUME NEW p \in Paragraphs
    PROVE  IsGreedy(<<p>>, <<<<p>>>>)
  <1>1. /\ <<p>> \in Seq(Paragraphs) /\ <<>> \in Seq(Seq(Paragraphs))
        /\ Append(<<>>, <<p>>) = <<<<p>>>> /\ <<>> \o <<p>> = <<p>>
    OBVIOUS
  <1>2. FlattenSeq(<<<<p>>>>) = <<p>>
    BY <1>1, FlattenOfAppend
  <1>3. /\ DOMAIN <<<<p>>>> = 1 .. 1 /\ <<<<p>>>>[1] = <<p>> /\ Len(<<p>>) = 1
        /\ Len(<<<<p>>>>) = 1
    OBVIOUS
  <1> QED
    BY <1>2, <1>3 DEF IsGreedy

\* The last chunk takes in a paragraph that fits.
LEMMA GreedyLonger ==
    ASSUME NEW text \in Seq(Paragraphs), NEW chunks \in Seq(Seq(Paragraphs)),
           NEW c \in Seq(Paragraphs), c # <<>>, NEW p \in Paragraphs,
           IsGreedy(text, Append(chunks, c)), Fits(c, p)
    PROVE  IsGreedy(text \o <<p>>, Append(chunks, Append(c, p)))
  <1> DEFINE d == Append(c, p)
             old == Append(chunks, c)
             new == Append(chunks, d)
             N == Len(chunks)
  <1>1. d \in Seq(Paragraphs) /\ d = c \o <<p>> /\ Head(d) = Head(c)
        /\ <<p>> \in Seq(Paragraphs)
    BY AppendIs
  <1>2. Length(d) \in 1 .. ChunkChars
    <2>1. Length(d) = Length(c) + 2 + Size[p]
      BY LengthOfAppend
    <2>2. Length(c) \in Nat /\ Size[p] \in Nat /\ ChunkChars \in Nat
      BY LengthPositive, SizeAssumption, ChunkCharsAssumption
    <2> HIDE DEF d
    <2> QED
      BY <2>1, <2>2 DEF Fits
  <1> HIDE DEF d
  <1>3. /\ N \in Nat /\ Len(old) = N + 1 /\ Len(new) = N + 1
        /\ DOMAIN old = 1 .. N + 1 /\ DOMAIN new = 1 .. N + 1
        /\ old[N + 1] = c /\ new[N + 1] = d
        /\ \A i \in 1 .. N : old[i] = chunks[i] /\ new[i] = chunks[i]
    BY <1>1, AppendIs
  <1>4. FlattenSeq(new) = text \o <<p>>
    <2>1. FlattenSeq(old) = text
      BY DEF IsGreedy
    <2> QED
      BY <1>1, <2>1, FlattenOfLonger
  <1> HIDE DEF old, new
  <1>5. ASSUME NEW i \in 1 .. N + 1
        PROVE  Len(new[i]) = 1 \/ Length(new[i]) \in 1 .. ChunkChars
    <2>1. CASE i = N + 1
      BY <1>2, <1>3, <2>1
    <2>2. CASE i # N + 1
      <3>1. i \in 1 .. N
        BY <1>3, <2>2
      <3>2. new[i] = old[i] /\ i \in DOMAIN old
        BY <1>3, <3>1
      <3> QED
        BY <3>2 DEF IsGreedy, old
    <2> QED
      BY <2>1, <2>2
  <1>6. ASSUME NEW i \in 1 .. (N + 1) - 1
        PROVE  Length(Append(new[i], Head(new[i + 1]))) > ChunkChars
    <2>1. new[i] = old[i] /\ i \in 1 .. Len(old) - 1
      BY <1>3
    <2>2. Head(new[i + 1]) = Head(old[i + 1])
      <3>1. CASE i = N
        BY <1>1, <1>3, <3>1
      <3>2. CASE i # N
        <4>1. i + 1 \in 1 .. N
          BY <1>3, <3>2
        <4> QED
          BY <1>3, <4>1
      <3> QED
        BY <3>1, <3>2
    <2> QED
      BY <2>1, <2>2 DEF IsGreedy, old
  <1>7. IsGreedy(text \o <<p>>, new)
    BY <1>3, <1>4, <1>5, <1>6 DEF IsGreedy
  <1> QED
    BY <1>7 DEF new, d

\* A paragraph that does not fit begins a chunk.
LEMMA GreedyOneMore ==
    ASSUME NEW text \in Seq(Paragraphs), NEW chunks \in Seq(Seq(Paragraphs)),
           NEW c \in Seq(Paragraphs), c # <<>>, NEW p \in Paragraphs,
           IsGreedy(text, Append(chunks, c)), ~ Fits(c, p)
    PROVE  IsGreedy(text \o <<p>>, Append(Append(chunks, c), <<p>>))
  <1> DEFINE old == Append(chunks, c)
             new == Append(old, <<p>>)
             N == Len(old)
  <1>1. <<p>> \in Seq(Paragraphs) /\ Len(<<p>>) = 1 /\ Head(<<p>>) = p
    OBVIOUS
  <1>2. old \in Seq(Seq(Paragraphs)) /\ N = Len(chunks) + 1
        /\ N \in Nat /\ old[N] = c /\ DOMAIN old = 1 .. N
    BY AppendIs
  <1>3. Length(Append(c, p)) > ChunkChars
    <2>1. Length(Append(c, p)) = Length(c) + 2 + Size[p]
      BY LengthOfAppend
    <2>2. Length(c) \in Nat /\ Size[p] \in Nat /\ ChunkChars \in Nat
      BY LengthPositive, SizeAssumption, ChunkCharsAssumption
    <2> QED
      BY <2>1, <2>2 DEF Fits
  <1>4. IsGreedy(text, old)
    OBVIOUS
  <1> HIDE DEF old
  <1>5. /\ Len(new) = N + 1 /\ DOMAIN new = 1 .. N + 1 /\ new[N + 1] = <<p>>
        /\ \A i \in 1 .. N : new[i] = old[i]
    BY <1>1, <1>2, AppendIs
  <1>6. FlattenSeq(new) = text \o <<p>>
    BY <1>1, <1>2, <1>4, FlattenOfAppend DEF IsGreedy
  <1> HIDE DEF new
  <1>7. ASSUME NEW i \in 1 .. N + 1
        PROVE  Len(new[i]) = 1 \/ Length(new[i]) \in 1 .. ChunkChars
    <2>1. CASE i = N + 1
      BY <1>1, <1>5, <2>1
    <2>2. CASE i # N + 1
      <3>1. i \in 1 .. N
        BY <1>2, <2>2
      <3> QED
        BY <1>2, <1>4, <1>5, <3>1 DEF IsGreedy
    <2> QED
      BY <2>1, <2>2
  <1>8. ASSUME NEW i \in 1 .. (N + 1) - 1
        PROVE  Length(Append(new[i], Head(new[i + 1]))) > ChunkChars
    <2>1. i \in 1 .. N /\ new[i] = old[i]
      BY <1>2, <1>5
    <2>2. CASE i = N
      BY <1>1, <1>2, <1>3, <1>5, <2>1, <2>2
    <2>3. CASE i # N
      <3>1. i + 1 \in 1 .. N /\ i \in 1 .. N - 1
        BY <1>2, <2>1, <2>3
      <3> QED
        BY <1>4, <1>5, <2>1, <3>1 DEF IsGreedy
    <2> QED
      BY <2>2, <2>3
  <1>9. IsGreedy(text \o <<p>>, new)
    BY <1>5, <1>6, <1>7, <1>8 DEF IsGreedy
  <1> QED
    BY <1>9 DEF new, old

\* The chunks so far and the current one are the split of what was read.
GreedySoFar(text, n, s) ==
    /\ s.current = <<>> => s.chunks = <<>>
    /\ s.current = <<>> <=> n = 0
    /\ IsGreedy(SubSeq(text, 1, n), Pushed(s.chunks, s.current))

LEMMA GreedyStep ==
    ASSUME NEW text \in Seq(Paragraphs), NEW n \in 1 .. Len(text),
           NEW s \in Splits, GreedySoFar(text, n - 1, s)
    PROVE  GreedySoFar(text, n, AddParagraph(s, text[n]))
  <1> DEFINE p == text[n]
             t == AddParagraph(s, p)
             before == SubSeq(text, 1, n - 1)
  <1>1. /\ s.chunks \in Seq(Seq(Paragraphs)) /\ s.current \in Seq(Paragraphs)
        /\ p \in Paragraphs
    BY DEF Splits
  <1>2. SubSeq(text, 1, n) = before \o <<p>> /\ before \in Seq(Paragraphs)
    <2>1. 1 \in 1 .. Len(text) /\ n \in 1 .. Len(text)
      OBVIOUS
    <2> QED
      BY <2>1, SubSeqRecursiveSecond
  <1>3. /\ s.current = <<>> => s.chunks = <<>>
        /\ s.current = <<>> <=> n = 1
        /\ IsGreedy(before, Pushed(s.chunks, s.current))
    BY DEF GreedySoFar
  <1> HIDE DEF p, before
  <1>4. <<p>> # <<>> /\ Append(s.current, p) # <<>>
    <2>1. Append(s.current, p) # <<>>
      BY <1>1, AppendIsNotEmpty
    <2>2. <<p>> # <<>>
      OBVIOUS
    <2> QED
      BY <2>1, <2>2
  <1>5. /\ Fits(s.current, p) => t.chunks = s.chunks /\ t.current = Append(s.current, p)
        /\ ~ Fits(s.current, p) =>
             t.chunks = Pushed(s.chunks, s.current) /\ t.current = <<p>>
    BY DEF AddParagraph, Splits
  <1> HIDE DEF t
  <1>6. t.current # <<>>
    BY <1>4, <1>5
  <1>7. IsGreedy(before \o <<p>>, Append(t.chunks, t.current))
    <2>1. CASE s.current = <<>>
      <3>1. t.chunks = <<>> /\ t.current = <<p>>
        BY <1>1, <1>3, <1>5, <2>1 DEF Pushed
      <3>2. before = <<>>
        BY <1>3, <2>1 DEF before
      <3>3. Append(<<>>, <<p>>) = <<<<p>>>> /\ <<>> \o <<p>> = <<p>>
        BY <1>1
      <3> QED
        BY <1>1, <3>1, <3>2, <3>3, GreedyFirst
    <2>2. CASE s.current # <<>> /\ Fits(s.current, p)
      BY <1>1, <1>2, <1>3, <1>5, <2>2, GreedyLonger DEF Pushed
    <2>3. CASE s.current # <<>> /\ ~ Fits(s.current, p)
      BY <1>1, <1>2, <1>3, <1>5, <2>3, GreedyOneMore DEF Pushed
    <2> QED
      BY <2>1, <2>2, <2>3
  <1>8. GreedySoFar(text, n, t)
    <2>1. n # 0
      OBVIOUS
    <2>2. Pushed(t.chunks, t.current) = Append(t.chunks, t.current)
      BY <1>6 DEF Pushed
    <2> QED
      BY <1>2, <1>6, <1>7, <2>1, <2>2 DEF GreedySoFar
  <1> QED
    BY <1>8 DEF t, p

\* _split_text splits every text greedily.
LEMMA SplitGreedy ==
    ASSUME NEW text \in Seq(Paragraphs)
    PROVE  IsGreedy(text, Split(text))
  <1>1. PICK a \in [0 .. Len(text) -> Splits] :
          /\ a[0] = [chunks |-> <<>>, current |-> <<>>]
          /\ \A n \in 1 .. Len(text) : a[n] = AddParagraph(a[n - 1], text[n])
          /\ Split(text) = Pushed(a[Len(text)].chunks, a[Len(text)].current)
    BY SplitBySteps
  <1> DEFINE G == {n \in 0 .. Len(text) : GreedySoFar(text, n, a[n])}
  <1>2. Len(text) \in Nat /\ 0 \in 0 .. Len(text) /\ Len(text) \in 0 .. Len(text)
    OBVIOUS
  <1>3. 0 \in G
    <2>1. SubSeq(text, 1, 0) = <<>> /\ Pushed(<<>>, <<>>) = <<>>
      BY DEF Pushed
    <2>2. IsGreedy(<<>>, <<>>)
      <3>1. FlattenSeq(<<>>) = <<>>
        BY DEF FlattenSeq
      <3> QED
        BY <3>1 DEF IsGreedy
    <2>3. a[0].chunks = <<>> /\ a[0].current = <<>>
      BY <1>1
    <2> QED
      BY <1>2, <2>1, <2>2, <2>3 DEF GreedySoFar
  <1>4. ASSUME NEW n \in 1 .. Len(text), n - 1 \in G
        PROVE  n \in G
    <2>1. n \in 0 .. Len(text) /\ n - 1 \in 0 .. Len(text)
      BY <1>2
    <2>2. a[n - 1] \in Splits /\ GreedySoFar(text, n - 1, a[n - 1])
      BY <1>4, <2>1
    <2>3. a[n] = AddParagraph(a[n - 1], text[n])
      BY <1>1
    <2>4. GreedySoFar(text, n, a[n])
      BY <2>2, <2>3, GreedyStep
    <2> QED
      BY <2>1, <2>4
  <1>5. 0 .. Len(text) \subseteq G
    <2> HIDE DEF G
    <2> QED
      BY <1>2, <1>3, <1>4, PositionInduction
  <1>6. GreedySoFar(text, Len(text), a[Len(text)])
    BY <1>2, <1>5
  <1>7. SubSeq(text, 1, Len(text)) = text
    BY SubSeqFull
  <1> QED
    BY <1>1, <1>6, <1>7 DEF GreedySoFar

\* SplitIsGreedy is about texts that are sequences of paragraphs.
LEMMA AllSplitGreedy == ASSUME RetTypeOK PROVE SplitIsGreedy
  <1>1. Range(base) \subseteq Seq(Paragraphs)
    <2>1. Range(base) \subseteq Texts
      BY DEF RetTypeOK, Range
    <2> QED
      BY <2>1, TextsAssumption
  <1>2. BoundedSeq(Paragraphs, MaxLength) \subseteq Seq(Paragraphs)
    <2> SUFFICES ASSUME NEW m \in 0 .. MaxLength, NEW s \in [1 .. m -> Paragraphs]
                 PROVE  s \in Seq(Paragraphs)
      BY DEF BoundedSeq, SeqOf
    <2>1. m \in Nat
      BY MaxLengthAssumption
    <2> QED
      BY <2>1, SeqDef
  <1> QED
    BY <1>1, <1>2, SplitGreedy DEF SplitIsGreedy, MissplitShort, Missplit

\* _split_text keeps every paragraph in its place, makes no chunk longer than
\* allowed unless it is one paragraph, and starts no chunk before it must, for
\* texts of any length.
THEOREM SplitIsGreedyCorrect == RetSpec => []SplitIsGreedy
  <1>1. RetTypeOK => SplitIsGreedy
    BY AllSplitGreedy
  <1> QED
    BY <1>1, RetTypeCorrect, PTL
=============================================================================
