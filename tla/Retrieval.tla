----------------------------- MODULE Retrieval -----------------------------
(***************************************************************************)
(* Retrieval before a request is accepted: rag/retriever.py, its start in  *)
(* master/main.py and its use in master/routers/client.py.                 *)
(*                                                                         *)
(* The documents are read and split into chunks when the master starts.    *)
(* The chunks go into a collection of ChromaDB on disk, which outlives the *)
(* master, or stay in memory if ChromaDB fails.  A text is a sequence of   *)
(* paragraphs, of which only the length counts.  How near a chunk is to a  *)
(* query is left open: a query may find any chunks there are.              *)
(***************************************************************************)
EXTENDS Integers, FiniteSets, SequencesExt

CONSTANTS
    Stems,        \* names of documents without the .txt
    Paragraphs,
    Size,         \* paragraph -> its length in characters
    Texts,        \* what a document may hold; empty is also no document
    MaxLength,    \* bound: the paragraphs of a short text
    ChunkChars,   \* chunk_chars
    TopK          \* RAG_TOP_K

ASSUME SizeAssumption == Size \in [Paragraphs -> Nat \ {0}]
ASSUME TextsAssumption == Texts \subseteq Seq(Paragraphs) /\ <<>> \in Texts
ASSUME MaxLengthAssumption == MaxLength \in Nat
ASSUME ChunkCharsAssumption == ChunkChars \in Nat
ASSUME TopKAssumption == TopK \in Nat

VARIABLES
    base,         \* stem -> the text in docs_dir
    disk,         \* the chunks in the collection on disk
    up,           \* whether the master runs
    enabled,      \* RAG_ENABLED of this start
    fallback,     \* _fallback_chunks
    collection,   \* whether _collection is set
    answer        \* of a POST /infer that has just been prepared

masterVars == <<up, enabled, fallback, collection>>
retVars == <<base, disk, masterVars, answer>>

-----------------------------------------------------------------------------
(* _split_text. *)

\* The length of paragraphs put together, two line ends between them.
Length(text) ==
    LET upTo[n \in 0 .. Len(text)] ==
          IF n = 0 THEN -2 ELSE upTo[n - 1] + 2 + Size[text[n]]
    IN  IF text = <<>> THEN 0 ELSE upTo[Len(text)]

\* Mutant: the line ends are forgotten.
FitsBarely(current, p) == Length(current) + Size[p] <= ChunkChars

Fits(current, p) == Length(current) + Size[p] + 2 <= ChunkChars

Pushed(chunks, current) ==
    IF current = <<>> THEN chunks ELSE Append(chunks, current)

AddParagraph(s, p) ==
    IF Fits(s.current, p)
    THEN [s EXCEPT !.current = Append(@, p)]
    ELSE [chunks |-> Pushed(s.chunks, s.current), current |-> <<p>>]

Split(text) ==
    LET after[n \in 0 .. Len(text)] ==
          IF n = 0 THEN [chunks |-> <<>>, current |-> <<>>]
          ELSE AddParagraph(after[n - 1], text[n])
        end == after[Len(text)]
    IN  Pushed(end.chunks, end.current)

-----------------------------------------------------------------------------
\* What a document is split into, under the ids stem-0, stem-1 and so on.
ChunksOf(stem, text) ==
    {[id |-> <<stem, i>>, text |-> Split(text)[i]] : i \in DOMAIN Split(text)}

LoadChunks == UNION {ChunksOf(stem, base[stem]) : stem \in Stems}

AllChunks == UNION {ChunksOf(stem, text) : stem \in Stems, text \in Texts}

Ids(chunks) == {c.id : c \in chunks}

NoAnswer == [kind |-> "none", chunks |-> {}]

RetTypeOK ==
    /\ base \in [Stems -> Texts]
    /\ disk \subseteq AllChunks
    /\ up \in BOOLEAN
    /\ enabled \in BOOLEAN
    /\ fallback \subseteq AllChunks
    /\ collection \in BOOLEAN
    /\ collection => up /\ enabled
    /\ answer.kind \in {"none", "prepared", "error"}
    /\ answer.chunks \subseteq AllChunks

RetInit ==
    /\ base \in [Stems -> Texts]
    /\ disk = {}
    /\ up = FALSE
    /\ enabled = FALSE
    /\ fallback = {}
    /\ collection = FALSE
    /\ answer = NoAnswer

-----------------------------------------------------------------------------
(* The author of the documents, and the process of the master. *)

DocumentChanges(stem, text) ==
    /\ base[stem] # text
    /\ base' = [base EXCEPT ![stem] = text]
    /\ answer' = NoAnswer
    /\ UNCHANGED <<disk, masterVars>>

\* Mutant: the retriever belongs to the module and outlives the lifespan.
MasterStopsAlone ==
    /\ up
    /\ up' = FALSE
    /\ enabled' = FALSE
    /\ answer' = NoAnswer
    /\ UNCHANGED <<base, disk, fallback, collection>>

MasterStops ==
    /\ up
    /\ up' = FALSE
    /\ enabled' = FALSE
    /\ fallback' = {}
    /\ collection' = FALSE
    /\ answer' = NoAnswer
    /\ UNCHANGED <<base, disk>>

-----------------------------------------------------------------------------
(* initialize. *)

\* Mutant: add instead of upsert, which leaves a known id as it is.
Added(chunks) == disk \cup {c \in chunks : c.id \notin Ids(disk)}

\* upsert of ChromaDB: a chunk replaces the one with its id.
Upserted(chunks) == {c \in disk : c.id \notin Ids(chunks)} \cup chunks

StartsWithoutRag ==
    /\ ~up
    /\ up' = TRUE
    /\ answer' = NoAnswer
    /\ UNCHANGED <<base, disk, enabled, fallback, collection>>

Initializes ==
    /\ ~up
    /\ up' = TRUE
    /\ enabled' = TRUE
    /\ fallback' = LoadChunks
    /\ answer' = NoAnswer
    /\ UNCHANGED base

\* Mutant: the collection is opened before the test for an empty base.
FindsNothingToIndex ==
    /\ Initializes
    /\ LoadChunks = {}
    /\ collection' = TRUE
    /\ UNCHANGED disk

FindsNoDocuments ==
    /\ Initializes
    /\ LoadChunks = {}
    /\ UNCHANGED <<disk, collection>>

Indexes ==
    /\ Initializes
    /\ LoadChunks # {}
    /\ disk' = Upserted(LoadChunks)
    /\ collection' = TRUE

\* Mutant: _collection is not reset when the upsert fails.
FallsBackHalfOpen ==
    /\ Initializes
    /\ LoadChunks # {}
    /\ \E part \in SUBSET LoadChunks : disk' = Upserted(part)
    /\ collection' = TRUE

\* ChromaDB fails: nothing, or a part, of the chunks may have been written.
FallsBack ==
    /\ Initializes
    /\ LoadChunks # {}
    /\ \E part \in SUBSET LoadChunks : disk' = Upserted(part)
    /\ UNCHANGED collection

-----------------------------------------------------------------------------
(* retrieve, for POST /infer. *)

AtMostOf(n, chunks) == {found \in SUBSET chunks : Cardinality(found) <= n}

\* A blank query finds nothing, without retrieval there is none to make.
PreparesPlain ==
    /\ up
    /\ answer' = [kind |-> "prepared", chunks |-> {}]
    /\ UNCHANGED <<base, disk, masterVars>>

QueriesCollection ==
    /\ up /\ enabled
    /\ collection
    /\ \E found \in AtMostOf(IF TopK > 1 THEN TopK ELSE 1, disk) :
         answer' = [kind |-> "prepared", chunks |-> found]
    /\ UNCHANGED <<base, disk, masterVars>>

\* An exception of the query is not caught: POST /infer fails with a 500
\* before the request is accepted, with the chunks in memory unused.
QueryFails ==
    /\ up /\ enabled
    /\ collection
    /\ answer' = [kind |-> "error", chunks |-> {}]
    /\ UNCHANGED <<base, disk, masterVars>>

SearchesMemory ==
    /\ up /\ enabled
    /\ ~collection
    /\ \E found \in AtMostOf(TopK, fallback) :
         answer' = [kind |-> "prepared", chunks |-> found]
    /\ UNCHANGED <<base, disk, masterVars>>

-----------------------------------------------------------------------------
RetNext ==
    \/ \E stem \in Stems, text \in Texts : DocumentChanges(stem, text)
    \/ MasterStops
    \/ StartsWithoutRag
    \/ FindsNoDocuments
    \/ Indexes
    \/ FallsBack
    \/ PreparesPlain
    \/ QueriesCollection
    \/ QueryFails
    \/ SearchesMemory

RetSpec == RetInit /\ [][RetNext]_retVars

-----------------------------------------------------------------------------
IsGreedy(text, chunks) ==
    /\ FlattenSeq(chunks) = text
    /\ \A i \in DOMAIN chunks :
         Len(chunks[i]) = 1 \/ Length(chunks[i]) \in 1 .. ChunkChars
    /\ \A i \in 1 .. Len(chunks) - 1 :
         Length(Append(chunks[i], Head(chunks[i + 1]))) > ChunkChars

Missplit(texts) == {text \in texts : ~IsGreedy(text, Split(text))}

MissplitShort == Missplit(BoundedSeq(Paragraphs, MaxLength))

\* The split of _split_text is the greedy one, for every short text and for
\* every document: it keeps every paragraph in its place, no chunk is longer
\* than it may be unless it is one paragraph, and no chunk could have taken in
\* the first paragraph of the next.
SplitIsGreedy == MissplitShort \cup Missplit(Range(base)) = {}

\* While the collection is in use, whatever was on the disk before and however
\* earlier starts failed: it holds every chunk the master has loaded, and what
\* is stale in it has an id that no loaded chunk has any more.
IndexIsCurrent ==
    collection =>
        /\ fallback \subseteq disk
        /\ \A c \in disk : c.id \in Ids(fallback) => c \in fallback

\* A master that found no documents retrieves nothing, though the collection
\* of an earlier one may be full of chunks.
EmptyBaseRetrievesNothing ==
    fallback = {} => answer.chunks = {}
=============================================================================
