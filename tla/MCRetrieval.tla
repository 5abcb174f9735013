---------------------------- MODULE MCRetrieval ----------------------------
(***************************************************************************)
(* Retrieval for TLC: chunks of ten characters, in which two paragraphs    *)
(* fit exactly (3 + 2 + 5), miss by one (3 + 2 + 6) or are too long (11). *)
(***************************************************************************)
EXTENDS Retrieval

CONSTANTS p1, p3, p5, p6, p11

SizeMC ==
    [p \in Paragraphs |->
        CASE p = p1 -> 1 [] p = p3 -> 3 [] p = p5 -> 5 [] p = p6 -> 6
          [] p = p11 -> 11]

\* No chunk, one, and twice two: the same ids with other texts.
TextsMC == {<<>>, <<p3, p5>>, <<p6, p3, p5>>, <<p11, p1, p1, p3>>}
=============================================================================
