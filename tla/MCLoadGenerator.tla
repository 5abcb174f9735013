-------------------------- MODULE MCLoadGenerator --------------------------
(***************************************************************************)
(* The load generator for TLC: a cfg has no notation for sequences.        *)
(***************************************************************************)
EXTENDS LoadGenerator

LevelListsMC == {<<2, 3>>, <<3, 1>>, <<1, 1, 2>>, <<4>>, <<1, 0>>}
=============================================================================
