----------------------------- MODULE LoadScore -----------------------------
(***************************************************************************)
(* The load score of a worker, which update_heartbeat in                   *)
(* master/registry.py computes from the figures of a heartbeat: what       *)
(* load_aware compares workers by and what turns a worker busy.            *)
(*                                                                         *)
(* The code computes a sum of weighted shares in floating point, at most   *)
(* 1.0, and compares it with 0.9.  Here the full load is 6000 times the    *)
(* count of requests that is a full share, in which unit every weight is   *)
(* whole, so only the rounding is left out.                                *)
(***************************************************************************)
EXTENDS Integers

CONSTANTS
    Figures,      \* the figures a heartbeat may carry
    FullCount     \* the active requests that are a full share: 10 in the code

\* gpu is negative without a figure, latency is in seconds.
FigureRecord ==
    [active : Nat, cpu : 0 .. 100, ram : 0 .. 100, gpu : -1 .. 100,
     latency : Nat]

ASSUME FiguresAssumption == Figures \subseteq FigureRecord
ASSUME FullCountAssumption == FullCount \in Nat \ {0}

\* The figures of a worker that has registered and sent no heartbeat yet.
NoFigures == [active |-> 0, cpu |-> 0, ram |-> 0, gpu |-> -1, latency |-> 0]

Full == 6000 * FullCount
Threshold == 5400 * FullCount     \* 0.9

AtMost(x, cap) == IF x < cap THEN x ELSE cap

\* Mutants: no cap on the latency, and a missing GPU that counts.
ScoreOfAnyLatency(f) ==
    2100 * AtMost(f.active, FullCount)
      + FullCount * (12 * f.cpu + 12 * f.ram
                       + 9 * (IF f.gpu < 0 THEN 0 ELSE f.gpu) + 20 * f.latency)

ScoreOfMissingGpu(f) ==
    2100 * AtMost(f.active, FullCount)
      + FullCount * (12 * f.cpu + 12 * f.ram + 9 * f.gpu
                       + 20 * AtMost(f.latency, 30))

\* FullCount requests and thirty seconds are a full share each.
Score(f) ==
    2100 * AtMost(f.active, FullCount)
      + FullCount * (12 * f.cpu + 12 * f.ram
                       + 9 * (IF f.gpu < 0 THEN 0 ELSE f.gpu)
                       + 20 * AtMost(f.latency, 30))

Overloaded(s) == s >= Threshold
=============================================================================
