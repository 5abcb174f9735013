---------------------------- MODULE MCInference ----------------------------
(***************************************************************************)
(* The workers' inference for TLC: the corners of what a heartbeat reports *)
(* beside its count of requests.  Nothing at work; everything at its limit *)
(* or beyond it, and the GPU at a third; and the GPU just above it, where  *)
(* the worker turns busy.                                                  *)
(***************************************************************************)
EXTENDS Inference

Corner(cpu, ram, gpu, latency) ==
    [active |-> 0, cpu |-> cpu, ram |-> ram, gpu |-> gpu, latency |-> latency]

FiguresMC ==
    {Corner(0, 0, -1, 0), Corner(100, 100, 33, 200), Corner(100, 100, 34, 30)}
=============================================================================
