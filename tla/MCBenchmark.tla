----------------------------- MODULE MCBenchmark ----------------------------
(***************************************************************************)
(* Instances of Benchmark for TLC.                                         *)
(***************************************************************************)
EXTENDS Benchmark, TLC

Symmetry == Permutations(Items)
=============================================================================
