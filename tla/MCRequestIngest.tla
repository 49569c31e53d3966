--------------------------- MODULE MCRequestIngest --------------------------
(***************************************************************************)
(* Instances of RequestIngest for TLC.                                     *)
(***************************************************************************)
EXTENDS RequestIngest, TLC

CONSTANTS v1, v2

Symmetry == Permutations(Consumers)
=============================================================================
