---------------------------- MODULE MCOpaClient ----------------------------
(***************************************************************************)
(* Instances of OpaClient for TLC.                                         *)
(***************************************************************************)
EXTENDS OpaClient, TLC

CONSTANTS c1, c2, c3, c4

Symmetry == Permutations(Callers)
=============================================================================
