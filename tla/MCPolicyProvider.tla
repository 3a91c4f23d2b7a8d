-------------------------- MODULE MCPolicyProvider --------------------------
(***************************************************************************)
(* An instance of PolicyProvider for TLC: the calls are model values.      *)
(***************************************************************************)
EXTENDS PolicyProvider

CONSTANTS c1, c2, c3
=============================================================================
