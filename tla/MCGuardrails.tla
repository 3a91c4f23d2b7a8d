---------------------------- MODULE MCGuardrails ----------------------------
(***************************************************************************)
(* Instances of Guardrails for TLC.                                        *)
(***************************************************************************)
EXTENDS Guardrails, TLC

CONSTANTS r1, r2, r3, r4, org1, org2, sysA, sysB

\* One organization with one system: the requests contend for one chain.
OneOwner == sysA :> org1

\* Two organizations, a system each.
TwoOwners == sysA :> org1 @@ sysB :> org2

\* Requests are interchangeable.
Symmetry == Permutations(Reqs)
=============================================================================
