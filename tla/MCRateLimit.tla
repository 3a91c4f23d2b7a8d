---------------------------- MODULE MCRateLimit ----------------------------
(***************************************************************************)
(* An instance of RateLimit for TLC: three calls of one organization and   *)
(* one of another.                                                         *)
(***************************************************************************)
EXTENDS RateLimit, TLC

CONSTANTS c1, c2, c3, c4, org1, org2

ThreeAndOne == c1 :> org1 @@ c2 :> org1 @@ c3 :> org1 @@ c4 :> org2
=============================================================================
