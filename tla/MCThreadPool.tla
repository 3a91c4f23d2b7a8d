---------------------------- MODULE MCThreadPool ----------------------------
(***************************************************************************)
(* Instances of ThreadPool for TLC.                                        *)
(***************************************************************************)
EXTENDS ThreadPool, TLC

CONSTANTS r1, r2, r3, r4

\* Three requests need the database, one does not.
Mixed == r1 :> "check" @@ r2 :> "create" @@ r3 :> "recompile" @@ r4 :> "read"

\* A burst of checks.
Checks == [r \in Reqs |-> "check"]
=============================================================================
