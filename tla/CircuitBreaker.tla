--------------------------- MODULE CircuitBreaker ---------------------------
(***************************************************************************)
(* What the circuit breaker of services/opa_client.py promises to a user   *)
(* who makes one call at a time: Threshold failed calls in a row open the  *)
(* circuit for Cooldown, an open circuit lets no call through and is left  *)
(* alone until the cooldown is over, and a success forgets the failures.   *)
(***************************************************************************)
EXTENDS Naturals

CONSTANTS Threshold, Cooldown, Horizon, None

VARIABLES clock,
          failures,       \* consecutive failed calls
          openUntil,      \* end of the cooldown, None while closed
          calls,          \* attempts that went out to OPA
          successes       \* calls that OPA answered

vars == <<clock, failures, openUntil, calls, successes>>

Init ==
    /\ clock = 0 /\ failures = 0 /\ openUntil = None
    /\ calls = 0 /\ successes = 0

Tick ==
    /\ clock < Horizon
    /\ clock' = clock + 1
    /\ UNCHANGED <<failures, openUntil, calls, successes>>

\* The first call after the cooldown closes the circuit.
Close ==
    /\ openUntil # None
    /\ clock >= openUntil
    /\ openUntil' = None
    /\ failures' = 0
    /\ UNCHANGED <<clock, calls, successes>>

\* Only a closed circuit lets a call go out.
GoOut ==
    /\ openUntil = None
    /\ calls' = calls + 1
    /\ UNCHANGED <<clock, failures, openUntil, successes>>

Fail ==
    /\ openUntil = None
    /\ failures' = failures + 1
    /\ openUntil' = IF failures + 1 >= Threshold THEN clock + Cooldown ELSE None
    /\ UNCHANGED <<clock, calls, successes>>

Succeed ==
    /\ openUntil = None
    /\ successes' = successes + 1
    /\ failures' = 0
    /\ UNCHANGED <<clock, openUntil, calls>>

Next == Tick \/ Close \/ GoOut \/ Fail \/ Succeed

Spec == Init /\ [][Next]_vars
=============================================================================
