----------------------------- MODULE OpaClient -----------------------------
(***************************************************************************)
(* services/opa_client.py: OpaClient.evaluate, called by several threads   *)
(* that share one client.                                                  *)
(*                                                                         *)
(* Each caller is one call of evaluate.  Every HTTP attempt runs in a      *)
(* worker thread of its own, which finishes when it likes: the caller may  *)
(* have given up on it by then.  The two attributes of the circuit breaker *)
(* are read and written without a lock, so every read and every write is a *)
(* step.  Replies are classed by what evaluate does with them: a result    *)
(* (true or false), a bad answer (non-2xx, malformed JSON, no result), a   *)
(* transport error, or an exception that evaluate does not catch.          *)
(***************************************************************************)
EXTENDS Integers, FiniteSets

CONSTANTS Callers,
          Threshold,       \* circuit_breaker_threshold
          Cooldown,        \* circuit_breaker_cooldown_seconds, in ticks
          MaxRetries,      \* max_retries
          Horizon,         \* bound on the clock
          Shared,          \* may several threads be inside evaluate at once?
          None

ASSUME ThresholdAssumption == Threshold \in Nat \ {0}
ASSUME CooldownAssumption == Cooldown \in Nat
ASSUME MaxRetriesAssumption == MaxRetries \in Nat
ASSUME HorizonAssumption == Horizon \in Nat
ASSUME SharedAssumption == Shared \in BOOLEAN

VARIABLES pc, attempt,
          future,          \* the outcome of each attempt's worker
          givenUp,         \* attempts whose caller stopped waiting
          loaded,          \* the old count, inside "+= 1"
          started,         \* the time at the start of evaluate, while in it
          decision,        \* what evaluate returned
          failures,        \* self._consecutive_failures
          openUntil,       \* self._circuit_open_until
          closed,          \* has the httpx client been closed?
          clock,           \* time.monotonic()
          opened, reclosed \* OPA_CIRCUIT_BREAKER_TRANSITIONS, by label

breaker  == <<failures, openUntil, opened, reclosed>>
vars == <<pc, attempt, future, givenUp, loaded, decision, breaker, closed, clock,
          started>>

Attempts == 1..(MaxRetries + 1)

Replies == {"true", "false", "bad", "unreachable", "escapes"}

PCs == {"start", "check", "close", "reset", "submit", "wait", "load", "store",
        "compare", "trip", "open", "succeed", "clear", "done", "raised"}

\* allowed and source of an OpaDecision; by is the attempt that answered.
Decision == [allowed : BOOLEAN, source : {"opa", "fail_closed"},
             by : Attempts \cup {0}]

ASSUME NoneAssumption == None \notin Int \cup Decision \cup Replies \cup {"running"}

FailClosed == [allowed |-> FALSE, source |-> "fail_closed", by |-> 0]

Init ==
    /\ pc = [c \in Callers |-> "start"]
    /\ attempt = [c \in Callers |-> 0]
    /\ future = [c \in Callers |-> [k \in Attempts |-> None]]
    /\ givenUp = [c \in Callers |-> {}]
    /\ loaded = [c \in Callers |-> 0]
    /\ decision = [c \in Callers |-> None]
    /\ failures = 0 /\ openUntil = None
    /\ opened = 0 /\ reclosed = 0
    /\ closed = FALSE
    /\ clock = 0
    /\ started = [c \in Callers |-> 0]

Step(c, from, to) ==
    /\ pc[c] = from
    /\ pc' = [pc EXCEPT ![c] = to]
    /\ started' = [started EXCEPT ![c] = IF from = "start" THEN clock
                                        ELSE IF to \in {"done", "raised"} THEN 0
                                        ELSE @]

Return(c, from, d) ==
    /\ Step(c, from, "done")
    /\ decision' = [decision EXCEPT ![c] = d]

Inside(c) == pc[c] \notin {"start", "done", "raised"}

-----------------------------------------------------------------------------
\* _circuit_is_open.

\* The time, then the first read of _circuit_open_until.
Start(c) ==
    /\ Shared \/ \A d \in Callers : ~Inside(d)
    /\ Step(c, "start", IF openUntil = None THEN "submit" ELSE "check")
    /\ UNCHANGED <<attempt, future, givenUp, loaded, decision, breaker, closed, clock>>

\* Second read: None compares with no time (TypeError).
CheckCooldown(c) ==
    /\ \/ /\ openUntil = None
          /\ Step(c, "check", "raised")
          /\ UNCHANGED decision
       \/ /\ openUntil # None /\ clock >= openUntil
          /\ Step(c, "check", "close")
          /\ UNCHANGED decision
       \/ /\ openUntil # None /\ clock < openUntil
          /\ Return(c, "check", FailClosed)
    /\ UNCHANGED <<attempt, future, givenUp, loaded, breaker, closed, clock>>

\* Mutant: a call is let in and the circuit stays as it is.
LeaveOpen(c) ==
    /\ Step(c, "close", "reset")
    /\ UNCHANGED <<attempt, future, givenUp, loaded, decision, breaker, closed, clock>>

CloseCircuit(c) ==
    /\ Step(c, "close", "reset")
    /\ openUntil' = None
    /\ UNCHANGED <<attempt, future, givenUp, loaded, decision, failures,
                   opened, reclosed, closed, clock>>

\* Mutant: the transition back to closed is not counted.
ResetFailuresUncounted(c) ==
    /\ Step(c, "reset", "submit")
    /\ failures' = 0
    /\ UNCHANGED <<attempt, future, givenUp, loaded, decision, openUntil, opened,
                   reclosed, closed, clock>>

ResetFailures(c) ==
    /\ Step(c, "reset", "submit")
    /\ failures' = 0
    /\ reclosed' = reclosed + 1
    /\ UNCHANGED <<attempt, future, givenUp, loaded, decision, openUntil, opened,
                   closed, clock>>

-----------------------------------------------------------------------------
\* The attempts.

\* _post_with_timeout hands the request to a fresh worker; a closed httpx
\* client refuses it.
Submit(c) ==
    /\ Step(c, "submit", "wait")
    /\ attempt' = [attempt EXCEPT ![c] = @ + 1]
    /\ future' = [future EXCEPT ![c][attempt[c] + 1] =
                    IF closed THEN "escapes" ELSE "running"]
    /\ UNCHANGED <<givenUp, loaded, decision, breaker, closed, clock>>

\* A worker gets its reply, in time or not.  Of the replies nobody waits for
\* only the one that could do harm, an allow before the call is over, is
\* modelled.  An exception that httpx does not call a transport error escapes,
\* as of a reply that cannot be decoded or an input that cannot be encoded.
Finish(c, k) ==
    /\ future[c][k] = "running"
    /\ \E reply \in Replies :
          /\ k \in givenUp[c] => reply = "true" /\ Inside(c)
          /\ future' = [future EXCEPT ![c][k] = reply]
    /\ UNCHANGED <<pc, attempt, givenUp, loaded, decision, breaker, closed, clock, started>>

\* Mutant: one attempt too many.
NextAttemptTooMany(c) ==
    Step(c, "wait", IF attempt[c] <= MaxRetries + 1 THEN "submit" ELSE "load")

\* After a failed attempt: the next one, or record_failure.
NextAttempt(c) ==
    Step(c, "wait", IF attempt[c] < MaxRetries + 1 THEN "submit" ELSE "load")

\* Mutant: future.result() without a timeout.
TimeOutNever(c) ==
    /\ FALSE
    /\ UNCHANGED vars

\* future.result(timeout) gives up; the worker keeps running.
TimeOut(c) ==
    /\ pc[c] = "wait"
    /\ future[c][attempt[c]] = "running"
    /\ NextAttempt(c)
    /\ givenUp' = [givenUp EXCEPT ![c] = @ \cup {attempt[c]}]
    /\ UNCHANGED <<attempt, future, loaded, decision, breaker, closed, clock>>

\* Mutant: the first worker to finish answers the call.
AnsweredByAny(c, k) == k <= attempt[c]

\* The reply whose result evaluate uses.
Answered(c, k) == k = attempt[c]

\* Mutant: a bad answer is retried too.
RetryableAlsoBad(reply) == reply \in {"unreachable", "bad"}

\* ConnectError, TimeoutException, TransportError.
Retryable(reply) == reply = "unreachable"

\* The reply came in time.
Collect(c) ==
    /\ pc[c] = "wait"
    /\ \E k \in Attempts :
          /\ Answered(c, k)
          /\ \/ /\ Retryable(future[c][k])
                /\ NextAttempt(c)
                /\ UNCHANGED decision
             \/ /\ future[c][k] = "escapes"
                /\ Step(c, "wait", "raised")
                /\ UNCHANGED decision
             \/ /\ future[c][k] = "bad" /\ ~Retryable("bad")
                /\ Step(c, "wait", "load")
                /\ UNCHANGED decision
             \/ /\ future[c][k] \in {"true", "false"}
                /\ Step(c, "wait", "succeed")
                /\ decision' = [decision EXCEPT ![c] =
                      [allowed |-> future[c][k] = "true", source |-> "opa", by |-> k]]
    /\ UNCHANGED <<attempt, future, givenUp, loaded, breaker, closed, clock>>

-----------------------------------------------------------------------------
\* _record_failure and _record_success.

LoadFailures(c) ==
    /\ Step(c, "load", "store")
    /\ loaded' = [loaded EXCEPT ![c] = failures]
    /\ UNCHANGED <<attempt, future, givenUp, decision, breaker, closed, clock>>

StoreFailures(c) ==
    /\ Step(c, "store", "compare")
    /\ failures' = loaded[c] + 1
    /\ UNCHANGED <<attempt, future, givenUp, loaded, decision, openUntil,
                   opened, reclosed, closed, clock>>

CompareFailures(c) ==
    /\ \/ /\ failures >= Threshold
          /\ Step(c, "compare", "trip")
          /\ UNCHANGED decision
       \/ /\ failures < Threshold
          /\ Return(c, "compare", FailClosed)
    /\ UNCHANGED <<attempt, future, givenUp, loaded, breaker, closed, clock>>

\* was_open is read; loaded[c] keeps it, as 1 or 0.
ReadWasOpen(c) ==
    /\ Step(c, "trip", "open")
    /\ loaded' = [loaded EXCEPT ![c] = IF openUntil = None THEN 0 ELSE 1]
    /\ UNCHANGED <<attempt, future, givenUp, decision, breaker, closed, clock>>

OpenCircuit(c) ==
    /\ Return(c, "open", FailClosed)
    /\ openUntil' = clock + Cooldown
    /\ opened' = IF loaded[c] = 0 THEN opened + 1 ELSE opened
    /\ UNCHANGED <<attempt, future, givenUp, loaded, failures, reclosed, closed, clock>>

\* Mutant: a success does not forget the failures before it.
SucceedKeepFailures(c) ==
    /\ Step(c, "succeed", "clear")
    /\ UNCHANGED <<attempt, future, givenUp, loaded, decision, breaker, closed, clock>>

Succeed(c) ==
    /\ Step(c, "succeed", "clear")
    /\ failures' = 0
    /\ UNCHANGED <<attempt, future, givenUp, loaded, decision, openUntil,
                   opened, reclosed, closed, clock>>

ClearOpen(c) ==
    /\ Step(c, "clear", "done")
    /\ openUntil' = None
    /\ UNCHANGED <<attempt, future, givenUp, loaded, decision, failures,
                   opened, reclosed, closed, clock>>

-----------------------------------------------------------------------------

Evaluate(c) ==
    \/ Start(c) \/ CheckCooldown(c) \/ CloseCircuit(c) \/ ResetFailures(c)
    \/ Submit(c) \/ TimeOut(c) \/ Collect(c)
    \/ LoadFailures(c) \/ StoreFailures(c) \/ CompareFailures(c)
    \/ ReadWasOpen(c) \/ OpenCircuit(c) \/ Succeed(c) \/ ClearOpen(c)

\* close(), by the owner of the client.
CloseClient ==
    /\ ~closed
    /\ closed' = TRUE
    /\ UNCHANGED <<pc, attempt, future, givenUp, loaded, decision, breaker, clock,
                   started>>

Tick ==
    /\ clock < Horizon
    /\ clock' = clock + 1
    /\ UNCHANGED <<pc, attempt, future, givenUp, loaded, decision, breaker, closed,
                   started>>

Next ==
    \/ Tick \/ CloseClient
    \/ \E c \in Callers : Evaluate(c) \/ \E k \in Attempts : Finish(c, k)

Spec == Init /\ [][Next]_vars

\* Callers run, and a caller that waits is woken by its timeout at the latest;
\* no worker ever needs to finish.
FairSpec == Spec /\ \A c \in Callers : WF_vars(Evaluate(c))

-----------------------------------------------------------------------------

\* Every variable holds a value the code can store in it.
TypeOK ==
    /\ pc \in [Callers -> PCs]
    /\ attempt \in [Callers -> 0..(MaxRetries + 1)]
    /\ future \in [Callers -> [Attempts -> Replies \cup {"running", None}]]
    /\ givenUp \in [Callers -> SUBSET Attempts]
    /\ loaded \in [Callers -> Nat]
    /\ decision \in [Callers -> Decision \cup {None}]
    /\ failures \in Nat
    /\ openUntil \in Nat \cup {None}
    /\ closed \in BOOLEAN
    /\ clock \in Nat
    /\ opened \in Nat /\ reclosed \in Nat
    /\ started \in [Callers -> Nat]

\* A decision of source "opa" repeats the answer of the call's own last
\* attempt, one it had not given up on, and any other decision is a denial: no
\* race in the breaker and no late reply makes an allow
\* (test_concurrent_check_action.py:226-235).
DecisionIsOwnAnswer ==
    \A c \in Callers : decision[c] # None =>
        LET k == decision[c].by IN
        IF decision[c].source = "opa"
        THEN /\ k = attempt[c]
             /\ k \notin givenUp[c]
             /\ future[c][k] = IF decision[c].allowed THEN "true" ELSE "false"
        ELSE ~decision[c].allowed

\* Only connection-level failures are retried, never an answer: every attempt
\* but the last timed out or ended in a transport error (opa_client.py:61-66).
RetriesOnlyUnreached ==
    \A c \in Callers : \A k \in 1..(attempt[c] - 1) :
        k \in givenUp[c] \/ future[c][k] = "unreachable"

\* The calls whose failure has been counted: they are past _record_failure, and
\* their last attempt had no result that could be used.
FailedCalls ==
    {c \in Callers :
        /\ attempt[c] > 0
        /\ \/ attempt[c] \in givenUp[c]
           \/ future[c][attempt[c]] \in {"unreachable", "bad"}
        /\ pc[c] \notin {"submit", "wait", "load", "store"}}

\* The calls that _circuit_is_open has let in, until they are over.
LetIn == {c \in Callers : pc[c] \notin {"start", "check", "close", "done", "raised"}}

\* An open circuit, whatever races (opa_client.py:102-135).  It was opened on
\* the failures of Threshold calls: threads that race lose counts and may count
\* a failure from before a success, but never one twice.  And nobody gets in
\* while it is open: the calls whose failure can start the cooldown anew are
\* those that began before it was last opened.
OpenIsJustified ==
    openUntil # None =>
        /\ Cardinality(FailedCalls) >= Threshold
        /\ \A c \in LetIn : started[c] + Cooldown <= openUntil

\* A caller gets a decision, or an exception, even if OPA never answers.
EveryCallEnds == \A c \in Callers : pc[c] = "submit" ~> pc[c] \in {"done", "raised"}

\* A thread that races with another in the breaker gets one of two outcomes,
\* which "both ... resolve through the same fail-closed-on-failure /
\* real-response-on-success paths" (test_concurrent_check_action.py:229-233):
\* evaluate raises only what an attempt of its own raised.
RacesResolveToDecisions ==
    \A c \in Callers : pc[c] = "raised" =>
        \E k \in Attempts : future[c][k] = "escapes"

\* With one call at a time the two transition counters tell the state of the
\* circuit: it was opened once more often than closed exactly when it is open.
CountersTellState ==
    (\A c \in Callers : pc[c] # "reset") =>
        opened - reclosed = IF openUntil = None THEN 0 ELSE 1

-----------------------------------------------------------------------------
\* Refinement, for one call at a time.

\* A failure counts once the circuit is or is not opened by it.
PendingFailure == \E c \in Callers : pc[c] \in {"compare", "trip", "open"}

CountedFailures ==
    IF PendingFailure THEN failures - 1
    ELSE IF \E c \in Callers : pc[c] = "reset" THEN 0
    ELSE failures

\* The attempts that went out, and the calls that OPA answered.
SentAttempts == {a \in Callers \X Attempts : future[a[1]][a[2]] # None}

AnsweredCalls == {c \in Callers : /\ decision[c] # None
                                  /\ decision[c].source = "opa"
                                  /\ pc[c] # "succeed"}

Breaker == INSTANCE CircuitBreaker WITH
               failures <- CountedFailures,
               calls <- Cardinality(SentAttempts),
               successes <- Cardinality(AnsweredCalls)

\* One call at a time, evaluate implements the circuit breaker: after
\* Threshold failed calls nothing goes out until the cooldown is over.
ImplementsBreaker == Breaker!Spec
=============================================================================
