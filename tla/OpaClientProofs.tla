-------------------------- MODULE OpaClientProofs --------------------------
(***************************************************************************)
(* Theorems about OpaClient, for any number of callers, any threshold,     *)
(* cooldown and number of retries, and any interleaving of the unlocked    *)
(* reads and writes of the breaker.                                        *)
(***************************************************************************)
EXTENDS OpaClient, FiniteSetTheorems, TLAPS

\* The steps before the first attempt, and those after an answer.
Before == {"start", "check", "close", "reset"}
After == {"succeed", "clear", "done"}

\* An attempt that let the call go on to another one.
Unreached(c, k) == k \in givenUp[c] \/ future[c][k] = "unreachable"

LEMMA FailClosedType ==
    /\ FailClosed \in Decision /\ FailClosed # None
    /\ FailClosed.source = "fail_closed" /\ FailClosed.allowed = FALSE
<1>1. FailClosed \in Decision
  BY DEF FailClosed, Decision
<1>2. FailClosed # None
  BY <1>1, NoneAssumption
<1> QED  BY <1>1, <1>2 DEF FailClosed

-----------------------------------------------------------------------------
\* What no step of a caller changes of the others.

LEMMA OthersKept ==
    ASSUME TypeOK, NEW c \in Callers,
           Evaluate(c) \/ \E k \in Attempts : Finish(c, k)
    PROVE  \A d \in Callers \ {c} :
               /\ pc'[d] = pc[d] /\ attempt'[d] = attempt[d]
               /\ future'[d] = future[d] /\ givenUp'[d] = givenUp[d]
               /\ loaded'[d] = loaded[d] /\ decision'[d] = decision[d]
<1> USE DEF TypeOK, Step, Return
<1>1. CASE Start(c) \/ CheckCooldown(c) \/ CloseCircuit(c) \/ ResetFailures(c)
  BY <1>1 DEF Start, CheckCooldown, CloseCircuit, ResetFailures
<1>2. CASE Submit(c) \/ TimeOut(c) \/ Collect(c)
  BY <1>2 DEF Submit, TimeOut, Collect, NextAttempt
<1>3. CASE LoadFailures(c) \/ StoreFailures(c) \/ CompareFailures(c) \/ ReadWasOpen(c)
  BY <1>3 DEF LoadFailures, StoreFailures, CompareFailures, ReadWasOpen
<1>4. CASE OpenCircuit(c) \/ Succeed(c) \/ ClearOpen(c)
  BY <1>4 DEF OpenCircuit, Succeed, ClearOpen
<1>5. CASE \E k \in Attempts : Finish(c, k)
  BY <1>5 DEF Finish
<1> QED  BY <1>1, <1>2, <1>3, <1>4, <1>5 DEF Evaluate

\* A caller notes the time when it starts, and forgets it when it is over.
LEMMA StartedType ==
    ASSUME TypeOK, NEW c \in Callers,
           Evaluate(c) \/ \E k \in Attempts : Finish(c, k)
    PROVE  /\ started' \in [Callers -> Nat]
           /\ \A d \in Callers \ {c} : started'[d] = started[d]
           /\ started'[c] \in {0, started[c], clock}
           /\ pc[c] # "start" => started'[c] \in {0, started[c]}
<1>1. CASE \E from, to \in PCs : Step(c, from, to)
  BY <1>1 DEF Step, TypeOK
<1>2. CASE started' = started
  BY <1>2 DEF TypeOK
<1>3. CASE Evaluate(c)
  <2>1. (\E from, to \in PCs : Step(c, from, to))
    <3> USE DEF PCs
    <3>1. CASE Start(c)
      BY <3>1 DEF Start
    <3>2. CASE CheckCooldown(c)
      BY <3>2 DEF CheckCooldown, Return
    <3>3. CASE CloseCircuit(c) \/ ResetFailures(c) \/ Submit(c)
      BY <3>3 DEF CloseCircuit, ResetFailures, Submit
    <3>4. CASE TimeOut(c)
      BY <3>4 DEF TimeOut, NextAttempt
    <3>5. CASE Collect(c)
      BY <3>5 DEF Collect, NextAttempt
    <3>6. CASE LoadFailures(c) \/ StoreFailures(c) \/ ReadWasOpen(c)
      BY <3>6 DEF LoadFailures, StoreFailures, ReadWasOpen
    <3>7. CASE CompareFailures(c) \/ OpenCircuit(c)
      BY <3>7 DEF CompareFailures, OpenCircuit, Return
    <3>8. CASE Succeed(c) \/ ClearOpen(c)
      BY <3>8 DEF Succeed, ClearOpen
    <3> QED
      BY <1>3, <3>1, <3>2, <3>3, <3>4, <3>5, <3>6, <3>7, <3>8 DEF Evaluate
  <2> QED  BY <1>1, <2>1
<1> QED  BY <1>2, <1>3 DEF Finish

\* How far a caller is with its attempts, and what a decision of it is.
Own(c) ==
    /\ pc[c] \in Before => attempt[c] = 0
    /\ pc[c] = "submit" => attempt[c] <= MaxRetries
    /\ pc[c] = "wait" => attempt[c] >= 1 /\ attempt[c] \notin givenUp[c]
    /\ \A k \in givenUp[c] : k <= attempt[c]
    /\ \A k \in 1..(attempt[c] - 1) : Unreached(c, k)
    /\ pc[c] = "submit" /\ attempt[c] >= 1 => Unreached(c, attempt[c])
    /\ decision[c] # None =>
          /\ pc[c] \in After
          /\ IF decision[c].source = "opa"
             THEN /\ decision[c].by = attempt[c] /\ attempt[c] >= 1
                  /\ attempt[c] \notin givenUp[c]
                  /\ future[c][attempt[c]] = IF decision[c].allowed THEN "true" ELSE "false"
             ELSE ~decision[c].allowed


-----------------------------------------------------------------------------
\* The invariants.

LEMMA InvInit == Init => TypeOK /\ (\A c \in Callers : Own(c))
<1> SUFFICES ASSUME Init PROVE TypeOK /\ (\A c \in Callers : Own(c))
  OBVIOUS
<1>1. TypeOK
  <2>1. 0 \in 0..(MaxRetries + 1)
    BY MaxRetriesAssumption
  <2>2. /\ pc \in [Callers -> PCs] /\ attempt \in [Callers -> 0..(MaxRetries + 1)]
        /\ loaded \in [Callers -> Nat] /\ decision \in [Callers -> Decision \cup {None}]
        /\ givenUp \in [Callers -> SUBSET Attempts]
    BY <2>1 DEF Init, PCs
  <2>3. future \in [Callers -> [Attempts -> Replies \cup {"running", None}]]
    BY DEF Init
  <2> QED  BY <2>2, <2>3 DEF Init, TypeOK
<1>2. \A c \in Callers : Own(c)
  BY MaxRetriesAssumption DEF Init, Own, Before, After
<1> QED  BY <1>1, <1>2

\* Types, the caller that takes a step, and the circuit.
LEMMA EvaluateKeeps ==
    ASSUME TypeOK, NEW c \in Callers, Own(c), Evaluate(c)
    PROVE  TypeOK' /\ Own(c)'
<1>0. /\ MaxRetries \in Nat /\ Cooldown \in Nat /\ attempt[c] \in 0..(MaxRetries + 1)
      /\ failures \in Nat /\ loaded[c] \in Nat /\ clock \in Nat
      /\ openUntil \in Nat \cup {None}
  BY MaxRetriesAssumption, CooldownAssumption DEF TypeOK
<1>a. started' \in [Callers -> Nat]
  BY StartedType
<1>1. CASE Start(c) \/ CheckCooldown(c) \/ CloseCircuit(c) \/ ResetFailures(c)
  <2>1. TypeOK'
    <3>1. pc' \in [Callers -> PCs]
      BY <1>1 DEF Start, CheckCooldown, CloseCircuit, ResetFailures, Step, Return,
         TypeOK, PCs
    <3>3. decision' \in [Callers -> Decision \cup {None}]
      BY <1>1, FailClosedType DEF Start, CheckCooldown, CloseCircuit, ResetFailures,
         Return, TypeOK
    <3>2. /\ UNCHANGED <<attempt, future, givenUp, loaded, closed, clock, opened>>
          /\ failures' \in {0, failures} /\ openUntil' \in {None, openUntil}
          /\ reclosed' \in {reclosed, reclosed + 1}
      BY <1>1 DEF Start, CheckCooldown, CloseCircuit, ResetFailures, breaker
    <3> QED  BY <1>0, <1>a, <3>1, <3>2, <3>3 DEF TypeOK
  <2>2. UNCHANGED <<attempt, future, givenUp>>
    BY <1>1 DEF Start, CheckCooldown, CloseCircuit, ResetFailures
  <2>3. /\ pc[c] \in Before /\ pc'[c] \in Before \cup {"submit", "raised", "done"}
        /\ IF pc'[c] = "done" THEN decision'[c] = FailClosed
                              ELSE decision'[c] = decision[c]
    BY <1>1 DEF Start, CheckCooldown, CloseCircuit, ResetFailures, Step, Return, Before,
                TypeOK
  <2> QED  BY <1>0, <2>1, <2>2, <2>3, FailClosedType DEF Own, Before, After
<1>2. CASE Submit(c)
  <2>1. attempt[c] + 1 \in Attempts
    BY <1>0, <1>2 DEF Own, Submit, Step, Attempts
  <2>2. TypeOK'
    BY <1>0, <1>a, <1>2, <2>1 DEF Submit, Step, TypeOK, breaker, PCs, Replies,
                            Attempts
  <2>3. /\ pc[c] = "submit" /\ pc'[c] = "wait" /\ attempt'[c] = attempt[c] + 1
        /\ UNCHANGED <<givenUp, decision>>
        /\ \A k \in Attempts \ {attempt[c] + 1} : future'[c][k] = future[c][k]
    BY <1>2 DEF Submit, Step, TypeOK
  <2>4. decision[c] = None
    BY <2>3 DEF Own, After
  <2>5. \A k \in 1..attempt[c] : Unreached(c, k)
    BY <1>0, <2>3 DEF Own
  <2>6. \A k \in 1..attempt[c] : Unreached(c, k)'
    BY <1>0, <2>1, <2>3, <2>5 DEF Unreached, Attempts
  <2>7. /\ \A k \in givenUp[c] : k \in Nat /\ k <= attempt[c]
        /\ givenUp[c] \subseteq Attempts
    BY DEF Own, TypeOK, Attempts
  <2> QED  BY <1>0, <2>2, <2>3, <2>4, <2>6, <2>7 DEF Own, Before, After
<1>3. CASE TimeOut(c)
  <2>1. /\ pc[c] = "wait"
        /\ pc'[c] = IF attempt[c] < MaxRetries + 1 THEN "submit" ELSE "load"
        /\ pc' = [pc EXCEPT ![c] = pc'[c]]
        /\ givenUp'[c] = givenUp[c] \cup {attempt[c]}
        /\ UNCHANGED <<attempt, future, loaded, decision, breaker, closed, clock>>
    BY <1>3 DEF TimeOut, NextAttempt, Step, TypeOK
  <2>2. attempt[c] \in Attempts
    BY <1>0, <2>1 DEF Own, Attempts
  <2>3. TypeOK'
    BY <1>a, <1>3, <2>1, <2>2 DEF TimeOut, TypeOK, breaker, PCs
  <2>4. decision[c] = None
    BY <2>1 DEF Own, After
  <2>5. \A k \in 1..(attempt[c] - 1) : Unreached(c, k)'
    BY <2>1 DEF Own, Unreached
  <2>6. Unreached(c, attempt[c])'
    BY <2>1 DEF Unreached
  <2> QED  BY <1>0, <2>1, <2>2, <2>3, <2>4, <2>5, <2>6 DEF Own, Before, After
<1>4. CASE Collect(c)
  <2> DEFINE k == attempt[c]
             answer == [allowed |-> future[c][k] = "true", source |-> "opa", by |-> k]
  <2>1. /\ pc[c] = "wait" /\ k \in Attempts
        /\ pc' = [pc EXCEPT ![c] = pc'[c]]
        /\ UNCHANGED <<attempt, future, givenUp, loaded, breaker, closed, clock>>
        /\ \/ /\ future[c][k] = "unreachable"
              /\ pc'[c] = IF k < MaxRetries + 1 THEN "submit" ELSE "load"
              /\ decision' = decision
           \/ pc'[c] \in {"raised", "load"} /\ decision' = decision
           \/ /\ future[c][k] \in {"true", "false"}
              /\ pc'[c] = "succeed"
              /\ decision' = [decision EXCEPT ![c] = answer]
    BY <1>4 DEF Collect, Answered, Retryable, NextAttempt, Step, TypeOK
  <2>2. decision[c] = None /\ k \notin givenUp[c]
    BY <2>1 DEF Own, After
  <2>3. answer \in Decision /\ answer # None /\ answer.source = "opa" /\ answer.by = k
    <3>1. (future[c][k] = "true") \in BOOLEAN
      OBVIOUS
    <3>2. answer \in Decision
      BY <2>1, <3>1 DEF Decision
    <3>3. None \notin Decision
      BY NoneAssumption
    <3> QED  BY <3>2, <3>3
  <2>4. future[c][k] \in {"true", "false"} =>
            future[c][k] = IF answer.allowed THEN "true" ELSE "false"
    OBVIOUS
  <2>5. UNCHANGED <<attempt, future, givenUp, loaded, breaker, closed, clock>>
    BY <2>1
  <2>6. pc'[c] \in {"submit", "load", "raised", "succeed"}
    BY <1>0, <2>1
  <2>7. decision' \in [Callers -> Decision \cup {None}]
    BY <2>1, <2>3 DEF TypeOK
  <2>8. TypeOK'
    BY <1>a, <2>1, <2>5, <2>6, <2>7 DEF TypeOK, breaker, PCs
  <2>9. \A j \in 1..(attempt[c] - 1) : Unreached(c, j)'
    BY <2>1 DEF Own, Unreached
  <2>10. pc'[c] = "submit" => Unreached(c, k)' /\ k <= MaxRetries /\ decision' = decision
    BY <1>0, <2>1 DEF Unreached
  <2>11. decision'[c] # None =>
            /\ pc'[c] = "succeed" /\ decision'[c] = answer
            /\ future[c][k] \in {"true", "false"}
    BY <2>1, <2>2 DEF TypeOK
  <2> HIDE DEF answer
  <2> QED
    BY <1>0, <2>1, <2>2, <2>3, <2>4, <2>5, <2>6, <2>8, <2>9, <2>10, <2>11
    DEF Own, Before, After
<1>5. CASE \/ LoadFailures(c) \/ StoreFailures(c) \/ CompareFailures(c)
           \/ ReadWasOpen(c) \/ OpenCircuit(c) \/ Succeed(c) \/ ClearOpen(c)
  <2>1. TypeOK'
    <3>1. CASE LoadFailures(c)
      BY <1>0, <1>a, <3>1 DEF LoadFailures, Step, TypeOK, breaker, PCs
    <3>6. CASE StoreFailures(c)
      BY <1>0, <1>a, <3>6 DEF StoreFailures, Step, TypeOK, PCs
    <3>5. CASE ReadWasOpen(c)
      BY <1>0, <1>a, <3>5 DEF ReadWasOpen, Step, TypeOK, breaker, PCs
    <3>2. CASE CompareFailures(c)
      <4>1. pc' \in [Callers -> PCs]
        BY <3>2 DEF CompareFailures, Step, Return, TypeOK, PCs
      <4>2. decision' \in [Callers -> Decision \cup {None}]
        BY <3>2, FailClosedType DEF CompareFailures, Return, TypeOK
      <4> QED  BY <1>a, <3>2, <4>1, <4>2 DEF CompareFailures, TypeOK, breaker
    <3>3. CASE OpenCircuit(c)
      <4>1. pc' \in [Callers -> PCs]
        BY <3>3 DEF OpenCircuit, Step, Return, TypeOK, PCs
      <4>2. decision' \in [Callers -> Decision \cup {None}]
        BY <3>3, FailClosedType DEF OpenCircuit, Return, TypeOK
      <4> QED  BY <1>0, <1>a, <3>3, <4>1, <4>2 DEF OpenCircuit, TypeOK
    <3>4. CASE Succeed(c) \/ ClearOpen(c)
      BY <1>0, <1>a, <3>4 DEF Succeed, ClearOpen, Step, TypeOK, breaker, PCs
    <3> QED  BY <1>5, <3>1, <3>2, <3>3, <3>4, <3>5, <3>6
  <2>3. /\ UNCHANGED <<attempt, future, givenUp>>
        /\ pc'[c] \notin Before \cup {"submit", "wait"}
        /\ \/ decision'[c] = FailClosed /\ pc'[c] = "done"
           \/ decision'[c] = decision[c] /\ (pc[c] \in After => pc'[c] \in After)
    BY <1>5 DEF LoadFailures, StoreFailures, CompareFailures, ReadWasOpen, OpenCircuit,
                Succeed, ClearOpen, Step, Return, TypeOK, Before, After
  <2>4. \A k \in 1..(attempt[c] - 1) : Unreached(c, k)'
    BY <2>3 DEF Own, Unreached
  <2> QED  BY <2>1, <2>3, <2>4, FailClosedType DEF Own, After
<1> QED  BY <1>1, <1>2, <1>3, <1>4, <1>5 DEF Evaluate

LEMMA FinishKeeps ==
    ASSUME TypeOK, NEW c \in Callers, Own(c),
           NEW k \in Attempts, Finish(c, k)
    PROVE  TypeOK' /\ Own(c)'
<1>1. /\ UNCHANGED <<pc, attempt, givenUp, loaded, decision, breaker, closed, clock>>
      /\ \A j \in Attempts : future[c][j] # "running" => future'[c][j] = future[c][j]
  BY DEF Finish, TypeOK
<1>2. TypeOK'
  BY <1>1, StartedType DEF Finish, TypeOK, Replies, breaker
<1>3. attempt[c] \in Nat /\ MaxRetries \in Nat /\ attempt[c] <= MaxRetries + 1
  BY MaxRetriesAssumption DEF TypeOK
<1>4. \A j \in Attempts : Unreached(c, j) => Unreached(c, j)'
  BY <1>1 DEF Unreached
<1>5. decision[c] # None /\ decision[c].source = "opa" =>
          attempt[c] \in Attempts /\ future'[c][attempt[c]] = future[c][attempt[c]]
  <2> SUFFICES ASSUME decision[c] # None, decision[c].source = "opa"
               PROVE  attempt[c] \in Attempts /\ future'[c][attempt[c]] = future[c][attempt[c]]
    OBVIOUS
  <2>1. future[c][attempt[c]] \in {"true", "false"}
    BY DEF Own
  <2>2. attempt[c] \in Attempts
    BY <1>3 DEF Own, Attempts
  <2> QED  BY <1>1, <2>1, <2>2
<1>6. Own(c)'
  BY <1>1, <1>3, <1>4, <1>5 DEF Own, Attempts
<1> QED  BY <1>2, <1>6

LEMMA Invariants == Spec => [](TypeOK /\ (\A c \in Callers : Own(c)))
<1> DEFINE I == TypeOK /\ (\A c \in Callers : Own(c))
<1>1. Init => I
  BY InvInit
<1>2. I /\ [Next]_vars => I'
  <2> SUFFICES ASSUME I, [Next]_vars PROVE I'
    OBVIOUS
  <2>1. ASSUME NEW c \in Callers, Evaluate(c) \/ \E k \in Attempts : Finish(c, k)
        PROVE  I'
    <3>1. TypeOK' /\ Own(c)'
      BY <2>1, EvaluateKeeps, FinishKeeps
    <3>2. ASSUME NEW d \in Callers \ {c} PROVE Own(d)'
      <4>1. /\ pc'[d] = pc[d] /\ attempt'[d] = attempt[d]
            /\ future'[d] = future[d] /\ givenUp'[d] = givenUp[d]
            /\ decision'[d] = decision[d]
        BY <2>1, OthersKept
      <4>2. \A k : Unreached(d, k)' <=> Unreached(d, k)
        BY <4>1 DEF Unreached
      <4> QED  BY <4>1, <4>2 DEF Own
    <3> QED  BY <3>1, <3>2
  <2>2. CASE Tick \/ CloseClient \/ UNCHANGED vars
    <3>1. /\ UNCHANGED <<pc, attempt, future, givenUp, loaded, decision, breaker, started>>
          /\ clock' \in {clock, clock + 1} /\ closed' \in BOOLEAN
      BY <2>2 DEF Tick, CloseClient, vars, TypeOK
    <3>2. TypeOK'
      BY <3>1 DEF TypeOK, breaker
    <3>3. \A c \in Callers : Own(c)'
      BY <3>1 DEF Own, Unreached
    <3> QED  BY <3>2, <3>3
  <2> QED  BY <2>1, <2>2 DEF Next
<1> QED  BY <1>1, <1>2, PTL DEF Spec

\* Every variable keeps its type, whatever races in the breaker.
THEOREM TypeCorrect == Spec => []TypeOK
BY Invariants, PTL

\* A decision of OPA is the answer of the call's own last attempt, and every
\* other decision is a denial, whatever races and whenever workers reply.
THEOREM OwnAnswer == Spec => []DecisionIsOwnAnswer
<1>1. (\A c \in Callers : Own(c)) => DecisionIsOwnAnswer
  BY DEF Own, DecisionIsOwnAnswer
<1> QED  BY <1>1, Invariants, PTL

\* Every attempt but the last timed out or did not reach OPA.
THEOREM OnlyUnreachedRetried == Spec => []RetriesOnlyUnreached
<1>1. (\A c \in Callers : Own(c)) => RetriesOnlyUnreached
  BY DEF Own, RetriesOnlyUnreached, Unreached
<1> QED  BY <1>1, Invariants, PTL

-----------------------------------------------------------------------------
\* What an open circuit stands for.

\* The call's last attempt had no result; and its failure, if so, is counted.
Lost(c) ==
    /\ attempt[c] > 0
    /\ \/ attempt[c] \in givenUp[c]
       \/ future[c][attempt[c]] \in {"unreachable", "bad"}

Past(c) == pc[c] \notin {"submit", "wait", "load", "store"}

\* No count, stored or about to be, exceeds the calls that have failed, and
\* Threshold of them stand behind an open circuit and behind who will open it.
Evidence ==
    /\ IsFiniteSet(FailedCalls)
    /\ failures <= Cardinality(FailedCalls)
    /\ openUntil # None => Cardinality(FailedCalls) >= Threshold
    /\ \A c \in Callers :
          /\ pc[c] \in {"load", "store"} => Lost(c)
          /\ pc[c] = "store" => loaded[c] <= Cardinality(FailedCalls)
          /\ pc[c] \in {"trip", "open"} => Cardinality(FailedCalls) >= Threshold

\* Calls began in the past, and those let in began before the circuit opened.
Begun ==
    /\ \A c \in Callers : started[c] <= clock
    /\ openUntil # None => \A c \in LetIn : started[c] + Cooldown <= openUntil

\* A failed call stays one, and a failure stays until it is counted.
LEMMA LostKept ==
    ASSUME TypeOK, NEW c \in Callers, Own(c),
           pc[c] \in {"load", "store"} => Lost(c),
           Evaluate(c) \/ \E k \in Attempts : Finish(c, k)
    PROVE  /\ Lost(c) /\ Past(c) => Lost(c)' /\ Past(c)'
           /\ pc'[c] \in {"load", "store"} => Lost(c)'
<1>0. attempt[c] \in 0..(MaxRetries + 1) /\ MaxRetries \in Nat
  BY MaxRetriesAssumption DEF TypeOK
<1>1. CASE Start(c) \/ CheckCooldown(c) \/ CloseCircuit(c) \/ ResetFailures(c)
  <2>1. /\ attempt[c] = 0 /\ attempt' = attempt
        /\ pc'[c] \notin {"load", "store"}
    BY <1>1 DEF Start, CheckCooldown, CloseCircuit, ResetFailures, Step, Return, Own,
       Before, TypeOK
  <2> QED  BY <2>1 DEF Lost
<1>2. CASE Submit(c)
  <2>1. pc[c] = "submit" /\ pc'[c] = "wait"
    BY <1>2 DEF Submit, Step, TypeOK
  <2> QED  BY <2>1 DEF Past
<1>3. CASE TimeOut(c)
  <2>1. /\ pc[c] = "wait" /\ givenUp'[c] = givenUp[c] \cup {attempt[c]}
        /\ attempt' = attempt /\ attempt[c] >= 1
    BY <1>3 DEF TimeOut, Own, TypeOK
  <2> QED  BY <1>0, <2>1 DEF Past, Lost
<1>4. CASE Collect(c)
  <2>1. /\ pc[c] = "wait" /\ attempt[c] >= 1 /\ UNCHANGED <<attempt, future, givenUp>>
        /\ pc'[c] \in {"load", "store"} => future[c][attempt[c]] \in {"unreachable", "bad"}
    BY <1>4 DEF Collect, Answered, Retryable, NextAttempt, Step, Own, TypeOK
  <2> QED  BY <1>0, <2>1 DEF Past, Lost
<1>5. CASE \/ LoadFailures(c) \/ StoreFailures(c) \/ CompareFailures(c)
           \/ ReadWasOpen(c) \/ OpenCircuit(c) \/ Succeed(c) \/ ClearOpen(c)
  <2>1. /\ UNCHANGED <<attempt, future, givenUp>>
        /\ pc'[c] \in {"store", "compare", "trip", "open", "clear", "done"}
        /\ pc'[c] = "store" => pc[c] = "load"
    BY <1>5 DEF LoadFailures, StoreFailures, CompareFailures, ReadWasOpen, OpenCircuit,
                Succeed, ClearOpen, Step, Return, TypeOK
  <2>2. Lost(c)' <=> Lost(c)
    BY <2>1 DEF Lost
  <2>3. pc[c] = "load" => ~Past(c)
    BY DEF Past
  <2>4. pc'[c] \in {"store", "load"} => pc[c] = "load"
    BY <2>1
  <2>5. pc'[c] # "store" => Past(c)'
    BY <2>1 DEF Past
  <2> QED  BY <2>2, <2>3, <2>4, <2>5
<1>6. CASE \E k \in Attempts : Finish(c, k)
  <2>1. /\ UNCHANGED <<pc, attempt, givenUp>>
        /\ \A j \in Attempts : future[c][j] # "running" => future'[c][j] = future[c][j]
    BY <1>6 DEF Finish, TypeOK
  <2>2. Lost(c) => Lost(c)'
    BY <1>0, <2>1 DEF Lost, Attempts
  <2> QED  BY <2>1, <2>2 DEF Past
<1> QED  BY <1>1, <1>2, <1>3, <1>4, <1>5, <1>6 DEF Evaluate

LEMMA FailedKept ==
    ASSUME TypeOK, NEW c \in Callers, Own(c),
           pc[c] \in {"load", "store"} => Lost(c),
           Evaluate(c) \/ \E k \in Attempts : Finish(c, k)
    PROVE  FailedCalls' = IF c \in FailedCalls' THEN FailedCalls \cup {c} ELSE FailedCalls
<1>1. FailedCalls = {d \in Callers : Lost(d) /\ Past(d)}
  BY DEF FailedCalls, Lost, Past
<1>2. FailedCalls' = {d \in Callers : Lost(d)' /\ Past(d)'}
  BY DEF FailedCalls, Lost, Past
<1>3. c \in FailedCalls => c \in FailedCalls'
  BY <1>1, <1>2, LostKept
<1>4. \A d \in Callers \ {c} : (Lost(d)' <=> Lost(d)) /\ (Past(d)' <=> Past(d))
  BY OthersKept DEF Lost, Past
<1> QED  BY <1>1, <1>2, <1>3, <1>4

LEMMA EvidenceKept ==
    ASSUME TypeOK, Evidence, NEW c \in Callers, Own(c),
           Evaluate(c) \/ \E k \in Attempts : Finish(c, k)
    PROVE  Evidence'
<1> DEFINE n == Cardinality(FailedCalls)
           m == Cardinality(FailedCalls')
<1>0. /\ failures \in Nat /\ Threshold \in Nat \ {0}
      /\ \A d \in Callers : loaded[d] \in Nat
  BY ThresholdAssumption DEF TypeOK
<1>1. FailedCalls' = IF c \in FailedCalls' THEN FailedCalls \cup {c} ELSE FailedCalls
  BY FailedKept DEF Evidence
<1>2. IsFiniteSet(FailedCalls) /\ n \in Nat
  BY FS_CardinalityType DEF Evidence
<1>3. IsFiniteSet(FailedCalls') /\ m \in Nat /\ n <= m
  <2>1. IsFiniteSet(FailedCalls \cup {c}) /\ Cardinality(FailedCalls \cup {c}) \in {n, n + 1}
    BY <1>2, FS_AddElement
  <2> QED  BY <1>1, <1>2, <2>1
<1>4. StoreFailures(c) => m = n + 1
  <2> SUFFICES ASSUME StoreFailures(c) PROVE m = n + 1
    OBVIOUS
  <2>1. /\ pc[c] = "store" /\ pc'[c] = "compare"
        /\ UNCHANGED <<attempt, future, givenUp>>
    BY DEF StoreFailures, Step, TypeOK
  <2>2. Lost(c)
    BY <2>1 DEF Evidence
  <2>3. c \in FailedCalls' /\ c \notin FailedCalls
    BY <2>1, <2>2 DEF Lost, FailedCalls
  <2> QED  BY <1>1, <1>2, <2>3, FS_AddElement
<1>5. /\ failures' \in {0, failures} \/ (StoreFailures(c) /\ pc[c] = "store" /\ failures' = loaded[c] + 1)
      /\ openUntil' \in {None, openUntil} \/ pc[c] = "open"
      /\ pc'[c] = "store" => \/ pc[c] = "store" /\ loaded'[c] = loaded[c]
                             \/ loaded'[c] = failures
      /\ pc'[c] \in {"trip", "open"} => pc[c] \in {"trip", "open"} \/ failures >= Threshold
  <2> USE DEF Step, Return, TypeOK, breaker
  <2>1. CASE Start(c) \/ CheckCooldown(c) \/ CloseCircuit(c) \/ ResetFailures(c)
    BY <2>1 DEF Start, CheckCooldown, CloseCircuit, ResetFailures
  <2>2. CASE Submit(c) \/ TimeOut(c) \/ Collect(c)
    BY <2>2 DEF Submit, TimeOut, Collect, NextAttempt
  <2>3. CASE LoadFailures(c) \/ StoreFailures(c) \/ CompareFailures(c) \/ ReadWasOpen(c)
    BY <2>3 DEF LoadFailures, StoreFailures, CompareFailures, ReadWasOpen
  <2>4. CASE OpenCircuit(c) \/ Succeed(c) \/ ClearOpen(c)
    BY <2>4 DEF OpenCircuit, Succeed, ClearOpen
  <2>5. CASE \E k \in Attempts : Finish(c, k)
    BY <2>5 DEF Finish
  <2> QED  BY <2>1, <2>2, <2>3, <2>4, <2>5 DEF Evaluate
<1>6. /\ failures <= n /\ (openUntil # None => n >= Threshold)
      /\ \A d \in Callers : /\ pc[d] = "store" => loaded[d] <= n
                            /\ pc[d] \in {"trip", "open"} => n >= Threshold
  BY DEF Evidence
<1>7. failures' <= m
  BY <1>0, <1>2, <1>3, <1>4, <1>5, <1>6
<1>8. openUntil' # None => m >= Threshold
  BY <1>0, <1>2, <1>3, <1>5, <1>6
<1>9. pc'[c] \in {"load", "store"} => Lost(c)'
  BY LostKept DEF Evidence
<1>10. /\ pc'[c] = "store" => loaded'[c] <= m
       /\ pc'[c] \in {"trip", "open"} => m >= Threshold
  BY <1>0, <1>2, <1>3, <1>5, <1>6
<1>11. ASSUME NEW d \in Callers \ {c}
       PROVE  /\ pc'[d] \in {"load", "store"} => Lost(d)'
              /\ pc'[d] = "store" => loaded'[d] <= m
              /\ pc'[d] \in {"trip", "open"} => m >= Threshold
  <2>1. /\ pc'[d] = pc[d] /\ attempt'[d] = attempt[d] /\ future'[d] = future[d]
        /\ givenUp'[d] = givenUp[d] /\ loaded'[d] = loaded[d]
    BY OthersKept
  <2>2. Lost(d)' <=> Lost(d)
    BY <2>1 DEF Lost
  <2>3. pc[d] \in {"load", "store"} => Lost(d)
    BY DEF Evidence
  <2> QED  BY <1>0, <1>2, <1>3, <1>6, <2>1, <2>2, <2>3
<1> HIDE DEF n, m
<1> QED  BY <1>3, <1>7, <1>8, <1>9, <1>10, <1>11 DEF Evidence, m

LEMMA BegunKept ==
    ASSUME TypeOK, Begun, NEW c \in Callers,
           Evaluate(c) \/ \E k \in Attempts : Finish(c, k)
    PROVE  Begun'
<1>0. /\ clock \in Nat /\ Cooldown \in Nat /\ openUntil \in Nat \cup {None}
      /\ \A d \in Callers : started[d] \in Nat /\ started'[d] \in Nat
  BY CooldownAssumption, StartedType DEF TypeOK
<1>1. /\ \A d \in Callers \ {c} : started'[d] = started[d] /\ pc'[d] = pc[d]
      /\ started'[c] \in {0, started[c], clock}
      /\ pc[c] # "start" => started'[c] \in {0, started[c]}
  BY StartedType, OthersKept
<1>2. clock' = clock
  BY DEF Evaluate, Start, CheckCooldown, CloseCircuit, ResetFailures, Submit, TimeOut,
     Collect, LoadFailures, StoreFailures, CompareFailures, ReadWasOpen, OpenCircuit,
     Succeed, ClearOpen, Finish
<1>3. \A d \in Callers : started'[d] <= clock'
  BY <1>0, <1>1, <1>2 DEF Begun
<1>4. \/ openUntil' = None
      \/ openUntil' = clock + Cooldown
      \/ openUntil' = openUntil /\ (c \in LetIn' => c \in LetIn \/ openUntil = None)
  <2> USE DEF Step, Return, TypeOK, breaker, LetIn
  <2>1. CASE Start(c) \/ CheckCooldown(c) \/ CloseCircuit(c)
    BY <2>1 DEF Start, CheckCooldown, CloseCircuit
  <2>2. CASE ResetFailures(c) \/ Submit(c)
    BY <2>2 DEF ResetFailures, Submit
  <2>3. CASE TimeOut(c) \/ Collect(c)
    BY <2>3 DEF TimeOut, Collect
  <2>4. CASE LoadFailures(c) \/ StoreFailures(c) \/ CompareFailures(c) \/ ReadWasOpen(c)
    BY <2>4 DEF LoadFailures, StoreFailures, CompareFailures, ReadWasOpen
  <2>5. CASE OpenCircuit(c) \/ Succeed(c) \/ ClearOpen(c)
    BY <2>5 DEF OpenCircuit, Succeed, ClearOpen
  <2>6. CASE \E k \in Attempts : Finish(c, k)
    BY <2>6 DEF Finish
  <2> QED
    BY <2>1, <2>2, <2>3, <2>4, <2>5, <2>6 DEF Evaluate, NextAttempt
<1>5. LetIn' \ {c} = LetIn \ {c}
  BY <1>1 DEF LetIn
<1>6. ASSUME openUntil' # None, NEW d \in LetIn'
      PROVE  started'[d] + Cooldown <= openUntil'
  <2>1. d \in Callers
    BY DEF LetIn
  <2>2. CASE openUntil' = clock + Cooldown
    BY <1>0, <1>2, <1>3, <2>1, <2>2
  <2>3. CASE openUntil' = openUntil /\ d \in LetIn
    <3>1. pc[d] # "start" /\ started[d] + Cooldown <= openUntil
      BY <1>6, <2>3 DEF LetIn, Begun
    <3>2. started'[d] \in {0, started[d]}
      BY <1>1, <2>1, <3>1
    <3> QED  BY <1>0, <1>6, <2>1, <2>3, <3>1, <3>2
  <2> QED  BY <1>4, <1>5, <1>6, <2>2, <2>3
<1> QED  BY <1>3, <1>6 DEF Begun

\* The circuit is open only on the failures of as many calls as the threshold,
\* and nobody has got in since, for any number of callers and any interleaving
\* of the unlocked reads and writes.
THEOREM OpenJustified == Spec => []OpenIsJustified
<1>1. Init => Evidence /\ Begun
  <2> SUFFICES ASSUME Init PROVE Evidence /\ Begun
    OBVIOUS
  <2>1. FailedCalls = {}
    BY DEF Init, FailedCalls
  <2>2. Evidence
    BY <2>1, FS_EmptySet DEF Init, Evidence
  <2>3. Begun
    BY DEF Init, Begun
  <2> QED  BY <2>2, <2>3
<1>2. TypeOK /\ (\A c \in Callers : Own(c)) /\ Evidence /\ Begun /\ [Next]_vars =>
          (Evidence /\ Begun)'
  <2> SUFFICES ASSUME TypeOK, \A c \in Callers : Own(c), Evidence, Begun, [Next]_vars
               PROVE  Evidence' /\ Begun'
    OBVIOUS
  <2>1. ASSUME NEW c \in Callers, Evaluate(c) \/ \E k \in Attempts : Finish(c, k)
        PROVE  Evidence' /\ Begun'
    BY <2>1, EvidenceKept, BegunKept
  <2>2. CASE Tick \/ CloseClient \/ UNCHANGED vars
    <3>1. /\ UNCHANGED <<pc, attempt, future, givenUp, loaded, breaker, started>>
          /\ clock' \in {clock, clock + 1}
      BY <2>2 DEF Tick, CloseClient, vars
    <3>2. FailedCalls' = FailedCalls /\ LetIn' = LetIn
      BY <3>1 DEF FailedCalls, LetIn
    <3>3. \A c \in Callers : Lost(c)' <=> Lost(c)
      BY <3>1 DEF Lost
    <3>4. Evidence'
      BY <3>1, <3>2, <3>3 DEF Evidence, breaker
    <3>5. Begun'
      BY <3>1, <3>2 DEF Begun, breaker, TypeOK
    <3> QED  BY <3>4, <3>5
  <2> QED  BY <2>1, <2>2 DEF Next
<1>3. Evidence /\ Begun => OpenIsJustified
  BY DEF Evidence, Begun, OpenIsJustified
<1> QED  BY <1>1, <1>2, <1>3, Invariants, PTL DEF Spec

-----------------------------------------------------------------------------
\* One call at a time.

\* At most one caller is inside evaluate; before its first attempt it has found
\* the circuit open, from then on the circuit is closed until the call opens it.
Serial ==
    /\ \A c, d \in Callers : Inside(c) /\ Inside(d) => c = d
    /\ \A c \in Callers :
          /\ pc[c] \in {"check", "close"} => openUntil # None
          /\ pc[c] \in {"reset", "submit", "wait", "load", "store", "compare",
                        "trip", "open", "succeed", "clear"} => openUntil = None
          /\ pc[c] = "reset" => opened - reclosed = 1
          /\ pc[c] = "open" => loaded[c] = 0

\* A call that takes a step is the only one in evaluate.
LEMMA CallAlone ==
    ASSUME Shared = FALSE, TypeOK, Serial, NEW c \in Callers, Evaluate(c)
    PROVE  /\ \A d \in Callers \ {c} : pc'[d] = pc[d] /\ ~Inside(d)
           /\ pc[c] = "start" \/ Inside(c)
<1>1. \A d \in Callers \ {c} : pc'[d] = pc[d]
  BY OthersKept
<1>2. CASE Start(c)
  BY <1>1, <1>2 DEF Start, Step
<1>3. CASE ~Start(c)
  <2>1. Inside(c)
    BY <1>3 DEF Evaluate, CheckCooldown, CloseCircuit, ResetFailures, Submit,
       TimeOut, Collect, NextAttempt, LoadFailures, StoreFailures, CompareFailures,
       ReadWasOpen, OpenCircuit, Succeed, ClearOpen, Step, Return, Inside
  <2> QED  BY <1>1, <2>1 DEF Serial
<1> QED  BY <1>2, <1>3

LEMMA SerialKept == ASSUME Shared = FALSE PROVE Spec => [](Serial /\ CountersTellState)
<1> DEFINE I == Serial /\ CountersTellState
<1>1. Init => I
  BY DEF Init, Serial, CountersTellState, Inside
<1>2. TypeOK /\ I /\ [Next]_vars => I'
  <2> SUFFICES ASSUME TypeOK, I, [Next]_vars PROVE I'
    OBVIOUS
  <2>0. /\ opened \in Nat /\ reclosed \in Nat /\ clock \in Nat /\ Cooldown \in Nat
        /\ pc \in [Callers -> PCs] /\ loaded \in [Callers -> Nat]
    BY CooldownAssumption DEF TypeOK
  <2>1. ASSUME NEW c \in Callers, Evaluate(c)
        PROVE  I'
    <3>0. /\ \A d \in Callers \ {c} : pc'[d] = pc[d] /\ ~Inside(d)
          /\ pc[c] = "start" \/ Inside(c)
      BY <2>1, CallAlone
    <3>1. \A d \in Callers \ {c} : pc'[d] \in {"start", "done", "raised"}
      BY <3>0 DEF Inside
    <3>2. \A d \in Callers : Inside(d)' => d = c
      BY <3>1 DEF Inside
    <3>3. CASE Start(c)
      <4>1. /\ pc[c] = "start" /\ UNCHANGED <<openUntil, opened, reclosed>>
            /\ pc'[c] = IF openUntil = None THEN "submit" ELSE "check"
        BY <2>0, <3>3 DEF Start, Step, breaker
      <4> QED  BY <3>0, <3>1, <3>2, <4>1 DEF Serial, CountersTellState, Inside
    <3>4. CASE CheckCooldown(c)
      <4>1. /\ pc[c] = "check" /\ pc'[c] \in {"raised", "close", "done"}
            /\ UNCHANGED <<openUntil, opened, reclosed>>
        BY <2>0, <3>4 DEF CheckCooldown, Step, Return, breaker
      <4> QED  BY <3>0, <3>1, <3>2, <4>1 DEF Serial, CountersTellState, Inside
    <3>5. CASE CloseCircuit(c)
      <4>1. /\ pc[c] = "close" /\ pc'[c] = "reset" /\ openUntil' = None
            /\ UNCHANGED <<opened, reclosed>>
        BY <2>0, <3>5 DEF CloseCircuit, Step
      <4>2. openUntil # None /\ \A d \in Callers : pc[d] # "reset"
        BY <3>0, <4>1 DEF Serial, Inside
      <4> QED  BY <3>1, <3>2, <4>1, <4>2 DEF Serial, CountersTellState
    <3>6. CASE ResetFailures(c)
      <4>1. /\ pc[c] = "reset" /\ pc'[c] = "submit" /\ reclosed' = reclosed + 1
            /\ UNCHANGED <<opened, openUntil>>
        BY <2>0, <3>6 DEF ResetFailures, Step
      <4> QED  BY <2>0, <3>1, <3>2, <4>1 DEF Serial, CountersTellState
    <3>7. CASE \/ Submit(c) \/ TimeOut(c) \/ Collect(c) \/ LoadFailures(c)
               \/ StoreFailures(c) \/ CompareFailures(c) \/ Succeed(c)
      <4>1. /\ pc[c] \in {"submit", "wait", "load", "store", "compare", "succeed"}
            /\ pc'[c] \in {"submit", "wait", "load", "store", "compare", "succeed",
                           "trip", "clear", "done", "raised"}
            /\ UNCHANGED <<openUntil, opened, reclosed>>
        BY <2>0, <3>7 DEF Submit, TimeOut, Collect, NextAttempt, LoadFailures,
           StoreFailures, CompareFailures, Succeed, Step, Return, breaker
      <4> QED  BY <3>0, <3>1, <3>2, <4>1 DEF Serial, CountersTellState, Inside
    <3>8. CASE ReadWasOpen(c)
      <4>1. /\ pc[c] = "trip" /\ pc'[c] = "open" /\ UNCHANGED <<openUntil, opened, reclosed>>
            /\ openUntil = None => loaded'[c] = 0
        BY <2>0, <3>8 DEF ReadWasOpen, Step, breaker
      <4> QED  BY <3>0, <3>1, <3>2, <4>1 DEF Serial, CountersTellState, Inside
    <3>9. CASE OpenCircuit(c)
      <4>1. /\ pc[c] = "open" /\ pc'[c] = "done" /\ openUntil' # None
            /\ loaded[c] = 0 /\ opened' = opened + 1 /\ reclosed' = reclosed
        BY <2>0, <3>9, NoneAssumption DEF OpenCircuit, Step, Return, Serial
      <4>2. openUntil = None /\ \A d \in Callers : pc[d] # "reset"
        BY <3>0, <4>1 DEF Serial, Inside
      <4> QED  BY <2>0, <3>1, <3>2, <4>1, <4>2 DEF Serial, CountersTellState
    <3>10. CASE ClearOpen(c)
      <4>1. /\ pc[c] = "clear" /\ pc'[c] = "done" /\ openUntil' = None
            /\ UNCHANGED <<opened, reclosed>>
        BY <2>0, <3>10 DEF ClearOpen, Step
      <4> QED  BY <3>0, <3>1, <3>2, <4>1 DEF Serial, CountersTellState, Inside
    <3> QED
      BY <2>1, <3>3, <3>4, <3>5, <3>6, <3>7, <3>8, <3>9, <3>10 DEF Evaluate
  <2>2. CASE \/ Tick \/ CloseClient \/ UNCHANGED vars
             \/ \E c \in Callers, k \in Attempts : Finish(c, k)
    <3>1. UNCHANGED <<pc, loaded, openUntil, opened, reclosed>>
      BY <2>2 DEF Tick, CloseClient, Finish, vars, breaker
    <3> QED  BY <3>1 DEF Serial, CountersTellState, Inside
  <2> QED  BY <2>1, <2>2 DEF Next
<1> QED  BY <1>1, <1>2, TypeCorrect, PTL DEF Spec

\* With one call at a time the counters of transitions tell the state of the
\* circuit, for any number of calls, any outcomes and any threshold.
THEOREM CountersCorrect == ASSUME Shared = FALSE PROVE Spec => []CountersTellState
BY SerialKept, PTL

-----------------------------------------------------------------------------
\* Refinement: one call at a time, evaluate implements CircuitBreaker.

\* What a call has found when it reaches its step, and which attempts are out.
Found(c) ==
    /\ pc[c] = "close" => clock >= openUntil
    /\ pc[c] = "store" => loaded[c] = failures
    /\ pc[c] \in {"trip", "open"} => failures >= Threshold
    /\ pc[c] = "succeed" => decision[c] # None /\ decision[c].source = "opa"
    /\ \A k \in Attempts : future[c][k] = None <=> k > attempt[c]

\* The failures of the mapping, when only c may be inside evaluate.
Counted(at, n) == IF at \in {"compare", "trip", "open"} THEN n - 1
                  ELSE IF at = "reset" THEN 0 ELSE n

LEMMA CountedAlone ==
    ASSUME Shared = FALSE, TypeOK, Serial, NEW c \in Callers, Evaluate(c)
    PROVE  /\ CountedFailures = Counted(pc[c], failures)
           /\ CountedFailures' = Counted(pc'[c], failures')
<1>1. \A d \in Callers \ {c} : pc'[d] = pc[d] /\ pc[d] \in {"start", "done", "raised"}
  BY CallAlone DEF Inside
<1>2. PendingFailure <=> pc[c] \in {"compare", "trip", "open"}
  BY <1>1 DEF PendingFailure
<1>3. PendingFailure' <=> pc'[c] \in {"compare", "trip", "open"}
  BY <1>1 DEF PendingFailure
<1>4. (\E d \in Callers : pc[d] = "reset") <=> pc[c] = "reset"
  BY <1>1
<1>5. (\E d \in Callers : pc'[d] = "reset") <=> pc'[c] = "reset"
  BY <1>1
<1> QED  BY <1>2, <1>3, <1>4, <1>5 DEF CountedFailures, Counted

\* Every step of a call is a step of the breaker, or none.
LEMMA EvaluateSimulated ==
    ASSUME Shared = FALSE, TypeOK, Serial, \A d \in Callers : Own(d) /\ Found(d),
           IsFiniteSet(SentAttempts), IsFiniteSet(AnsweredCalls),
           NEW c \in Callers, Evaluate(c)
    PROVE  /\ \A d \in Callers : Found(d)'
           /\ IsFiniteSet(SentAttempts') /\ IsFiniteSet(AnsweredCalls')
           /\ [Breaker!Next]_(Breaker!vars)
<1> DEFINE out == Cardinality(SentAttempts)
           won == Cardinality(AnsweredCalls)
<1>0. /\ failures \in Nat /\ clock \in Nat /\ loaded[c] \in Nat
      /\ Threshold \in Nat \ {0} /\ MaxRetries \in Nat
      /\ attempt[c] \in 0..(MaxRetries + 1) /\ pc[c] \in PCs
  BY ThresholdAssumption, MaxRetriesAssumption DEF TypeOK
<1>1. \A d \in Callers \ {c} :
          /\ pc'[d] = pc[d] /\ pc[d] \in {"start", "done", "raised"}
          /\ attempt'[d] = attempt[d] /\ future'[d] = future[d] /\ decision'[d] = decision[d]
  BY CallAlone, OthersKept DEF Inside
<1>2. \A d \in Callers \ {c} : Found(d)'
  BY <1>1 DEF Found
<1>3. /\ CountedFailures = Counted(pc[c], failures)
      /\ CountedFailures' = Counted(pc'[c], failures')
  BY CountedAlone
<1>4. future' = future => SentAttempts' = SentAttempts
  BY DEF SentAttempts
<1>5. (c \in AnsweredCalls' <=> c \in AnsweredCalls) => AnsweredCalls' = AnsweredCalls
  BY <1>1 DEF AnsweredCalls
\* While the call has no decision of OPA, neither before nor after.
<1>6. ASSUME \/ decision'[c] = decision[c] /\ pc[c] # "succeed" /\ pc'[c] # "succeed"
             \/ decision[c] = None /\ decision'[c] = FailClosed
      PROVE  AnsweredCalls' = AnsweredCalls
  BY <1>5, <1>6, FailClosedType DEF AnsweredCalls
<1>7. pc[c] \notin After => decision[c] = None
  BY DEF Own
<1>8. /\ pc[c] \in {"check", "close"} => openUntil # None
      /\ pc[c] \in {"reset", "submit", "wait", "load", "store", "compare",
                    "trip", "open", "succeed", "clear"} => openUntil = None
  BY DEF Serial
<1>9. Found(c)
  OBVIOUS
<1>10. CASE Start(c) \/ CheckCooldown(c)
  <2>1. /\ pc[c] \in {"start", "check"} /\ pc'[c] \in {"submit", "check", "close", "raised", "done"}
        /\ pc'[c] = "close" => clock >= openUntil
        /\ decision'[c] \in {decision[c], FailClosed}
        /\ UNCHANGED <<attempt, future, openUntil, failures, clock>>
    BY <1>0, <1>10 DEF Start, CheckCooldown, Step, Return, breaker, TypeOK
  <2>2. CountedFailures' = CountedFailures
    BY <1>3, <2>1 DEF Counted
  <2>3. AnsweredCalls' = AnsweredCalls
    BY <1>6, <1>7, <2>1 DEF After
  <2>4. Found(c)'
    BY <1>9, <2>1 DEF Found
  <2> QED  BY <1>2, <1>4, <2>1, <2>2, <2>3, <2>4 DEF Breaker!vars
<1>11. CASE CloseCircuit(c)
  <2>1. /\ pc[c] = "close" /\ pc'[c] = "reset" /\ openUntil' = None
        /\ UNCHANGED <<attempt, future, decision, failures, clock>>
    BY <1>11 DEF CloseCircuit, Step, TypeOK
  <2>2. CountedFailures' = 0 /\ AnsweredCalls' = AnsweredCalls
    BY <1>3, <1>6, <2>1 DEF Counted
  <2>3. openUntil # None /\ clock >= openUntil
    BY <1>8, <1>9, <2>1 DEF Found
  <2>4. Found(c)'
    BY <1>9, <2>1 DEF Found
  <2>5. Breaker!Close
    BY <1>4, <2>1, <2>2, <2>3 DEF Breaker!Close
  <2> QED  BY <1>2, <1>4, <2>1, <2>2, <2>4, <2>5 DEF Breaker!Next
<1>12. CASE ResetFailures(c) \/ ClearOpen(c)
  <2>1. /\ \/ pc[c] = "reset" /\ pc'[c] = "submit" /\ failures' = 0
           \/ pc[c] = "clear" /\ pc'[c] = "done" /\ failures' = failures
        /\ openUntil' = openUntil /\ UNCHANGED <<attempt, future, decision, clock>>
    BY <1>8, <1>12 DEF ResetFailures, ClearOpen, Step, TypeOK
  <2>2. CountedFailures' = CountedFailures /\ AnsweredCalls' = AnsweredCalls
    BY <1>3, <1>6, <2>1 DEF Counted
  <2>3. Found(c)'
    BY <1>9, <2>1 DEF Found
  <2> QED  BY <1>2, <1>4, <2>1, <2>2, <2>3 DEF Breaker!vars
<1>13. CASE Submit(c)
  <2> DEFINE k == attempt[c] + 1
  <2>1. k \in Attempts
    BY <1>0, <1>13 DEF Own, Submit, Step, Attempts
  <2>2. /\ pc[c] = "submit" /\ pc'[c] = "wait" /\ attempt'[c] = k
        /\ future'[c][k] # None /\ \A j \in Attempts \ {k} : future'[c][j] = future[c][j]
        /\ UNCHANGED <<decision, failures, openUntil, clock>>
    <3>1. /\ future'[c][k] \in {"escapes", "running"}
          /\ \A j \in Attempts \ {k} : future'[c][j] = future[c][j]
      BY <1>13, <2>1 DEF Submit, TypeOK
    <3>2. "escapes" # None /\ "running" # None
      BY NoneAssumption DEF Replies
    <3> QED  BY <1>13, <3>1, <3>2 DEF Submit, Step, breaker, TypeOK
  <2>3. future[c][k] = None
    BY <1>0, <1>9, <2>1 DEF Found
  <2>4. <<c, k>> \notin SentAttempts /\ SentAttempts' = SentAttempts \cup {<<c, k>>}
    BY <1>1, <2>1, <2>2, <2>3 DEF SentAttempts
  <2>5. IsFiniteSet(SentAttempts') /\ Cardinality(SentAttempts') = out + 1
    BY <2>4, FS_AddElement
  <2>6. CountedFailures' = CountedFailures /\ AnsweredCalls' = AnsweredCalls
    BY <1>3, <1>6, <2>2 DEF Counted
  <2>7. Found(c)'
    <3>1. \A j \in Attempts : future'[c][j] = None <=> j > k
      BY <1>0, <1>9, <2>2, <2>3 DEF Found, Attempts
    <3> QED  BY <2>2, <3>1 DEF Found
  <2>8. Breaker!GoOut
    BY <1>8, <2>2, <2>5, <2>6 DEF Breaker!GoOut
  <2> QED  BY <1>2, <2>5, <2>6, <2>7, <2>8 DEF Breaker!Next
<1>14. CASE TimeOut(c) \/ Collect(c)
  <2>1. /\ pc[c] = "wait" /\ pc'[c] \in {"submit", "load", "raised", "succeed"}
        /\ IF pc'[c] = "succeed"
           THEN decision'[c] = [allowed |-> future[c][attempt[c]] = "true",
                                source |-> "opa", by |-> attempt[c]]
           ELSE decision'[c] = decision[c]
        /\ UNCHANGED <<attempt, future, failures, openUntil, clock>>
    BY <1>0, <1>14 DEF TimeOut, Collect, Answered, NextAttempt, Step, breaker, TypeOK
  <2>2. CountedFailures' = CountedFailures
    BY <1>3, <2>1 DEF Counted
  <2>3. AnsweredCalls' = AnsweredCalls
    BY <1>5, <1>7, <2>1 DEF AnsweredCalls, After
  <2>4. pc'[c] = "succeed" => decision'[c] # None /\ decision'[c].source = "opa"
    <3>1. ASSUME pc'[c] = "succeed" PROVE decision'[c] \in Decision
      <4>1. attempt[c] \in Attempts
        BY <1>0, <2>1 DEF Own, Attempts
      <4>2. (future[c][attempt[c]] = "true") \in BOOLEAN
        OBVIOUS
      <4> DEFINE answer == [allowed |-> future[c][attempt[c]] = "true",
                            source |-> "opa", by |-> attempt[c]]
      <4>3. answer \in Decision
        BY <4>1, <4>2 DEF Decision
      <4> QED  BY <2>1, <3>1, <4>3
    <3> QED  BY <2>1, <3>1, NoneAssumption
  <2>5. Found(c)'
    BY <1>9, <2>1, <2>4 DEF Found
  <2> QED  BY <1>2, <1>4, <2>1, <2>2, <2>3, <2>5 DEF Breaker!vars
<1>15. CASE LoadFailures(c) \/ StoreFailures(c) \/ ReadWasOpen(c)
  <2>1. /\ \/ pc[c] = "load" /\ pc'[c] = "store" /\ failures' = failures /\ loaded'[c] = failures
           \/ pc[c] = "store" /\ pc'[c] = "compare" /\ failures' = loaded[c] + 1
           \/ pc[c] = "trip" /\ pc'[c] = "open" /\ failures' = failures
        /\ UNCHANGED <<attempt, future, decision, openUntil, clock>>
    BY <1>15 DEF LoadFailures, StoreFailures, ReadWasOpen, Step, breaker, TypeOK
  <2>2. CountedFailures' = CountedFailures
    BY <1>0, <1>3, <1>9, <2>1 DEF Counted, Found
  <2>3. AnsweredCalls' = AnsweredCalls
    BY <1>6, <2>1
  <2>4. Found(c)'
    BY <1>9, <2>1 DEF Found
  <2> QED  BY <1>2, <1>4, <2>1, <2>2, <2>3, <2>4 DEF Breaker!vars
<1>16. CASE CompareFailures(c)
  <2>1. /\ pc[c] = "compare"
        /\ \/ failures >= Threshold /\ pc'[c] = "trip" /\ decision'[c] = decision[c]
           \/ failures < Threshold /\ pc'[c] = "done" /\ decision'[c] = FailClosed
        /\ UNCHANGED <<attempt, future, openUntil, failures, clock>>
    BY <1>16 DEF CompareFailures, Step, Return, breaker, TypeOK
  <2>2. AnsweredCalls' = AnsweredCalls
    BY <1>6, <1>7, <2>1 DEF After
  <2>3. Found(c)'
    BY <1>9, <2>1 DEF Found
  <2>4. CASE pc'[c] = "trip"
    <3>1. CountedFailures' = CountedFailures
      BY <1>3, <2>1, <2>4 DEF Counted
    <3> QED  BY <1>2, <1>4, <2>1, <2>2, <2>3, <3>1 DEF Breaker!vars
  <2>5. CASE pc'[c] = "done"
    <3>1. CountedFailures = failures - 1 /\ CountedFailures' = failures /\ failures < Threshold
      BY <1>3, <2>1, <2>5 DEF Counted
    <3>2. CountedFailures' = CountedFailures + 1 /\ ~(CountedFailures + 1 >= Threshold)
      BY <1>0, <3>1
    <3>3. Breaker!Fail
      BY <1>4, <1>8, <2>1, <2>2, <3>2 DEF Breaker!Fail
    <3> QED  BY <1>2, <1>4, <2>1, <2>2, <2>3, <3>3 DEF Breaker!Next
  <2> QED  BY <2>1, <2>4, <2>5
<1>17. CASE OpenCircuit(c)
  <2>1. /\ pc[c] = "open" /\ pc'[c] = "done" /\ decision'[c] = FailClosed
        /\ openUntil' = clock + Cooldown
        /\ UNCHANGED <<attempt, future, failures, clock>>
    BY <1>17 DEF OpenCircuit, Return, Step, TypeOK
  <2>2. AnsweredCalls' = AnsweredCalls
    BY <1>6, <1>7, <2>1 DEF After
  <2>3. Found(c)'
    BY <1>9, <2>1 DEF Found
  <2>4. CountedFailures = failures - 1 /\ CountedFailures' = failures /\ failures >= Threshold
    BY <1>3, <1>9, <2>1 DEF Counted, Found
  <2>5. CountedFailures' = CountedFailures + 1 /\ CountedFailures + 1 >= Threshold
    BY <1>0, <2>4
  <2>6. Breaker!Fail
    BY <1>4, <1>8, <2>1, <2>2, <2>5 DEF Breaker!Fail
  <2> QED  BY <1>2, <1>4, <2>1, <2>2, <2>3, <2>6 DEF Breaker!Next
<1>18. CASE Succeed(c)
  <2>1. /\ pc[c] = "succeed" /\ pc'[c] = "clear" /\ failures' = 0
        /\ UNCHANGED <<attempt, future, decision, openUntil, clock>>
    BY <1>18 DEF Succeed, Step, TypeOK
  <2>2. decision[c] # None /\ decision[c].source = "opa"
    BY <1>9, <2>1 DEF Found
  <2>3. c \notin AnsweredCalls /\ AnsweredCalls' = AnsweredCalls \cup {c}
    BY <1>1, <2>1, <2>2 DEF AnsweredCalls
  <2>4. IsFiniteSet(AnsweredCalls') /\ Cardinality(AnsweredCalls') = won + 1
    BY <2>3, FS_AddElement
  <2>5. CountedFailures' = 0
    BY <1>3, <2>1 DEF Counted
  <2>6. Found(c)'
    BY <1>9, <2>1 DEF Found
  <2>7. Breaker!Succeed
    BY <1>4, <1>8, <2>1, <2>4, <2>5 DEF Breaker!Succeed
  <2> QED  BY <1>2, <1>4, <2>1, <2>4, <2>6, <2>7 DEF Breaker!Next
<1> QED
  BY <1>10, <1>11, <1>12, <1>13, <1>14, <1>15, <1>16, <1>17, <1>18 DEF Evaluate

\* So is every other step.
LEMMA OtherSimulated ==
    ASSUME TypeOK, Serial, \A d \in Callers : Own(d) /\ Found(d),
           IsFiniteSet(SentAttempts), IsFiniteSet(AnsweredCalls),
           \/ Tick \/ CloseClient \/ UNCHANGED vars
           \/ \E c \in Callers, k \in Attempts : Finish(c, k)
    PROVE  /\ \A d \in Callers : Found(d)'
           /\ IsFiniteSet(SentAttempts') /\ IsFiniteSet(AnsweredCalls')
           /\ [Breaker!Next]_(Breaker!vars)
<1>0. clock \in Nat /\ openUntil \in Nat \cup {None}
  BY DEF TypeOK
<1>1. /\ UNCHANGED <<pc, attempt, loaded, decision, failures, openUntil>>
      /\ Tick \/ clock' = clock
  BY DEF Tick, CloseClient, Finish, vars, breaker
<1>2. \A d \in Callers, k \in Attempts : future'[d][k] = None <=> future[d][k] = None
  <2>1. CASE Tick \/ CloseClient \/ UNCHANGED vars
    BY <2>1 DEF Tick, CloseClient, vars
  <2>2. CASE \E c \in Callers, k \in Attempts : Finish(c, k)
    <3>1. PICK c \in Callers, k \in Attempts : Finish(c, k)
      BY <2>2
    <3>2. PICK reply \in Replies : future' = [future EXCEPT ![c][k] = reply]
      BY <3>1 DEF Finish
    <3>3. future[c][k] # None /\ reply # None
      BY <3>1, NoneAssumption DEF Finish
    <3> QED  BY <3>2, <3>3 DEF TypeOK
  <2> QED  BY <2>1, <2>2
<1>3. SentAttempts' = SentAttempts /\ AnsweredCalls' = AnsweredCalls
  BY <1>1, <1>2 DEF SentAttempts, AnsweredCalls
<1>4. CountedFailures' = CountedFailures
  BY <1>1 DEF CountedFailures, PendingFailure
<1>5. \A d \in Callers : Found(d)'
  <2>1. clock <= clock' /\ clock' \in Nat
    BY <1>0, <1>1 DEF Tick
  <2>2. \A d \in Callers : pc[d] = "close" => openUntil \in Nat
    BY <1>0 DEF Serial
  <2> QED  BY <1>0, <1>1, <1>2, <2>1, <2>2 DEF Found
<1>6. [Breaker!Next]_(Breaker!vars)
  <2>1. CASE Tick
    <3>1. Breaker!Tick
      BY <1>1, <1>3, <1>4, <2>1 DEF Tick, Breaker!Tick
    <3> QED  BY <3>1 DEF Breaker!Next
  <2>2. CASE clock' = clock
    BY <1>1, <1>3, <1>4, <2>2 DEF Breaker!vars
  <2> QED  BY <1>1, <2>1, <2>2
<1> QED  BY <1>3, <1>5, <1>6

\* One call at a time, the unlocked and stepwise bookkeeping of evaluate keeps
\* the promise of CircuitBreaker, for any threshold, cooldown and number of
\* retries and any outcome of every attempt.
THEOREM BreakerImplemented == ASSUME Shared = FALSE PROVE Spec => ImplementsBreaker
<1> DEFINE I == /\ \A c \in Callers : Found(c)
                /\ IsFiniteSet(SentAttempts) /\ IsFiniteSet(AnsweredCalls)
<1>1. Init => I /\ Breaker!Init
  <2> SUFFICES ASSUME Init PROVE I /\ Breaker!Init
    OBVIOUS
  <2>1. SentAttempts = {} /\ AnsweredCalls = {}
    BY DEF Init, SentAttempts, AnsweredCalls
  <2>2. CountedFailures = 0
    BY DEF Init, CountedFailures, PendingFailure
  <2>3. \A c \in Callers : Found(c)
    BY MaxRetriesAssumption DEF Init, Found, Attempts
  <2> QED  BY <2>1, <2>2, <2>3, FS_EmptySet DEF Init, Breaker!Init
<1>2. TypeOK /\ Serial /\ (\A c \in Callers : Own(c)) /\ I /\ [Next]_vars =>
          I' /\ [Breaker!Next]_(Breaker!vars)
  <2> SUFFICES ASSUME TypeOK, Serial, \A c \in Callers : Own(c), I, [Next]_vars
               PROVE  I' /\ [Breaker!Next]_(Breaker!vars)
    OBVIOUS
  <2>1. CASE \E c \in Callers : Evaluate(c)
    BY <2>1, EvaluateSimulated
  <2>2. CASE \/ Tick \/ CloseClient \/ UNCHANGED vars
             \/ \E c \in Callers, k \in Attempts : Finish(c, k)
    BY <2>2, OtherSimulated
  <2> QED  BY <2>1, <2>2 DEF Next
<1> QED
  BY <1>1, <1>2, Invariants, SerialKept, PTL DEF Spec, ImplementsBreaker, Breaker!Spec
=============================================================================
