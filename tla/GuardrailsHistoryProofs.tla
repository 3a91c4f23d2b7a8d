----------------------- MODULE GuardrailsHistoryProofs -----------------------
(***************************************************************************)
(* Theorems about what Guardrails leaves in its stores: the tables, the    *)
(* chains, the audit trail and what readers have seen of them.             *)
(*                                                                         *)
(* The first part says once what each kind of step does to each variable;  *)
(* the invariants after it are proved from that alone.                     *)
(***************************************************************************)
EXTENDS GuardrailsProofs

-----------------------------------------------------------------------------
\* What a step does.

RequestStep(r) == Arrive(r) \/ Refuse(r) \/ Handler(r)

\* The steps in which a handler gives up, and those that only move it on.
Failing(r) ==
    \/ Refuse(r) \/ InvalidBody(r) \/ CreateRefused(r) \/ RecompileRefused(r)
    \/ CompileFails(r) \/ CheckRefused(r) \/ ProviderRaises(r)
    \/ CommitFails(r) \/ RefreshFails(r) \/ ReadRefused(r)

Moving(r) == EnterDb(r) \/ LeaveDb(r) \/ CreateAccepted(r) \/ Sign(r) \/ ReadEnds(r)

\* A step of r touches no other request.
LEMMA OthersKept ==
    ASSUME TypeOK, NEW r \in Reqs, RequestStep(r), NEW q \in Reqs \ {r}
    PROVE  /\ pc'[q] = pc[q] /\ call'[q] = call[q]
           /\ local'[q] = local[q] /\ answer'[q] = answer[q]
<1> USE DEF TypeOK
<1>1. CASE Arrive(r) \/ Refuse(r) \/ EnterDb(r) \/ LeaveDb(r) \/ InvalidBody(r)
  BY <1>1 DEF Arrive, Refuse, EnterDb, LeaveDb, InvalidBody, Respond, Step
<1>2. CASE \/ CreateRefused(r) \/ CreateAccepted(r)
           \/ RecompileRefused(r) \/ RecompileAccepted(r)
           \/ CompileFails(r) \/ CommitGuardrail(r)
  BY <1>2 DEF CreateRefused, CreateAccepted, RecompileRefused, RecompileAccepted,
              CompileFails, CommitGuardrail, Respond, Step
<1>3. CASE Select(r) \/ Evaluate(r) \/ Sign(r) \/ CommitEvent(r) \/ AppendReceipt(r)
  BY <1>3 DEF Select, Evaluate, Sign, CommitEvent, AppendReceipt, Step
<1>5. CASE CheckRefused(r) \/ ProviderRaises(r)
  BY <1>5 DEF CheckRefused, ProviderRaises, Respond, Step
<1>4. CASE \/ CommitFails(r) \/ RefreshFails(r) \/ WriteAudit(r)
           \/ ReadRefused(r) \/ ReadNext(r) \/ ReadEnds(r) \/ ReadAnswer(r)
  BY <1>4 DEF CommitFails, RefreshFails, WriteAudit, ReadRefused, ReadNext, ReadEnds,
              ReadAnswer, Respond, Step
<1> QED  BY <1>1, <1>2, <1>3, <1>4, <1>5 DEF RequestStep, Handler

\* Every step is one of these kinds.
LEMMA StepKinds ==
    ASSUME NEW r, RequestStep(r)
    PROVE  \/ Arrive(r) \/ Failing(r) \/ Moving(r) \/ RecompileAccepted(r)
           \/ CommitGuardrail(r) \/ Select(r) \/ Evaluate(r) \/ CommitEvent(r)
           \/ AppendReceipt(r) \/ WriteAudit(r) \/ ReadNext(r) \/ ReadAnswer(r)
BY DEF RequestStep, Handler, Failing, Moving

\* A handler that gives up has an error status and writes nothing.
LEMMA FailingEffect ==
    ASSUME TypeOK, NEW r \in Reqs, Failing(r)
    PROVE  /\ pc[r] \in {"idle", "handle", "compile", "evaluate", "sign", "commit",
                         "audit", "read"}
           /\ pc'[r] \in {"release", "done"}
           /\ pc[r] = "audit" => "refresh" \in Faults /\ call[r].kind # "check"
           /\ answer'[r].status >= 400 /\ (pc[r] = "audit" => answer'[r].status = 500)
           /\ answer'[r].seen = answer[r].seen
           /\ answer'[r].count = answer[r].count
           /\ answer'[r].passed = answer[r].passed
           /\ UNCHANGED <<call, local, dbLock, clock, stores>>
<1>1. \E from \in {"idle", "handle", "compile", "evaluate", "sign", "commit", "audit",
                   "read"},
         status \in Statuses :
           /\ status >= 400
           /\ from = "audit" => /\ "refresh" \in Faults /\ call[r].kind # "check"
                               /\ status = 500
           /\ Respond(r, from, status)
           /\ UNCHANGED <<call, local, dbLock, clock, stores>>
  <2>1. CASE Refuse(r) BY <2>1 DEF Refuse, Statuses
  <2>2. CASE InvalidBody(r) BY <2>2 DEF InvalidBody, Statuses
  <2>3. CASE CreateRefused(r) BY <2>3 DEF CreateRefused, Statuses
  <2>4. CASE RecompileRefused(r) BY <2>4 DEF RecompileRefused, Statuses
  <2>5. CASE CompileFails(r) BY <2>5 DEF CompileFails, Statuses
  <2>6. CASE CheckRefused(r) BY <2>6 DEF CheckRefused, Statuses
  <2>7. CASE ProviderRaises(r) BY <2>7 DEF ProviderRaises, Statuses
  <2>8. CASE CommitFails(r) BY <2>8 DEF CommitFails, Statuses
  <2>9. CASE RefreshFails(r) BY <2>9 DEF RefreshFails, Statuses
  <2>10. CASE ReadRefused(r) BY <2>10 DEF ReadRefused, Statuses
  <2> QED  BY <2>1, <2>2, <2>3, <2>4, <2>5, <2>6, <2>7, <2>8, <2>9, <2>10 DEF Failing
<1>2. PICK from \in {"idle", "handle", "compile", "evaluate", "sign", "commit", "audit",
                     "read"},
           status \in Statuses :
           /\ status >= 400
           /\ from = "audit" => /\ "refresh" \in Faults /\ call[r].kind # "check"
                               /\ status = 500
           /\ Respond(r, from, status)
           /\ UNCHANGED <<call, local, dbLock, clock, stores>>
  BY <1>1
<1>3. /\ pc[r] = from /\ pc' = [pc EXCEPT ![r] = IF from \in InDb THEN "release" ELSE "done"]
      /\ answer' = [answer EXCEPT ![r] = [answer[r] EXCEPT !.status = status]]
  BY <1>2 DEF Respond, Step
<1>4. answer[r] \in Answer
  BY DEF TypeOK
<1>5. [answer[r] EXCEPT !.status = status].status = status
  BY <1>4 DEF Answer
<1>6. answer'[r] = [answer[r] EXCEPT !.status = status]
  BY <1>3 DEF TypeOK
<1>7. pc'[r] = IF from \in InDb THEN "release" ELSE "done"
  BY <1>3 DEF TypeOK
<1> QED  BY <1>2, <1>3, <1>4, <1>5, <1>6, <1>7 DEF Answer

\* Entering and leaving get_db and the like write nothing at all.
LEMMA MovingEffect ==
    ASSUME TypeOK, NEW r \in Reqs, Moving(r)
    PROVE  /\ UNCHANGED <<call, local, answer, clock, stores>>
           /\ <<pc[r], pc'[r]>> \in {<<"lock", "handle">>, <<"release", "done">>,
                                     <<"handle", "compile">>, <<"sign", "commit">>,
                                     <<"read", "count">>}
           /\ pc'[r] = "compile" => CreateAccepted(r)
           /\ pc'[r] = "count" => ReadEnds(r)
BY DEF Moving, EnterDb, LeaveDb, CreateAccepted, Sign, ReadEnds, Step, TypeOK

\* What the arrival of a request settles.
LEMMA ArriveEffect ==
    ASSUME TypeOK, NEW r \in Reqs, Arrive(r)
    PROVE  /\ pc[r] = "idle" /\ call'[r] \in Calls
           /\ \/ pc'[r] = "lock" /\ call'[r].kind \in DbKinds /\ local' = local
              \/ /\ pc'[r] = "read" /\ call'[r].kind \in ReadKinds
                 /\ local'[r].acked = Acked(call'[r].target)
           /\ UNCHANGED <<answer, dbLock, clock, stores>>
<1>1. PICK c \in Calls :
        /\ Step(r, "idle", IF c.kind \in DbKinds THEN "lock" ELSE "read")
        /\ call' = [call EXCEPT ![r] = c]
        /\ local' = IF c.kind \in ReadKinds
                    THEN [local EXCEPT ![r].acked = Acked(c.target)]
                    ELSE local
        /\ UNCHANGED <<answer, dbLock, clock, stores>>
  BY DEF Arrive
<1>2. call'[r] = c /\ pc[r] = "idle" /\ pc'[r] = IF c.kind \in DbKinds THEN "lock" ELSE "read"
  BY <1>1 DEF TypeOK, Step
<1>3. c.kind \in DbKinds \cup ReadKinds /\ (c.kind \in DbKinds => c.kind \notin ReadKinds)
  BY CallFields DEF DbKinds, ReadKinds
<1>4. c.kind \in ReadKinds => local'[r].acked = Acked(c.target)
  BY <1>1 DEF TypeOK, Local
<1> QED  BY <1>1, <1>2, <1>3, <1>4

\* A recompilation that is let in has found its guardrail and the same ids.
LEMMA RecompileEffect ==
    ASSUME TypeOK, NEW r \in Reqs, RecompileAccepted(r)
    PROVE  LET g == call[r].target IN
           /\ pc[r] = "handle" /\ pc'[r] = "compile" /\ call[r].kind = "recompile"
           /\ g \in DOMAIN rows /\ rows[g].org = call[r].org /\ rows[g].ids = call[r].ids
           /\ local'[r].guardrail = g /\ local'[r].policy = rows[g].compiled
           /\ UNCHANGED <<call, answer, dbLock, clock, stores>>
<1> DEFINE g == call[r].target
           l == [local[r] EXCEPT !.guardrail = g, !.policy = rows[g].compiled]
<1>1. local' = [local EXCEPT ![r] = l]
  BY DEF RecompileAccepted
<1>2. l.guardrail = g /\ l.policy = rows[g].compiled
  BY DEF TypeOK, Local
<1>3. local'[r] = l
  BY <1>1 DEF TypeOK
<1> HIDE DEF l
<1> QED
  BY <1>2, <1>3 DEF RecompileAccepted, OwnGuardrail, SameObligations, Handling, Step, TypeOK

\* A check that goes on has read a latest guardrail, its text and the tip.
LEMMA SelectEffect ==
    ASSUME TypeOK, NEW r \in Reqs, Select(r)
    PROVE  /\ pc[r] = "handle" /\ pc'[r] = "evaluate" /\ call[r].kind = "check"
           /\ Owner[call[r].target] = call[r].org
           /\ local'[r].guardrail \in Latest(r)
           /\ local'[r].policy = rows[local'[r].guardrail].compiled
           /\ UNCHANGED <<call, answer, dbLock, clock, stores>>
<1>1. PICK g \in Latest(r) :
        local' = [local EXCEPT ![r] =
                    [local[r] EXCEPT !.guardrail = g, !.policy = rows[g].compiled,
                                     !.prev = Tip(receipts[call[r].target])]]
  BY DEF Select
<1> DEFINE l == [local[r] EXCEPT !.guardrail = g, !.policy = rows[g].compiled,
                                 !.prev = Tip(receipts[call[r].target])]
<1>2. l.guardrail = g /\ l.policy = rows[g].compiled
  BY DEF TypeOK, Local
<1>3. local'[r] = l
  BY <1>1 DEF TypeOK
<1> HIDE DEF l
<1> QED  BY <1>2, <1>3 DEF Select, Handling, Step, TypeOK

LEMMA EvaluateEffect ==
    ASSUME TypeOK, NEW r \in Reqs, Evaluate(r)
    PROVE  /\ pc[r] = "evaluate" /\ pc'[r] = "sign"
           /\ local'[r].guardrail = local[r].guardrail
           /\ local'[r].policy = local[r].policy
           /\ UNCHANGED <<call, answer, dbLock, clock, stores>>
<1>1. PICK d \in Decisions :
        local' = [local EXCEPT ![r] = [local[r] EXCEPT !.decision = d]]
  BY DEF Evaluate
<1>2. /\ local'[r].guardrail = local[r].guardrail
      /\ local'[r].policy = local[r].policy
  BY <1>1 DEF TypeOK, Local
<1> QED  BY <1>2 DEF Evaluate, Step, TypeOK

\* The three writes of a check, and that of the other handlers.
LEMMA CommitGuardrailEffect ==
    ASSUME TypeOK, NEW r \in Reqs, CommitGuardrail(r)
    PROVE  /\ pc[r] = "compile" /\ pc'[r] = "audit"
           /\ call[r] \in Calls /\ call[r].kind \in {"create", "recompile"}
           /\ rows' = IF call[r].kind = "create" THEN Insert(r) ELSE Update(r)
           /\ UNCHANGED <<call, local, answer, dbLock, clock, events, receipts, audit>>
BY DEF CommitGuardrail, Step, TypeOK, Established

LEMMA CommitEventEffect ==
    ASSUME TypeOK, NEW r \in Reqs, CommitEvent(r)
    PROVE  /\ pc[r] = "commit" /\ pc'[r] = "append"
           /\ call[r] \in Calls /\ call[r].kind = "check" /\ call[r].target \in Systems
           /\ events' = Append(events, EventRow(r)) /\ EventRow(r) \in Event
           /\ Len(events') = Len(events) + 1 /\ Len(events) \in Nat
           /\ \A i \in 1..Len(events) : events'[i] = events[i]
           /\ events'[Len(events) + 1] = EventRow(r)
           /\ UNCHANGED <<call, local, answer, dbLock, clock, rows, receipts, audit>>
<1>1. /\ pc[r] = "commit" /\ pc'[r] = "append"
      /\ call[r] \in Calls /\ call[r].kind = "check"
  BY DEF CommitEvent, Step, TypeOK, Established
<1>2. call[r].target \in Systems
  BY <1>1, CallFields
<1>3. EventRow(r) \in Event
  BY <1>1, CallFields DEF TypeOK, Established, EventRow, Event
<1>4. events \in Seq(Event)
  BY DEF TypeOK
<1>5. events' = Append(events, EventRow(r))
  BY DEF CommitEvent
<1>6. /\ Len(events') = Len(events) + 1 /\ Len(events) \in Nat
      /\ \A i \in 1..Len(events) : events'[i] = events[i]
      /\ events'[Len(events) + 1] = EventRow(r)
  BY <1>3, <1>4, <1>5, AppendProperties, LenProperties
<1> QED  BY <1>1, <1>2, <1>3, <1>6 DEF CommitEvent

LEMMA AppendReceiptEffect ==
    ASSUME TypeOK, NEW r \in Reqs, AppendReceipt(r)
    PROVE  LET t == call[r].target
               n == Len(receipts[t]) IN
           /\ pc[r] = "append" /\ pc'[r] = "audit"
           /\ call[r] \in Calls /\ call[r].kind = "check" /\ t \in Systems
           /\ receipts'[t] = Append(receipts[t], Signed(r)) /\ Signed(r) \in Receipt
           /\ n \in Nat /\ Len(receipts'[t]) = n + 1
           /\ \A k \in 1..n : receipts'[t][k] = receipts[t][k]
           /\ receipts'[t][n + 1] = Signed(r)
           /\ \A s \in Systems \ {t} : receipts'[s] = receipts[s]
           /\ UNCHANGED <<call, local, answer, dbLock, clock, rows, events, audit>>
<1> DEFINE t == call[r].target
<1>1. /\ pc[r] = "append" /\ pc'[r] = "audit"
      /\ call[r] \in Calls /\ call[r].kind = "check"
      /\ local[r] \in Local /\ local[r].decision \in Decisions
  BY DEF AppendReceipt, Step, TypeOK, Established
<1>2. t \in Systems
  BY <1>1, CallFields
<1>3. Signed(r) \in Receipt
  BY <1>1 DEF Signed, Receipt, Local
<1>4. receipts[t] \in Seq(Receipt)
  BY <1>2 DEF TypeOK
<1>5. /\ receipts'[t] = Append(receipts[t], Signed(r))
      /\ \A s \in Systems \ {t} : receipts'[s] = receipts[s]
  BY <1>2 DEF AppendReceipt, TypeOK
<1>6. /\ Len(receipts'[t]) = Len(receipts[t]) + 1 /\ Len(receipts[t]) \in Nat
      /\ \A k \in 1..Len(receipts[t]) : receipts'[t][k] = receipts[t][k]
      /\ receipts'[t][Len(receipts[t]) + 1] = Signed(r)
  BY <1>3, <1>4, <1>5, AppendProperties, LenProperties
<1> QED  BY <1>1, <1>2, <1>3, <1>5, <1>6 DEF AppendReceipt

LEMMA WriteAuditEffect ==
    ASSUME TypeOK, NEW r \in Reqs, WriteAudit(r)
    PROVE  /\ pc[r] = "audit" /\ pc'[r] = "release"
           /\ call[r] \in Calls /\ call[r].kind \in DbKinds
           /\ answer'[r].status \in {200, 201}
           /\ answer'[r].status = 200 <=> call[r].kind # "create"
           /\ answer'[r].seen = answer[r].seen
           /\ answer'[r].count = answer[r].count
           /\ answer'[r].passed = answer[r].passed
           /\ audit' = Append(audit, AuditEntry(r)) /\ AuditEntry(r) \in Entry
           /\ Len(audit) \in Nat /\ Len(audit') = Len(audit) + 1
           /\ \A i \in 1..Len(audit) : audit'[i] = audit[i]
           /\ audit'[Len(audit) + 1] = AuditEntry(r)
           /\ UNCHANGED <<call, local, dbLock, clock, rows, events, receipts>>
<1> DEFINE status == IF call[r].kind = "create" THEN 201 ELSE 200
           a == [answer[r] EXCEPT !.status = status]
<1>1. /\ pc[r] = "audit" /\ pc' = [pc EXCEPT ![r] = "release"]
      /\ answer' = [answer EXCEPT ![r] = a]
  BY DEF WriteAudit, Respond, Step, InDb
<1>2. /\ a.status = status /\ a.seen = answer[r].seen /\ a.count = answer[r].count
      /\ a.passed = answer[r].passed
  BY DEF TypeOK, Answer
<1>3. answer'[r] = a /\ pc'[r] = "release"
  BY <1>1 DEF TypeOK
<1>4. call[r] \in Calls /\ call[r].kind \in DbKinds
  BY <1>1 DEF TypeOK, Established
<1>5. AuditEntry(r) \in Entry
  <2>1. call[r].kind = "recompile" =>
            local[r].guardrail \in Reqs /\ rows[local[r].guardrail].org \in Orgs
    BY <1>1, <1>4 DEF TypeOK, Established, Row
  <2> QED
    BY <1>1, <1>4, <2>1, CallFields DEF AuditEntry, Entry, TypeOK, Established, DbKinds, Local
<1>6. audit \in Seq(Entry) /\ audit' = Append(audit, AuditEntry(r))
  BY DEF TypeOK, WriteAudit
<1>7. /\ Len(audit) \in Nat /\ Len(audit') = Len(audit) + 1
      /\ \A i \in 1..Len(audit) : audit'[i] = audit[i]
      /\ audit'[Len(audit) + 1] = AuditEntry(r)
  BY <1>5, <1>6, AppendProperties, LenProperties
<1> HIDE DEF a
<1> QED  BY <1>1, <1>2, <1>3, <1>4, <1>5, <1>6, <1>7 DEF WriteAudit

\* One iteration of a reader; in a chain that is linked, verification goes on.
LEMMA ReadNextEffect ==
    ASSUME TypeOK, ChainIntegrity, NEW r \in Reqs, ReadNext(r)
    PROVE  LET list == receipts[call[r].target]
               n    == Len(answer[r].seen) IN
           /\ pc[r] = "read" /\ pc'[r] = "read"
           /\ call[r] \in Calls /\ call[r].kind \in ReadKinds
           /\ call[r].target \in Systems
           /\ Owner[call[r].target] = call[r].org
           /\ n \in Nat /\ n + 1 <= Len(list) /\ Len(list) \in Nat
           /\ answer'[r].status = answer[r].status
           /\ answer'[r].count = answer[r].count
           /\ answer'[r].passed = answer[r].passed
           /\ Len(answer'[r].seen) = n + 1
           /\ \A i \in 1..n : answer'[r].seen[i] = answer[r].seen[i]
           /\ answer'[r].seen[n + 1] = list[n + 1]
           /\ UNCHANGED <<call, local, dbLock, clock, stores>>
<1> DEFINE t == call[r].target
           list == receipts[t]
           seen == answer[r].seen
           n == Len(seen)
           a == [answer[r] EXCEPT !.seen = Append(seen, list[n + 1])]
<1>1. /\ pc[r] = "read" /\ call[r] \in Calls /\ call[r].kind \in ReadKinds
      /\ Owner[t] = call[r].org /\ n + 1 <= Len(list)
  BY DEF ReadNext, TypeOK, Established
<1>2. t \in Systems
  BY <1>1, CallFields DEF ReadKinds
<1>3. /\ list \in Seq(Receipt) /\ seen \in Seq(Receipt)
  BY <1>2 DEF TypeOK, Answer
<1>4. n \in Nat /\ Len(list) \in Nat /\ n + 1 \in 1..Len(list)
  BY <1>1, <1>3, LenProperties
<1>5. list[n + 1].prev = IF n + 1 = 1 THEN None ELSE list[n + 1 - 1].id
  BY <1>2, <1>4 DEF ChainIntegrity
<1>6. /\ answer' = [answer EXCEPT ![r] = a] /\ UNCHANGED <<pc, call, local, dbLock, clock, stores>>
  BY <1>5 DEF ReadNext
<1>7. answer'[r] = a
  BY <1>6 DEF TypeOK
<1>8. /\ a.seen = Append(seen, list[n + 1]) /\ a.status = answer[r].status
      /\ a.count = answer[r].count /\ a.passed = answer[r].passed
  BY DEF TypeOK, Answer
<1>9. list[n + 1] \in Receipt
  BY <1>3, <1>4, ElementOfSeq
<1>10. /\ Len(a.seen) = n + 1 /\ \A i \in 1..n : a.seen[i] = seen[i]
       /\ a.seen[n + 1] = list[n + 1]
  BY <1>3, <1>8, <1>9, AppendProperties
<1> HIDE DEF a
<1> QED  BY <1>1, <1>2, <1>4, <1>6, <1>7, <1>8, <1>10

LEMMA ReadAnswerEffect ==
    ASSUME TypeOK, NEW r \in Reqs, ReadAnswer(r)
    PROVE  /\ pc[r] = "count" /\ pc'[r] = "done"
           /\ call[r] \in Calls /\ call[r].kind \in ReadKinds
           /\ call[r].target \in Systems
           /\ answer'[r].status = 200
           /\ answer'[r].count = IF answer[r].seen = <<>> THEN 0
                                 ELSE Len(receipts[call[r].target])
           /\ answer'[r].passed = answer[r].passed
           /\ answer'[r].seen = answer[r].seen
           /\ UNCHANGED <<call, local, dbLock, clock, stores>>
<1> DEFINE n == IF answer[r].seen = <<>> THEN 0 ELSE Len(receipts[call[r].target])
           a == [answer[r] EXCEPT !.status = 200, !.count = n]
<1>1. answer' = [answer EXCEPT ![r] = a]
  BY DEF ReadAnswer
<1>2. /\ a.status = 200 /\ a.count = n /\ a.passed = answer[r].passed
      /\ a.seen = answer[r].seen
  BY DEF TypeOK, Answer
<1>3. answer'[r] = a
  BY <1>1 DEF TypeOK
<1>4. pc[r] = "count" /\ call[r] \in Calls /\ call[r].kind \in ReadKinds
  BY DEF ReadAnswer, Step, TypeOK, Established
<1>5. call[r].target \in Systems
  BY <1>4, CallFields DEF ReadKinds
<1> HIDE DEF a
<1> QED  BY <1>2, <1>3, <1>4, <1>5 DEF ReadAnswer, Step, TypeOK

\* Each store is written by one kind of step.
LEMMA StoresKept ==
    ASSUME NEW r \in Reqs, RequestStep(r)
    PROVE  /\ ~CommitGuardrail(r) => rows' = rows
           /\ ~CommitEvent(r) => events' = events
           /\ ~AppendReceipt(r) => receipts' = receipts
           /\ ~WriteAudit(r) => audit' = audit
<1>1. CASE \/ Arrive(r) \/ Refuse(r) \/ EnterDb(r) \/ LeaveDb(r) \/ InvalidBody(r)
           \/ CreateRefused(r) \/ CreateAccepted(r) \/ RecompileRefused(r)
           \/ RecompileAccepted(r) \/ CompileFails(r)
  BY <1>1 DEF Arrive, Refuse, EnterDb, LeaveDb, InvalidBody, CreateRefused, CreateAccepted,
              RecompileRefused, RecompileAccepted, CompileFails, stores
<1>2. CASE \/ CheckRefused(r) \/ Select(r) \/ Evaluate(r) \/ ProviderRaises(r) \/ Sign(r)
           \/ CommitFails(r) \/ RefreshFails(r)
           \/ ReadRefused(r) \/ ReadNext(r) \/ ReadEnds(r) \/ ReadAnswer(r)
  BY <1>2 DEF CheckRefused, Select, Evaluate, ProviderRaises, Sign, CommitFails,
              RefreshFails, ReadRefused, ReadNext, ReadEnds, ReadAnswer, stores
<1>3. CASE CommitGuardrail(r) \/ CommitEvent(r) \/ AppendReceipt(r) \/ WriteAudit(r)
  BY <1>3 DEF CommitGuardrail, CommitEvent, AppendReceipt, WriteAudit
<1> QED  BY <1>1, <1>2, <1>3 DEF RequestStep, Handler

\* While a request is in the database section, no other one writes a table.
LEMMA SectionAlone ==
    ASSUME TypeOK, MutualExclusion, NEW r \in Reqs, RequestStep(r),
           NEW q \in Reqs \ {r}, pc[q] \in InDb
    PROVE  UNCHANGED stores /\ pc[r] \notin InDb
<1>1. pc[r] \notin InDb
  BY DEF MutualExclusion
<1>2. ~(CommitGuardrail(r) \/ CommitEvent(r) \/ AppendReceipt(r) \/ WriteAudit(r))
  BY <1>1 DEF CommitGuardrail, CommitEvent, AppendReceipt, WriteAudit, Step, InDb
<1> QED  BY <1>1, <1>2, StoresKept DEF stores

-----------------------------------------------------------------------------
\* The traces of a request: which of them exist at which step.

Ended(r)     == pc[r] \in {"release", "done"}
Succeeded(r) == Ended(r) /\ answer[r].status \in {200, 201}

EventDue(r)   == (pc[r] \in {"append", "audit"} \/ Succeeded(r)) /\ call[r].kind = "check"
ReceiptDue(r) == (pc[r] = "audit" \/ Succeeded(r)) /\ call[r].kind = "check"
AuditDue(r)   == Succeeded(r) /\ call[r].kind \in DbKinds
RowDue(r)     == (pc[r] = "audit" \/ Succeeded(r)) /\ call[r].kind = "create"

Traces(r) ==
    /\ ~Ended(r) => answer[r].status = 0
    /\ HasEvent(r) <=> EventDue(r)
    /\ HasReceipt(r) <=> ReceiptDue(r)
    /\ HasAudit(r) <=> AuditDue(r)
    /\ RowDue(r) => r \in DOMAIN rows
    /\ r \in DOMAIN rows => call[r] \in Calls /\ call[r].kind = "create"
    /\ r \in DOMAIN rows \/ HasPolicy(r) =>
          /\ call[r] \in Calls /\ call[r].kind \in {"create", "recompile"}
          /\ \/ pc[r] = "audit"
             \/ Ended(r) /\ (Succeeded(r) \/ r \in Unreported)

\* A step adds the trace it writes, to the request it belongs to.
LEMMA TracesGrow ==
    ASSUME TypeOK, NEW r \in Reqs, RequestStep(r), NEW q \in Reqs
    PROVE  /\ HasEvent(q)' <=> HasEvent(q) \/ (CommitEvent(r) /\ q = r)
           /\ HasReceipt(q)' <=> HasReceipt(q) \/ (AppendReceipt(r) /\ q = r)
           /\ HasAudit(q)' <=> HasAudit(q) \/ (WriteAudit(r) /\ q = r)
           /\ HasPolicy(q)' => HasPolicy(q) \/ (CommitGuardrail(r) /\ q = r)
           /\ q \in DOMAIN rows' <=>
                  \/ q \in DOMAIN rows
                  \/ CommitGuardrail(r) /\ q = r /\ call[r].kind = "create"
<1>1. HasEvent(q)' <=> HasEvent(q) \/ (CommitEvent(r) /\ q = r)
  <2>1. CASE CommitEvent(r)
    <3>1. EventRow(r).id = r
      BY DEF EventRow
    <3> DEFINE n == Len(events)
    <3>2. /\ n \in Nat /\ Len(events') = n + 1
          /\ \A i \in 1..n : events'[i] = events[i]
          /\ events'[n + 1].id = r
      BY <2>1, <3>1, CommitEventEffect
    <3> HIDE DEF n
    <3>3. \A i \in 1..(n + 1) : i \in 1..n \/ i = n + 1
      BY <3>2
    <3>4. n + 1 \in 1..(n + 1) /\ 1..n \subseteq 1..(n + 1)
      BY <3>2
    <3> QED  BY <2>1, <3>2, <3>3, <3>4 DEF HasEvent, n
  <2>2. CASE ~CommitEvent(r)
    BY <2>2, StoresKept DEF HasEvent
  <2> QED  BY <2>1, <2>2
<1>2. HasReceipt(q)' <=> HasReceipt(q) \/ (AppendReceipt(r) /\ q = r)
  <2>1. CASE AppendReceipt(r)
    <3> DEFINE t == call[r].target
               n == Len(receipts[t])
    <3>1. Signed(r).id = r
      BY DEF Signed
    <3>2. /\ t \in Systems /\ n \in Nat /\ Len(receipts'[t]) = n + 1
          /\ \A k \in 1..n : receipts'[t][k] = receipts[t][k]
          /\ receipts'[t][n + 1].id = r
          /\ \A s \in Systems \ {t} : receipts'[s] = receipts[s]
      BY <2>1, <3>1, AppendReceiptEffect
    <3> HIDE DEF n, t
    <3>3. \A i \in 1..(n + 1) : i \in 1..n \/ i = n + 1
      BY <3>2
    <3>4. n + 1 \in 1..(n + 1) /\ 1..n \subseteq 1..(n + 1)
      BY <3>2
    <3>5. ASSUME HasReceipt(q)' PROVE HasReceipt(q) \/ q = r
      <4>1. PICK s \in Systems : \E k \in 1..Len(receipts'[s]) : receipts'[s][k].id = q
        BY <3>5 DEF HasReceipt
      <4>2. CASE s = t
        BY <3>2, <3>3, <4>1, <4>2 DEF HasReceipt, n
      <4>3. CASE s # t
        BY <3>2, <4>1, <4>3 DEF HasReceipt
      <4> QED  BY <4>2, <4>3
    <3>6. ASSUME HasReceipt(q) PROVE HasReceipt(q)'
      <4>1. PICK s \in Systems : \E k \in 1..Len(receipts[s]) : receipts[s][k].id = q
        BY <3>6 DEF HasReceipt
      <4>2. CASE s = t
        BY <3>2, <3>4, <4>1, <4>2 DEF HasReceipt, n
      <4>3. CASE s # t
        BY <3>2, <4>1, <4>3 DEF HasReceipt
      <4> QED  BY <4>2, <4>3
    <3>7. HasReceipt(r)'
      BY <3>2, <3>4 DEF HasReceipt
    <3> QED  BY <2>1, <3>5, <3>6, <3>7
  <2>2. CASE ~AppendReceipt(r)
    BY <2>2, StoresKept DEF HasReceipt
  <2> QED  BY <2>1, <2>2
<1>3. HasAudit(q)' <=> HasAudit(q) \/ (WriteAudit(r) /\ q = r)
  <2>1. CASE WriteAudit(r)
    <3> DEFINE n == Len(audit)
               Names(e) == IF e.action = "checked" THEN e.entity = q ELSE e.after = q
    <3>1. Names(AuditEntry(r)) <=> q = r
      <4>1. call[r].kind \in {"create", "recompile", "check"}
        BY <2>1, WriteAuditEffect DEF DbKinds
      <4> QED  BY <4>1 DEF AuditEntry
    <3>2. /\ n \in Nat /\ Len(audit') = n + 1
          /\ \A i \in 1..n : audit'[i] = audit[i]
          /\ audit'[n + 1] = AuditEntry(r)
      BY <2>1, WriteAuditEffect
    <3>3. HasAudit(q) <=> \E i \in 1..n : Names(audit[i])
      BY DEF HasAudit
    <3>4. HasAudit(q)' <=> \E i \in 1..(n + 1) : Names(audit'[i])
      BY <3>2 DEF HasAudit
    <3> HIDE DEF n, Names
    <3>5. \A i \in 1..(n + 1) : i \in 1..n \/ i = n + 1
      BY <3>2
    <3>6. n + 1 \in 1..(n + 1) /\ 1..n \subseteq 1..(n + 1)
      BY <3>2
    <3> QED  BY <2>1, <3>1, <3>2, <3>3, <3>4, <3>5, <3>6
  <2>2. CASE ~WriteAudit(r)
    BY <2>2, StoresKept DEF HasAudit
  <2> QED  BY <2>1, <2>2
<1>4. /\ HasPolicy(q)' => HasPolicy(q) \/ (CommitGuardrail(r) /\ q = r)
      /\ q \in DOMAIN rows' <=>
             \/ q \in DOMAIN rows
             \/ CommitGuardrail(r) /\ q = r /\ call[r].kind = "create"
  <2>1. CASE CommitGuardrail(r) /\ call[r].kind = "create"
    <3>1. rows' = Insert(r)
      BY <2>1, CommitGuardrailEffect
    <3> QED  BY <2>1, <3>1 DEF HasPolicy, Insert
  <2>2. CASE CommitGuardrail(r) /\ call[r].kind # "create"
    <3> DEFINE h == local[r].guardrail
    <3>1. rows' = [rows EXCEPT ![h] = [rows[h] EXCEPT !.compiled = r, !.ids = call[r].ids]]
      BY <2>2, CommitGuardrailEffect DEF Update
    <3>2. \A g \in DOMAIN rows : g \in DOMAIN rows' /\ rows'[g].compiled \in {rows[g].compiled, r}
      BY <3>1 DEF TypeOK, Row
    <3>3. DOMAIN rows' = DOMAIN rows
      BY <3>1
    <3> QED  BY <2>2, <3>2, <3>3 DEF HasPolicy
  <2>3. CASE ~CommitGuardrail(r)
    BY <2>3, StoresKept DEF HasPolicy
  <2> QED  BY <2>1, <2>2, <2>3
<1> QED  BY <1>1, <1>2, <1>3, <1>4

LEMMA TracesStep ==
    ASSUME TypeOK, ChainIntegrity, \A q \in Reqs : Traces(q),
           NEW r \in Reqs, RequestStep(r)
    PROVE  \A q \in Reqs : Traces(q)'
<1>1. ASSUME NEW q \in Reqs \ {r} PROVE Traces(q)'
  <2>1. /\ pc'[q] = pc[q] /\ call'[q] = call[q] /\ answer'[q] = answer[q]
    BY OthersKept
  <2>2. /\ Ended(q)' <=> Ended(q)
        /\ Succeeded(q)' <=> Succeeded(q)
        /\ EventDue(q)' <=> EventDue(q)
        /\ ReceiptDue(q)' <=> ReceiptDue(q)
        /\ AuditDue(q)' <=> AuditDue(q)
        /\ RowDue(q)' <=> RowDue(q)
        /\ (q \in Unreported)' <=> q \in Unreported
    BY <2>1 DEF Ended, Succeeded, EventDue, ReceiptDue, AuditDue, RowDue, Unreported
  <2> QED  BY <2>1, <2>2, TracesGrow DEF Traces
<1>2. Traces(r)'
  <2>0. Traces(r)
    OBVIOUS
  <2> USE DEF Traces, Ended, Succeeded, EventDue, ReceiptDue, AuditDue, RowDue, Unreported
  <2>1. CASE Arrive(r)
    <3>1. /\ pc[r] = "idle" /\ pc'[r] \in {"lock", "read"} /\ answer' = answer
          /\ rows' = rows
      BY <2>1, ArriveEffect DEF stores
    <3>2. ~(CommitEvent(r) \/ AppendReceipt(r) \/ WriteAudit(r) \/ CommitGuardrail(r))
      BY <3>1 DEF CommitEvent, AppendReceipt, WriteAudit, CommitGuardrail, Step
    <3> QED  BY <2>0, <3>1, <3>2, TracesGrow
  <2>2. CASE Failing(r)
    <3>1. /\ pc[r] \in {"idle", "handle", "compile", "evaluate", "sign", "commit",
                         "audit", "read"}
          /\ pc'[r] \in {"release", "done"}
          /\ pc[r] = "audit" => "refresh" \in Faults /\ call[r].kind # "check"
          /\ answer'[r].status >= 400 /\ call' = call
          /\ pc[r] = "audit" => answer'[r].status = 500
          /\ UNCHANGED stores
      BY <2>2, FailingEffect
    <3>2. /\ HasEvent(r)' <=> HasEvent(r)
          /\ HasReceipt(r)' <=> HasReceipt(r)
          /\ HasAudit(r)' <=> HasAudit(r)
          /\ HasPolicy(r)' <=> HasPolicy(r)
          /\ rows' = rows
      BY <3>1 DEF HasEvent, HasReceipt, HasAudit, HasPolicy, stores
    <3>3. answer'[r].status \notin {200, 201}
      BY <3>1
    <3> QED  BY <2>0, <3>1, <3>2, <3>3
  <2>3. CASE Moving(r) \/ RecompileAccepted(r) \/ Select(r) \/ Evaluate(r) \/ ReadNext(r)
    <3>1. /\ UNCHANGED <<call, stores>>
          /\ answer'[r].status = answer[r].status
          /\ \/ Ended(r) /\ Ended(r)'
             \/ /\ ~Ended(r) /\ ~Ended(r)'
                /\ pc[r] \notin {"append", "audit"} /\ pc'[r] \notin {"append", "audit"}
      <4>1. CASE Moving(r)
        BY <4>1, MovingEffect
      <4>2. CASE RecompileAccepted(r)
        BY <4>2, RecompileEffect
      <4>3. CASE Select(r)
        BY <4>3, SelectEffect
      <4>4. CASE Evaluate(r)
        BY <4>4, EvaluateEffect
      <4>5. CASE ReadNext(r)
        BY <4>5, ReadNextEffect
      <4> QED  BY <2>3, <4>1, <4>2, <4>3, <4>4, <4>5
    <3> QED  BY <2>0, <3>1 DEF HasEvent, HasReceipt, HasAudit, HasPolicy, stores
  <2>4. CASE CommitGuardrail(r)
    <3>1. /\ pc[r] = "compile" /\ pc'[r] = "audit" /\ call[r] \in Calls
          /\ call[r].kind \in {"create", "recompile"} /\ call' = call /\ answer' = answer
          /\ UNCHANGED <<events, receipts, audit>>
      BY <2>4, CommitGuardrailEffect
    <3>2. /\ ~HasEvent(r)' /\ ~HasReceipt(r)' /\ ~HasAudit(r)'
      BY <2>0, <3>1 DEF HasEvent, HasReceipt, HasAudit
    <3>3. /\ r \in DOMAIN rows' <=> call[r].kind = "create"
      BY <2>0, <2>4, <3>1, TracesGrow
    <3> QED  BY <2>0, <3>1, <3>2, <3>3
  <2>5. CASE CommitEvent(r)
    <3>1. /\ pc[r] = "commit" /\ pc'[r] = "append" /\ call[r].kind = "check"
          /\ UNCHANGED <<call, answer, rows, receipts, audit>>
      BY <2>5, CommitEventEffect
    <3>2. HasEvent(r)'
      BY <2>5, TracesGrow
    <3> QED  BY <2>0, <3>1, <3>2 DEF HasReceipt, HasAudit, HasPolicy
  <2>6. CASE AppendReceipt(r)
    <3>1. /\ pc[r] = "append" /\ pc'[r] = "audit" /\ call[r].kind = "check"
          /\ UNCHANGED <<call, answer, rows, events, audit>>
      BY <2>6, AppendReceiptEffect
    <3>2. HasReceipt(r)'
      BY <2>6, TracesGrow
    <3> QED  BY <2>0, <3>1, <3>2 DEF HasEvent, HasAudit, HasPolicy
  <2>7. CASE WriteAudit(r)
    <3>1. /\ pc[r] = "audit" /\ pc'[r] = "release" /\ call[r].kind \in DbKinds
          /\ answer'[r].status \in {200, 201}
          /\ UNCHANGED <<call, rows, events, receipts>>
      BY <2>7, WriteAuditEffect
    <3>2. HasAudit(r)'
      BY <2>7, TracesGrow
    <3> QED  BY <2>0, <3>1, <3>2 DEF HasEvent, HasReceipt, HasPolicy
  <2>8. CASE ReadAnswer(r)
    <3>1. /\ pc[r] = "count" /\ pc'[r] = "done" /\ call[r].kind \in ReadKinds
          /\ answer'[r].status = 200 /\ UNCHANGED <<call, stores>>
      BY <2>8, ReadAnswerEffect
    <3>2. call[r].kind \notin DbKinds
      BY <3>1 DEF ReadKinds, DbKinds
    <3> QED  BY <2>0, <3>1, <3>2 DEF HasEvent, HasReceipt, HasAudit, HasPolicy, stores, DbKinds
  <2> QED  BY <2>1, <2>2, <2>3, <2>4, <2>5, <2>6, <2>7, <2>8, StepKinds
<1> QED  BY <1>1, <1>2

-----------------------------------------------------------------------------
\* What a handler works with inside get_db, and what its steps leave of it.

\* The row a handler read is there and as it read it, until it is replaced by
\* the handler itself.
Working(r) ==
    LET g == local[r].guardrail IN
    /\ pc[r] = "compile" /\ call[r].kind = "create" =>
          call[r].bodyOrg = call[r].org /\ Owner[call[r].target] = call[r].org
    /\ pc[r] = "compile" /\ call[r].kind = "recompile" =>
          /\ g \in DOMAIN rows /\ rows[g].org = call[r].org
          /\ rows[g].ids = call[r].ids /\ rows[g].compiled = local[r].policy
    /\ pc[r] \in Chaining =>
          /\ Owner[call[r].target] = call[r].org
          /\ g \in Latest(r) /\ rows[g].compiled = local[r].policy
    /\ pc[r] = "audit" /\ call[r].kind = "create" =>
          /\ r \in DOMAIN rows /\ rows[r].compiled = r
          /\ rows[r].org = call[r].org /\ call[r].bodyOrg = call[r].org
    /\ pc[r] = "audit" /\ call[r].kind = "recompile" =>
          g \in DOMAIN rows /\ rows[g].compiled = r /\ rows[g].org = call[r].org

LEMMA WorkingStep ==
    ASSUME TypeOK, MutualExclusion, ChainIntegrity, \A q \in Reqs : Working(q),
           NEW r \in Reqs, RequestStep(r)
    PROVE  \A q \in Reqs : Working(q)'
<1>1. ASSUME NEW q \in Reqs \ {r} PROVE Working(q)'
  <2>1. /\ pc'[q] = pc[q] /\ call'[q] = call[q] /\ local'[q] = local[q]
    BY OthersKept
  <2>2. CASE pc[q] \in InDb
    <3>1. rows' = rows
      BY <2>2, SectionAlone DEF stores
    <3>2. Latest(q)' = Latest(q)
      BY <2>1, <3>1 DEF Latest, Candidates
    <3> QED  BY <2>1, <3>1, <3>2 DEF Working
  <2>3. CASE pc[q] \notin InDb
    BY <2>1, <2>3 DEF Working, InDb, Chaining
  <2> QED  BY <2>2, <2>3
<1>2. Working(r)'
  <2>0. Working(r)
    OBVIOUS
  <2>1. CASE Arrive(r)
    BY <2>1, ArriveEffect DEF Working, Chaining
  <2>2. CASE Failing(r)
    BY <2>2, FailingEffect DEF Working, Chaining
  <2>3. CASE Moving(r)
    <3>1. UNCHANGED <<call, local, stores>>
      BY <2>3, MovingEffect
    <3>2. Latest(r)' = Latest(r)
      BY <3>1 DEF Latest, Candidates, stores
    <3>3. \/ pc'[r] \in {"handle", "done", "count"}
          \/ /\ pc'[r] = "compile" /\ call[r].kind = "create"
             /\ call[r].bodyOrg = call[r].org /\ Owner[call[r].target] = call[r].org
          \/ pc[r] = "sign" /\ pc'[r] = "commit"
      BY <2>3, MovingEffect DEF CreateAccepted, Handling
    <3> QED  BY <2>0, <3>1, <3>2, <3>3 DEF Working, Chaining, stores
  <2>4. CASE RecompileAccepted(r)
    BY <2>4, RecompileEffect DEF Working, Chaining, stores
  <2>5. CASE Select(r)
    <3>1. Latest(r)' = Latest(r)
      BY <2>5, SelectEffect DEF Latest, Candidates, stores
    <3> QED  BY <2>5, <3>1, SelectEffect DEF Working, Chaining, stores
  <2>6. CASE Evaluate(r)
    <3>1. Latest(r)' = Latest(r)
      BY <2>6, EvaluateEffect DEF Latest, Candidates, stores
    <3> QED  BY <2>0, <2>6, <3>1, EvaluateEffect DEF Working, Chaining, stores
  <2>7. CASE CommitEvent(r) \/ AppendReceipt(r)
    <3>1. /\ UNCHANGED <<call, local, rows>> /\ call[r].kind = "check"
          /\ pc[r] \in Chaining /\ pc'[r] \in {"append", "audit"}
      BY <2>7, CommitEventEffect, AppendReceiptEffect DEF Chaining
    <3>2. Latest(r)' = Latest(r)
      BY <3>1 DEF Latest, Candidates
    <3> QED  BY <2>0, <3>1, <3>2 DEF Working, Chaining
  <2>8. CASE CommitGuardrail(r)
    <3>1. /\ pc[r] = "compile" /\ pc'[r] = "audit" /\ UNCHANGED <<call, local>>
          /\ rows' = IF call[r].kind = "create" THEN Insert(r) ELSE Update(r)
          /\ call[r].kind \in {"create", "recompile"}
      BY <2>8, CommitGuardrailEffect
    <3>2. CASE call[r].kind = "create"
      BY <2>0, <3>1, <3>2 DEF Working, Insert, Chaining
    <3>3. CASE call[r].kind = "recompile"
      <4> DEFINE g == local[r].guardrail
      <4>1. g \in DOMAIN rows /\ rows[g] \in Row /\ rows[g].org = call[r].org
        BY <2>0, <3>1, <3>3 DEF Working, TypeOK
      <4>2. rows' = [rows EXCEPT ![g] = [rows[g] EXCEPT !.compiled = r, !.ids = call[r].ids]]
        BY <3>1, <3>3 DEF Update
      <4>3. g \in DOMAIN rows' /\ rows'[g].compiled = r /\ rows'[g].org = call[r].org
        BY <4>1, <4>2 DEF Row
      <4> QED  BY <3>1, <3>3, <4>3 DEF Working, Chaining
    <3> QED  BY <3>1, <3>2, <3>3
  <2>9. CASE WriteAudit(r) \/ ReadNext(r) \/ ReadAnswer(r)
    BY <2>9, WriteAuditEffect, ReadNextEffect, ReadAnswerEffect DEF Working, Chaining
  <2> QED
    BY <2>1, <2>2, <2>3, <2>4, <2>5, <2>6, <2>7, <2>8, <2>9, StepKinds
<1> QED  BY <1>1, <1>2

\* A row keeps everything but its policy text.
LEMMA RowsStable ==
    ASSUME TypeOK, NEW r \in Reqs, Traces(r), Working(r), RequestStep(r),
           NEW g \in DOMAIN rows
    PROVE  /\ g \in DOMAIN rows'
           /\ rows'[g].org = rows[g].org /\ rows'[g].sys = rows[g].sys
           /\ rows'[g].ids = rows[g].ids /\ rows'[g].created = rows[g].created
           /\ [rows'[g] EXCEPT !.compiled = None] = [rows[g] EXCEPT !.compiled = None]
<1>1. CASE ~CommitGuardrail(r)
  BY <1>1, StoresKept
<1>2. CASE CommitGuardrail(r) /\ call[r].kind = "create"
  <2>1. pc[r] = "compile" /\ rows' = Insert(r)
    BY <1>2, CommitGuardrailEffect
  <2>2. g # r
    BY <2>1 DEF Traces, Ended
  <2> QED  BY <2>1, <2>2 DEF Insert
<1>3. CASE CommitGuardrail(r) /\ call[r].kind # "create"
  <2> DEFINE h == local[r].guardrail
  <2>1. /\ h \in DOMAIN rows /\ call[r].ids = rows[h].ids
        /\ rows' = [rows EXCEPT ![h] = [rows[h] EXCEPT !.compiled = r, !.ids = call[r].ids]]
    BY <1>3, CommitGuardrailEffect DEF Working, Update
  <2>2. rows[h] \in Row /\ rows[g] \in Row
    BY <2>1 DEF TypeOK
  <2>3. [rows[h] EXCEPT !.compiled = r, !.ids = call[r].ids] = [rows[h] EXCEPT !.compiled = r]
    BY <2>1, <2>2 DEF Row
  <2>4. rows' = [rows EXCEPT ![h] = [rows[h] EXCEPT !.compiled = r]]
    BY <2>1, <2>3
  <2>5. CASE g # h
    BY <2>4, <2>5
  <2>6. CASE g = h
    <3>1. rows'[g] = [rows[g] EXCEPT !.compiled = r]
      BY <2>1, <2>4, <2>6
    <3> QED  BY <2>2, <2>4, <3>1 DEF Row
  <2> QED  BY <2>5, <2>6
<1> QED  BY <1>1, <1>2, <1>3

-----------------------------------------------------------------------------
\* The invariant of the first theorems, and what Tick and stuttering keep.

Bookkeeping ==
    /\ TypeOK /\ MutualExclusion /\ ChainIntegrity
    /\ \A r \in Reqs : Traces(r) /\ Working(r)

LEMMA IdleSteps ==
    ASSUME Tick \/ UNCHANGED vars
    PROVE  UNCHANGED <<pc, call, local, answer, dbLock, rows, events, receipts, audit>>
BY DEF Tick, vars, stores

LEMMA BookkeepingKept == Spec => []Bookkeeping
<1> DEFINE I == \A r \in Reqs : Traces(r) /\ Working(r)
<1>1. Init => I
  <2> SUFFICES ASSUME Init, NEW r \in Reqs PROVE Traces(r) /\ Working(r)
    OBVIOUS
  <2>1. /\ pc[r] = "idle" /\ answer[r].status = 0 /\ events = <<>> /\ audit = <<>>
        /\ DOMAIN rows = {} /\ \A s \in Systems : receipts[s] = <<>>
    BY DEF Init
  <2>2. ~HasEvent(r) /\ ~HasReceipt(r) /\ ~HasAudit(r) /\ ~HasPolicy(r)
    BY <2>1 DEF HasEvent, HasReceipt, HasAudit, HasPolicy
  <2> QED
    BY <2>1, <2>2 DEF Traces, Working, Ended, Succeeded, EventDue, ReceiptDue, AuditDue,
                     RowDue, Chaining, Unreported
<1>2. TypeOK /\ MutualExclusion /\ ChainIntegrity /\ I /\ [Next]_vars => I'
  <2> SUFFICES ASSUME TypeOK, MutualExclusion, ChainIntegrity, I, [Next]_vars PROVE I'
    OBVIOUS
  <2>1. CASE \E r \in Reqs : RequestStep(r)
    BY <2>1, TracesStep, WorkingStep
  <2>2. CASE Tick \/ UNCHANGED vars
    <3>1. \A r \in Reqs : Latest(r)' = Latest(r)
      BY <2>2, IdleSteps DEF Latest, Candidates
    <3> QED
      BY <2>2, <3>1, IdleSteps DEF Traces, Working, Ended, Succeeded, EventDue, ReceiptDue,
         AuditDue, RowDue, HasEvent, HasReceipt, HasAudit, HasPolicy, Unreported
  <2> QED  BY <2>1, <2>2 DEF Next, RequestStep
<1> QED
  BY <1>1, <1>2, TypeCorrect, DatabaseSectionExclusive, ChainsLinked, PTL DEF Spec, Bookkeeping

\* A request that succeeded has left every trace it owes, one that failed none.
THEOREM TracesComplete == Spec => []AllOrNothing
<1>1. Bookkeeping => AllOrNothing
  <2> SUFFICES ASSUME Bookkeeping, NEW r \in Reqs
               PROVE  /\ answer[r].status \in {200, 201} /\ call[r].kind \in DbKinds =>
                            /\ HasAudit(r)
                            /\ call[r].kind = "check" => HasEvent(r) /\ HasReceipt(r)
                            /\ call[r].kind = "create" => r \in DOMAIN rows
                      /\ answer[r].status >= 400 =>
                            /\ ~HasEvent(r) /\ ~HasReceipt(r) /\ ~HasAudit(r)
                            /\ HasPolicy(r) => r \in Unreported
    BY DEF AllOrNothing
  <2>0. answer[r] \in Answer
    BY DEF Bookkeeping, TypeOK
  <2>7. Traces(r)
    BY DEF Bookkeeping
  <2>1. Traces(r) /\ answer[r].status \in Nat
    BY <2>0, <2>7 DEF Answer, Statuses
  <2>2. answer[r].status # 0 => Ended(r)
    BY <2>1 DEF Traces
  <2>3. answer[r].status >= 400 => answer[r].status # 0 /\ answer[r].status \notin {200, 201}
    BY <2>1
  <2>4. answer[r].status >= 400 => Ended(r) /\ ~Succeeded(r)
    BY <2>2, <2>3 DEF Succeeded
  <2>5. Ended(r) => pc[r] \notin {"append", "audit"}
    BY DEF Ended
  <2>6. answer[r].status \in {200, 201} => Succeeded(r)
    BY <2>2 DEF Succeeded
  <2> QED
    BY <2>1, <2>4, <2>5, <2>6 DEF Traces, EventDue, ReceiptDue, AuditDue, RowDue, Unreported
<1> QED  BY <1>1, BookkeepingKept, PTL

\* Every policy in the table is in the audit trail, or its request failed
\* after its commit and said so.
LEMMA PoliciesAccounted == Spec => []PoliciesReported
<1>1. Bookkeeping => PoliciesReported
  <2> SUFFICES ASSUME Bookkeeping, NEW g \in DOMAIN rows, pc[rows[g].compiled] # "audit"
               PROVE  HasAudit(rows[g].compiled) \/ rows[g].compiled \in Unreported
    BY DEF PoliciesReported
  <2> DEFINE r == rows[g].compiled
  <2>1. r \in Reqs
    BY DEF Bookkeeping, TypeOK, Row
  <2>2. Traces(r) /\ HasPolicy(r)
    BY <2>1 DEF Bookkeeping, HasPolicy
  <2> QED  BY <2>2 DEF Traces, AuditDue, DbKinds
<1> QED  BY <1>1, BookkeepingKept, PTL

\* No step removes a guardrail or changes what it was derived from.
THEOREM ProvenanceStable == Spec => ProvenanceKept
<1>1. Bookkeeping /\ [Next]_vars =>
        [\A g \in DOMAIN rows :
            /\ g \in DOMAIN rows'
            /\ [rows'[g] EXCEPT !.compiled = None] = [rows[g] EXCEPT !.compiled = None]
        ]_vars
  <2> SUFFICES ASSUME Bookkeeping, [Next]_vars, NEW g \in DOMAIN rows
               PROVE  /\ g \in DOMAIN rows'
                      /\ [rows'[g] EXCEPT !.compiled = None] =
                             [rows[g] EXCEPT !.compiled = None]
    OBVIOUS
  <2>1. CASE \E r \in Reqs : RequestStep(r)
    BY <2>1, RowsStable DEF Bookkeeping
  <2>2. CASE Tick \/ UNCHANGED vars
    BY <2>2, IdleSteps
  <2> QED  BY <2>1, <2>2 DEF Next, RequestStep
<1> QED  BY <1>1, BookkeepingKept, PTL DEF Spec, ProvenanceKept

-----------------------------------------------------------------------------
\* The event table.

\* An event is of one organization, and its guardrail is still there.
Lawful(e, table) ==
    /\ e.receipt = e.id /\ e.org = Owner[e.sys]
    /\ e.guardrail \in DOMAIN table
    /\ table[e.guardrail].org = e.org /\ table[e.guardrail].sys = e.sys

EventsLawful ==
    /\ \A i \in 1..Len(events) : Lawful(events[i], rows)
    /\ \A i, j \in 1..Len(events) : i # j => events[i].id # events[j].id
    /\ \A r \in Reqs : pc[r] = "append" =>
          Len(events) \in Nat \ {0} /\ events[Len(events)] = EventRow(r)

\* Only the commit of an event brings a request to the append.
LEMMA AppendNext ==
    ASSUME TypeOK, ChainIntegrity, NEW r \in Reqs, RequestStep(r), pc'[r] = "append"
    PROVE  CommitEvent(r)
BY StepKinds, ArriveEffect, FailingEffect, MovingEffect, RecompileEffect,
   CommitGuardrailEffect, SelectEffect, EvaluateEffect, AppendReceiptEffect,
   WriteAuditEffect, ReadNextEffect, ReadAnswerEffect

\* An event stays lawful, since rows keep their organization and system.
LEMMA LawfulStable ==
    ASSUME Bookkeeping, NEW r \in Reqs, RequestStep(r), NEW e, Lawful(e, rows)
    PROVE  Lawful(e, rows')
BY RowsStable DEF Bookkeeping, Lawful

LEMMA EventsLawfulStep ==
    ASSUME Bookkeeping, EventsLawful, NEW r \in Reqs, RequestStep(r)
    PROVE  EventsLawful'
<1> USE DEF Bookkeeping
<1>0. \A q \in Reqs \ {r} : /\ pc'[q] = pc[q] /\ EventRow(q)' = EventRow(q)
  BY OthersKept DEF EventRow
<1>1. CASE CommitEvent(r)
  <2> DEFINE n == Len(events)
             e == EventRow(r)
  <2>1. /\ n \in Nat /\ Len(events') = n + 1
        /\ \A i \in 1..n : events'[i] = events[i]
        /\ events'[n + 1] = e
        /\ pc[r] = "commit" /\ UNCHANGED <<call, local, rows>>
    BY <1>1, CommitEventEffect
  <2>2. Lawful(e, rows)
    <3>1. Owner[call[r].target] = call[r].org /\ local[r].guardrail \in Latest(r)
      BY <2>1 DEF Working, Chaining
    <3> QED  BY <3>1 DEF EventRow, Lawful, Latest, Candidates
  <2>3. e.id = r /\ \A i \in 1..n : events[i].id # r
    BY <2>1 DEF EventRow, Traces, EventDue, Ended, Succeeded, HasEvent
  <2>4. \A i \in 1..n : Lawful(events[i], rows)
    BY DEF EventsLawful
  <2>5. Lawful(e, rows') /\ \A i \in 1..n : Lawful(events[i], rows')
    BY <2>1, <2>2, <2>4 DEF Lawful, EventRow
  <2>6. \A i, j \in 1..n : i # j => events[i].id # events[j].id
    BY DEF EventsLawful
  <2>7. \A q \in Reqs : pc'[q] = "append" => q = r
    <3>1. \A q \in Reqs \ {r} : pc[q] # "append"
      BY <2>1 DEF MutualExclusion, InDb
    <3> QED  BY <1>0, <3>1
  <2>8. EventRow(r)' = e
    BY <2>1 DEF EventRow
  <2>9. \A i \in 1..(n + 1) : i \in 1..n \/ i = n + 1
    BY <2>1
  <2> HIDE DEF n, e
  <2>10. \A i \in 1..Len(events') : Lawful(events'[i], rows')
    BY <2>1, <2>5, <2>9
  <2>11. \A i, j \in 1..Len(events') : i # j => events'[i].id # events'[j].id
    BY <2>1, <2>3, <2>6, <2>9
  <2>12. Len(events') \in Nat \ {0} /\ events'[Len(events')] = e
    BY <2>1
  <2> QED  BY <2>7, <2>8, <2>10, <2>11, <2>12 DEF EventsLawful
<1>2. CASE ~CommitEvent(r)
  <2>1. events' = events
    BY <1>2, StoresKept
  <2>2. \A i \in 1..Len(events) : Lawful(events[i], rows')
    BY LawfulStable DEF EventsLawful
  <2>3. pc'[r] # "append"
    BY <1>2, AppendNext
  <2> QED  BY <1>0, <2>1, <2>2, <2>3 DEF EventsLawful, Lawful
<1> QED  BY <1>1, <1>2

LEMMA EventsLawfulKept == Spec => []EventsLawful
<1>1. Init => EventsLawful
  BY DEF Init, EventsLawful
<1>2. Bookkeeping /\ EventsLawful /\ [Next]_vars => EventsLawful'
  <2> SUFFICES ASSUME Bookkeeping, EventsLawful, [Next]_vars PROVE EventsLawful'
    OBVIOUS
  <2>1. CASE Tick \/ UNCHANGED vars
    BY <2>1, IdleSteps DEF EventsLawful, Lawful, EventRow
  <2> QED  BY <2>1, EventsLawfulStep DEF Next, RequestStep
<1> QED  BY <1>1, <1>2, BookkeepingKept, PTL DEF Spec

\* No later check of a system is decided by an older guardrail, however the
\* clock is set.
LEMMA NeverRegressesStep ==
    ASSUME Bookkeeping, EventsLawful, NeverRegresses, NEW r \in Reqs, RequestStep(r)
    PROVE  NeverRegresses'
<1> USE DEF Bookkeeping
<1> DEFINE n == Len(events)
           Age(e, table) == table[e.guardrail].created
<1>1. \A i \in 1..n : Age(events[i], rows') = Age(events[i], rows)
  BY RowsStable DEF EventsLawful, Lawful
<1>2. CASE CommitEvent(r)
  <2> DEFINE e == EventRow(r)
             g == local[r].guardrail
  <2>1. /\ n \in Nat /\ Len(events') = n + 1
        /\ \A i \in 1..n : events'[i] = events[i]
        /\ events'[n + 1] = e
        /\ pc[r] = "commit" /\ rows' = rows
    BY <1>2, CommitEventEffect
  <2>2. Owner[call[r].target] = call[r].org /\ g \in Latest(r)
    BY <2>1 DEF Working, Chaining
  <2>3. \A i \in 1..n : events[i].sys = call[r].target => Age(events[i], rows) <= rows[g].created
    <3> SUFFICES ASSUME NEW i \in 1..n, events[i].sys = call[r].target
                 PROVE  rows[events[i].guardrail].created <= rows[g].created
      OBVIOUS
    <3>1. events[i].guardrail \in Candidates(r)
      BY <2>2 DEF EventsLawful, Lawful, Candidates
    <3> QED  BY <2>2, <3>1 DEF Latest
  <2>4. e.guardrail = g /\ e.sys = call[r].target
    BY DEF EventRow
  <2>5. \A i, j \in 1..n : i < j /\ events[i].sys = events[j].sys =>
            Age(events[i], rows) <= Age(events[j], rows)
    BY DEF NeverRegresses
  <2>6. SUFFICES ASSUME NEW i \in 1..(n + 1), NEW j \in 1..(n + 1), i < j,
                        events'[i].sys = events'[j].sys
                 PROVE  rows'[events'[i].guardrail].created <=
                            rows'[events'[j].guardrail].created
    BY <2>1 DEF NeverRegresses
  <2>7. i \in 1..n /\ (j \in 1..n \/ j = n + 1)
    BY <2>1, <2>6
  <2> HIDE DEF n, g, e
  <2>8. CASE j \in 1..n
    BY <2>1, <2>5, <2>6, <2>7, <2>8
  <2>9. CASE j = n + 1
    BY <2>1, <2>3, <2>4, <2>6, <2>7, <2>9
  <2> QED  BY <2>7, <2>8, <2>9
<1>3. CASE ~CommitEvent(r)
  <2>1. events' = events
    BY <1>3, StoresKept
  <2> QED  BY <1>1, <2>1 DEF NeverRegresses
<1> QED  BY <1>2, <1>3

THEOREM GuardrailsNeverRegress == Spec => []NeverRegresses
<1>1. Init => NeverRegresses
  BY DEF Init, NeverRegresses
<1>2. Bookkeeping /\ EventsLawful /\ NeverRegresses /\ [Next]_vars => NeverRegresses'
  <2> SUFFICES ASSUME Bookkeeping, EventsLawful, NeverRegresses, [Next]_vars
               PROVE  NeverRegresses'
    OBVIOUS
  <2>1. CASE Tick \/ UNCHANGED vars
    BY <2>1, IdleSteps DEF NeverRegresses
  <2> QED  BY <2>1, NeverRegressesStep DEF Next, RequestStep
<1> QED  BY <1>1, <1>2, BookkeepingKept, EventsLawfulKept, PTL DEF Spec

-----------------------------------------------------------------------------
\* The chains as readers see them.

\* Chains are append-only.
LEMMA ChainsGrow ==
    ASSUME TypeOK, NEW r \in Reqs, RequestStep(r), NEW s \in Systems
    PROVE  /\ Len(receipts[s]) \in Nat /\ Len(receipts'[s]) \in Nat
           /\ Len(receipts[s]) <= Len(receipts'[s])
           /\ \A k \in 1..Len(receipts[s]) : receipts'[s][k] = receipts[s][k]
<1>1. Len(receipts[s]) \in Nat
  BY LenProperties DEF TypeOK
<1>2. CASE AppendReceipt(r)
  <2>1. CASE s = call[r].target
    BY <1>1, <1>2, <2>1, AppendReceiptEffect
  <2>2. CASE s # call[r].target
    BY <1>1, <1>2, <2>2, AppendReceiptEffect
  <2> QED  BY <2>1, <2>2
<1>3. CASE ~AppendReceipt(r)
  BY <1>1, <1>3, StoresKept
<1> QED  BY <1>2, <1>3

\* What was asked does not change once the request is in.
LEMMA CallKept ==
    ASSUME TypeOK, ChainIntegrity, NEW r \in Reqs, RequestStep(r),
           NEW q \in Reqs, pc[q] # "idle"
    PROVE  call'[q] = call[q]
<1>1. CASE q # r
  BY <1>1, OthersKept
<1>2. CASE q = r
  <2>1. ~Arrive(r)
    BY <1>2, ArriveEffect
  <2> QED
    BY <1>2, <2>1, StepKinds, FailingEffect, MovingEffect, RecompileEffect,
       CommitGuardrailEffect, SelectEffect, EvaluateEffect, CommitEventEffect,
       AppendReceiptEffect, WriteAuditEffect, ReadNextEffect, ReadAnswerEffect
<1> QED  BY <1>1, <1>2

\* The receipts of a system are of checks of that system by its owner.
ReceiptsOwned ==
    \A s \in Systems : \A k \in 1..Len(receipts[s]) :
        LET q == receipts[s][k].id IN
        /\ q \in Reqs /\ call[q] \in Calls
        /\ call[q].target = s /\ call[q].org = Owner[s]

LEMMA ReceiptsOwnedStep ==
    ASSUME Bookkeeping, ReceiptsOwned, NEW r \in Reqs, RequestStep(r)
    PROVE  ReceiptsOwned'
<1> USE DEF Bookkeeping
<1>1. ASSUME NEW s \in Systems, NEW k \in 1..Len(receipts[s])
      PROVE  LET q == receipts[s][k].id IN
             /\ q \in Reqs /\ call'[q] \in Calls
             /\ call'[q].target = s /\ call'[q].org = Owner[s]
  <2> DEFINE q == receipts[s][k].id
  <2>1. /\ q \in Reqs /\ call[q] \in Calls
        /\ call[q].target = s /\ call[q].org = Owner[s]
    BY DEF ReceiptsOwned
  <2>2. HasReceipt(q)
    BY DEF HasReceipt
  <2>3. pc[q] # "idle"
    BY <2>1, <2>2 DEF Traces, ReceiptDue, Succeeded, Ended
  <2>4. call'[q] = call[q]
    BY <2>1, <2>3, CallKept
  <2> QED  BY <2>1, <2>4
<1>2. CASE AppendReceipt(r)
  <2> DEFINE t == call[r].target
             n == Len(receipts[t])
  <2>1. /\ call[r] \in Calls /\ t \in Systems /\ n \in Nat /\ Len(receipts'[t]) = n + 1
        /\ \A k \in 1..n : receipts'[t][k] = receipts[t][k]
        /\ receipts'[t][n + 1] = Signed(r)
        /\ \A s \in Systems \ {t} : receipts'[s] = receipts[s]
        /\ call' = call /\ pc[r] = "append"
    BY <1>2, AppendReceiptEffect
  <2>2. Owner[t] = call[r].org
    BY <2>1 DEF Working, Chaining
  <2>3. Signed(r).id = r
    BY DEF Signed
  <2>4. \A k \in 1..(n + 1) : k \in 1..n \/ k = n + 1
    BY <2>1
  <2>5. ASSUME NEW s \in Systems, NEW k \in 1..Len(receipts'[s])
        PROVE  LET q == receipts'[s][k].id IN
               /\ q \in Reqs /\ call'[q] \in Calls
               /\ call'[q].target = s /\ call'[q].org = Owner[s]
    <3>1. CASE s = t /\ k \in 1..n
      <4>1. receipts'[s][k] = receipts[s][k] /\ k \in 1..Len(receipts[s])
        BY <2>1, <3>1
      <4> QED  BY <1>1, <4>1
    <3>2. CASE s = t /\ k = n + 1
      BY <2>1, <2>2, <2>3, <3>2
    <3>3. CASE s # t
      BY <1>1, <2>1, <3>3
    <3>4. s = t => k \in 1..n \/ k = n + 1
      BY <2>1, <2>4
    <3> QED  BY <3>1, <3>2, <3>3, <3>4
  <2> QED  BY <2>5 DEF ReceiptsOwned
<1>3. CASE ~AppendReceipt(r)
  BY <1>1, <1>3, StoresKept DEF ReceiptsOwned
<1> QED  BY <1>2, <1>3

\* What a reader has seen is the beginning of a chain of its organization, and
\* the checks it must see are in the chain.
Reading(r) ==
    LET list == receipts[call[r].target]
        seen == answer[r].seen
    IN
    /\ answer[r].passed
    /\ pc[r] = "idle" => seen = <<>> /\ local[r].acked = {}
    /\ seen # <<>> => /\ call[r] \in Calls /\ call[r].kind \in ReadKinds
                      /\ Owner[call[r].target] = call[r].org
    /\ pc[r] # "idle" /\ call[r] \in Calls /\ call[r].kind \in ReadKinds =>
          /\ Len(seen) <= Len(list)
          /\ \A i \in 1..Len(seen) : seen[i] = list[i]
          /\ \A q \in local[r].acked : \E k \in 1..Len(list) : list[k].id = q
          /\ pc[r] = "count" \/ answer[r].status = 200 =>
                \A q \in local[r].acked : \E i \in 1..Len(seen) : seen[i].id = q
          /\ answer[r].status = 200 =>
                Len(seen) <= answer[r].count /\ answer[r].count <= Len(list)

\* A step that leaves a reader where it is may only lengthen its chain.
LEMMA ReadingKept ==
    ASSUME TypeOK, NEW r \in Reqs, RequestStep(r), NEW q \in Reqs, Reading(q),
           call'[q] = call[q], local'[q].acked = local[q].acked,
           answer'[q].seen = answer[q].seen, answer'[q].passed = answer[q].passed,
           answer'[q].count = answer[q].count,
           answer'[q].status = 200 => answer[q].status = 200 /\ pc[q] # "idle",
           pc'[q] = "idle" => pc[q] = "idle", pc'[q] = "count" => pc[q] = "count"
    PROVE  Reading(q)'
<1> DEFINE t == call[q].target
           list == receipts[t]
           seen == answer[q].seen
           acked == local[q].acked
<1>1. /\ answer'[q].passed
      /\ pc'[q] = "idle" => seen = <<>> /\ acked = {}
      /\ seen # <<>> => /\ call[q] \in Calls /\ call[q].kind \in ReadKinds
                        /\ Owner[t] = call[q].org
  BY DEF Reading
<1>2. ASSUME call[q] \in Calls, call[q].kind \in ReadKinds
      PROVE  /\ Len(seen) <= Len(receipts'[t])
             /\ \A i \in 1..Len(seen) : seen[i] = receipts'[t][i]
             /\ \A p \in acked : \E k \in 1..Len(receipts'[t]) : receipts'[t][k].id = p
             /\ pc'[q] = "count" \/ answer'[q].status = 200 =>
                   \A p \in acked : \E i \in 1..Len(seen) : seen[i].id = p
             /\ answer'[q].status = 200 =>
                   Len(seen) <= answer[q].count /\ answer[q].count <= Len(receipts'[t])
  <2>1. t \in Systems
    BY <1>2, CallFields DEF ReadKinds
  <2>2. /\ Len(list) \in Nat /\ Len(receipts'[t]) \in Nat /\ Len(list) <= Len(receipts'[t])
        /\ \A k \in 1..Len(list) : receipts'[t][k] = list[k]
    BY <2>1, ChainsGrow
  <2>3. seen \in Seq(Receipt) /\ Len(seen) \in Nat /\ answer[q].count \in Nat
    BY LenProperties DEF TypeOK, Answer
  <2>4. CASE pc[q] = "idle"
    <3>1. seen = <<>> /\ acked = {}
      BY <2>4 DEF Reading
    <3>2. Len(seen) = 0
      BY <3>1
    <3> HIDE DEF seen, acked
    <3> QED  BY <2>2, <2>4, <3>1, <3>2
  <2>5. CASE pc[q] # "idle"
    <3>1. /\ Len(seen) <= Len(list)
          /\ \A i \in 1..Len(seen) : seen[i] = list[i]
          /\ \A p \in acked : \E k \in 1..Len(list) : list[k].id = p
          /\ pc[q] = "count" \/ answer[q].status = 200 =>
                \A p \in acked : \E i \in 1..Len(seen) : seen[i].id = p
          /\ answer[q].status = 200 =>
                Len(seen) <= answer[q].count /\ answer[q].count <= Len(list)
      BY <1>2, <2>5 DEF Reading
    <3>2. 1..Len(seen) \subseteq 1..Len(list) /\ 1..Len(list) \subseteq 1..Len(receipts'[t])
      BY <2>2, <2>3, <3>1
    <3> HIDE DEF seen, acked, list
    <3>3. \A p \in acked : \E k \in 1..Len(receipts'[t]) : receipts'[t][k].id = p
      BY <2>2, <3>1, <3>2
    <3>4. \A i \in 1..Len(seen) : seen[i] = receipts'[t][i]
      BY <2>2, <3>1, <3>2
    <3> QED  BY <2>2, <2>3, <3>1, <3>3, <3>4
  <2> QED  BY <2>4, <2>5
<1> QED  BY <1>1, <1>2 DEF Reading

\* A reader that arrives finds the receipts of all the checks answered by then.
LEMMA AckedChained ==
    ASSUME Bookkeeping, ReceiptsOwned, NEW t \in Systems, NEW q \in Acked(t)
    PROVE  \E k \in 1..Len(receipts[t]) : receipts[t][k].id = q
<1>1. /\ q \in Reqs /\ pc[q] \in {"release", "done"} /\ answer[q].status = 200
      /\ call[q].kind = "check" /\ call[q].target = t
  BY DEF Acked
<1>2. HasReceipt(q)
  BY <1>1 DEF Bookkeeping, Traces, ReceiptDue, Succeeded, Ended
<1>3. PICK s \in Systems : \E k \in 1..Len(receipts[s]) : receipts[s][k].id = q
  BY <1>2 DEF HasReceipt
<1>4. s = t
  BY <1>1, <1>3 DEF ReceiptsOwned
<1> QED  BY <1>3, <1>4

LEMMA ReadingStep ==
    ASSUME Bookkeeping, ReceiptsOwned, \A q \in Reqs : Reading(q),
           NEW r \in Reqs, RequestStep(r)
    PROVE  \A q \in Reqs : Reading(q)'
<1> USE DEF Bookkeeping
<1>0. \A q \in Reqs : pc[q] = "idle" => answer[q].status # 200
  BY DEF Traces, Ended
<1>1. ASSUME NEW q \in Reqs \ {r} PROVE Reading(q)'
  <2>1. /\ pc'[q] = pc[q] /\ call'[q] = call[q]
        /\ local'[q] = local[q] /\ answer'[q] = answer[q]
    BY OthersKept
  <2> QED  BY <1>0, <2>1, ReadingKept
<1>2. Reading(r)'
  <2> DEFINE t == call[r].target
             list == receipts[t]
             seen == answer[r].seen
             n == Len(seen)
  <2>0. Reading(r)
    OBVIOUS
  <2>1. CASE Arrive(r)
    <3>1. /\ pc[r] = "idle" /\ call'[r] \in Calls /\ UNCHANGED <<answer, stores>>
          /\ \/ pc'[r] = "lock" /\ call'[r].kind \in DbKinds
             \/ /\ pc'[r] = "read" /\ call'[r].kind \in ReadKinds
                /\ local'[r].acked = Acked(call'[r].target)
      BY <2>1, ArriveEffect
    <3>2. answer[r].passed /\ seen = <<>> /\ answer[r].status # 200
      BY <1>0, <3>1 DEF Reading
    <3>3. CASE call'[r].kind \in DbKinds
      <4>1. call'[r].kind \notin ReadKinds
        BY <3>3 DEF DbKinds, ReadKinds
      <4> QED  BY <3>1, <3>2, <4>1 DEF Reading
    <3>4. CASE call'[r].kind \in ReadKinds
      <4>1. pc'[r] = "read" /\ local'[r].acked = Acked(call'[r].target)
        BY <3>1, <3>4 DEF DbKinds, ReadKinds
      <4>2. call'[r].target \in Systems
        BY <3>1, <3>4, CallFields DEF ReadKinds
      <4>3. \A p \in local'[r].acked :
                \E k \in 1..Len(receipts[call'[r].target]) :
                    receipts[call'[r].target][k].id = p
        BY <4>1, <4>2, AckedChained
      <4>4. Len(seen) = 0
        BY <3>2
      <4>5. Len(receipts[call'[r].target]) \in Nat /\ receipts' = receipts
        BY <3>1, <4>2, LenProperties DEF TypeOK, stores
      <4> QED  BY <3>1, <3>2, <4>1, <4>3, <4>4, <4>5 DEF Reading
    <3> QED  BY <3>1, <3>3, <3>4
  <2>2. CASE Failing(r)
    <3>1. /\ UNCHANGED <<call, local>> /\ answer'[r].seen = seen
          /\ answer'[r].passed = answer[r].passed /\ answer'[r].count = answer[r].count
          /\ answer'[r].status >= 400 /\ pc'[r] \in {"release", "done"}
      BY <2>2, FailingEffect
    <3>2. answer'[r].status # 200
      BY <3>1
    <3> QED  BY <2>0, <3>1, <3>2, ReadingKept
  <2>3. CASE Moving(r)
    <3>1. /\ UNCHANGED <<call, local, answer, stores>> /\ pc[r] # "idle" /\ pc'[r] # "idle"
          /\ pc'[r] = "count" => ReadEnds(r)
      BY <2>3, MovingEffect
    <3>2. CASE pc'[r] # "count"
      BY <1>0, <2>0, <3>1, <3>2, ReadingKept
    <3>3. CASE pc'[r] = "count"
      <4>1. /\ pc[r] = "read" /\ Len(seen) >= Len(list)
            /\ call[r] \in Calls /\ call[r].kind \in ReadKinds
        BY <3>1, <3>3 DEF ReadEnds, TypeOK, Established
      <4>2. t \in Systems
        BY <4>1, CallFields DEF ReadKinds
      <4>3. Len(list) \in Nat /\ n \in Nat
        BY <4>2, LenProperties DEF TypeOK, Answer
      <4>4. /\ n <= Len(list) /\ \A i \in 1..n : seen[i] = list[i]
            /\ \A q \in local[r].acked : \E k \in 1..Len(list) : list[k].id = q
        BY <2>0, <4>1 DEF Reading
      <4>5. n = Len(list)
        BY <4>1, <4>3, <4>4
      <4>6. \A q \in local[r].acked : \E i \in 1..n : seen[i].id = q
        BY <4>4, <4>5
      <4> QED  BY <2>0, <3>1, <4>1, <4>6 DEF Reading, stores
    <3> QED  BY <3>2, <3>3
  <2>4. CASE \/ RecompileAccepted(r) \/ Select(r) \/ Evaluate(r) \/ CommitGuardrail(r)
             \/ CommitEvent(r) \/ AppendReceipt(r) \/ WriteAudit(r)
    <3>1. /\ call' = call /\ pc[r] # "idle" /\ pc'[r] # "idle"
          /\ answer'[r].seen = seen /\ answer'[r].passed = answer[r].passed
          /\ call[r].kind \in DbKinds
      <4>1. CASE RecompileAccepted(r)
        BY <4>1, RecompileEffect DEF DbKinds
      <4>2. CASE Select(r)
        BY <4>2, SelectEffect DEF DbKinds
      <4>3. CASE Evaluate(r)
        BY <4>3, EvaluateEffect DEF DbKinds, TypeOK, Established
      <4>4. CASE CommitGuardrail(r) \/ CommitEvent(r) \/ AppendReceipt(r)
        BY <4>4, CommitGuardrailEffect, CommitEventEffect, AppendReceiptEffect DEF DbKinds
      <4>5. CASE WriteAudit(r)
        BY <4>5, WriteAuditEffect
      <4> QED  BY <2>4, <4>1, <4>2, <4>3, <4>4, <4>5
    <3>2. call[r].kind \notin ReadKinds
      BY <3>1 DEF DbKinds, ReadKinds
    <3> QED  BY <2>0, <3>1, <3>2 DEF Reading
  <2>5. CASE ReadNext(r)
    <3>1. /\ pc[r] = "read" /\ pc'[r] = "read" /\ call[r] \in Calls
          /\ call[r].kind \in ReadKinds /\ Owner[t] = call[r].org
          /\ n \in Nat /\ n + 1 <= Len(list) /\ Len(list) \in Nat
          /\ answer'[r].passed = answer[r].passed
          /\ answer'[r].status = answer[r].status
          /\ Len(answer'[r].seen) = n + 1
          /\ \A i \in 1..n : answer'[r].seen[i] = seen[i]
          /\ answer'[r].seen[n + 1] = list[n + 1]
          /\ UNCHANGED <<call, local, stores>>
      BY <2>5, ReadNextEffect
    <3>2. answer[r].status # 200
      BY <3>1 DEF Traces, Ended
    <3>3. /\ answer[r].passed /\ \A i \in 1..n : seen[i] = list[i]
          /\ \A q \in local[r].acked : \E k \in 1..Len(list) : list[k].id = q
      BY <2>0, <3>1 DEF Reading
    <3>4. \A i \in 1..(n + 1) : i \in 1..n \/ i = n + 1
      BY <3>1
    <3>5. receipts' = receipts
      BY <3>1 DEF stores
    <3> HIDE DEF n
    <3>6. \A i \in 1..Len(answer'[r].seen) : answer'[r].seen[i] = list[i]
      BY <3>1, <3>3, <3>4
    <3> QED  BY <3>1, <3>2, <3>3, <3>5, <3>6 DEF Reading
  <2>6. CASE ReadAnswer(r)
    <3>1. /\ pc[r] = "count" /\ pc'[r] = "done" /\ call[r] \in Calls
          /\ call[r].kind \in ReadKinds /\ t \in Systems
          /\ answer'[r].count = IF seen = <<>> THEN 0 ELSE Len(list)
          /\ answer'[r].passed = answer[r].passed /\ answer'[r].seen = seen
          /\ UNCHANGED <<call, local, stores>>
      BY <2>6, ReadAnswerEffect
    <3>2. /\ n <= Len(list) /\ \A i \in 1..n : seen[i] = list[i]
          /\ \A q \in local[r].acked : \E k \in 1..Len(list) : list[k].id = q
          /\ \A q \in local[r].acked : \E i \in 1..n : seen[i].id = q
          /\ seen # <<>> => Owner[t] = call[r].org
      BY <2>0, <3>1 DEF Reading
    <3>3. Len(list) \in Nat
      BY <3>1, LenProperties DEF TypeOK
    <3>4. receipts' = receipts
      BY <3>1 DEF stores
    <3>5. seen = <<>> => n = 0
      OBVIOUS
    <3>6. n <= answer'[r].count /\ answer'[r].count <= Len(list)
      BY <3>1, <3>2, <3>3, <3>5
    <3> QED  BY <2>0, <3>1, <3>2, <3>4, <3>6 DEF Reading
  <2> QED  BY <2>1, <2>2, <2>3, <2>4, <2>5, <2>6, StepKinds
<1> QED  BY <1>1, <1>2

LEMMA ReadersKept == Spec => [](ReceiptsOwned /\ \A r \in Reqs : Reading(r))
<1> DEFINE Inv == ReceiptsOwned /\ \A r \in Reqs : Reading(r)
<1>1. Init => Inv
  BY DEF Init, ReceiptsOwned, Reading
<1>2. Bookkeeping /\ Inv /\ [Next]_vars => Inv'
  <2> SUFFICES ASSUME Bookkeeping, Inv, [Next]_vars PROVE Inv'
    OBVIOUS
  <2>1. CASE Tick \/ UNCHANGED vars
    <3>1. UNCHANGED <<pc, call, local, answer, receipts>>
      BY <2>1 DEF Tick, vars, stores
    <3> QED  BY <3>1 DEF ReceiptsOwned, Reading
  <2>2. CASE \E r \in Reqs : RequestStep(r)
    BY <2>2, ReceiptsOwnedStep, ReadingStep
  <2> QED  BY <2>1, <2>2 DEF Next, RequestStep
<1> QED  BY <1>1, <1>2, BookkeepingKept, PTL DEF Spec

\* A reader sees a prefix of the chain with every check answered before it
\* arrived, its verification passes, and its count lies between the two.
THEOREM ReadersAgree == Spec => []ReadersSeePrefix
<1>1. TypeOK /\ (\A r \in Reqs : Reading(r)) => ReadersSeePrefix
  <2> SUFFICES ASSUME TypeOK, \A q \in Reqs : Reading(q), NEW r \in Reqs,
                      pc[r] # "idle", call[r] # None, call[r].kind \in ReadKinds
               PROVE  LET list == receipts[call[r].target]
                          seen == answer[r].seen
                      IN
                      /\ Len(seen) <= Len(list)
                      /\ seen = SubSeq(list, 1, Len(seen))
                      /\ answer[r].passed
                      /\ answer[r].status = 200 =>
                            /\ \A q \in local[r].acked :
                                  \E i \in 1..Len(seen) : seen[i].id = q
                            /\ Len(seen) <= answer[r].count
                            /\ answer[r].count <= Len(list)
    BY DEF ReadersSeePrefix
  <2> DEFINE list == receipts[call[r].target]
             seen == answer[r].seen
             n == Len(seen)
  <2>1. call[r] \in Calls
    BY DEF TypeOK
  <2>2. /\ answer[r].passed /\ n <= Len(list)
        /\ \A i \in 1..n : seen[i] = list[i]
        /\ answer[r].status = 200 =>
              /\ \A q \in local[r].acked : \E i \in 1..n : seen[i].id = q
              /\ n <= answer[r].count /\ answer[r].count <= Len(list)
    BY <2>1 DEF Reading
  <2>3. call[r].target \in Systems
    BY <2>1, CallFields DEF ReadKinds
  <2>4. list \in Seq(Receipt) /\ seen \in Seq(Receipt)
    BY <2>3 DEF TypeOK, Answer
  <2>5. Len(list) \in Nat /\ n \in Nat
    BY <2>4, LenProperties
  <2> HIDE DEF list
  <2>6. 1 \in 1..(Len(list) + 1) /\ n \in 0..Len(list)
    BY <2>2, <2>5
  <2>7. /\ SubSeq(list, 1, n) \in Seq(Receipt) /\ Len(SubSeq(list, 1, n)) = n
        /\ \A i \in 1..n : SubSeq(list, 1, n)[i] = list[i]
    <3> HIDE DEF n
    <3>1. SubSeq(list, 1, n) = [i \in 1..n |-> list[i]]
      BY <2>4, <2>5, <2>6
    <3>2. \A i \in 1..n : list[i] \in Receipt
      BY <2>4, <2>5, <2>6, ElementOfSeq
    <3> QED  BY <2>5, <3>1, <3>2
  <2>8. seen = SubSeq(list, 1, n)
    BY <2>2, <2>4, <2>7, SeqEqual
  <2> QED  BY <2>2, <2>8 DEF list
<1> QED  BY <1>1, TypeCorrect, ReadersKept, PTL

\* The policies in the table and the entries of the trail were asked for by
\* requests of the organization that they belong to, and these are known.
Asked(q) == q \in Reqs /\ pc[q] # "idle"

PoliciesOwned ==
    \A g \in DOMAIN rows :
        /\ Asked(rows[g].compiled) /\ rows[g].org = call[rows[g].compiled].org
        /\ rows[g].org = Owner[rows[g].sys]

\* Entry a belongs where it is filed.
Filed(a) ==
    IF a.action = "checked"
    THEN Asked(a.entity) /\ a.org = call[a.entity].org
    ELSE /\ a.entity \in DOMAIN rows /\ a.org = rows[a.entity].org
         /\ Asked(a.after) /\ a.org = call[a.after].org

EntriesOwned == \A i \in 1..Len(audit) : Filed(audit[i])

EventsOwned ==
    \A i \in 1..Len(events) :
        Asked(events[i].id) /\ events[i].org = call[events[i].id].org

LEMMA AskedKept ==
    ASSUME TypeOK, ChainIntegrity, NEW r \in Reqs, RequestStep(r), NEW q, Asked(q)
    PROVE  Asked(q)' /\ call'[q] = call[q]
<1>1. call'[q] = call[q]
  BY CallKept DEF Asked
<1>2. CASE q # r
  BY <1>1, <1>2, OthersKept DEF Asked
<1>3. CASE q = r
  <2>1. ~Arrive(r)
    BY <1>3, ArriveEffect DEF Asked
  <2>2. pc'[r] # "idle"
    BY <2>1, <1>3, StepKinds, FailingEffect, MovingEffect, RecompileEffect,
       CommitGuardrailEffect, SelectEffect, EvaluateEffect, CommitEventEffect,
       AppendReceiptEffect, WriteAuditEffect, ReadNextEffect, ReadAnswerEffect DEF Asked
  <2> QED  BY <1>1, <1>3, <2>2 DEF Asked
<1> QED  BY <1>2, <1>3

LEMMA PoliciesOwnedStep ==
    ASSUME Bookkeeping, PoliciesOwned, NEW r \in Reqs, RequestStep(r)
    PROVE  PoliciesOwned'
<1> USE DEF Bookkeeping
<1>1. CASE ~CommitGuardrail(r)
  BY <1>1, StoresKept, AskedKept DEF PoliciesOwned
<1>2. CASE CommitGuardrail(r)
  <2> DEFINE h == local[r].guardrail
  <2>1. /\ pc[r] = "compile" /\ pc'[r] = "audit" /\ call' = call
        /\ call[r].kind \in {"create", "recompile"}
        /\ rows' = IF call[r].kind = "create" THEN Insert(r) ELSE Update(r)
    BY <1>2, CommitGuardrailEffect
  <2>2. Asked(r)'
    BY <2>1 DEF Asked
  <2>3. CASE call[r].kind = "create"
    <3>1. /\ DOMAIN rows' = DOMAIN rows \cup {r}
          /\ \A g \in DOMAIN rows \ {r} : rows'[g] = rows[g]
          /\ rows'[r].org = call[r].bodyOrg /\ rows'[r].sys = call[r].target
          /\ rows'[r].compiled = r
      BY <2>1, <2>3 DEF Insert
    <3>2. call[r].bodyOrg = call[r].org /\ Owner[call[r].target] = call[r].org
      BY <2>1, <2>3 DEF Working
    <3> QED  BY <2>1, <2>2, <3>1, <3>2, AskedKept DEF PoliciesOwned
  <2>4. CASE call[r].kind = "recompile"
    <3>1. h \in DOMAIN rows /\ rows[h].org = call[r].org
      BY <2>1, <2>4 DEF Working
    <3>2. /\ DOMAIN rows' = DOMAIN rows
          /\ \A g \in DOMAIN rows : /\ rows'[g].org = rows[g].org
                                    /\ rows'[g].sys = rows[g].sys
      BY <2>1, <2>4, RowsStable DEF Update
    <3>3. \A g \in DOMAIN rows \ {h} : rows'[g].compiled = rows[g].compiled
      BY <2>1, <2>4 DEF Update
    <3>4. rows'[h].compiled = r
      <4>1. rows[h] \in Row
        BY <3>1 DEF TypeOK
      <4>2. rows' = [rows EXCEPT ![h] = [rows[h] EXCEPT !.compiled = r, !.ids = call[r].ids]]
        BY <2>1, <2>4 DEF Update
      <4> QED  BY <3>1, <4>1, <4>2 DEF Row
    <3> QED  BY <2>1, <2>2, <3>1, <3>2, <3>3, <3>4, AskedKept DEF PoliciesOwned
  <2> QED  BY <2>1, <2>3, <2>4
<1> QED  BY <1>1, <1>2

LEMMA EntriesOwnedStep ==
    ASSUME Bookkeeping, EntriesOwned, NEW r \in Reqs, RequestStep(r)
    PROVE  EntriesOwned'
<1> USE DEF Bookkeeping
<1>1. ASSUME NEW a, Filed(a) PROVE Filed(a)'
  BY <1>1, AskedKept, RowsStable DEF Filed
<1>2. CASE ~WriteAudit(r)
  <2>1. audit' = audit
    BY <1>2, StoresKept
  <2> QED  BY <1>1, <2>1 DEF EntriesOwned
<1>3. CASE WriteAudit(r)
  <2> DEFINE n == Len(audit)
             a == AuditEntry(r)
  <2>1. /\ pc[r] = "audit" /\ pc'[r] = "release" /\ call[r].kind \in DbKinds
        /\ n \in Nat /\ Len(audit') = n + 1
        /\ \A i \in 1..n : audit'[i] = audit[i]
        /\ audit'[n + 1] = a
        /\ UNCHANGED <<call, local, rows>>
    BY <1>3, WriteAuditEffect
  <2>2. Asked(r)
    BY <2>1 DEF Asked
  <2>3. Filed(a)
    <3>1. CASE call[r].kind = "check"
      BY <2>2, <3>1 DEF AuditEntry, Filed
    <3>2. CASE call[r].kind = "create"
      <4>1. r \in DOMAIN rows /\ rows[r].org = call[r].org /\ call[r].bodyOrg = call[r].org
        BY <2>1, <3>2 DEF Working
      <4> QED  BY <2>2, <3>2, <4>1 DEF AuditEntry, Filed
    <3>3. CASE call[r].kind = "recompile"
      <4>1. /\ local[r].guardrail \in DOMAIN rows
            /\ rows[local[r].guardrail].org = call[r].org
        BY <2>1, <3>3 DEF Working
      <4> QED  BY <2>2, <3>3, <4>1 DEF AuditEntry, Filed
    <3> QED  BY <2>1, <3>1, <3>2, <3>3 DEF DbKinds
  <2> HIDE DEF n, a
  <2>4. \A i \in 1..Len(audit') : i \in 1..n \/ i = n + 1
    BY <2>1
  <2>5. ASSUME NEW i \in 1..Len(audit') PROVE Filed(audit[i])'
    <3>1. PICK b : b = audit'[i] /\ Filed(b)
      BY <2>1, <2>3, <2>4 DEF EntriesOwned, n
    <3>2. Filed(b)'
      BY <2>1, <3>1, AskedKept DEF Filed
    <3> QED  BY <3>1, <3>2 DEF Filed, Asked
  <2> QED  BY <2>5 DEF EntriesOwned
<1> QED  BY <1>2, <1>3

LEMMA EventsOwnedStep ==
    ASSUME Bookkeeping, EventsOwned, NEW r \in Reqs, RequestStep(r)
    PROVE  EventsOwned'
<1> USE DEF Bookkeeping
<1>1. \A q : Asked(q) => Asked(q)' /\ call'[q] = call[q]
  BY AskedKept
<1>2. CASE ~CommitEvent(r)
  BY <1>1, <1>2, StoresKept DEF EventsOwned, Asked
<1>3. CASE CommitEvent(r)
  <2> DEFINE n == Len(events)
  <2>1. /\ pc[r] = "commit" /\ call' = call
        /\ n \in Nat /\ Len(events') = n + 1
        /\ \A i \in 1..n : events'[i] = events[i]
        /\ events'[n + 1] = EventRow(r)
    BY <1>3, CommitEventEffect
  <2>2. Asked(r) /\ EventRow(r).id = r /\ EventRow(r).org = call[r].org
    BY <2>1 DEF Asked, EventRow
  <2>3. \A i \in 1..n : Asked(events[i].id) /\ events[i].org = call[events[i].id].org
    BY DEF EventsOwned
  <2> HIDE DEF n
  <2>4. ASSUME NEW i \in 1..Len(events')
        PROVE  Asked(events'[i].id) /\ events'[i].org = call[events'[i].id].org
    <3>1. i \in 1..n \/ i = n + 1
      BY <2>1
    <3> QED  BY <2>1, <2>2, <2>3, <3>1
  <2> QED  BY <1>1, <2>1, <2>4 DEF EventsOwned, Asked
<1> QED  BY <1>2, <1>3

LEMMA OwnedKept == Spec => [](PoliciesOwned /\ EntriesOwned /\ EventsOwned)
<1> DEFINE Inv == PoliciesOwned /\ EntriesOwned /\ EventsOwned
<1>1. Init => Inv
  BY DEF Init, PoliciesOwned, EntriesOwned, EventsOwned
<1>2. Bookkeeping /\ Inv /\ [Next]_vars => Inv'
  <2> SUFFICES ASSUME Bookkeeping, Inv, [Next]_vars PROVE Inv'
    OBVIOUS
  <2>1. CASE Tick \/ UNCHANGED vars
    BY <2>1, IdleSteps DEF PoliciesOwned, EntriesOwned, EventsOwned, Filed, Asked
  <2>2. CASE \E r \in Reqs : RequestStep(r)
    BY <2>2, PoliciesOwnedStep, EntriesOwnedStep, EventsOwnedStep
  <2> QED  BY <2>1, <2>2 DEF Next, RequestStep
<1> QED  BY <1>1, <1>2, BookkeepingKept, PTL DEF Spec

\* No request of one organization creates, recompiles, decides by, audits or
\* reads what another one owns, for any organizations, systems and requests.
THEOREM OrganizationsIsolated == Spec => []Isolation
<1>1. TypeOK /\ EventsLawful /\ ReceiptsOwned /\ (\A r \in Reqs : Reading(r)) =>
          ReadersOfOwner
  <2> SUFFICES ASSUME TypeOK, ReceiptsOwned, \A r \in Reqs : Reading(r),
                      NEW r \in Reqs, NEW i \in 1..Len(answer[r].seen)
               PROVE  call[answer[r].seen[i].id].org = call[r].org
    BY DEF ReadersOfOwner
  <2> DEFINE t == call[r].target
             seen == answer[r].seen
  <2>1. seen # <<>>
    OBVIOUS
  <2>2. pc[r] # "idle" /\ call[r] \in Calls /\ call[r].kind \in ReadKinds
        /\ Owner[t] = call[r].org
    BY <2>1 DEF Reading
  <2>3. Len(seen) <= Len(receipts[t]) /\ seen[i] = receipts[t][i]
    BY <2>2 DEF Reading
  <2>4. t \in Systems
    BY <2>2, CallFields DEF ReadKinds
  <2>5. Len(receipts[t]) \in Nat /\ Len(seen) \in Nat
    BY <2>4, LenProperties DEF TypeOK, Answer
  <2>6. i \in 1..Len(receipts[t])
    BY <2>3, <2>5
  <2> QED  BY <2>2, <2>3, <2>4, <2>6 DEF ReceiptsOwned
<1>2. PoliciesOwned /\ EntriesOwned => PoliciesOfOwner /\ EntriesOfOwner
  BY DEF PoliciesOwned, EntriesOwned, Filed, PoliciesOfOwner, EntriesOfOwner
<1>3. EventsLawful /\ EventsOwned => EventsOfOwner
  BY DEF EventsLawful, Lawful, EventsOwned, EventsOfOwner
<1> QED
  BY <1>1, <1>2, <1>3, TypeCorrect, EventsLawfulKept, ReadersKept, OwnedKept, PTL
  DEF Isolation

-----------------------------------------------------------------------------
\* Events and receipts side by side.

\* The append is left by appending the receipt.
LEMMA AppendLeft ==
    ASSUME TypeOK, ChainIntegrity, NEW r \in Reqs, RequestStep(r), pc[r] = "append"
    PROVE  AppendReceipt(r)
BY StepKinds, ArriveEffect, FailingEffect, MovingEffect, RecompileEffect,
   CommitGuardrailEffect, SelectEffect, EvaluateEffect, CommitEventEffect,
   WriteAuditEffect, ReadNextEffect, ReadAnswerEffect

\* Event e and receipt x of system s record the same check.
Same(e, s, x) == e.sys = s /\ e.receipt = x.id /\ e.decision = x.decision

\* What is recorded stays as it is.
LEMMA RecordsKept ==
    ASSUME TypeOK, NEW r \in Reqs, RequestStep(r)
    PROVE  /\ \A i \in 1..Len(events) : events'[i] = events[i]
           /\ \A s \in Systems : \A k \in 1..Len(receipts[s]) :
                 k \in 1..Len(receipts'[s]) /\ receipts'[s][k] = receipts[s][k]
<1>1. \A s \in Systems : \A k \in 1..Len(receipts[s]) :
          k \in 1..Len(receipts'[s]) /\ receipts'[s][k] = receipts[s][k]
  BY ChainsGrow
<1>2. \A i \in 1..Len(events) : events'[i] = events[i]
  <2>1. CASE CommitEvent(r)
    BY <2>1, CommitEventEffect
  <2>2. CASE ~CommitEvent(r)
    BY <2>2, StoresKept
  <2> QED  BY <2>1, <2>2
<1> QED  BY <1>1, <1>2

\* TrailsAgree, as a predicate of the tables.
Paired(e, x, at) ==
    /\ \A s \in Systems : \A k \in 1..Len(x[s]) :
          \E i \in 1..Len(e) : Same(e[i], s, x[s][k])
    /\ \A i \in 1..Len(e) :
          \/ \E k \in 1..Len(x[e[i].sys]) : Same(e[i], e[i].sys, x[e[i].sys][k])
          \/ i = Len(e) /\ at[e[i].receipt] = "append"
    /\ \A s \in Systems : \A i, j \in 1..Len(e) : \A k, l \in 1..Len(x[s]) :
          Same(e[i], s, x[s][k]) /\ Same(e[j], s, x[s][l]) => (i < j <=> k < l)
    /\ \A q \in Reqs : at[q] = "append" =>
          /\ e # <<>> /\ e[Len(e)].receipt = q
          /\ ~\E s \in Systems : \E k \in 1..Len(x[s]) : x[s][k].id = q

LEMMA TrailsPaired ==
    /\ TrailsAgree <=> Paired(events, receipts, pc)
    /\ TrailsAgree' <=> Paired(events', receipts', pc')
BY DEF TrailsAgree, Paired, SameCheck, Same, HasReceipt

LEMMA TrailsStep ==
    ASSUME Bookkeeping, EventsLawful, TrailsAgree, NEW r \in Reqs, RequestStep(r)
    PROVE  TrailsAgree'
<1> USE DEF Bookkeeping
<1> DEFINE n == Len(events)
<1>0. \A q \in Reqs \ {r} : pc'[q] = pc[q]
  BY OthersKept
<1>1. /\ n \in Nat /\ \A i \in 1..n : events[i] \in Event
      /\ \A i \in 1..n : events[i].sys \in Systems /\ events[i].receipt \in Reqs
  <2>1. n \in Nat /\ \A i \in 1..n : events[i] \in Event
    BY LenProperties, ElementOfSeq DEF TypeOK
  <2> QED  BY <2>1 DEF Event
<1>2. /\ \A s \in Systems : \A k \in 1..Len(receipts[s]) :
            \E i \in 1..n : Same(events[i], s, receipts[s][k])
      /\ \A i \in 1..n :
            \/ \E k \in 1..Len(receipts[events[i].sys]) :
                  Same(events[i], events[i].sys, receipts[events[i].sys][k])
            \/ i = n /\ pc[events[i].receipt] = "append"
      /\ \A s \in Systems : \A i, j \in 1..n : \A k, l \in 1..Len(receipts[s]) :
            Same(events[i], s, receipts[s][k]) /\ Same(events[j], s, receipts[s][l])
                => (i < j <=> k < l)
      /\ \A q \in Reqs : pc[q] = "append" =>
            /\ events # <<>> /\ events[n].receipt = q /\ ~HasReceipt(q)
  BY DEF TrailsAgree, SameCheck, Same
<1>20. ASSUME NEW s \in Systems, NEW i \in 1..n, NEW j \in 1..n,
              NEW k \in 1..Len(receipts[s]), NEW l \in 1..Len(receipts[s]),
              Same(events[i], s, receipts[s][k]), Same(events[j], s, receipts[s][l])
       PROVE  i < j <=> k < l
  BY <1>2, <1>20
<1>3. CASE CommitEvent(r)
  <2>1. /\ Len(events') = n + 1 /\ \A i \in 1..n : events'[i] = events[i]
        /\ events'[n + 1] = EventRow(r)
        /\ pc[r] = "commit" /\ pc'[r] = "append" /\ receipts' = receipts
    BY <1>3, CommitEventEffect
  <2>2. events'[n + 1].receipt = r
    BY <2>1 DEF EventRow
  <2>3. ~HasReceipt(r) /\ ~HasReceipt(r)'
    BY <2>1 DEF HasReceipt, Traces, ReceiptDue, Ended, Succeeded
  <2>4. \A q \in Reqs \ {r} : pc[q] # "append" /\ pc'[q] # "append"
    BY <1>0, <2>1 DEF MutualExclusion, InDb
  <2>5. \A i \in 1..(n + 1) : i \in 1..n \/ i = n + 1
    BY <1>1
  <2>6. /\ 1..n \subseteq 1..(n + 1) /\ n + 1 \in 1..(n + 1) /\ n + 1 # 0
    BY <1>1
  <2>7. \A s \in Systems : \A k \in 1..Len(receipts[s]) :
            ~Same(events'[n + 1], s, receipts[s][k])
    BY <2>2, <2>3 DEF Same, HasReceipt
  <2>8. Len(events') # 0
    BY <1>1, <2>1
  <2>9. events' # <<>>
    BY <2>8
  <2> HIDE DEF n
  <2>10. \A s \in Systems : \A k \in 1..Len(receipts[s]) :
            \E i \in 1..(n + 1) : Same(events'[i], s, receipts[s][k])
    BY <1>2, <2>1, <2>6
  <2>11. ASSUME NEW i \in 1..(n + 1)
         PROVE  \/ \E k \in 1..Len(receipts[events'[i].sys]) :
                      Same(events'[i], events'[i].sys, receipts[events'[i].sys][k])
                \/ i = n + 1 /\ pc'[events'[i].receipt] = "append"
    <3>1. CASE i = n + 1
      BY <2>1, <2>2, <3>1
    <3>2. CASE i \in 1..n
      <4>1. events'[i] = events[i] /\ pc[events[i].receipt] # "append"
        BY <1>1, <2>1, <2>4, <3>2
      <4> QED  BY <1>2, <3>2, <4>1
    <3> QED  BY <2>5, <3>1, <3>2
  <2>12. ASSUME NEW s \in Systems, NEW i \in 1..(n + 1), NEW j \in 1..(n + 1),
                NEW k \in 1..Len(receipts[s]), NEW l \in 1..Len(receipts[s]),
                Same(events'[i], s, receipts[s][k]), Same(events'[j], s, receipts[s][l])
         PROVE  i < j <=> k < l
    <3>1. i # n + 1 /\ j # n + 1
      BY <2>7, <2>12
    <3>2. /\ i \in 1..n /\ j \in 1..n
          /\ events'[i] = events[i] /\ events'[j] = events[j]
      BY <2>1, <2>5, <3>1
    <3>3. Same(events[i], s, receipts[s][k]) /\ Same(events[j], s, receipts[s][l])
      BY <2>12, <3>2
    <3> QED  BY <1>20, <3>2, <3>3
  <2>13. \A q \in Reqs : pc'[q] = "append" =>
            /\ events' # <<>> /\ events'[n + 1].receipt = q /\ ~HasReceipt(q)'
    BY <2>2, <2>3, <2>4, <2>9
  <2> QED  BY <2>1, <2>10, <2>11, <2>12, <2>13 DEF TrailsAgree, SameCheck, Same
<1>4. CASE AppendReceipt(r)
  <2> DEFINE t == call[r].target
             m == Len(receipts[t])
             x == Signed(r)
             e == EventRow(r)
  <2>1. /\ pc[r] = "append" /\ pc'[r] = "audit" /\ t \in Systems /\ m \in Nat
        /\ Len(receipts'[t]) = m + 1
        /\ receipts'[t][m + 1] = x
        /\ \A s \in Systems \ {t} : receipts'[s] = receipts[s]
        /\ events' = events
    BY <1>4, AppendReceiptEffect
  <2>2. n \in 1..n /\ events[n] = e
    BY <2>1 DEF EventsLawful
  <2>3. Same(e, t, x) /\ e.sys = t /\ e.id = r /\ e.receipt = r /\ x.id = r
    BY DEF Same, EventRow, Signed
  <2>4. ~HasReceipt(r)
    BY <1>2, <2>1
  <2>5. \A q \in Reqs : pc'[q] # "append"
    BY <1>0, <2>1 DEF MutualExclusion, InDb
  <2>6. /\ \A k \in 1..(m + 1) : k \in 1..m \/ k = m + 1
        /\ m + 1 \in 1..(m + 1)
    BY <2>1
  <2>7. \A s \in Systems : \A k \in 1..Len(receipts[s]) :
            k \in 1..Len(receipts'[s]) /\ receipts'[s][k] = receipts[s][k]
    BY RecordsKept
  <2>8. \A s \in Systems : \A k \in 1..Len(receipts'[s]) :
            \/ k \in 1..Len(receipts[s]) /\ receipts'[s][k] = receipts[s][k]
            \/ s = t /\ k = m + 1 /\ receipts'[s][k] = x
    <3> SUFFICES ASSUME NEW s \in Systems, NEW k \in 1..Len(receipts'[s])
                 PROVE  \/ k \in 1..Len(receipts[s])
                        \/ s = t /\ k = m + 1 /\ receipts'[s][k] = x
      BY <2>7
    <3>1. CASE s = t
      BY <2>1, <2>6, <3>1
    <3>2. CASE s # t
      BY <2>1, <3>2
    <3> QED  BY <3>1, <3>2
  \* The new receipt belongs to the last event and to no other.
  <2>9. \A i \in 1..n : Same(events[i], t, x) => i = n
    <3> SUFFICES ASSUME NEW i \in 1..n, Same(events[i], t, x) PROVE i = n
      OBVIOUS
    <3>1. events[i].receipt = r
      BY <2>3 DEF Same
    <3>2. events[i].id = r /\ events[n].id = r
      BY <2>2, <2>3, <3>1 DEF EventsLawful, Lawful
    <3> QED  BY <2>2, <3>2 DEF EventsLawful
  <2>10. \A s \in Systems : \A k \in 1..Len(receipts[s]) :
            ~Same(events[n], s, receipts[s][k])
    BY <2>2, <2>3, <2>4 DEF Same, HasReceipt
  <2>11. /\ \A k \in 1..Len(receipts[t]) : k < m + 1 /\ ~(m + 1 < k)
         /\ ~(m + 1 < m + 1)
    BY <2>1
  <2>12. \A i \in 1..n : ~(n < i) /\ (i # n => i < n)
    BY <1>1
  <2> HIDE DEF n, m, t, x, e
  <2>13. \A s \in Systems : \A k \in 1..Len(receipts'[s]) :
            \E i \in 1..n : Same(events[i], s, receipts'[s][k])
    <3> SUFFICES ASSUME NEW s \in Systems, NEW k \in 1..Len(receipts'[s])
                 PROVE  \E i \in 1..n : Same(events[i], s, receipts'[s][k])
      OBVIOUS
    <3>1. CASE k \in 1..Len(receipts[s]) /\ receipts'[s][k] = receipts[s][k]
      BY <1>2, <3>1
    <3>2. CASE s = t /\ k = m + 1 /\ receipts'[s][k] = x
      BY <2>2, <2>3, <3>2
    <3> QED  BY <2>8, <3>1, <3>2
  <2>14. ASSUME NEW i \in 1..n
         PROVE  \E k \in 1..Len(receipts'[events[i].sys]) :
                   Same(events[i], events[i].sys, receipts'[events[i].sys][k])
    <3>1. CASE i = n
      BY <2>1, <2>2, <2>3, <2>6, <3>1
    <3>2. CASE i # n
      <4>1. PICK k \in 1..Len(receipts[events[i].sys]) :
                Same(events[i], events[i].sys, receipts[events[i].sys][k])
        BY <1>2, <3>2
      <4>2. k \in 1..Len(receipts'[events[i].sys]) /\
            receipts'[events[i].sys][k] = receipts[events[i].sys][k]
        BY <1>1, <2>7
      <4> QED  BY <4>1, <4>2
    <3> QED  BY <3>1, <3>2
  <2>15. ASSUME NEW s \in Systems, NEW i \in 1..n, NEW j \in 1..n,
                NEW k \in 1..Len(receipts'[s]), NEW l \in 1..Len(receipts'[s]),
                Same(events[i], s, receipts'[s][k]), Same(events[j], s, receipts'[s][l])
         PROVE  i < j <=> k < l
    <3>1. \/ k \in 1..Len(receipts[s]) /\ receipts'[s][k] = receipts[s][k] /\ i # n
          \/ s = t /\ k = m + 1 /\ i = n
      BY <2>8, <2>9, <2>10, <2>15
    <3>2. \/ l \in 1..Len(receipts[s]) /\ receipts'[s][l] = receipts[s][l] /\ j # n
          \/ s = t /\ l = m + 1 /\ j = n
      BY <2>8, <2>9, <2>10, <2>15
    <3>3. CASE k \in 1..Len(receipts[s]) /\ receipts'[s][k] = receipts[s][k] /\ i # n
               /\ l \in 1..Len(receipts[s]) /\ receipts'[s][l] = receipts[s][l]
      BY <1>2, <2>15, <3>3
    <3>4. CASE s = t /\ k = m + 1 /\ i = n
      BY <2>11, <2>12, <3>2, <3>4
    <3>5. CASE k \in 1..Len(receipts[s]) /\ i # n /\ s = t /\ l = m + 1 /\ j = n
      BY <2>11, <2>12, <3>5
    <3> QED  BY <3>1, <3>2, <3>3, <3>4, <3>5
  <2>16. \A s \in Systems : \A i, j \in 1..n : \A k, l \in 1..Len(receipts'[s]) :
            Same(events[i], s, receipts'[s][k]) /\ Same(events[j], s, receipts'[s][l])
                => (i < j <=> k < l)
    BY <2>15
  <2>17. n = Len(events')
    BY <2>1 DEF n
  <2>18. \A i \in 1..n :
            \/ \E k \in 1..Len(receipts'[events[i].sys]) :
                  Same(events[i], events[i].sys, receipts'[events[i].sys][k])
            \/ i = n /\ pc'[events[i].receipt] = "append"
    BY <2>14
  <2> QED  BY <2>1, <2>5, <2>13, <2>16, <2>17, <2>18 DEF TrailsAgree, SameCheck, Same
<1>5. CASE ~CommitEvent(r) /\ ~AppendReceipt(r)
  <2>1. events' = events /\ receipts' = receipts
    BY <1>5, StoresKept
  <2>2. pc[r] # "append" /\ pc'[r] # "append"
    BY <1>5, AppendNext, AppendLeft
  <2>3. \A q \in Reqs : pc'[q] = "append" <=> pc[q] = "append"
    BY <1>0, <2>2
  <2>4. \A q \in Reqs : HasReceipt(q)' <=> HasReceipt(q)
    BY <2>1 DEF HasReceipt
  <2>5. \A i \in 1..n : pc'[events[i].receipt] = "append" <=> pc[events[i].receipt] = "append"
    BY <1>1, <2>3
  <2> QED  BY <1>2, <2>1, <2>3, <2>4, <2>5 DEF TrailsAgree, SameCheck, Same
<1> QED  BY <1>3, <1>4, <1>5

\* The event table and the chains record the same checks in the same order.
THEOREM TrailsMatch == Spec => []TrailsAgree
<1>1. Init => TrailsAgree
  BY DEF Init, TrailsAgree
<1>2. Bookkeeping /\ EventsLawful /\ TrailsAgree /\ [Next]_vars => TrailsAgree'
  <2> SUFFICES ASSUME Bookkeeping, EventsLawful, TrailsAgree, [Next]_vars
               PROVE  TrailsAgree'
    OBVIOUS
  <2>1. CASE Tick \/ UNCHANGED vars
    <3>1. pc' = pc /\ events' = events /\ receipts' = receipts
      BY <2>1, IdleSteps
    <3> QED  BY <3>1, TrailsPaired
  <2> QED  BY <2>1, TrailsStep DEF Next, RequestStep
<1> QED  BY <1>1, <1>2, BookkeepingKept, EventsLawfulKept, PTL DEF Spec

-----------------------------------------------------------------------------
\* The audit trail.

\* The entries of a trail about guardrail g, and the policy the last one left.
About(g, log) == {i \in 1..Len(log) : log[i].action # "checked" /\ log[i].entity = g}
Left(g, v, log) ==
    \E i \in About(g, log) : (\A j \in About(g, log) : j <= i) /\ log[i].after = v

\* Request r has committed a policy of guardrail g and not yet reported it.
Writes(r, g) ==
    /\ pc[r] = "audit"
    /\ \/ call[r].kind = "create" /\ g = r
       \/ call[r].kind = "recompile" /\ g = local[r].guardrail

\* The trail tells of policy v of guardrail g, or the request v failed.
Known(g, v) == v \in Unreported \/ Left(g, v, audit)

\* The trail is up to date with the table, but for the request that writes
\* and for those that failed after their commit.
AuditCurrent ==
    /\ \A g \in DOMAIN rows :
          (\A r \in Reqs : ~Writes(r, g)) => Known(g, rows[g].compiled)
    /\ \A r \in Reqs : pc[r] = "audit" =>
          /\ call[r].kind = "create" => About(r, audit) = {}
          /\ call[r].kind = "recompile" => Known(local[r].guardrail, local[r].policy)
    /\ \A i \in 1..Len(audit) :
          audit[i].action # "checked" => audit[i].entity \in DOMAIN rows

\* What one more entry changes in the entries about a guardrail.
LEMMA AboutAppend ==
    ASSUME NEW log, NEW more, NEW e, Len(log) \in Nat, Len(more) = Len(log) + 1,
           \A i \in 1..Len(log) : more[i] = log[i], more[Len(log) + 1] = e
    PROVE  /\ \A g : ~(e.action # "checked" /\ e.entity = g) =>
                 About(g, more) = About(g, log) /\ \A v : Left(g, v, log) => Left(g, v, more)
           /\ e.action # "checked" => Left(e.entity, e.after, more)
<1> DEFINE n == Len(log)
<1>1. /\ \A i \in 1..(n + 1) : i \in 1..n \/ i = n + 1
      /\ n + 1 \in 1..(n + 1) /\ 1..n \subseteq 1..(n + 1)
      /\ \A i \in 1..(n + 1) : i <= n + 1
  OBVIOUS
<1> HIDE DEF n
<1>2. ASSUME NEW g, ~(e.action # "checked" /\ e.entity = g)
      PROVE  About(g, more) = About(g, log)
  BY <1>1, <1>2 DEF About, n
<1>3. ASSUME NEW g, ~(e.action # "checked" /\ e.entity = g), NEW v, Left(g, v, log)
      PROVE  Left(g, v, more)
  <2>1. PICK i \in About(g, log) : (\A j \in About(g, log) : j <= i) /\ log[i].after = v
    BY <1>3 DEF Left
  <2>2. About(g, more) = About(g, log)
    BY <1>2, <1>3
  <2>3. more[i].after = v
    BY <2>1 DEF About
  <2> QED  BY <2>1, <2>2, <2>3 DEF Left
<1>4. ASSUME e.action # "checked" PROVE Left(e.entity, e.after, more)
  <2>1. n + 1 \in About(e.entity, more)
    BY <1>1, <1>4 DEF About, n
  <2>2. \A j \in About(e.entity, more) : j <= n + 1
    BY <1>1 DEF About, n
  <2>3. more[n + 1].after = e.after
    BY DEF n
  <2> QED  BY <2>1, <2>2, <2>3 DEF Left
<1> QED  BY <1>2, <1>3, <1>4

\* The step after a commit is the audit entry, unless db.refresh fails.
LEMMA AuditLeft ==
    ASSUME TypeOK, ChainIntegrity, NEW r \in Reqs, RequestStep(r), pc[r] = "audit"
    PROVE  WriteAudit(r) \/ Failing(r)
BY StepKinds, ArriveEffect, MovingEffect, RecompileEffect,
   CommitGuardrailEffect, SelectEffect, EvaluateEffect, CommitEventEffect,
   AppendReceiptEffect, ReadNextEffect, ReadAnswerEffect

\* A request that failed is not answered again.
LEMMA UnreportedGrows ==
    ASSUME TypeOK, ChainIntegrity, NEW r \in Reqs, RequestStep(r), Traces(r)
    PROVE  Unreported \subseteq Unreported'
<1> SUFFICES ASSUME NEW q \in Unreported PROVE q \in Unreported'
  OBVIOUS
<1>1. q \in Reqs /\ "refresh" \in Faults /\ answer[q].status = 500
  BY DEF Unreported
<1>2. CASE q # r
  BY <1>1, <1>2, OthersKept DEF Unreported
<1>3. CASE q = r
  <2>1. pc[r] \in {"release", "done"}
    BY <1>1, <1>3 DEF Traces, Ended
  <2>2. Moving(r)
    BY <2>1, StepKinds, ArriveEffect, FailingEffect, RecompileEffect,
       CommitGuardrailEffect, SelectEffect, EvaluateEffect, CommitEventEffect,
       AppendReceiptEffect, WriteAuditEffect, ReadNextEffect, ReadAnswerEffect
  <2> QED  BY <1>1, <1>3, <2>2, MovingEffect DEF Unreported
<1> QED  BY <1>2, <1>3

LEMMA AuditNext ==
    ASSUME TypeOK, ChainIntegrity, NEW r \in Reqs, RequestStep(r), pc'[r] = "audit"
    PROVE  CommitGuardrail(r) \/ AppendReceipt(r)
BY StepKinds, ArriveEffect, FailingEffect, MovingEffect, RecompileEffect,
   SelectEffect, EvaluateEffect, CommitEventEffect,
   WriteAuditEffect, ReadNextEffect, ReadAnswerEffect

LEMMA AuditCurrentStep ==
    ASSUME Bookkeeping, AuditCurrent, NEW r \in Reqs, RequestStep(r)
    PROVE  AuditCurrent'
<1> USE DEF Bookkeeping
<1> DEFINE KnownNext(g, v) == v \in Unreported' \/ Left(g, v, audit')
<1>00. \A g, v : Known(g, v)' <=> KnownNext(g, v)
  BY DEF Known
<1>01. audit' = audit => \A g, v : Known(g, v) => KnownNext(g, v)
  BY UnreportedGrows DEF Known
<1>0. \A q \in Reqs \ {r} : pc'[q] = pc[q] /\ call'[q] = call[q] /\ local'[q] = local[q]
  BY OthersKept
<1>1. /\ \A g \in DOMAIN rows :
            (\A q \in Reqs : ~Writes(q, g)) => Known(g, rows[g].compiled)
      /\ \A q \in Reqs : pc[q] = "audit" =>
            /\ call[q].kind = "create" => About(q, audit) = {}
            /\ call[q].kind = "recompile" => Known(local[q].guardrail, local[q].policy)
      /\ \A i \in 1..Len(audit) :
            audit[i].action # "checked" => audit[i].entity \in DOMAIN rows
  BY DEF AuditCurrent
<1>2. CASE CommitGuardrail(r)
  <2> DEFINE h == local[r].guardrail
  <2>1. /\ pc[r] = "compile" /\ pc'[r] = "audit" /\ call[r].kind \in {"create", "recompile"}
        /\ rows' = IF call[r].kind = "create" THEN Insert(r) ELSE Update(r)
        /\ UNCHANGED <<call, local, audit>>
    BY <1>2, CommitGuardrailEffect
  <2>2. \A q \in Reqs : pc[q] # "audit" /\ (q # r => pc'[q] # "audit")
    BY <1>0, <2>1 DEF MutualExclusion, InDb
  <2>3. \A g \in DOMAIN rows : KnownNext(g, rows[g].compiled)
    BY <1>01, <1>1, <2>1, <2>2 DEF Writes
  <2>4. \A g \in DOMAIN rows : g \in DOMAIN rows'
    BY RowsStable
  <2>5. CASE call[r].kind = "create"
    <3>1. r \notin DOMAIN rows
      BY <2>1 DEF Traces, Ended
    <3>2. About(r, audit) = {}
      BY <1>1, <3>1 DEF About
    <3>3. \A g \in DOMAIN rows' : g = r \/ (g \in DOMAIN rows /\ rows'[g] = rows[g])
      <4>1. rows' = Insert(r)
        BY <2>1, <2>5
      <4> QED  BY <4>1 DEF Insert
    <3>4. Writes(r, r)'
      BY <2>1, <2>5 DEF Writes
    <3> HIDE DEF KnownNext
    <3> QED  BY <1>00, <1>1, <2>1, <2>2, <2>3, <2>4, <2>5, <3>2, <3>3, <3>4 DEF AuditCurrent
  <2>6. CASE call[r].kind = "recompile"
    <3>1. h \in DOMAIN rows /\ rows[h].compiled = local[r].policy
      BY <2>1, <2>6 DEF Working
    <3>2. KnownNext(h, local[r].policy)
      BY <2>3, <3>1
    <3>3. \A g \in DOMAIN rows' : g = h \/ (g \in DOMAIN rows /\ rows'[g] = rows[g])
      <4>1. rows' = Update(r)
        BY <2>1, <2>6
      <4>2. DOMAIN rows' = DOMAIN rows
        BY <4>1 DEF Update
      <4>3. \A g \in DOMAIN rows : g # h => rows'[g] = rows[g]
        BY <4>1 DEF Update
      <4> QED  BY <4>2, <4>3
    <3>4. \A g : g = h => Writes(r, g)'
      BY <2>1, <2>6 DEF Writes
    <3>5. ASSUME NEW g \in DOMAIN rows', \A q \in Reqs : ~Writes(q, g)'
          PROVE  KnownNext(g, rows'[g].compiled)
      BY <2>3, <3>3, <3>4, <3>5
    <3> HIDE DEF KnownNext
    <3> QED  BY <1>00, <1>1, <2>1, <2>2, <2>4, <2>6, <3>2, <3>5 DEF AuditCurrent
  <2> QED  BY <2>1, <2>5, <2>6
<1>3. CASE WriteAudit(r)
  <2> DEFINE e == AuditEntry(r)
             h == local[r].guardrail
             n == Len(audit)
  <2>1. /\ pc[r] = "audit" /\ pc'[r] = "release" /\ call[r].kind \in DbKinds
        /\ n \in Nat /\ Len(audit') = n + 1
        /\ \A i \in 1..n : audit'[i] = audit[i]
        /\ audit'[n + 1] = e
        /\ UNCHANGED <<call, local, rows>>
    BY <1>3, WriteAuditEffect
  <2>2. \A q \in Reqs : pc'[q] # "audit" /\ (q # r => pc[q] # "audit")
    BY <1>0, <2>1 DEF MutualExclusion, InDb
  <2>3. /\ \A g : ~(e.action # "checked" /\ e.entity = g) =>
              \A v : Left(g, v, audit) => Left(g, v, audit')
        /\ e.action # "checked" => Left(e.entity, e.after, audit')
    BY <2>1, AboutAppend
  <2>4. \A g : ~(e.action # "checked" /\ e.entity = g) => \A q \in Reqs : ~Writes(q, g)
    <3>1. \A g : Writes(r, g) => e.action # "checked" /\ e.entity = g
      BY DEF Writes, AuditEntry
    <3> QED  BY <2>2, <3>1 DEF Writes
  <2>5. e.action # "checked" =>
            e.entity \in DOMAIN rows /\ rows[e.entity].compiled = e.after
    BY <2>1 DEF AuditEntry, Working, DbKinds
  <2>6. \A i \in 1..(n + 1) : i \in 1..n \/ i = n + 1
    BY <2>1
  <2> HIDE DEF e, n
  <2>7. \A g \in DOMAIN rows : KnownNext(g, rows[g].compiled)
    <3> SUFFICES ASSUME NEW g \in DOMAIN rows PROVE KnownNext(g, rows[g].compiled)
      OBVIOUS
    <3>1. CASE e.action # "checked" /\ e.entity = g
      BY <2>3, <2>5, <3>1
    <3>2. CASE ~(e.action # "checked" /\ e.entity = g)
      <4>1. Known(g, rows[g].compiled)
        BY <1>1, <2>4, <3>2
      <4> QED  BY <2>3, <3>2, <4>1, UnreportedGrows DEF Known
    <3> QED  BY <3>1, <3>2
  <2>8. \A i \in 1..(n + 1) :
            audit'[i].action # "checked" => audit'[i].entity \in DOMAIN rows
    BY <1>1, <2>1, <2>5, <2>6 DEF n
  <2> HIDE DEF KnownNext
  <2> QED  BY <1>00, <2>1, <2>2, <2>7, <2>8 DEF AuditCurrent
<1>4. CASE Failing(r) /\ pc[r] = "audit"
  <2> DEFINE h == IF call[r].kind = "create" THEN r ELSE local[r].guardrail
  <2>1. /\ pc'[r] \in {"release", "done"} /\ "refresh" \in Faults
        /\ call[r].kind # "check" /\ answer'[r].status = 500
        /\ UNCHANGED <<call, local, rows, audit>>
    BY <1>4, FailingEffect DEF stores
  <2>2. r \in Unreported'
    BY <2>1 DEF Unreported
  <2>3. call[r].kind \in {"create", "recompile"}
    BY <1>4, <2>1 DEF TypeOK, Established, DbKinds
  <2>4. rows[h].compiled = r
    BY <1>4, <2>3 DEF Working
  <2>5. \A q \in Reqs : pc'[q] # "audit" /\ (q # r => pc[q] # "audit")
    BY <1>0, <1>4, <2>1 DEF MutualExclusion, InDb
  <2>6. \A g : g # h => \A q \in Reqs : ~Writes(q, g)
    BY <2>3, <2>5 DEF Writes
  <2>7. \A g \in DOMAIN rows : KnownNext(g, rows[g].compiled)
    BY <1>01, <1>1, <2>1, <2>2, <2>4, <2>6
  <2> HIDE DEF KnownNext
  <2> QED  BY <1>00, <1>1, <2>1, <2>5, <2>7 DEF AuditCurrent
<1>5. CASE ~CommitGuardrail(r) /\ ~WriteAudit(r) /\ ~(Failing(r) /\ pc[r] = "audit")
  <2>1. rows' = rows /\ audit' = audit
    BY <1>5, StoresKept
  <2>2. pc[r] # "audit" /\ (pc'[r] = "audit" => AppendReceipt(r))
    BY <1>5, AuditLeft, AuditNext
  <2>3. pc'[r] = "audit" => call'[r].kind = "check"
    BY <2>2, AppendReceiptEffect
  <2>4. \A q \in Reqs : \A g : Writes(q, g)' <=> Writes(q, g)
    BY <1>0, <2>2, <2>3 DEF Writes
  <2>5. \A q \in Reqs : pc'[q] = "audit" =>
            /\ call'[q].kind = "create" => About(q, audit) = {}
            /\ call'[q].kind = "recompile" => KnownNext(local'[q].guardrail, local'[q].policy)
    BY <1>0, <1>01, <1>1, <2>1, <2>3
  <2>6. \A g \in DOMAIN rows :
            (\A q \in Reqs : ~Writes(q, g)') => KnownNext(g, rows[g].compiled)
    BY <1>01, <1>1, <2>1, <2>4
  <2> HIDE DEF KnownNext
  <2> QED  BY <1>00, <1>1, <2>1, <2>5, <2>6 DEF AuditCurrent
<1> QED  BY <1>2, <1>3, <1>4, <1>5

\* TrailGapless, as a predicate of the trail and of the requests that failed.
Prior(i, log) == {j \in 1..(i - 1) : /\ log[j].action # "checked"
                                     /\ log[j].entity = log[i].entity}
Quotes(i, log) ==
    \/ Prior(i, log) = {} /\ log[i].before = None
    \/ \E j \in Prior(i, log) : /\ \A k \in Prior(i, log) : k <= j
                                /\ log[i].before = log[j].after
Gapless(log, lost) ==
    \A i \in 1..Len(log) :
        log[i].action # "checked" => log[i].before \in lost \/ Quotes(i, log)

LEMMA ContinuityGapless ==
    /\ TrailGapless <=> Gapless(audit, Unreported)
    /\ TrailGapless' <=> Gapless(audit', Unreported')
BY DEF TrailGapless, Gapless, Quotes, Prior, Earlier

LEMMA AuditContinuityStep ==
    ASSUME Bookkeeping, AuditCurrent, Gapless(audit, Unreported),
           NEW r \in Reqs, RequestStep(r)
    PROVE  Gapless(audit', Unreported')
<1> USE DEF Bookkeeping
<1>0. Unreported \subseteq Unreported'
  BY UnreportedGrows
<1>1. CASE WriteAudit(r)
  <2> DEFINE e == AuditEntry(r)
             n == Len(audit)
  <2>1. /\ pc[r] = "audit" /\ call[r].kind \in DbKinds
        /\ n \in Nat /\ Len(audit') = n + 1
        /\ \A i \in 1..n : audit'[i] = audit[i]
        /\ audit'[n + 1] = e
    BY <1>1, WriteAuditEffect
  <2>2. \A i \in 1..(n + 1) : (i \in 1..n /\ 1..(i - 1) \subseteq 1..n) \/ i = n + 1
    BY <2>1
  <2>3. (n + 1) - 1 = n
    BY <2>1
  <2> HIDE DEF n
  <2>4. ASSUME NEW i \in 1..n, audit'[i].action # "checked", audit'[i].before \notin Unreported'
        PROVE  Quotes(i, audit')
    <3>1. 1..(i - 1) \subseteq 1..n
      BY <2>1
    <3>2. Prior(i, audit') = Prior(i, audit)
      BY <2>1, <3>1 DEF Prior
    <3>3. Quotes(i, audit)
      BY <1>0, <2>1, <2>4 DEF Gapless, n
    <3>4. \A j \in Prior(i, audit) : audit'[j] = audit[j]
      BY <2>1, <3>1 DEF Prior
    <3> QED  BY <2>1, <3>2, <3>3, <3>4 DEF Quotes
  <2>5. ASSUME e.action # "checked", e.before \notin Unreported'
        PROVE  Quotes(n + 1, audit')
    <3>1. Prior(n + 1, audit') = About(e.entity, audit)
      BY <2>1, <2>3 DEF Prior, About, n
    <3>2. \A j \in About(e.entity, audit) : audit'[j] = audit[j]
      BY <2>1 DEF About, n
    <3>3. CASE call[r].kind = "create"
      <4>1. About(e.entity, audit) = {} /\ e.before = None
        BY <2>1, <3>3 DEF AuditCurrent, AuditEntry
      <4> QED  BY <2>1, <3>1, <4>1 DEF Quotes
    <3>4. CASE call[r].kind = "recompile"
      <4>1. Left(e.entity, e.before, audit)
        BY <1>0, <2>1, <2>5, <3>4 DEF AuditCurrent, Known, AuditEntry
      <4> HIDE DEF e
      <4> QED  BY <2>1, <3>1, <3>2, <4>1 DEF Quotes, Left
    <3> QED  BY <2>1, <2>5, <3>3, <3>4 DEF DbKinds, AuditEntry
  <2> QED  BY <2>1, <2>2, <2>4, <2>5 DEF Gapless
<1>2. CASE ~WriteAudit(r)
  BY <1>0, <1>2, StoresKept DEF Gapless
<1> QED  BY <1>1, <1>2

\* The entries of each guardrail form a history without gaps up to the policy
\* in the table, but for what a failing db.refresh left unreported.
THEOREM AuditGapless == Spec => []AuditContinuity
<1> DEFINE Inv == AuditCurrent /\ Gapless(audit, Unreported)
<1>1. Init => Inv
  BY DEF Init, AuditCurrent, Gapless
<1>2. Bookkeeping /\ Inv /\ [Next]_vars => Inv'
  <2> SUFFICES ASSUME Bookkeeping, Inv, [Next]_vars PROVE Inv'
    OBVIOUS
  <2>1. CASE Tick \/ UNCHANGED vars
    <3>1. UNCHANGED <<pc, call, local, answer, rows, audit>>
      BY <2>1, IdleSteps
    <3> QED  BY <3>1 DEF AuditCurrent, Writes, Known, Unreported, Gapless
  <2>2. CASE \E r \in Reqs : RequestStep(r)
    BY <2>2, AuditCurrentStep, AuditContinuityStep
  <2> QED  BY <2>1, <2>2 DEF Next, RequestStep
<1>3. Inv => TrailGapless
  BY ContinuityGapless
<1> QED
  BY <1>1, <1>2, <1>3, BookkeepingKept, PoliciesAccounted, PTL DEF Spec, AuditContinuity
=============================================================================
