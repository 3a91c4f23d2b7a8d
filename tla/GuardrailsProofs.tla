-------------------------- MODULE GuardrailsProofs --------------------------
(***************************************************************************)
(* Theorems about Guardrails, for any set of requests, organizations and   *)
(* systems.  The inductive invariant joins the types, the mutual exclusion *)
(* of get_db and what it protects: while a check is in the database        *)
(* section, the tip it read is still the tip of its chain.                 *)
(***************************************************************************)
EXTENDS Guardrails, SequenceTheorems, TLAPS

-----------------------------------------------------------------------------
\* Lemmas about single definitions.

\* What the fields of a call are.
LEMMA CallFields ==
    ASSUME NEW c \in Calls
    PROVE  /\ c.kind \in DbKinds \cup ReadKinds
           /\ c.org \in Orgs /\ c.bodyOrg \in Orgs
           /\ c.ids \in SUBSET ObligationIds
           /\ c.kind = "recompile" => c.target \in Reqs
           /\ c.kind # "recompile" => c.target \in Systems
BY DEF Calls

\* The records that the handlers assign into keep their types.
LEMMA LocalFields ==
    ASSUME NEW l \in Local
    PROVE  /\ \A g, p \in Reqs :
                 [l EXCEPT !.guardrail = g, !.policy = p] \in Local
           /\ \A g, p \in Reqs, v \in Reqs \cup {None} :
                 [l EXCEPT !.guardrail = g, !.policy = p, !.prev = v] \in Local
           /\ \A d \in Decisions : [l EXCEPT !.decision = d] \in Local
BY DEF Local

LEMMA AnswerFields ==
    ASSUME NEW a \in Answer, NEW n \in Nat
    PROVE  /\ [a EXCEPT !.status = 200, !.count = n] \in Answer
           /\ [a EXCEPT !.passed = FALSE, !.count = n, !.status = 200] \in Answer
<1>1. 200 \in Statuses
  BY DEF Statuses
<1>2. QED BY <1>1 DEF Answer

\* The tip of a chain is the hash of one of its receipts, or None.
LEMMA TipType ==
    ASSUME NEW s \in Seq(Receipt)
    PROVE  Tip(s) \in Reqs \cup {None}
<1>1. CASE s = <<>>
  BY <1>1 DEF Tip
<1>2. CASE s # <<>>
  <2>1. Len(s) \in 1..Len(s)
    BY <1>2, EmptySeq, LenProperties
  <2>2. s[Len(s)] \in Receipt
    BY <2>1, ElementOfSeq
  <2>3. QED BY <1>2, <2>2 DEF Tip, Receipt
<1>3. QED BY <1>1, <1>2

\* A step moves one program counter.
LEMMA StepMoves ==
    ASSUME pc \in [Reqs -> PCs], NEW r \in Reqs, NEW from, NEW to \in PCs,
           Step(r, from, to)
    PROVE  /\ pc' \in [Reqs -> PCs]
           /\ pc[r] = from /\ pc'[r] = to
           /\ \A q \in Reqs : q # r => pc'[q] = pc[q]
BY DEF Step

\* A response ends the handler; only its status changes.
LEMMA RespondEnds ==
    ASSUME pc \in [Reqs -> PCs], answer \in [Reqs -> Answer],
           NEW r \in Reqs, NEW from,
           NEW status \in Statuses,
           Respond(r, from, status)
    PROVE  /\ pc' \in [Reqs -> PCs] /\ answer' \in [Reqs -> Answer]
           /\ pc[r] = from
           /\ pc'[r] = IF from \in InDb THEN "release" ELSE "done"
           /\ \A q \in Reqs : q # r => pc'[q] = pc[q]
<1>1. /\ pc' = [pc EXCEPT ![r] = IF from \in InDb THEN "release" ELSE "done"]
      /\ pc[r] = from
  BY DEF Respond, Step
<1>2. [answer[r] EXCEPT !.status = status] \in Answer
  BY DEF Answer
<1>3. answer' = [answer EXCEPT ![r] = [answer[r] EXCEPT !.status = status]]
  BY DEF Respond
<1>4. answer' \in [Reqs -> Answer]
  BY <1>2, <1>3
<1>5. pc' \in [Reqs -> PCs]
  BY <1>1 DEF PCs
<1>6. QED BY <1>1, <1>4, <1>5

-----------------------------------------------------------------------------
\* Type correctness.

LEMMA TypeInit == Init => TypeOK
<1> SUFFICES ASSUME Init PROVE TypeOK
  OBVIOUS
<1>1. rows \in [DOMAIN rows -> Row] /\ DOMAIN rows \subseteq Reqs
  BY DEF Init
<1>2. /\ pc \in [Reqs -> PCs] /\ call \in [Reqs -> Calls \cup {None}]
      /\ local \in [Reqs -> Local]
  BY DEF Init, PCs, Local
<1>3. answer \in [Reqs -> Answer]
  BY DEF Init, Answer
<1>4. \A r \in Reqs : Established(r)
  BY DEF Init, Established
<1>5. /\ dbLock \in Reqs \cup {None} /\ clock \in 0..Horizon
      /\ events \in Seq(Event) /\ audit \in Seq(Entry)
      /\ receipts \in [Systems -> Seq(Receipt)]
  BY HorizonAssumption DEF Init
<1>6. QED BY <1>1, <1>2, <1>3, <1>4, <1>5 DEF TypeOK

LEMMA TypeStep == TypeOK /\ [Next]_vars => TypeOK'
<1> SUFFICES ASSUME TypeOK, [Next]_vars PROVE TypeOK'
  OBVIOUS
<1> USE DEF TypeOK
<1>1. CASE UNCHANGED vars
  BY <1>1 DEF vars, stores, Established
<1>2. CASE Tick
  BY <1>2 DEF Tick, stores, Established
<1>3. ASSUME NEW r \in Reqs, Arrive(r) PROVE TypeOK'
  <2>1. PICK c \in Calls :
          /\ Step(r, "idle", IF c.kind \in DbKinds THEN "lock" ELSE "read")
          /\ call' = [call EXCEPT ![r] = c]
          /\ local' = IF c.kind \in ReadKinds
                      THEN [local EXCEPT ![r].acked = Acked(c.target)]
                      ELSE local
          /\ UNCHANGED <<answer, dbLock, clock, stores>>
    BY <1>3 DEF Arrive
  <2>2. local' \in [Reqs -> Local]
    BY <2>1 DEF Local, Acked
  <2>3. pc' \in [Reqs -> PCs] /\ call' \in [Reqs -> Calls \cup {None}]
    BY <2>1 DEF Step, PCs
  <2>4. \A q \in Reqs : Established(q)'
    BY <2>1, CallFields DEF Established, Step, stores
  <2>5. QED BY <2>1, <2>2, <2>3, <2>4 DEF stores
<1>4. ASSUME NEW r \in Reqs, Refuse(r) PROVE TypeOK'
  <2>0. PICK status \in Statuses : Respond(r, "idle", status)
    BY <1>4 DEF Refuse, Statuses
  <2>1. /\ pc' \in [Reqs -> PCs] /\ answer' \in [Reqs -> Answer]
        /\ pc[r] = "idle" /\ pc'[r] = "done"
        /\ \A q \in Reqs : q # r => pc'[q] = pc[q]
    <3>1. "idle" \notin InDb
      BY DEF InDb
    <3>2. pc \in [Reqs -> PCs] /\ answer \in [Reqs -> Answer]
      OBVIOUS
    <3>3. QED BY <2>0, <3>1, <3>2, RespondEnds
  <2>2. QED BY <1>4, <2>1 DEF Refuse, stores, Established
<1>5. ASSUME NEW r \in Reqs, EnterDb(r) PROVE TypeOK'
  BY <1>5 DEF EnterDb, Step, stores, Established, PCs
<1>6. ASSUME NEW r \in Reqs, LeaveDb(r) PROVE TypeOK'
  BY <1>6 DEF LeaveDb, Step, stores, Established, PCs
\* The handlers that end without touching the tables.
<1>7. ASSUME NEW r \in Reqs,
             NEW from \in {"handle", "compile", "evaluate", "sign", "commit",
                           "audit", "read"},
             NEW status \in Statuses,
             Respond(r, from, status), UNCHANGED <<call, local, dbLock, clock, stores>>
      PROVE  TypeOK'
  <2>1. /\ pc' \in [Reqs -> PCs] /\ answer' \in [Reqs -> Answer]
        /\ pc[r] = from /\ pc'[r] \in {"release", "done"}
        /\ \A q \in Reqs : q # r => pc'[q] = pc[q]
    BY <1>7, RespondEnds
  <2>2. \A q \in Reqs : Established(q)'
    BY <1>7, <2>1 DEF Established, stores
  <2>3. QED BY <1>7, <2>1, <2>2 DEF stores
<1>8. ASSUME NEW r \in Reqs,
             \/ InvalidBody(r) \/ CreateRefused(r) \/ RecompileRefused(r)
             \/ CompileFails(r) \/ CheckRefused(r) \/ ProviderRaises(r)
             \/ CommitFails(r) \/ RefreshFails(r) \/ ReadRefused(r)
      PROVE  TypeOK'
  <2>1. \E from \in {"handle", "compile", "evaluate", "sign", "commit",
                     "audit", "read"},
           status \in Statuses :
             /\ Respond(r, from, status)
             /\ UNCHANGED <<call, local, dbLock, clock, stores>>
    <3>1. CASE InvalidBody(r) BY <3>1 DEF InvalidBody, Statuses
    <3>2. CASE CreateRefused(r) BY <3>2 DEF CreateRefused, Statuses
    <3>3. CASE RecompileRefused(r) BY <3>3 DEF RecompileRefused, Statuses
    <3>4. CASE CompileFails(r) BY <3>4 DEF CompileFails, Statuses
    <3>5. CASE CheckRefused(r) BY <3>5 DEF CheckRefused, Statuses
    <3>6. CASE ProviderRaises(r) BY <3>6 DEF ProviderRaises, Statuses
    <3>7. CASE CommitFails(r) BY <3>7 DEF CommitFails, Statuses
    <3>8. CASE RefreshFails(r) BY <3>8 DEF RefreshFails, Statuses
    <3>9. CASE ReadRefused(r) BY <3>9 DEF ReadRefused, Statuses
    <3>10. QED BY <1>8, <3>1, <3>2, <3>3, <3>4, <3>5, <3>6, <3>7, <3>8, <3>9
  <2>2. QED BY <1>7, <2>1
<1>9. ASSUME NEW r \in Reqs, CreateAccepted(r) PROVE TypeOK'
  BY <1>9 DEF CreateAccepted, Handling, Step, stores, Established, PCs
<1>10. ASSUME NEW r \in Reqs, RecompileAccepted(r) PROVE TypeOK'
  <2>1. /\ call[r].target \in DOMAIN rows
        /\ Step(r, "handle", "compile") /\ call[r].kind = "recompile"
        /\ local' = [local EXCEPT ![r] =
                       [local[r] EXCEPT !.guardrail = call[r].target,
                                        !.policy = rows[call[r].target].compiled]]
        /\ UNCHANGED <<call, answer, dbLock, clock, stores>>
    BY <1>10 DEF RecompileAccepted, OwnGuardrail, Handling
  <2>2. call[r].target \in Reqs /\ rows[call[r].target].compiled \in Reqs
    BY <2>1 DEF Row
  <2>3. local' \in [Reqs -> Local] /\ local'[r].guardrail = call[r].target
    <3> DEFINE l == [local[r] EXCEPT !.guardrail = call[r].target,
                                     !.policy = rows[call[r].target].compiled]
    <3>1. local[r] \in Local
      OBVIOUS
    <3>2. l \in Local
      BY <2>2, <3>1, LocalFields
    <3>3. l.guardrail = call[r].target
      BY <3>1 DEF Local
    <3>4. local' = [local EXCEPT ![r] = l]
      BY <2>1
    <3> HIDE DEF l
    <3>5. QED BY <2>2, <3>2, <3>3, <3>4
  <2>4. \A q \in Reqs : q # r => local'[q] = local[q]
    BY <2>1
  <2>5. pc' \in [Reqs -> PCs] /\ pc'[r] = "compile" /\ pc[r] = "handle"
        /\ \A q \in Reqs : q # r => pc'[q] = pc[q]
    BY <2>1, StepMoves DEF PCs
  <2>6. \A q \in Reqs : Established(q)'
    BY <2>1, <2>3, <2>4, <2>5 DEF Established, stores
  <2>7. QED BY <2>1, <2>3, <2>5, <2>6 DEF stores
<1>11. ASSUME NEW r \in Reqs, CommitGuardrail(r) PROVE TypeOK'
  <2>1. /\ pc[r] = "compile" /\ call[r] \in Calls
    BY <1>11 DEF CommitGuardrail, Step, Established
  <2>2. DOMAIN rows' \subseteq Reqs /\ rows' \in [DOMAIN rows' -> Row]
    <3>1. CASE call[r].kind = "create"
      BY <1>11, <2>1, <3>1, CallFields DEF CommitGuardrail, Insert, Row
    <3>2. CASE call[r].kind # "create"
      <4> DEFINE g == local[r].guardrail
      <4>1. rows' = [rows EXCEPT ![g] = [rows[g] EXCEPT !.compiled = r,
                                                        !.ids = call[r].ids]]
        BY <1>11, <3>2 DEF CommitGuardrail, Update
      <4>2. g \in DOMAIN rows =>
              [rows[g] EXCEPT !.compiled = r, !.ids = call[r].ids] \in Row
        BY <2>1, CallFields DEF Row
      <4>3. QED BY <4>1, <4>2
    <3>3. QED BY <3>1, <3>2
  <2>5. DOMAIN rows \subseteq DOMAIN rows'
    BY <1>11 DEF CommitGuardrail, Insert, Update
  <2>3. pc' \in [Reqs -> PCs] /\ \A q \in Reqs : Established(q)'
    BY <1>11, <2>5 DEF CommitGuardrail, Step, Established, PCs, DbKinds
  <2>4. QED BY <1>11, <2>2, <2>3 DEF CommitGuardrail
<1>12. ASSUME NEW r \in Reqs, Select(r) PROVE TypeOK'
  <2> DEFINE tip == Tip(receipts[call[r].target])
  <2>1. PICK g \in DOMAIN rows :
          /\ Step(r, "handle", "evaluate") /\ call[r].kind = "check"
          /\ local' = [local EXCEPT ![r] =
                         [local[r] EXCEPT !.guardrail = g,
                                          !.policy = rows[g].compiled,
                                          !.prev = tip]]
          /\ UNCHANGED <<call, answer, dbLock, clock, stores>>
    BY <1>12 DEF Select, Handling, Latest, Candidates
  <2>2. g \in Reqs /\ rows[g].compiled \in Reqs
    BY <2>1 DEF Row
  <2>3. tip \in Reqs \cup {None}
    <3>1. call[r].target \in Systems
      BY <2>1, CallFields DEF Step, Established
    <3>2. receipts[call[r].target] \in Seq(Receipt)
      BY <3>1
    <3>3. QED BY <3>2, TipType
  <2>4. /\ local' \in [Reqs -> Local]
        /\ local'[r].guardrail \in Reqs /\ local'[r].policy \in Reqs
    <3> DEFINE l == [local[r] EXCEPT !.guardrail = g,
                                     !.policy = rows[g].compiled,
                                     !.prev = tip]
    <3>1. local[r] \in Local
      OBVIOUS
    <3>2. l \in Local
      BY <2>2, <2>3, <3>1, LocalFields
    <3>3. l.guardrail = g /\ l.policy = rows[g].compiled
      BY <3>1 DEF Local
    <3>4. local' = [local EXCEPT ![r] = l]
      BY <2>1
    <3> HIDE DEF l
    <3>5. QED BY <2>2, <3>2, <3>3, <3>4
  <2>5. \A q \in Reqs : q # r => local'[q] = local[q]
    BY <2>1
  <2>6. pc' \in [Reqs -> PCs] /\ pc'[r] = "evaluate" /\ pc[r] = "handle"
        /\ \A q \in Reqs : q # r => pc'[q] = pc[q]
    BY <2>1, StepMoves DEF PCs
  <2>7. \A q \in Reqs : Established(q)'
    BY <2>1, <2>4, <2>5, <2>6 DEF Established, stores
  <2>8. QED BY <2>1, <2>4, <2>6, <2>7 DEF stores
<1>13. ASSUME NEW r \in Reqs, Evaluate(r) PROVE TypeOK'
  <2>1. PICK d \in Decisions :
          local' = [local EXCEPT ![r] = [local[r] EXCEPT !.decision = d]]
    BY <1>13 DEF Evaluate
  <2>2. /\ local' \in [Reqs -> Local] /\ local'[r].decision \in Decisions
        /\ local'[r].guardrail = local[r].guardrail
        /\ local'[r].policy = local[r].policy
        /\ \A q \in Reqs : q # r => local'[q] = local[q]
    <3>1. /\ local'[r] \in Local /\ local'[r].decision = d
          /\ local'[r].guardrail = local[r].guardrail
          /\ local'[r].policy = local[r].policy
      BY <2>1, LocalFields DEF Local
    <3>2. QED BY <2>1, <3>1
  <2>3. pc' \in [Reqs -> PCs] /\ pc'[r] = "sign" /\ pc[r] = "evaluate"
        /\ \A q \in Reqs : q # r => pc'[q] = pc[q]
    BY <1>13, StepMoves DEF Evaluate, PCs
  <2>4. \A q \in Reqs : Established(q)'
    BY <1>13, <2>2, <2>3 DEF Evaluate, Established, stores
  <2>5. QED BY <1>13, <2>2, <2>3, <2>4 DEF Evaluate, stores
<1>14. ASSUME NEW r \in Reqs, Sign(r) PROVE TypeOK'
  BY <1>14 DEF Sign, Step, stores, Established, PCs
<1>15. ASSUME NEW r \in Reqs, CommitEvent(r) PROVE TypeOK'
  <2>1. EventRow(r) \in Event
    BY <1>15, CallFields DEF CommitEvent, Step, Established, EventRow, Event
  <2>2. events' \in Seq(Event)
    BY <1>15, <2>1, AppendProperties DEF CommitEvent
  <2>3. pc' \in [Reqs -> PCs] /\ \A q \in Reqs : Established(q)'
    BY <1>15 DEF CommitEvent, Step, Established, PCs
  <2>4. QED BY <1>15, <2>2, <2>3 DEF CommitEvent
<1>16. ASSUME NEW r \in Reqs, AppendReceipt(r) PROVE TypeOK'
  <2>1. Signed(r) \in Receipt
    BY <1>16 DEF AppendReceipt, Step, Established, Signed, Receipt, Local
  <2>2. receipts' \in [Systems -> Seq(Receipt)]
    BY <1>16, <2>1, AppendProperties DEF AppendReceipt
  <2>3. pc' \in [Reqs -> PCs] /\ \A q \in Reqs : Established(q)'
    BY <1>16 DEF AppendReceipt, Step, Established, PCs, DbKinds
  <2>4. QED BY <1>16, <2>2, <2>3 DEF AppendReceipt
<1>17. ASSUME NEW r \in Reqs, WriteAudit(r) PROVE TypeOK'
  <2>1. pc[r] = "audit" /\ call[r] \in Calls /\ call[r].kind \in DbKinds
    BY <1>17 DEF WriteAudit, Established
  <2>2. AuditEntry(r) \in Entry
    <3>1. call[r].kind = "recompile" =>
              local[r].guardrail \in Reqs /\ rows[local[r].guardrail].org \in Orgs
      BY <2>1 DEF Established, Row
    <3> QED
      BY <2>1, <3>1, CallFields DEF AuditEntry, Entry, Established, DbKinds, Local
  <2>3. audit' \in Seq(Entry)
    BY <1>17, <2>2, AppendProperties DEF WriteAudit
  <2>4. /\ pc' \in [Reqs -> PCs] /\ answer' \in [Reqs -> Answer]
        /\ pc'[r] = "release"
        /\ \A q \in Reqs : q # r => pc'[q] = pc[q]
    BY <1>17, RespondEnds DEF WriteAudit, InDb, Statuses
  <2>5. \A q \in Reqs : Established(q)'
    BY <1>17, <2>1, <2>4 DEF WriteAudit, Established
  <2>6. QED BY <1>17, <2>3, <2>4, <2>5 DEF WriteAudit
<1>18. ASSUME NEW r \in Reqs, ReadNext(r) PROVE TypeOK'
  <2> DEFINE list == receipts[call[r].target]
             i    == Len(answer[r].seen) + 1
  <2>1. list \in Seq(Receipt)
    BY <1>18, CallFields DEF ReadNext, Established, ReadKinds, DbKinds
  <2>2. answer[r] \in Answer /\ answer[r].seen \in Seq(Receipt)
    BY DEF Answer
  <2>3. i - 1 \in Nat /\ i \in 1..Len(list)
    BY <1>18, <2>1, <2>2, LenProperties DEF ReadNext
  <2>4. list[i] \in Receipt
    BY <2>1, <2>3, ElementOfSeq
  <2>5. [answer[r] EXCEPT !.seen = Append(answer[r].seen, list[i])] \in Answer
    BY <2>2, <2>4, AppendProperties DEF Answer
  <2>6. [answer[r] EXCEPT !.passed = FALSE, !.count = i - 1, !.status = 200] \in Answer
    BY <2>2, <2>3, AnswerFields
  <2>7. /\ pc' \in [Reqs -> PCs]
        /\ \/ answer' = [answer EXCEPT ![r] =
                [answer[r] EXCEPT !.seen = Append(answer[r].seen, list[i])]]
           \/ answer' = [answer EXCEPT ![r] =
                [answer[r] EXCEPT !.passed = FALSE, !.count = i - 1, !.status = 200]]
    BY <1>18 DEF ReadNext, Step, PCs
  <2>8. answer' \in [Reqs -> Answer]
    BY <2>5, <2>6, <2>7
  <2>9. \A q \in Reqs : Established(q)'
    BY <1>18 DEF ReadNext, Step, Established, stores
  <2>10. QED BY <1>18, <2>7, <2>8, <2>9 DEF ReadNext, stores
<1>19. ASSUME NEW r \in Reqs, ReadEnds(r) PROVE TypeOK'
  BY <1>19 DEF ReadEnds, Step, stores, Established, PCs
<1>20. ASSUME NEW r \in Reqs, ReadAnswer(r) PROVE TypeOK'
  <2>1. receipts[call[r].target] \in Seq(Receipt)
    BY <1>20, CallFields DEF ReadAnswer, Step, Established, ReadKinds, DbKinds
  <2> DEFINE n == IF answer[r].seen = <<>> THEN 0
                  ELSE Len(receipts[call[r].target])
  <2>2. /\ n \in Nat
        /\ answer' = [answer EXCEPT ![r] =
                        [answer[r] EXCEPT !.status = 200, !.count = n]]
    BY <1>20, <2>1, LenProperties DEF ReadAnswer
  <2>3. [answer[r] EXCEPT !.status = 200, !.count = n] \in Answer
    BY <2>2, AnswerFields
  <2>4. answer' \in [Reqs -> Answer]
    BY <2>2, <2>3
  <2>5. QED BY <1>20, <2>4 DEF ReadAnswer, Step, stores, Established, PCs
<1>21. QED
  BY <1>1, <1>2, <1>3, <1>4, <1>5, <1>6, <1>8, <1>9, <1>10, <1>11, <1>12, <1>13,
     <1>14, <1>15, <1>16, <1>17, <1>18, <1>19, <1>20 DEF Next, Handler

\* Every behaviour keeps every variable in the values the code can store.
THEOREM TypeCorrect == Spec => []TypeOK
BY TypeInit, TypeStep, PTL DEF Spec

-----------------------------------------------------------------------------
\* Mutual exclusion.

\* The requests outside get_db do not enter it, and those inside do not leave
\* it, except by taking and releasing the lock.
LEMMA LockSteps ==
    ASSUME TypeOK, NEW r \in Reqs, Arrive(r) \/ Refuse(r) \/ Handler(r),
           ~EnterDb(r), ~LeaveDb(r)
    PROVE  /\ dbLock' = dbLock
           /\ pc'[r] \in InDb <=> pc[r] \in InDb
           /\ \A q \in Reqs : q # r => pc'[q] = pc[q]
<1> USE DEF TypeOK
<1>1. CASE Arrive(r)
  BY <1>1 DEF Arrive, Step, InDb
<1>2. CASE Refuse(r)
  BY <1>2 DEF Refuse, Respond, Step, InDb
<1>3. CASE \/ InvalidBody(r) \/ CreateRefused(r) \/ CreateAccepted(r)
           \/ RecompileRefused(r) \/ RecompileAccepted(r) \/ CompileFails(r)
           \/ CommitGuardrail(r)
  BY <1>3 DEF InvalidBody, CreateRefused, CreateAccepted, RecompileRefused,
              RecompileAccepted, CompileFails, CommitGuardrail, Respond, Step, InDb
<1>4. CASE \/ CheckRefused(r) \/ Select(r) \/ Evaluate(r) \/ ProviderRaises(r)
           \/ Sign(r) \/ CommitEvent(r) \/ AppendReceipt(r)
  <2>1. CASE CheckRefused(r)
    BY <2>1 DEF CheckRefused, Respond, Step, InDb
  <2>2. CASE ProviderRaises(r)
    BY <2>2 DEF ProviderRaises, Respond, Step, InDb
  <2>3. CASE Select(r) \/ Evaluate(r) \/ Sign(r) \/ CommitEvent(r) \/ AppendReceipt(r)
    BY <2>3 DEF Select, Evaluate, Sign, CommitEvent, AppendReceipt, Step, InDb
  <2>4. QED BY <1>4, <2>1, <2>2, <2>3
<1>5. CASE \/ CommitFails(r) \/ RefreshFails(r) \/ WriteAudit(r)
  BY <1>5 DEF CommitFails, RefreshFails, WriteAudit, Respond, Step, InDb
<1>6. CASE \/ ReadRefused(r) \/ ReadNext(r) \/ ReadEnds(r) \/ ReadAnswer(r)
  BY <1>6 DEF ReadRefused, ReadNext, ReadEnds, ReadAnswer, Respond, Step, InDb
<1>7. QED BY <1>1, <1>2, <1>3, <1>4, <1>5, <1>6 DEF Handler

LEMMA MutualExclusionStep ==
    TypeOK /\ MutualExclusion /\ [Next]_vars => MutualExclusion'
<1> SUFFICES ASSUME TypeOK, MutualExclusion, [Next]_vars PROVE MutualExclusion'
  OBVIOUS
<1>1. CASE UNCHANGED vars
  BY <1>1 DEF vars, MutualExclusion
<1>2. CASE Tick
  BY <1>2 DEF Tick, MutualExclusion
<1>3. ASSUME NEW r \in Reqs, EnterDb(r) PROVE MutualExclusion'
  BY <1>3, NoneAssumption DEF EnterDb, Step, InDb, MutualExclusion, TypeOK
<1>4. ASSUME NEW r \in Reqs, LeaveDb(r) PROVE MutualExclusion'
  BY <1>4, NoneAssumption DEF LeaveDb, Step, InDb, MutualExclusion, TypeOK
<1>5. ASSUME NEW r \in Reqs, Arrive(r) \/ Refuse(r) \/ Handler(r),
             ~EnterDb(r), ~LeaveDb(r)
      PROVE  MutualExclusion'
  BY <1>5, LockSteps DEF MutualExclusion
<1>6. QED BY <1>1, <1>2, <1>3, <1>4, <1>5 DEF Next

\* At most one request is inside get_db, the holder of _db_lock.
THEOREM DatabaseSectionExclusive == Spec => []MutualExclusion
<1>1. Init => MutualExclusion
  BY NoneAssumption DEF Init, MutualExclusion, InDb
<1>2. QED BY <1>1, MutualExclusionStep, TypeCorrect, PTL DEF Spec

-----------------------------------------------------------------------------
\* The chain of receipts.

\* What the provider of a check was built with, between reading the tip and
\* appending the receipt.
Chaining == {"evaluate", "sign", "commit", "append"}

\* A step of r leaves the tip that any other request holds, and that r itself
\* holds, unless r reads it in this very step.
LEMMA HeldTips ==
    ASSUME TypeOK, NEW r \in Reqs, Arrive(r) \/ Refuse(r) \/ Handler(r), ~Select(r),
           NEW q \in Reqs, pc'[q] \in Chaining
    PROVE  /\ pc[q] \in Chaining
           /\ local'[q].prev = local[q].prev
           /\ call'[q] = call[q]
           /\ AppendReceipt(r) => q # r
<1> USE DEF TypeOK, Chaining
<1>1. CASE Arrive(r)
  BY <1>1 DEF Arrive, Step
<1>2. CASE Refuse(r)
  BY <1>2 DEF Refuse, Respond, Step, InDb
<1>3. CASE \/ EnterDb(r) \/ LeaveDb(r) \/ InvalidBody(r) \/ CreateRefused(r)
           \/ CreateAccepted(r) \/ RecompileRefused(r) \/ CompileFails(r)
           \/ CommitGuardrail(r)
  BY <1>3 DEF EnterDb, LeaveDb, InvalidBody, CreateRefused, CreateAccepted,
              RecompileRefused, CompileFails, CommitGuardrail, Respond, Step, InDb
<1>4. CASE RecompileAccepted(r)
  BY <1>4 DEF RecompileAccepted, Step
<1>5. CASE Evaluate(r)
  <2>1. PICK d \in Decisions :
          local' = [local EXCEPT ![r] = [local[r] EXCEPT !.decision = d]]
    BY <1>5 DEF Evaluate
  <2>2. local'[q].prev = local[q].prev
    BY <2>1 DEF Local
  <2>3. QED BY <1>5, <2>2 DEF Evaluate, AppendReceipt, Step
<1>6. CASE \/ CheckRefused(r) \/ ProviderRaises(r) \/ Sign(r) \/ CommitEvent(r)
           \/ AppendReceipt(r)
  BY <1>6 DEF CheckRefused, ProviderRaises, Sign, CommitEvent, AppendReceipt,
              Respond, Step, InDb
<1>7. CASE \/ CommitFails(r) \/ RefreshFails(r) \/ WriteAudit(r)
  BY <1>7 DEF CommitFails, RefreshFails, WriteAudit, Respond, Step, InDb
<1>8. CASE \/ ReadRefused(r) \/ ReadNext(r) \/ ReadEnds(r) \/ ReadAnswer(r)
  BY <1>8 DEF ReadRefused, ReadNext, ReadEnds, ReadAnswer, Respond, Step, InDb
<1>9. QED BY <1>1, <1>2, <1>3, <1>4, <1>5, <1>6, <1>7, <1>8 DEF Handler

\* Only AppendReceipt changes the chains.
LEMMA ChainsKept ==
    ASSUME NEW r \in Reqs, Arrive(r) \/ Refuse(r) \/ Handler(r), ~AppendReceipt(r)
    PROVE  receipts' = receipts
BY DEF Arrive, Refuse, Handler, EnterDb, LeaveDb, InvalidBody, CreateRefused,
       CreateAccepted, RecompileRefused, RecompileAccepted, CompileFails,
       CommitGuardrail, CheckRefused, Select, Evaluate, ProviderRaises, Sign,
       CommitEvent, CommitFails, RefreshFails, WriteAudit, ReadRefused, ReadNext,
       ReadEnds, ReadAnswer, stores

LEMMA TipHeldStep ==
    TypeOK /\ MutualExclusion /\ TipHeld /\ [Next]_vars => TipHeld'
<1> SUFFICES ASSUME TypeOK, MutualExclusion, TipHeld, [Next]_vars,
                    NEW q \in Reqs, pc'[q] \in Chaining
             PROVE  local'[q].prev = Tip(receipts'[call'[q].target])
  BY DEF TipHeld, Tip, Chaining
<1>1. CASE UNCHANGED vars
  BY <1>1 DEF vars, TipHeld, Chaining
<1>2. CASE Tick
  BY <1>2 DEF Tick, stores, TipHeld, Chaining
<1>3. ASSUME NEW r \in Reqs, Select(r)
      PROVE  local'[q].prev = Tip(receipts'[call'[q].target])
  <2>1. CASE q = r
    <3>1. PICK g \in Reqs :
            local' = [local EXCEPT ![r] =
                       [local[r] EXCEPT !.guardrail = g,
                                        !.policy = rows[g].compiled,
                                        !.prev = Tip(receipts[call[r].target])]]
      BY <1>3 DEF Select, Latest, Candidates, TypeOK
    <3>2. local'[r].prev = Tip(receipts[call[r].target])
      BY <3>1 DEF TypeOK, Local
    <3>3. QED BY <1>3, <2>1, <3>2 DEF Select, stores
  <2>2. CASE q # r
    <3>1. pc[q] = pc'[q] /\ local'[q] = local[q] /\ UNCHANGED <<call, receipts>>
      BY <1>3, <2>2 DEF Select, Step, stores, TypeOK
    <3>2. QED BY <3>1 DEF TipHeld, Chaining
  <2>3. QED BY <2>1, <2>2
<1>4. ASSUME NEW r \in Reqs, Arrive(r) \/ Refuse(r) \/ Handler(r), ~Select(r)
      PROVE  local'[q].prev = Tip(receipts'[call'[q].target])
  <2>1. /\ pc[q] \in Chaining /\ call'[q] = call[q]
        /\ local'[q].prev = local[q].prev
        /\ AppendReceipt(r) => q # r
    BY <1>4, HeldTips
  \* The request that appends and q would both be inside get_db.
  <2>2. ~AppendReceipt(r)
    <3>1. q # r => ~(pc[q] \in InDb /\ pc[r] \in InDb)
      BY DEF MutualExclusion
    <3>2. AppendReceipt(r) => pc[r] \in InDb
      BY DEF AppendReceipt, Step, InDb
    <3>3. pc[q] \in InDb
      BY <2>1 DEF Chaining, InDb
    <3>4. QED BY <2>1, <3>1, <3>2, <3>3
  <2>3. receipts' = receipts
    BY <1>4, <2>2, ChainsKept
  <2>4. QED BY <2>1, <2>3 DEF TipHeld, Chaining
<1>5. QED BY <1>1, <1>2, <1>3, <1>4 DEF Next, Handler

LEMMA ChainIntegrityStep ==
    TypeOK /\ TipHeld /\ ChainIntegrity /\ [Next]_vars => ChainIntegrity'
<1> SUFFICES ASSUME TypeOK, TipHeld, ChainIntegrity, [Next]_vars
             PROVE  ChainIntegrity'
  OBVIOUS
<1>1. CASE UNCHANGED receipts
  BY <1>1 DEF ChainIntegrity
<1>2. ASSUME NEW r \in Reqs, AppendReceipt(r) PROVE ChainIntegrity'
  <2> DEFINE t == call[r].target
             c == receipts[t]
  <2>1. t \in Systems /\ c \in Seq(Receipt)
    BY <1>2, CallFields DEF AppendReceipt, Step, Established, TypeOK
  <2>2. Signed(r).prev = IF c = <<>> THEN None ELSE c[Len(c)].id
    BY <1>2 DEF TipHeld, AppendReceipt, Step, Signed, Tip
  <2>3. Signed(r) \in Receipt
    BY <1>2 DEF AppendReceipt, Step, Established, TypeOK, Signed, Receipt, Local
  <2>4. /\ receipts'[t] = Append(c, Signed(r))
        /\ \A s \in Systems : s # t => receipts'[s] = receipts[s]
    BY <1>2, <2>1 DEF AppendReceipt, TypeOK
  <2>5. \A i \in 1..Len(receipts'[t]) :
           receipts'[t][i].prev = IF i = 1 THEN None ELSE receipts'[t][i - 1].id
    <3> TAKE i \in 1..Len(receipts'[t])
    <3>1. /\ Len(c) \in Nat /\ Len(receipts'[t]) = Len(c) + 1
          /\ \A j \in 1..Len(c) : receipts'[t][j] = c[j]
          /\ receipts'[t][Len(c) + 1] = Signed(r)
      BY <2>1, <2>3, <2>4, AppendProperties, LenProperties
    <3>0. i \in Nat /\ 1 <= i /\ i <= Len(c) + 1
      BY <3>1
    <3>2. CASE i <= Len(c)
      <4>1. c[i].prev = IF i = 1 THEN None ELSE c[i - 1].id
        BY <2>1, <3>1, <3>2 DEF ChainIntegrity
      <4>2. i # 1 => i - 1 \in 1..Len(c)
        BY <3>0, <3>1, <3>2
      <4>3. receipts'[t][i] = c[i]
        BY <3>0, <3>1, <3>2
      <4>4. i # 1 => receipts'[t][i - 1] = c[i - 1]
        BY <3>1, <4>2
      <4>5. QED BY <4>1, <4>3, <4>4
    <3>3. CASE i = Len(c) + 1
      <4>1. i = 1 <=> c = <<>>
        BY <2>1, <3>1, <3>3, EmptySeq
      <4>2. i # 1 => i - 1 = Len(c) /\ i - 1 \in 1..Len(c)
        BY <3>1, <3>3
      <4>3. QED BY <2>2, <3>1, <3>3, <4>1, <4>2
    <3>4. i <= Len(c) \/ i = Len(c) + 1
      <4> DEFINE L == Len(c)
      <4>1. L \in Nat /\ i \in Nat /\ i <= L + 1
        BY <3>0, <3>1
      <4> HIDE DEF L
      <4>2. i <= L \/ i = L + 1
        BY <4>1
      <4>3. QED BY <4>2 DEF L
    <3>5. QED BY <3>2, <3>3, <3>4
  <2>6. ASSUME NEW s \in Systems, s # t
        PROVE  \A i \in 1..Len(receipts'[s]) :
                  receipts'[s][i].prev =
                      IF i = 1 THEN None ELSE receipts'[s][i - 1].id
    BY <2>4, <2>6 DEF ChainIntegrity
  <2>7. QED BY <2>5, <2>6 DEF ChainIntegrity
<1>3. QED BY <1>1, <1>2, ChainsKept DEF Next, Tick, vars, stores

\* The receipts of every system form one unforked hash chain.
THEOREM ChainsLinked == Spec => []ChainIntegrity
<1>1. Init => TipHeld /\ ChainIntegrity
  BY DEF Init, TipHeld, ChainIntegrity
<1>2. QED
  BY <1>1, TipHeldStep, ChainIntegrityStep, TypeCorrect, DatabaseSectionExclusive,
     PTL DEF Spec

\* The tip a check read stays the tip of its chain until it has appended.
THEOREM TipsHeld == Spec => []TipHeld
<1>1. Init => TipHeld
  BY DEF Init, TipHeld
<1>2. QED
  BY <1>1, TipHeldStep, TypeCorrect, DatabaseSectionExclusive, PTL DEF Spec
=============================================================================
