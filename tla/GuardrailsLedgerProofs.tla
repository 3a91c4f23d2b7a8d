------------------------ MODULE GuardrailsLedgerProofs ------------------------
(***************************************************************************)
(* The concurrent handlers of Guardrails implement GuardrailLedger, whose  *)
(* operations are atomic.  Every step maps to an operation of the ledger   *)
(* or to a stutter.  The commit of an event maps to Check: PendingChain    *)
(* and PendingAudit already count what the request that holds the lock     *)
(* still owes.  A guardrail maps the other way round: SettledRows leaves   *)
(* out the row until its audit entry is written, or db.refresh fails and   *)
(* there will be none, and that step maps to Create or Recompile.          *)
(***************************************************************************)
EXTENDS GuardrailsHistoryProofs

\* What the mapping adds and leaves out depends on the one request past its
\* commit.
PendingAs ==
    /\ (\A q \in Reqs : pc[q] # "append") => PendingChain = receipts
    /\ \A q \in Reqs : pc[q] = "append" =>
          PendingChain = [receipts EXCEPT ![call[q].target] = Append(@, Signed(q))]
    /\ \A q \in Reqs : pc[q] = "audit" => PendingChain = receipts
    /\ (\A q \in Reqs : pc[q] \notin {"append", "audit"}) => PendingAudit = audit
    /\ \A q \in Reqs : pc[q] \in {"append", "audit"} =>
          PendingAudit = IF call[q].kind = "check" THEN Append(audit, AuditEntry(q)) ELSE audit
    /\ (\A q \in Reqs : pc[q] # "audit") => SettledRows = rows
    /\ \A q \in Reqs : pc[q] = "audit" =>
          /\ call[q].kind = "check" => SettledRows = rows
          /\ call[q].kind = "create" => SettledRows = [g \in DOMAIN rows \ {q} |-> rows[g]]
          /\ call[q].kind = "recompile" =>
                SettledRows = [rows EXCEPT ![local[q].guardrail].compiled = local[q].policy]

LEMMA PendingCases == TypeOK /\ MutualExclusion => PendingAs
<1> SUFFICES ASSUME TypeOK, MutualExclusion PROVE PendingAs
  OBVIOUS
<1>1. receipts = [s \in Systems |-> receipts[s]]
  BY DEF TypeOK
<1>2. dbLock \in Reqs \cup {None} /\ None \notin Reqs
  BY NoneAssumption DEF TypeOK
<1>3. \A q \in Reqs : pc[q] \in {"append", "audit"} => dbLock = q /\ dbLock # None
  BY <1>2 DEF MutualExclusion, InDb
<1>4. ~(dbLock # None /\ pc[dbLock] = "append") => PendingChain = receipts
  BY <1>1 DEF PendingChain
<1>5. ~(dbLock # None /\ pc[dbLock] \in {"append", "audit"}) => PendingAudit = audit
  BY DEF PendingAudit
<1>6. ASSUME NEW q \in Reqs, pc[q] = "append"
      PROVE  PendingChain = [receipts EXCEPT ![call[q].target] = Append(@, Signed(q))]
  <2>1. dbLock = q /\ dbLock # None
    BY <1>3, <1>6
  <2>2. PendingChain = [s \in Systems |-> IF call[q].target = s
                                          THEN Append(receipts[s], Signed(q))
                                          ELSE receipts[s]]
    BY <1>6, <2>1 DEF PendingChain
  <2> QED  BY <2>2 DEF TypeOK
<1>7. \A q \in Reqs : pc[q] = "audit" => PendingChain = receipts
  BY <1>3, <1>4
<1>8. \A q \in Reqs : pc[q] \in {"append", "audit"} =>
          PendingAudit = IF call[q].kind = "check" THEN Append(audit, AuditEntry(q)) ELSE audit
  BY <1>3 DEF PendingAudit
<1>9. ~(dbLock # None /\ pc[dbLock] = "audit") => SettledRows = rows
  BY DEF SettledRows
<1>10. ASSUME NEW q \in Reqs, pc[q] = "audit"
       PROVE  /\ call[q].kind = "check" => SettledRows = rows
              /\ call[q].kind = "create" => SettledRows = [g \in DOMAIN rows \ {q} |-> rows[g]]
              /\ call[q].kind = "recompile" =>
                    SettledRows = [rows EXCEPT ![local[q].guardrail].compiled = local[q].policy]
  <2>1. dbLock = q /\ dbLock # None
    BY <1>3, <1>10
  <2> QED  BY <1>10, <2>1 DEF SettledRows
<1> QED  BY <1>2, <1>4, <1>5, <1>6, <1>7, <1>8, <1>9, <1>10 DEF PendingAs

LEMMA PendingCasesNext == TypeOK' /\ MutualExclusion' => PendingAs'
BY PendingCases, PTL

-----------------------------------------------------------------------------

\* The commit of a row is no step of the ledger: the row is left out.
LEMMA CommitSimulated ==
    ASSUME Bookkeeping, Bookkeeping', NEW r \in Reqs, RequestStep(r), CommitGuardrail(r)
    PROVE  UNCHANGED Ledger!vars
<1> USE DEF Bookkeeping
<1> DEFINE h == local[r].guardrail
<1>1. /\ pc[r] = "compile" /\ pc'[r] = "audit" /\ call[r].kind \in {"create", "recompile"}
      /\ rows' = IF call[r].kind = "create" THEN Insert(r) ELSE Update(r)
      /\ UNCHANGED <<call, local, events, receipts, audit>>
  BY CommitGuardrailEffect
<1>2. PendingAs /\ PendingAs' /\ \A q \in Reqs : pc[q] \notin {"append", "audit"}
  BY <1>1, PendingCases, PendingCasesNext DEF MutualExclusion, InDb
<1>3. /\ PendingChain = receipts /\ PendingAudit = audit /\ SettledRows = rows
      /\ PendingChain' = receipts /\ PendingAudit' = audit
  BY <1>1, <1>2 DEF PendingAs
<1>4. CASE call[r].kind = "create"
  <2>1. SettledRows' = [g \in DOMAIN rows' \ {r} |-> rows'[g]]
    BY <1>1, <1>2, <1>4 DEF PendingAs
  <2>2. r \notin DOMAIN rows
    BY <1>1 DEF Traces, Ended
  <2>3. DOMAIN rows' \ {r} = DOMAIN rows /\ \A g \in DOMAIN rows : rows'[g] = rows[g]
    BY <1>1, <1>4, <2>2 DEF Insert
  <2>4. rows = [g \in DOMAIN rows |-> rows[g]]
    BY DEF TypeOK
  <2>5. SettledRows' = rows
    BY <2>1, <2>3, <2>4
  <2> QED  BY <1>1, <1>3, <2>5 DEF Ledger!vars
<1>5. CASE call[r].kind = "recompile"
  <2>1. SettledRows' = [rows' EXCEPT ![h].compiled = local[r].policy]
    BY <1>1, <1>2, <1>5 DEF PendingAs
  <2>2. /\ h \in DOMAIN rows /\ rows[h].ids = call[r].ids /\ rows[h].compiled = local[r].policy
        /\ rows[h] \in Row /\ rows \in [DOMAIN rows -> Row]
    BY <1>1, <1>5 DEF Working, TypeOK
  <2> DEFINE x == [rows[h] EXCEPT !.compiled = r, !.ids = call[r].ids]
  <2>3. rows' = [rows EXCEPT ![h] = x]
    BY <1>1, <1>5 DEF Update
  <2>4. [x EXCEPT !.compiled = local[r].policy] = rows[h]
    BY <2>2 DEF Row
  <2> HIDE DEF x, h
  <2>5. SettledRows' = [rows EXCEPT ![h] = [x EXCEPT !.compiled = local[r].policy]]
    BY <2>1, <2>2, <2>3
  <2>6. SettledRows' = rows
    BY <2>2, <2>4, <2>5
  <2> QED  BY <1>1, <1>3, <2>6 DEF Ledger!vars
<1> QED  BY <1>1, <1>4, <1>5

\* A guardrail is created or recompiled when its handler has left the table
\* and the trail, with the entry or, if db.refresh failed, without it.
LEMMA GuardrailSimulated ==
    ASSUME Bookkeeping, Bookkeeping', NEW r \in Reqs, RequestStep(r),
           pc[r] = "audit", pc'[r] \notin {"append", "audit"},
           UNCHANGED <<call, local, rows, events, receipts>>,
           \/ audit' = Append(audit, AuditEntry(r))
           \/ "refresh" \in Faults /\ audit' = audit
    PROVE  /\ call[r].kind = "create" => Ledger!Create(r)
           /\ call[r].kind = "recompile" => Ledger!Recompile(r)
<1> USE DEF Bookkeeping
<1> DEFINE h == local[r].guardrail
<1>1. \A q \in Reqs : pc'[q] \notin {"append", "audit"}
  <2>1. \A q \in Reqs \ {r} : pc[q] \notin InDb /\ pc'[q] = pc[q]
    BY OthersKept DEF MutualExclusion, InDb
  <2> QED  BY <2>1 DEF InDb
<1>2. PendingAs /\ PendingAs'
  BY PendingCases, PendingCasesNext
<1>3. /\ PendingChain = receipts /\ PendingChain' = receipts
      /\ PendingAudit' = audit' /\ SettledRows' = rows
  BY <1>1, <1>2 DEF PendingAs
<1>4. call[r].kind \in {"create", "recompile"} => PendingAudit = audit
  BY <1>2 DEF PendingAs
<1>5. rows \in [DOMAIN rows -> Row]
  BY DEF TypeOK
<1>6. ASSUME call[r].kind = "create" PROVE Ledger!Create(r)
  <2>1. SettledRows = [g \in DOMAIN rows \ {r} |-> rows[g]]
    BY <1>2, <1>6 DEF PendingAs
  <2>2. /\ r \in DOMAIN rows /\ rows[r].compiled = r
        /\ rows[r].org = call[r].org /\ call[r].bodyOrg = call[r].org
    BY <1>6 DEF Working
  <2>3. /\ rows[r].org \in Orgs /\ rows[r].sys \in Systems
        /\ rows[r].ids \in SUBSET ObligationIds /\ rows[r].created \in 0..Horizon
        /\ rows[r] = [org |-> rows[r].org, sys |-> rows[r].sys, ids |-> rows[r].ids,
                      created |-> rows[r].created, compiled |-> r]
    BY <1>5, <2>2 DEF Row
  <2>4. rows = [x \in DOMAIN SettledRows \cup {r} |->
                  IF x = r THEN [org |-> rows[r].org, sys |-> rows[r].sys, ids |-> rows[r].ids,
                                 created |-> rows[r].created, compiled |-> r]
                           ELSE SettledRows[x]]
    <3>1. DOMAIN SettledRows \cup {r} = DOMAIN rows
      BY <2>1, <2>2
    <3>2. \A x \in DOMAIN rows : x # r => SettledRows[x] = rows[x]
      BY <2>1
    <3> QED  BY <1>5, <2>3, <3>1, <3>2
  <2>5. r \notin DOMAIN SettledRows
    BY <2>1
  <2>6. AuditEntry(r) = [action |-> "created", entity |-> r, org |-> rows[r].org,
                         before |-> None, after |-> r]
    BY <1>6, <2>2 DEF AuditEntry
  <2>7. Ledger!Report([action |-> "created", entity |-> r, org |-> rows[r].org,
                       before |-> None, after |-> r])
    BY <1>3, <1>4, <1>6, <2>6 DEF Ledger!Report
  <2> HIDE DEF Ledger!Report
  <2> QED  BY <1>3, <2>3, <2>4, <2>5, <2>7 DEF Ledger!Create
<1>7. ASSUME call[r].kind = "recompile" PROVE Ledger!Recompile(r)
  <2>1. SettledRows = [rows EXCEPT ![h].compiled = local[r].policy]
    BY <1>2, <1>7 DEF PendingAs
  <2>2. h \in DOMAIN rows /\ rows[h].compiled = r /\ rows[h].org = call[r].org
    BY <1>7 DEF Working
  <2> DEFINE x == [rows[h] EXCEPT !.compiled = local[r].policy]
  <2>3. /\ x.org = call[r].org /\ x.compiled = local[r].policy
        /\ [x EXCEPT !.compiled = r] = rows[h]
    BY <1>5, <2>2 DEF Row
  <2>4. SettledRows = [rows EXCEPT ![h] = x]
    BY <2>1
  <2> HIDE DEF x, h
  <2>5. h \in DOMAIN SettledRows /\ SettledRows[h] = x
    BY <1>5, <2>2, <2>4
  <2>6. rows = [SettledRows EXCEPT ![h].compiled = r]
    <3>1. [SettledRows EXCEPT ![h].compiled = r] = [SettledRows EXCEPT ![h] = rows[h]]
      BY <2>3, <2>5
    <3> QED  BY <1>5, <2>2, <2>4, <3>1
  <2>7. AuditEntry(r) = [action |-> "recompiled", entity |-> h, org |-> SettledRows[h].org,
                         before |-> SettledRows[h].compiled, after |-> r]
    BY <1>7, <2>2, <2>3, <2>5 DEF AuditEntry, h
  <2> QED  BY <1>3, <1>4, <1>7, <2>5, <2>6, <2>7 DEF Ledger!Recompile, Ledger!Report
<1> QED  BY <1>6, <1>7

\* A check happens when its event is committed; its receipt will name the tip.
LEMMA CheckSimulated ==
    ASSUME Bookkeeping, Bookkeeping', TipHeld, NEW r \in Reqs, RequestStep(r),
           CommitEvent(r)
    PROVE  Ledger!Check(r)
<1> USE DEF Bookkeeping
<1> DEFINE g == local[r].guardrail
           d == local[r].decision
           t == call[r].target
<1>1. /\ pc[r] = "commit" /\ pc'[r] = "append" /\ call[r].kind = "check" /\ t \in Systems
      /\ events' = Append(events, EventRow(r))
      /\ UNCHANGED <<call, local, rows, receipts, audit>>
  BY CommitEventEffect
<1>2. /\ g \in DOMAIN rows /\ rows[g].sys = t /\ rows[g].org = call[r].org
      /\ rows[g].compiled = local[r].policy /\ d \in Decisions
  BY <1>1 DEF Working, Chaining, Latest, Candidates, TypeOK, Established
<1>3. \A i \in 1..Len(events) : events[i].id # r
  BY <1>1 DEF Traces, EventDue, Ended, Succeeded, HasEvent
<1>4. local[r].prev = Tip(receipts[t])
  BY <1>1 DEF TipHeld
<1>5. PendingAs /\ PendingAs' /\ \A q \in Reqs : pc[q] \notin {"append", "audit"}
  BY <1>1, PendingCases, PendingCasesNext DEF MutualExclusion, InDb
<1>6. /\ PendingChain = receipts /\ PendingAudit = audit
      /\ SettledRows = rows /\ SettledRows' = rows
  <2>1. \A q \in Reqs : pc'[q] # "audit"
    BY <1>1, <1>5, OthersKept
  <2> QED  BY <1>1, <1>5, <2>1 DEF PendingAs
<1>7. PendingChain' = [receipts EXCEPT ![t] = Ledger!Linked(receipts[t], r, d)]
  <2>1. PendingChain' = [receipts' EXCEPT ![call'[r].target] =
                            Append(receipts'[call'[r].target], Signed(r)')]
    BY <1>1, <1>5 DEF PendingAs
  <2>2. Signed(r)' = [id |-> r, prev |-> Ledger!Tip(receipts[t]), decision |-> d]
    BY <1>1, <1>4 DEF Signed, Tip, Ledger!Tip
  <2> QED  BY <1>1, <2>1, <2>2 DEF Ledger!Linked
<1>8. PendingAudit' = Append(audit, [action |-> "checked", entity |-> r,
                                     org |-> rows[g].org, before |-> None, after |-> d])
  <2>1. PendingAudit' = Append(audit', AuditEntry(r)')
    BY <1>1, <1>5 DEF PendingAs
  <2> QED  BY <1>1, <1>2, <2>1 DEF AuditEntry
<1>9. EventRow(r) = [id |-> r, guardrail |-> g, policy |-> rows[g].compiled,
                     org |-> rows[g].org, sys |-> rows[g].sys,
                     decision |-> d, receipt |-> r]
  BY <1>2 DEF EventRow
<1>10. d \in Ledger!Decisions
  BY <1>2 DEF Decisions, Ledger!Decisions
<1> QED  BY <1>1, <1>2, <1>3, <1>6, <1>7, <1>8, <1>9, <1>10 DEF Ledger!Check

-----------------------------------------------------------------------------

\* The receipt and the audit entry were counted since the commit.
LEMMA AppendSimulated ==
    ASSUME Bookkeeping, Bookkeeping', NEW r \in Reqs, RequestStep(r), AppendReceipt(r)
    PROVE  UNCHANGED Ledger!vars
<1> USE DEF Bookkeeping
<1>1. /\ pc[r] = "append" /\ pc'[r] = "audit" /\ call[r].kind = "check"
      /\ UNCHANGED <<call, local, rows, events, audit>>
      /\ receipts' = [receipts EXCEPT ![call[r].target] = Append(@, Signed(r))]
  BY AppendReceiptEffect DEF AppendReceipt
<1>2. PendingAs /\ PendingAs'
  BY PendingCases, PendingCasesNext
<1>3. PendingChain' = receipts' /\ PendingChain = receipts'
  BY <1>1, <1>2 DEF PendingAs
<1>4. /\ PendingAudit = Append(audit, AuditEntry(r))
      /\ PendingAudit' = Append(audit', AuditEntry(r)')
  BY <1>1, <1>2 DEF PendingAs
<1>5. AuditEntry(r)' = AuditEntry(r)
  BY <1>1 DEF AuditEntry
<1>6. \A q \in Reqs : pc[q] # "audit"
  BY <1>1 DEF MutualExclusion, InDb
<1>7. SettledRows = rows /\ SettledRows' = rows
  BY <1>1, <1>2, <1>6 DEF PendingAs
<1> QED  BY <1>1, <1>3, <1>4, <1>5, <1>7 DEF Ledger!vars

LEMMA AuditSimulated ==
    ASSUME Bookkeeping, Bookkeeping', NEW r \in Reqs, RequestStep(r), WriteAudit(r),
           call[r].kind = "check"
    PROVE  UNCHANGED Ledger!vars
<1> USE DEF Bookkeeping
<1>1. /\ pc[r] = "audit" /\ pc'[r] = "release" /\ audit' = Append(audit, AuditEntry(r))
      /\ UNCHANGED <<rows, events, receipts>>
  BY WriteAuditEffect
<1>2. PendingAs /\ PendingAs'
  BY PendingCases, PendingCasesNext
<1>3. \A q \in Reqs : pc'[q] \notin {"append", "audit"}
  <2>1. \A q \in Reqs \ {r} : pc[q] \notin InDb /\ pc'[q] = pc[q]
    BY <1>1, OthersKept DEF MutualExclusion, InDb
  <2> QED  BY <1>1, <2>1 DEF InDb
<1>4. /\ PendingChain = receipts /\ PendingChain' = receipts'
      /\ PendingAudit = audit' /\ PendingAudit' = audit'
      /\ SettledRows = rows /\ SettledRows' = rows'
  BY <1>1, <1>2, <1>3 DEF PendingAs
<1> QED  BY <1>1, <1>4 DEF Ledger!vars

\* No other step brings a request past its commit or takes it out of there.
LEMMA OtherSimulated ==
    ASSUME Bookkeeping, Bookkeeping', NEW r \in Reqs, RequestStep(r),
           ~CommitGuardrail(r), ~CommitEvent(r), ~AppendReceipt(r), pc[r] # "audit"
    PROVE  UNCHANGED Ledger!vars
<1> USE DEF Bookkeeping
<1>1. UNCHANGED <<rows, events, receipts, audit>>
  <2>1. ~WriteAudit(r)
    BY DEF WriteAudit
  <2> QED  BY <2>1, StoresKept
<1>2. /\ pc[r] \notin {"append", "audit"} /\ pc'[r] \notin {"append", "audit"}
  BY AppendNext, AppendLeft, AuditNext
<1>3. \A q \in Reqs \ {r} : pc'[q] = pc[q] /\ call'[q] = call[q] /\ local'[q] = local[q]
  BY OthersKept
<1>4. PendingAs /\ PendingAs'
  BY PendingCases, PendingCasesNext
<1>5. CASE \E q \in Reqs : pc[q] \in {"append", "audit"}
  <2>1. PICK q \in Reqs : pc[q] \in {"append", "audit"}
    BY <1>5
  <2>2. /\ pc'[q] = pc[q] /\ call'[q] = call[q] /\ local'[q] = local[q]
        /\ Signed(q)' = Signed(q) /\ AuditEntry(q)' = AuditEntry(q)
    BY <1>1, <1>2, <1>3, <2>1 DEF Signed, AuditEntry
  <2>3. PendingAudit' = PendingAudit
    <3>1. PendingAudit = IF call[q].kind = "check" THEN Append(audit, AuditEntry(q)) ELSE audit
      BY <1>4, <2>1 DEF PendingAs
    <3>2. PendingAudit' = IF call'[q].kind = "check" THEN Append(audit', AuditEntry(q)')
                                                     ELSE audit'
      BY <1>4, <2>1, <2>2 DEF PendingAs
    <3> QED  BY <1>1, <2>2, <3>1, <3>2
  <2>4. PendingChain' = PendingChain
    <3>1. CASE pc[q] = "audit"
      BY <1>1, <1>4, <2>2, <3>1 DEF PendingAs
    <3>2. CASE pc[q] = "append"
      <4>1. PendingChain = [receipts EXCEPT ![call[q].target] = Append(@, Signed(q))]
        BY <1>4, <3>2 DEF PendingAs
      <4>2. PendingChain' = [receipts' EXCEPT ![call'[q].target] = Append(@, Signed(q)')]
        BY <1>4, <2>2, <3>2 DEF PendingAs
      <4> QED  BY <1>1, <2>2, <4>1, <4>2
    <3> QED  BY <2>1, <3>1, <3>2
  <2>5. SettledRows' = SettledRows
    <3>1. CASE pc[q] = "audit"
      <4>1. call[q].kind \in {"create", "recompile", "check"}
        BY <3>1 DEF TypeOK, Established, DbKinds
      <4>2. CASE call[q].kind = "create"
        <5>1. SettledRows = [g \in DOMAIN rows \ {q} |-> rows[g]]
          BY <1>4, <3>1, <4>2 DEF PendingAs
        <5>2. SettledRows' = [g \in DOMAIN rows' \ {q} |-> rows'[g]]
          BY <1>4, <2>2, <3>1, <4>2 DEF PendingAs
        <5> QED  BY <1>1, <5>1, <5>2
      <4>3. CASE call[q].kind = "recompile"
        <5> DEFINE Old == [rows EXCEPT ![local[q].guardrail].compiled = local[q].policy]
        <5>1. SettledRows = Old
          BY <1>4, <3>1, <4>3 DEF PendingAs
        <5>2. SettledRows' = Old'
          BY <1>4, <2>2, <3>1, <4>3 DEF PendingAs
        <5>3. Old' = Old
          BY <1>1, <2>2
        <5> QED  BY <5>1, <5>2, <5>3
      <4>4. CASE call[q].kind = "check"
        BY <1>1, <1>4, <2>2, <3>1, <4>4 DEF PendingAs
      <4> QED  BY <4>1, <4>2, <4>3, <4>4
    <3>2. CASE pc[q] = "append"
      <4>1. \A p \in Reqs : pc[p] # "audit" /\ pc'[p] # "audit"
        BY <1>2, <1>3, <3>2 DEF MutualExclusion, InDb
      <4> QED  BY <1>1, <1>4, <4>1 DEF PendingAs
    <3> QED  BY <2>1, <3>1, <3>2
  <2> QED  BY <1>1, <2>3, <2>4, <2>5 DEF Ledger!vars
<1>6. CASE \A q \in Reqs : pc[q] \notin {"append", "audit"}
  <2>1. \A q \in Reqs : pc'[q] \notin {"append", "audit"}
    BY <1>2, <1>3, <1>6
  <2>2. /\ PendingAudit' = PendingAudit /\ PendingChain' = PendingChain
        /\ SettledRows' = SettledRows
    BY <1>1, <1>4, <1>6, <2>1 DEF PendingAs
  <2> QED  BY <1>1, <2>2 DEF Ledger!vars
<1> QED  BY <1>5, <1>6

\* Handlers that interleave keep the promises of the atomic ledger, which may
\* leave out the entry of a guardrail only where db.refresh may fail.
THEOREM LedgerImplemented == Spec => ImplementsLedger
<1>1. Init => Ledger!Init
  <2> SUFFICES ASSUME Init PROVE Ledger!Init
    OBVIOUS
  <2>1. /\ dbLock = None /\ rows = [g \in {} |-> None] /\ events = <<>>
        /\ receipts = [s \in Systems |-> <<>>] /\ audit = <<>>
    BY DEF Init
  <2>2. PendingChain = [s \in Systems |-> <<>>]
    BY <2>1 DEF PendingChain
  <2>3. PendingAudit = <<>> /\ SettledRows = rows
    BY <2>1 DEF PendingAudit, SettledRows
  <2> QED  BY <2>1, <2>2, <2>3 DEF Ledger!Init
<1>2. Bookkeeping /\ Bookkeeping' /\ TipHeld /\ [Next]_vars => [Ledger!Next]_(Ledger!vars)
  <2> SUFFICES ASSUME Bookkeeping, Bookkeeping', TipHeld, [Next]_vars
               PROVE  [Ledger!Next]_(Ledger!vars)
    OBVIOUS
  <2>1. CASE Tick \/ UNCHANGED vars
    <3>1. UNCHANGED <<pc, call, local, dbLock, rows, events, receipts, audit>>
      BY <2>1, IdleSteps
    <3> QED
      BY <3>1 DEF Ledger!vars, PendingChain, PendingAudit, SettledRows, Signed, AuditEntry
  <2>2. ASSUME NEW r \in Reqs, RequestStep(r)
        PROVE  [Ledger!Next]_(Ledger!vars)
    <3>1. CASE CommitEvent(r)
      <4>1. Ledger!Check(r)
        BY <2>2, <3>1, CheckSimulated
      <4> QED  BY <4>1 DEF Ledger!Next
    <3>2. CASE CommitGuardrail(r) \/ AppendReceipt(r)
      BY <2>2, <3>2, CommitSimulated, AppendSimulated
    <3>3. CASE pc[r] = "audit" /\ WriteAudit(r)
      <4>1. /\ pc'[r] = "release" /\ call[r].kind \in {"create", "recompile", "check"}
            /\ audit' = Append(audit, AuditEntry(r))
            /\ UNCHANGED <<call, local, rows, events, receipts>>
        BY <3>3, WriteAuditEffect DEF Bookkeeping, DbKinds
      <4>2. CASE call[r].kind = "check"
        BY <2>2, <3>3, <4>2, AuditSimulated
      <4>3. CASE call[r].kind # "check"
        <5>1. Ledger!Create(r) \/ Ledger!Recompile(r)
          BY <2>2, <3>3, <4>1, <4>3, GuardrailSimulated
        <5> QED  BY <5>1 DEF Ledger!Next
      <4> QED  BY <4>2, <4>3
    <3>4. CASE pc[r] = "audit" /\ Failing(r)
      <4>1. /\ pc'[r] \in {"release", "done"} /\ "refresh" \in Faults /\ call[r].kind # "check"
            /\ UNCHANGED <<call, local, rows, events, receipts, audit>>
        BY <3>4, FailingEffect DEF Bookkeeping, stores
      <4>2. call[r].kind \in {"create", "recompile"}
        BY <3>4, <4>1 DEF Bookkeeping, TypeOK, Established, DbKinds
      <4>3. Ledger!Create(r) \/ Ledger!Recompile(r)
        BY <2>2, <3>4, <4>1, <4>2, GuardrailSimulated
      <4> QED  BY <4>3 DEF Ledger!Next
    <3>5. CASE pc[r] # "audit" /\ ~(CommitGuardrail(r) \/ CommitEvent(r) \/ AppendReceipt(r))
      BY <2>2, <3>5, OtherSimulated
    <3>6. pc[r] = "audit" => WriteAudit(r) \/ Failing(r)
      BY <2>2, AuditLeft DEF Bookkeeping
    <3> QED  BY <3>1, <3>2, <3>3, <3>4, <3>5, <3>6
  <2> QED  BY <2>1, <2>2 DEF Next, RequestStep
<1> QED
  BY <1>1, <1>2, BookkeepingKept, TipsHeld, PTL DEF Spec, ImplementsLedger, Ledger!Spec
=============================================================================
