----------------------------- MODULE Guardrails -----------------------------
(***************************************************************************)
(* The request handlers of api/guardrails.py and the state they share: the *)
(* guardrail and event tables behind one SQLite connection and its lock,   *)
(* the in-process receipt chains and the audit trail.                      *)
(*                                                                         *)
(* Every HTTP request is a process with a program counter.  FastAPI runs   *)
(* the synchronous handlers on a pool of threads, so requests interleave   *)
(* at every step; get_db holds _db_lock from before the handler runs until *)
(* after its answer is ready, and the two read endpoints take no lock.     *)
(*                                                                         *)
(* A fresh uuid (guardrail, event, receipt) is the request that drew it; a *)
(* receipt's hash covers its id, so the id also stands for the hash.  A    *)
(* policy text is the request that compiled it.  The limiter, the OPA      *)
(* client and the derivation engine are modules of their own; here they    *)
(* answer with any outcome they can produce.                               *)
(***************************************************************************)
EXTENDS Naturals, Sequences

CONSTANTS Reqs,            \* the requests the clients send
          Orgs, Systems, ObligationIds,
          Owner,           \* the registry: system -> its organization or None
          Horizon,         \* bound on the wall clock, in seconds
          Faults,          \* which database calls may raise
          None

ASSUME OwnerAssumption == Owner \in [Systems -> Orgs \cup {None}]
ASSUME HorizonAssumption == Horizon \in Nat
ASSUME FaultsAssumption == Faults \subseteq {"commit", "refresh"}
ASSUME NoneAssumption == None \notin Reqs \cup Orgs \cup Systems
ASSUME TargetAssumption == Reqs \cap Systems = {}

VARIABLES pc, call,        \* each request's step, and what it asks for
          local,           \* the local variables of each handler
          answer,          \* the response of each request
          dbLock,          \* the request that holds _db_lock, or None
          clock,           \* the database's CURRENT_TIMESTAMP
          rows, events,    \* tables ai_policy_guardrails, ai_guardrail_events
          receipts,        \* receipt_store
          audit            \* AuditService.entries

vars == <<pc, call, local, answer, dbLock, clock, rows, events, receipts, audit>>
stores == <<rows, events, receipts, audit>>

-----------------------------------------------------------------------------

DbKinds   == {"create", "recompile", "check"}
ReadKinds == {"chain", "verify"}
Decisions == {"allow", "deny"}

\* What a request asks: the endpoint, the caller's organization, the id in
\* the path, and the organization and obligation ids of the body, where the
\* endpoint has one.
Calls ==
    {c \in [kind : DbKinds \cup ReadKinds, org : Orgs,
            target : Systems \cup Reqs,
            bodyOrg : Orgs, ids : SUBSET ObligationIds] :
        /\ c.target \in (IF c.kind = "recompile" THEN Reqs ELSE Systems)
        /\ c.kind # "create" => c.bodyOrg = c.org
        /\ c.kind \notin {"create", "recompile"} => c.ids = {}}

\* compiled and policy name a policy text.  An event has no column for the
\* text it was decided by; policy is kept here to relate the two.
Row     == [org : Orgs, sys : Systems, ids : SUBSET ObligationIds,
            created : 0..Horizon, compiled : Reqs]
Receipt == [id : Reqs, prev : Reqs \cup {None}, decision : Decisions]
Event   == [id : Reqs, guardrail : Reqs, policy : Reqs, org : Orgs,
            sys : Systems, decision : Decisions, receipt : Reqs]
Entry   == [action : {"created", "recompiled", "checked"}, entity : Reqs,
            org : Orgs, before : Reqs \cup {None}, after : Reqs \cup Decisions]

\* guardrail, policy: the row a handler works on and the policy text it read
\* from it; prev: the tip it chains to; acked (no variable of the code): the
\* checks that had been answered when a reader arrived.
Local   == [guardrail : Reqs \cup {None}, policy : Reqs \cup {None},
            prev : Reqs \cup {None}, decision : Decisions \cup {None},
            acked : SUBSET Reqs]
Statuses == {200, 201, 400, 401, 403, 404, 422, 429, 500}

\* status: 0 before the response; seen: the receipts a reader has gone
\* through; passed, count: the fields of a ChainVerificationResult.
Answer  == [status : Statuses \cup {0},
            seen : Seq(Receipt), passed : BOOLEAN, count : Nat]

PCs == {"idle", "lock", "handle", "compile", "evaluate", "sign", "commit",
        "append", "audit", "release", "read", "count", "done"}
\* The steps taken between entering and leaving get_db.
InDb == {"handle", "compile", "evaluate", "sign", "commit", "append",
         "audit", "release"}

Init ==
    /\ pc = [r \in Reqs |-> "idle"]
    /\ call = [r \in Reqs |-> None]
    /\ local = [r \in Reqs |-> [guardrail |-> None, policy |-> None,
                                prev |-> None, decision |-> None, acked |-> {}]]
    /\ answer = [r \in Reqs |-> [status |-> 0, seen |-> <<>>,
                                 passed |-> TRUE, count |-> 0]]
    /\ dbLock = None
    /\ clock = 0
    /\ rows = [g \in {} |-> None]
    /\ events = <<>>
    /\ receipts = [s \in Systems |-> <<>>]
    /\ audit = <<>>

-----------------------------------------------------------------------------

Step(r, from, to) ==
    /\ pc[r] = from
    /\ pc' = [pc EXCEPT ![r] = to]

\* The handler of an endpoint starts.
Handling(r, kind) == pc[r] = "handle" /\ call[r].kind = kind

\* The handler returns or raises; a request in get_db must still leave it.
Respond(r, from, status) ==
    /\ Step(r, from, IF from \in InDb THEN "release" ELSE "done")
    /\ answer' = [answer EXCEPT ![r].status = status]

\* Checks of system s whose caller already has the answer.
Acked(s) ==
    {q \in Reqs : /\ pc[q] \in {"release", "done"}
                  /\ answer[q].status = 200
                  /\ call[q].kind = "check"
                  /\ call[q].target = s}

\* A request passes require_permission and, for a check, the rate limiter.
Arrive(r) ==
    \E c \in Calls :
        /\ Step(r, "idle", IF c.kind \in DbKinds THEN "lock" ELSE "read")
        /\ call' = [call EXCEPT ![r] = c]
        /\ local' = IF c.kind \in ReadKinds
                    THEN [local EXCEPT ![r].acked = Acked(c.target)]
                    ELSE local
        /\ UNCHANGED <<answer, dbLock, clock, stores>>

\* A blank role, an empty bucket for a check, or a reader without its headers:
\* refused before any work, so what was asked plays no part.
Refuse(r) ==
    /\ \E status \in {401, 422, 429} : Respond(r, "idle", status)
    /\ UNCHANGED <<call, local, dbLock, clock, stores>>

\* Mutant: get_db without the lock.
EnterDbUnlocked(r) ==
    /\ Step(r, "lock", "handle")
    /\ dbLock' = r
    /\ UNCHANGED <<call, local, answer, clock, stores>>

\* The dependency get_db: a thread blocks until the lock is free.
EnterDb(r) ==
    /\ Step(r, "lock", "handle")
    /\ dbLock = None
    /\ dbLock' = r
    /\ UNCHANGED <<call, local, answer, clock, stores>>

\* Mutant: the lock is not released when the handler raised.
LeaveDbNoFinally(r) ==
    /\ Step(r, "release", "done")
    /\ dbLock' = IF answer[r].status >= 400 THEN dbLock ELSE None
    /\ UNCHANGED <<call, local, answer, clock, stores>>

\* The finally of get_db, after the answer or the exception.
LeaveDb(r) ==
    /\ Step(r, "release", "done")
    /\ dbLock' = None
    /\ UNCHANGED <<call, local, answer, clock, stores>>

\* FastAPI reports a bad body or missing headers once it has solved all the
\* dependencies, get_db among them.
InvalidBody(r) ==
    /\ Respond(r, "handle", 422)
    /\ UNCHANGED <<call, local, dbLock, clock, stores>>

-----------------------------------------------------------------------------
\* create_guardrail and compile_rego.

CreateRefused(r) ==
    /\ Handling(r, "create")
    /\ \/ /\ call[r].bodyOrg # call[r].org
          /\ Respond(r, "handle", 403)
       \/ /\ call[r].bodyOrg = call[r].org
          /\ Owner[call[r].target] # call[r].org
          /\ Respond(r, "handle", 404)
    /\ UNCHANGED <<call, local, dbLock, clock, stores>>

CreateAccepted(r) ==
    /\ Handling(r, "create")
    /\ call[r].bodyOrg = call[r].org
    /\ Owner[call[r].target] = call[r].org
    /\ Step(r, "handle", "compile")
    /\ UNCHANGED <<call, local, answer, dbLock, clock, stores>>

\* Mutant: any guardrail that exists.
AnyGuardrail(r, g) == g \in DOMAIN rows

\* The guardrail that the caller names is one of its own organization's.
OwnGuardrail(r, g) == g \in DOMAIN rows /\ rows[g].org = call[r].org

\* Mutant: a recompilation may drop obligations.
FewerObligations(r, g) == call[r].ids \subseteq rows[g].ids

\* The submitted obligations are the ones the guardrail was derived from.
SameObligations(r, g) == rows[g].ids = call[r].ids

RecompileRefused(r) ==
    LET g == call[r].target IN
    /\ Handling(r, "recompile")
    /\ \/ /\ ~OwnGuardrail(r, g)
          /\ Respond(r, "handle", 404)
       \/ /\ OwnGuardrail(r, g)
          /\ ~SameObligations(r, g)
          /\ Respond(r, "handle", 400)
    /\ UNCHANGED <<call, local, dbLock, clock, stores>>

\* The row is loaded here; the "before" of the audit entry is taken from it.
RecompileAccepted(r) ==
    LET g == call[r].target IN
    /\ Handling(r, "recompile")
    /\ OwnGuardrail(r, g)
    /\ SameObligations(r, g)
    /\ Step(r, "handle", "compile")
    /\ local' = [local EXCEPT ![r].guardrail = g,
                              ![r].policy = rows[g].compiled]
    /\ UNCHANGED <<call, answer, dbLock, clock, stores>>

\* derive_and_compile raises: ValueError for Rego that OPA rejects, anything
\* else for a missing or failing opa binary.
CompileFails(r) ==
    /\ \E status \in {422, 500} : Respond(r, "compile", status)
    /\ UNCHANGED <<call, local, dbLock, clock, stores>>

Insert(r) ==
    [g \in DOMAIN rows \cup {r} |->
        IF g = r THEN [org |-> call[r].bodyOrg, sys |-> call[r].target,
                       ids |-> call[r].ids, created |-> clock, compiled |-> r]
                 ELSE rows[g]]

\* The columns that compile_rego assigns: the text, and the ids found in the
\* new specification, which are those of the submitted obligations.
Update(r) ==
    [rows EXCEPT ![local[r].guardrail].compiled = r,
                 ![local[r].guardrail].ids = call[r].ids]

CommitGuardrail(r) ==
    /\ Step(r, "compile", "audit")
    /\ rows' = IF call[r].kind = "create" THEN Insert(r) ELSE Update(r)
    /\ UNCHANGED <<call, local, answer, dbLock, clock, events, receipts, audit>>

-----------------------------------------------------------------------------
\* check_action.

Candidates(r) ==
    {g \in DOMAIN rows : /\ rows[g].sys = call[r].target
                         /\ rows[g].org = call[r].org}

\* Mutant: no ORDER BY.
LatestUnordered(r) == Candidates(r)

\* ORDER BY created_at DESC, first row: rows of one second come in any order.
Latest(r) ==
    {g \in Candidates(r) :
        \A h \in Candidates(r) : rows[h].created <= rows[g].created}

CheckRefused(r) ==
    /\ Handling(r, "check")
    /\ \/ Owner[call[r].target] # call[r].org
       \/ Candidates(r) = {}
    /\ Respond(r, "handle", 404)
    /\ UNCHANGED <<call, local, dbLock, clock, stores>>

\* Mutant: the tip is taken from the wrong end of the list.
TipAtFront(s) == IF s = <<>> THEN None ELSE s[1].id

\* The hash a new receipt has to name.
Tip(s) == IF s = <<>> THEN None ELSE s[Len(s)].id

\* The row, its policy text and the tip of the chain are read, and a provider
\* is built with them.
Select(r) ==
    /\ Handling(r, "check")
    /\ Owner[call[r].target] = call[r].org
    /\ Step(r, "handle", "evaluate")
    /\ \E g \in Latest(r) :
          local' = [local EXCEPT ![r].guardrail = g,
                                 ![r].policy = rows[g].compiled,
                                 ![r].prev = Tip(receipts[call[r].target])]
    /\ UNCHANGED <<call, answer, dbLock, clock, stores>>

\* OPA answers, or the client fails closed, which is a denial.
Evaluate(r) ==
    /\ Step(r, "evaluate", "sign")
    /\ \E d \in Decisions : local' = [local EXCEPT ![r].decision = d]
    /\ UNCHANGED <<call, answer, dbLock, clock, stores>>

\* Mutant: an exception of the provider is swallowed and the check goes on.
ProviderErrorSwallowed(r) ==
    /\ Step(r, "evaluate", "commit")
    /\ UNCHANGED <<call, local, answer, dbLock, clock, stores>>

\* The envelope is rejected before OPA is asked, the timestamp when the
\* receipt is signed (ValueError, 400); the client or the signer may raise
\* something else (500).
ProviderRaises(r) ==
    /\ \E from \in {"evaluate", "sign"}, status \in {400, 500} :
           Respond(r, from, status)
    /\ UNCHANGED <<call, local, dbLock, clock, stores>>

Sign(r) ==
    /\ Step(r, "sign", "commit")
    /\ UNCHANGED <<call, local, answer, dbLock, clock, stores>>

\* The receipt of r, as the signer made it.
Signed(r) == [id |-> r, prev |-> local[r].prev, decision |-> local[r].decision]

\* The row that records r's decision.
EventRow(r) ==
    [id |-> r, guardrail |-> local[r].guardrail, policy |-> local[r].policy,
     org |-> call[r].org, sys |-> call[r].target,
     decision |-> local[r].decision, receipt |-> r]

\* Mutant: the database section ends with the commit.
CommitEventAndUnlock(r) ==
    /\ Step(r, "commit", "append")
    /\ events' = Append(events, EventRow(r))
    /\ dbLock' = None
    /\ UNCHANGED <<call, local, answer, clock, rows, receipts, audit>>

CommitEvent(r) ==
    /\ Step(r, "commit", "append")
    /\ events' = Append(events, EventRow(r))
    /\ UNCHANGED <<call, local, answer, dbLock, clock, rows, receipts, audit>>

\* Mutant: only allowed actions extend the chain.
AppendReceiptIfAllowed(r) ==
    /\ Step(r, "append", "audit")
    /\ receipts' = IF local[r].decision = "deny" THEN receipts
                   ELSE [receipts EXCEPT ![call[r].target] = Append(@, Signed(r))]
    /\ UNCHANGED <<call, local, answer, dbLock, clock, rows, events, audit>>

AppendReceipt(r) ==
    /\ Step(r, "append", "audit")
    /\ receipts' = [receipts EXCEPT ![call[r].target] = Append(@, Signed(r))]
    /\ UNCHANGED <<call, local, answer, dbLock, clock, rows, events, audit>>

-----------------------------------------------------------------------------
\* The end of the three writing handlers.

\* Mutant: the event survives the failure of its commit.
CommitFailsHalfway(r) ==
    /\ "commit" \in Faults
    /\ Respond(r, "commit", 500)
    /\ events' = Append(events, EventRow(r))
    /\ UNCHANGED <<call, local, dbLock, clock, rows, receipts, audit>>

\* db.commit raises: the session is closed without it.
CommitFails(r) ==
    /\ "commit" \in Faults
    /\ \E from \in {"compile", "commit"} : Respond(r, from, 500)
    /\ UNCHANGED <<call, local, dbLock, clock, stores>>

\* db.refresh raises after the commit of a guardrail.
RefreshFails(r) ==
    /\ "refresh" \in Faults
    /\ pc[r] = "audit"
    /\ call[r].kind \in {"create", "recompile"}
    /\ Respond(r, "audit", 500)
    /\ UNCHANGED <<call, local, dbLock, clock, stores>>

\* What r reports to the audit trail.
AuditEntry(r) ==
    CASE call[r].kind = "create" ->
            [action |-> "created", entity |-> r, org |-> call[r].bodyOrg,
             before |-> None, after |-> r]
      [] call[r].kind = "recompile" ->
            [action |-> "recompiled", entity |-> local[r].guardrail,
             org |-> rows[local[r].guardrail].org,
             before |-> local[r].policy, after |-> r]
      [] call[r].kind = "check" ->
            [action |-> "checked", entity |-> r, org |-> call[r].org,
             before |-> None, after |-> local[r].decision]

\* Mutant: checks are not audited.
WriteAuditOfChanges(r) ==
    /\ pc[r] = "audit"
    /\ Respond(r, "audit", IF call[r].kind = "create" THEN 201 ELSE 200)
    /\ audit' = IF call[r].kind = "check" THEN audit
                ELSE Append(audit, AuditEntry(r))
    /\ UNCHANGED <<call, local, dbLock, clock, rows, events, receipts>>

WriteAudit(r) ==
    /\ pc[r] = "audit"
    /\ Respond(r, "audit", IF call[r].kind = "create" THEN 201 ELSE 200)
    /\ audit' = Append(audit, AuditEntry(r))
    /\ UNCHANGED <<call, local, dbLock, clock, rows, events, receipts>>

-----------------------------------------------------------------------------
\* get_receipt_chain and verify_chain_endpoint iterate over the live list
\* while checks append to it.

ReadRefused(r) ==
    /\ pc[r] = "read"
    /\ Owner[call[r].target] # call[r].org
    /\ Respond(r, "read", 404)
    /\ UNCHANGED <<call, local, dbLock, clock, stores>>

\* One iteration; verify_chain checks the link to the receipt before it (every
\* receipt in the store was signed by the service, so its signature is good).
ReadNext(r) ==
    LET list == receipts[call[r].target]
        i    == Len(answer[r].seen) + 1
        link == IF i = 1 THEN None ELSE list[i - 1].id
    IN
    /\ pc[r] = "read"
    /\ Owner[call[r].target] = call[r].org
    /\ i <= Len(list)
    /\ IF call[r].kind = "verify" /\ list[i].prev # link
       THEN /\ answer' = [answer EXCEPT ![r].passed = FALSE,
                                        ![r].count = i - 1,
                                        ![r].status = 200]
            /\ Step(r, "read", "done")
       ELSE /\ answer' = [answer EXCEPT ![r].seen = Append(@, list[i])]
            /\ UNCHANGED pc
    /\ UNCHANGED <<call, local, dbLock, clock, stores>>

\* Mutant: the iteration stops before the last receipt.
ReadEndsEarly(r) ==
    /\ pc[r] = "read"
    /\ Owner[call[r].target] = call[r].org
    /\ Len(answer[r].seen) + 1 >= Len(receipts[call[r].target])
    /\ Step(r, "read", "count")
    /\ UNCHANGED <<call, local, answer, dbLock, clock, stores>>

\* The iterator is exhausted.
ReadEnds(r) ==
    /\ pc[r] = "read"
    /\ Owner[call[r].target] = call[r].org
    /\ Len(answer[r].seen) >= Len(receipts[call[r].target])
    /\ Step(r, "read", "count")
    /\ UNCHANGED <<call, local, answer, dbLock, clock, stores>>

\* len(receipts) is evaluated again for the result; on a list that was empty
\* verify_chain has returned 0 at once.
ReadAnswer(r) ==
    /\ Step(r, "count", "done")
    /\ answer' = [answer EXCEPT ![r].status = 200,
                    ![r].count = IF answer[r].seen = <<>> THEN 0
                                 ELSE Len(receipts[call[r].target])]
    /\ UNCHANGED <<call, local, dbLock, clock, stores>>

-----------------------------------------------------------------------------

\* The wall clock moves, forwards or (when it is set) backwards.
Tick ==
    /\ \E t \in 0..Horizon : t # clock /\ clock' = t
    /\ UNCHANGED <<pc, call, local, answer, dbLock, stores>>

Handler(r) ==
    \/ EnterDb(r) \/ LeaveDb(r) \/ InvalidBody(r)
    \/ CreateRefused(r) \/ CreateAccepted(r)
    \/ RecompileRefused(r) \/ RecompileAccepted(r)
    \/ CompileFails(r) \/ CommitGuardrail(r)
    \/ CheckRefused(r) \/ Select(r) \/ Evaluate(r) \/ ProviderRaises(r)
    \/ Sign(r) \/ CommitEvent(r) \/ AppendReceipt(r)
    \/ CommitFails(r) \/ RefreshFails(r) \/ WriteAudit(r)
    \/ ReadRefused(r) \/ ReadNext(r) \/ ReadEnds(r) \/ ReadAnswer(r)

Next ==
    \/ Tick
    \/ \E r \in Reqs : Arrive(r) \/ Refuse(r) \/ Handler(r)

Spec == Init /\ [][Next]_vars

\* A thread that can run does run; nothing obliges a client to send.
FairSpec == Spec /\ \A r \in Reqs : WF_vars(Handler(r))
-----------------------------------------------------------------------------
\* Invariants.

\* What the handler of r has established when it reaches its step.
Established(r) ==
    /\ pc[r] \notin {"idle", "done"} => call[r] \in Calls
    /\ pc[r] \in {"lock", "handle", "audit"} => call[r].kind \in DbKinds
    /\ pc[r] \in {"read", "count"} => call[r].kind \in ReadKinds
    /\ pc[r] = "compile" => call[r].kind \in {"create", "recompile"}
    /\ pc[r] \in {"compile", "audit"} /\ call[r].kind = "recompile" =>
          local[r].guardrail \in DOMAIN rows
    /\ pc[r] \in {"evaluate", "sign", "commit", "append"} =>
          /\ call[r].kind = "check"
          /\ local[r].guardrail \in Reqs
          /\ local[r].policy \in Reqs
    /\ pc[r] \in {"sign", "commit", "append"} => local[r].decision \in Decisions
    /\ pc[r] = "audit" /\ call[r].kind = "check" => local[r].decision \in Decisions

\* Every variable holds a value the code can store in it, and every handler
\* has at each step the local values the step works with.
TypeOK ==
    /\ pc \in [Reqs -> PCs]
    /\ call \in [Reqs -> Calls \cup {None}]
    /\ local \in [Reqs -> Local]
    /\ answer \in [Reqs -> Answer]
    /\ \A r \in Reqs : Established(r)
    /\ dbLock \in Reqs \cup {None}
    /\ clock \in 0..Horizon
    /\ DOMAIN rows \subseteq Reqs
    /\ rows \in [DOMAIN rows -> Row]
    /\ events \in Seq(Event)
    /\ receipts \in [Systems -> Seq(Receipt)]
    /\ audit \in Seq(Entry)

\* At most one request is between entering and leaving get_db, and it is the
\* one that holds _db_lock (guardrails.py:296-302).
MutualExclusion == \A r \in Reqs : pc[r] \in InDb <=> dbLock = r

\* From reading the tip to appending its receipt, a check knows the tip: no
\* other request extends the chain in between (guardrails.py:480-538).
TipHeld ==
    \A r \in Reqs :
        pc[r] \in {"evaluate", "sign", "commit", "append"} =>
            local[r].prev = Tip(receipts[call[r].target])

\* The receipts of a system form one unforked chain: the first has no
\* predecessor and each later one names the hash of the one before it,
\* whatever concurrent checks, failures and denials occurred.
ChainIntegrity ==
    \A s \in Systems : \A i \in 1..Len(receipts[s]) :
        receipts[s][i].prev = IF i = 1 THEN None ELSE receipts[s][i - 1].id

HasEvent(r)   == \E i \in 1..Len(events) : events[i].id = r
HasReceipt(r) == \E s \in Systems : \E k \in 1..Len(receipts[s]) :
                     receipts[s][k].id = r
HasAudit(r)   == \E i \in 1..Len(audit) :
                     IF audit[i].action = "checked" THEN audit[i].entity = r
                                                    ELSE audit[i].after = r
HasPolicy(r)  == \E g \in DOMAIN rows : rows[g].compiled = r

\* Event i and receipt k of system s record the same check.
SameCheck(i, s, k) ==
    /\ events[i].sys = s
    /\ events[i].receipt = receipts[s][k].id
    /\ events[i].decision = receipts[s][k].decision

\* The event table and the receipt chain of a system tell the same story:
\* every receipt has an event and every event a receipt, with the same
\* decision and in the same order, except that the last event may still wait
\* for its receipt while its request is in the database section.
TrailsAgree ==
    /\ \A s \in Systems : \A k \in 1..Len(receipts[s]) :
          \E i \in 1..Len(events) : SameCheck(i, s, k)
    /\ \A i \in 1..Len(events) :
          \/ \E k \in 1..Len(receipts[events[i].sys]) :
                SameCheck(i, events[i].sys, k)
          \/ i = Len(events) /\ pc[events[i].receipt] = "append"
    /\ \A s \in Systems : \A i, j \in 1..Len(events) :
          \A k, l \in 1..Len(receipts[s]) :
             SameCheck(i, s, k) /\ SameCheck(j, s, l) => (i < j <=> k < l)
    /\ \A r \in Reqs : pc[r] = "append" =>
          /\ events # <<>> /\ events[Len(events)].receipt = r
          /\ ~HasReceipt(r)

\* The audit entries before entry i about the guardrail that entry i is about.
Earlier(i) == {j \in 1..(i - 1) : /\ audit[j].action # "checked"
                                 /\ audit[j].entity = audit[i].entity}

\* The requests that may have failed after their commit, in db.refresh: the
\* policy that such a request left has no audit entry (guardrails.py:362-365).
Unreported == {r \in Reqs : "refresh" \in Faults /\ answer[r].status = 500}

\* The entries of a guardrail in the audit trail are a history without gaps:
\* the first has no "before", and each later one quotes exactly the policy
\* that the entry before it left, so no recompilation overwrites one it has
\* not seen.  Only after a failing db.refresh an entry quotes a policy that
\* no entry before it left, and that is the policy of a request that failed.
TrailGapless ==
    \A i \in 1..Len(audit) : audit[i].action # "checked" =>
        \/ audit[i].before \in Unreported
        \/ Earlier(i) = {} /\ audit[i].before = None
        \/ \E j \in Earlier(i) : /\ \A k \in Earlier(i) : k <= j
                                 /\ audit[i].before = audit[j].after

\* A policy that checks may be decided by is in the audit trail, or else its
\* request is about to report it or has told its client that it failed.
PoliciesReported ==
    \A g \in DOMAIN rows :
        LET r == rows[g].compiled IN
        pc[r] # "audit" => HasAudit(r) \/ r \in Unreported

\* The audit trail tells the history of the policies that decide, except for
\* the policies of requests that failed after their commit.
AuditContinuity == TrailGapless /\ PoliciesReported

\* A request that was answered with success has left every trace it owes, a
\* check its event, receipt and audit entry; one that was refused or that
\* failed has left none (the policy of a request that ended in a 500 after its
\* commit, which needs a failing db.refresh, is the exception).
AllOrNothing ==
    \A r \in Reqs :
        /\ answer[r].status \in {200, 201} /\ call[r].kind \in DbKinds =>
              /\ HasAudit(r)
              /\ call[r].kind = "check" => HasEvent(r) /\ HasReceipt(r)
              /\ call[r].kind = "create" => r \in DOMAIN rows
        /\ answer[r].status >= 400 =>
              /\ ~HasEvent(r) /\ ~HasReceipt(r) /\ ~HasAudit(r)
              /\ HasPolicy(r) => r \in Unreported

\* Once a check of a system was decided by a guardrail created at time t, no
\* later check of it is decided by one created before t, even if the clock
\* was set back in between.
NeverRegresses ==
    \A i, j \in 1..Len(events) :
        i < j /\ events[i].sys = events[j].sys =>
            rows[events[i].guardrail].created <= rows[events[j].guardrail].created

\* A guardrail is of the organization that owns its system, and its policy was
\* compiled for a request of that organization.
PoliciesOfOwner ==
    \A g \in DOMAIN rows : /\ rows[g].org = Owner[rows[g].sys]
                           /\ rows[g].org = call[rows[g].compiled].org

\* An event, its system and its guardrail are of the organization that checked.
EventsOfOwner ==
    \A i \in 1..Len(events) :
        LET e == events[i] IN
        /\ e.org = Owner[e.sys]
        /\ e.org = call[e.id].org
        /\ rows[e.guardrail].org = e.org
        /\ rows[e.guardrail].sys = e.sys

\* An entry of the audit trail is filed under the organization that acted, and
\* that of the guardrail it is about.
EntriesOfOwner ==
    \A i \in 1..Len(audit) :
        LET a == audit[i] IN
        IF a.action = "checked"
        THEN a.org = call[a.entity].org
        ELSE a.org = rows[a.entity].org /\ a.org = call[a.after].org

\* A reader sees receipts of checks that its own organization made.
ReadersOfOwner ==
    \A r \in Reqs : \A i \in 1..Len(answer[r].seen) :
        call[answer[r].seen[i].id].org = call[r].org

\* Organizations are kept apart (guardrails.py:323-331, 389, 463-478, 563-565,
\* 577-579): whatever the requests ask for, no request of one organization
\* creates, recompiles, decides by, audits or reads what another one owns.
Isolation ==
    PoliciesOfOwner /\ EventsOfOwner /\ EntriesOfOwner /\ ReadersOfOwner

\* A reader that races with checks sees a prefix of the chain that holds all
\* the checks answered before it arrived, verification never fails, and the
\* verified_count it reports, which is taken after the loop and may include
\* receipts appended since, is no fewer than it saw and no more than there are
\* (receipt_chain.py:78-117).
ReadersSeePrefix ==
    \A r \in Reqs : pc[r] # "idle" /\ call[r] # None /\ call[r].kind \in ReadKinds =>
        LET list == receipts[call[r].target]
            seen == answer[r].seen
        IN
        /\ Len(seen) <= Len(list)
        /\ seen = SubSeq(list, 1, Len(seen))
        /\ answer[r].passed
        /\ answer[r].status = 200 =>
              /\ \A q \in local[r].acked : \E i \in 1..Len(seen) : seen[i].id = q
              /\ Len(seen) <= answer[r].count
              /\ answer[r].count <= Len(list)

\* Recompiling keeps what a guardrail is derived from: no step ever removes a
\* guardrail or changes its organization, system, obligation ids or creation
\* time (guardrails.py:392-407).
ProvenanceKept ==
    [][\A g \in DOMAIN rows :
          /\ g \in DOMAIN rows'
          /\ [rows'[g] EXCEPT !.compiled = None] = [rows[g] EXCEPT !.compiled = None]
      ]_vars

-----------------------------------------------------------------------------
\* Refinement: the concurrent handlers implement GuardrailLedger.  A check
\* takes effect when its event is committed, and the mapping adds what it still
\* owes; a guardrail takes effect when its handler has written the audit entry
\* or failed to, and the mapping leaves out the row until then.

PendingChain ==
    [s \in Systems |->
        IF /\ dbLock # None
           /\ pc[dbLock] = "append"
           /\ call[dbLock].target = s
        THEN Append(receipts[s], Signed(dbLock))
        ELSE receipts[s]]

PendingAudit ==
    IF /\ dbLock # None
       /\ pc[dbLock] \in {"append", "audit"}
       /\ call[dbLock].kind = "check"
    THEN Append(audit, AuditEntry(dbLock))
    ELSE audit

SettledRows ==
    IF dbLock = None \/ pc[dbLock] # "audit" THEN rows
    ELSE CASE call[dbLock].kind = "create" ->
                 [g \in DOMAIN rows \ {dbLock} |-> rows[g]]
           [] call[dbLock].kind = "recompile" ->
                 [rows EXCEPT ![local[dbLock].guardrail].compiled = local[dbLock].policy]
           [] call[dbLock].kind = "check" -> rows

Ledger == INSTANCE GuardrailLedger WITH
              Ids <- Reqs, Seconds <- 0..Horizon,
              MayGoUnreported <- "refresh" \in Faults,
              rows <- SettledRows, chain <- PendingChain, audit <- PendingAudit

\* Every behaviour of the handlers is one of the ledger whose operations are
\* atomic.  Only where db.refresh may fail may the ledger leave out the entry
\* of a guardrail.
ImplementsLedger == Ledger!Spec

\* Every request that was let in is answered, and _db_lock is free again.
EveryRequestAnswered ==
    \A r \in Reqs : pc[r] \notin {"idle", "done"} ~> pc[r] = "done" /\ dbLock # r
=============================================================================
