# TLA+ models of the agentic guardrail service

The repository derives guardrails from regulatory obligations, compiles them
to Rego, checks the actions of AI systems against them with OPA, and signs
every decision into a hash chain of receipts.  This directory models the parts
where state is shared, time passes or things fail, checks them with TLC and
proves the central invariants with TLAPS.  Line numbers refer to
`src/core-side-patch/` unless another path is given.

## 1. Inventory

| component | state | operations | made correct by |
|---|---|---|---|
| guardrail endpoints, `api/guardrails.py` | tables `ai_policy_guardrails`, `ai_guardrail_events` on one SQLite connection; `_db_lock`; `receipt_store`; `AuditService.entries` | create, recompile, check, read chain, verify chain | one unforked chain per system; events, receipts and audit trail agree; failed requests leave nothing; organizations are isolated; provenance never changes |
| request threads, FastAPI with `get_db` (296-302) | a bounded pool of threads, a queue of jobs, `_db_lock` | run a dependency or handler as a job, enter and leave `get_db` | every request is answered; the pool is never wedged |
| OPA client, `services/opa_client.py` | `_consecutive_failures`, `_circuit_open_until` (no lock), a worker thread per attempt | `evaluate`, `close` | an allow is OPA's own timely answer; only timeouts and transport errors are retried; the circuit opens on enough failures and lets nobody in until it closes |
| rate limiter, `services/rate_limit.py` | bucket registry with a lock, buckets with a lock each | `allow` | one bucket per organization; what is admitted in a period is bounded |
| policy provider, `services/policy_provider.py` | `_previous_receipt_hash` with `_chain_lock` | `check_action`, `evaluate`, `healthy`, `close` | receipts signed by one provider form a chain; a call that returns has one receipt, one that raises has none |
| receipts, `services/receipts.py`, `receipt_chain.py` | none | `sign_receipt`, `verify_receipt`, `verify_chain` | a chain that passes is as signed up to its last receipt with the signer's key; a failure is not reported against a receipt as it was signed |
| derivation engine, `services/derivation_engine.py` | the locals of its loop | `derive_constraint_spec`, `compile_constraint_spec`, `validate_rego_syntax` | the compiled policy denies what the obligations forbid, in any order; each part of the specification names its sources |
| envelope, provenance | none | field validation, serialisation | no payload field leaves the customer; the ids round-trip |
| permissions, `permissions.py` | the registry of systems | `require_permission`, `_get_org_ai_system` | a system of another organization looks as if it did not exist |
| tables and audit, `models.py`, `audit.py` | rows, entries | append, update | `created_at` orders guardrails |
| observability, SDK snippet, local OPA transport | metrics; none; a temporary file | | |

How they interact.  A request passes `require_permission`; a check then passes
the rate limiter; the three writing endpoints enter `get_db`, which holds
`_db_lock` until the response is out.  `check_action` reads the newest
guardrail and the tip of the receipt chain, builds a provider with both, which
asks OPA through the client and has the receipt signed; then the event is
committed, the receipt appended and the audit entry written.  The two readers
take no lock and iterate over the list that checks append to.

The derivation engine scans obligations one after the other into one
specification that they share.  A policy provider may also be shared by the
threads of a process, which is what its `_chain_lock` is for;
then the order of signing is its own and the order of storing is its callers'.

What is hard: handlers interleave at every step; three stores are written one
after the other and any step in between may raise; the lock outlives the
thread that took it; the breaker is shared without a lock; replies come after
their caller gave up; the selection of a guardrail depends on a clock.  Nothing
is persisted beyond the process, so there is no recovery to model.
`PROJECT.json` lists the hazards at their lines.

## 2. Modules

| module | models | status |
|---|---|---|
| `Guardrails` | the five endpoints as concurrent processes | done |
| `GuardrailLedger` | the abstract service: create, recompile and check in one step each | done |
| `GuardrailsProofs` | theorems about `Guardrails`: types, the database section, the chains | done |
| `GuardrailsHistoryProofs` | theorems about what `Guardrails` leaves in the tables, the chains and the audit trail | done |
| `GuardrailsLedgerProofs` | `Guardrails` implements `GuardrailLedger` | done |
| `ThreadPool` | the threads and `_db_lock` | done |
| `OpaClient` | `OpaClient.evaluate`, shared by threads | done |
| `CircuitBreaker` | the abstract breaker for one call at a time | done |
| `RateLimit` | `TokenBucketRateLimiter` | done |
| `ThreadPoolProofs` | theorems about `ThreadPool` | done |
| `Derivation` | `derive_and_compile`, and what the compiled rules deny | done |
| `ReceiptChain` | signing, `verify_receipt` and `verify_chain` | done |
| `PolicyProvider` | one provider shared by threads, the callers' list of receipts and what may befall it, composed with `ReceiptChain` | done |
| `RateLimitProofs` | theorems about `RateLimit` | done |
| `DerivationProofs` | theorems about `Derivation` | done |
| `PolicyProviderProofs` | theorems about `PolicyProvider` and `ReceiptChain` | done |
| `OpaClientProofs` | theorems about `OpaClient` | done |
| `MC...` | instances for TLC | done |

`GuardrailLedger` is implemented by `Guardrails`, `CircuitBreaker` by
`OpaClient` for one call at a time; both refinements are checked as
properties and proved.

### Guardrails

A request is a process: `pc[r]` is the step its handler is at, `call[r]` what
it asks, `local[r]` the handler's local variables, `answer[r]` its response.
The steps of a check are `lock` (blocked in `get_db`), `handle` (lookups, the
read of the tip), `evaluate`, `sign`, `commit`, `append`, `audit`, `release`
(the exit of `get_db`).  Each place where a handler raises or returns early is
an action or a disjunct (`CreateRefused`, `CompileFails`, `ProviderRaises`,
`CommitFails`, `RefreshFails`, ...).  A uuid is the request that drew it, and a
receipt id stands for the receipt's hash, which covers it.  The rate limiter,
the OPA client and the derivation engine answer with any outcome they have.
`local[r].acked`, the checks answered before a reader came, and the `policy`
field of an event are the only things the code does not store.

The clock may also be set back (`Tick`), because `created_at` is the wall clock
of the database.  `Faults` says which database calls may raise.  A `db.refresh`
that raises after the commit of a guardrail leaves a row without an audit entry
and a request that was answered 500 (`Unreported`).

In the refinement a check takes effect with the commit of its event:
`PendingChain` and `PendingAudit` add what the request that holds the lock still
owes.  A guardrail takes effect with its audit entry, or when the refresh fails:
`SettledRows` leaves out the row until then, because at the commit it is not yet
settled whether there will be an entry.  The ledger may leave out the entry of a
guardrail only if `"refresh" \in Faults`.

### ThreadPool

Every dependency and every endpoint is a synchronous function, so FastAPI runs
each of them as a job on a pool of threads: `Jobs` lists the parameters of an
endpoint in the order of its signature and the endpoint itself.  `get_db` takes
the lock inside a job; the lock stays with the request while it queues for the
next job.  The exit of `get_db` has a thread of its own.  Pool and queue belong
to FastAPI and anyio and are modelled from how the endpoints are declared.

### OpaClient

One caller is one `evaluate`.  The breaker's two attributes are read and
written without a lock, so each access is a step: `Start` and `CheckCooldown`
are the two reads in `_circuit_is_open` (103, 105), `LoadFailures` and
`StoreFailures` the two halves of `+= 1` (119).  An attempt's worker is an
entry of `future`; `Finish` lets it reply at any time, also after `TimeOut`.
Replies are classed by what `evaluate` does with them; what it does not catch
(`escapes`) comes from a closed client, from a reply that cannot be decoded or
from an input that cannot be encoded.  "Unreachable" is what `httpx` calls a
transport error, which includes protocol errors of an OPA that was reached.
`started`, the time at which a call began, is a history variable.
`Shared = FALSE` admits one caller at a time.

### RateLimit

A caller runs `allow` once.  Token counts are integers in units of 1/`Cost`
token, so a refill of half a token per tick is exact.  `GetBucket` is the
unlocked lookup, `CreateOrReuse` the second lookup under the registry lock.
`admitted` is a history variable.

### Derivation

`Derive` is one iteration of the loop of `derive_constraint_spec`, `Compile` the
compiler and `Validate` the call of `opa check` with its outcomes.  An
obligation is a record of what the regular expressions find in its text and what
its fields say (`Obligation`), so `Scan` is the loop's body on what was found.
A policy is what its rules compare with, and `Denials` is the set of rules that
deny an action.  The two regular expressions for amounts accept digits that
`float` does not (commas only), which is `DeriveRaises`.

`Forbidden` says what the obligations forbid without a loop: it is the abstract
specification, and `PolicyIsObligations` compares the compiled policy with it on
every action.

### PolicyProvider and ReceiptChain

A call is a process.  The argument of `sign_receipt_fn` is read (`ReadPrevious`),
the receipt is signed (`Sign`) and the attribute is replaced (`WriteBack`) in
three steps under `_chain_lock`; `Release` is the exit of the `with` block, on
both ways out.  `Store` is the caller's, who appends the receipt when it gets to
it.  How the provider was built (with a signer or without, following a hash or
not) and how its callers write timestamps is chosen in `Init`.

A receipt carries the public key it is verified with (`receipts.py:87`), and
`VerifyReceipt` asks for nothing more than a signature by that key over the
payload.  A hash is a number: k is that of `signed[k]`, the k-th payload that
the provider's signer signed, -k that of `forged[k]`, which only the holder of
another key signed, and 0 that of anything else.  So equal hashes mean equal
payloads, and `SignerKey` signs what is in `signed` and nothing else, while
anybody may sign anything with another of the `Keys`.  `PayloadOf` is the payload as
`verify_receipt` rebuilds it from a stored receipt: reasons are not part of it,
every decision other than `allow` becomes `deny`, and a timestamp without an
offset is read as the local time of whoever verifies.  A receipt id belongs to
one call and stands for the hash of its envelope too.

Once the calls have ended, `Change` removes, moves, repeats, swaps or alters
receipts of the list (`Altered`: any one field, the key and the id included),
signs a part of the list anew with another key as it is (`Resigned`), or
rewrites a part from an altered receipt on and links and signs it with another
key (`Rewritten`); then `verify_chain` goes through the list, one receipt a
step.

## 3. What the runs check

| run | instance | shows |
|---|---|---|
| `chain` | 4 requests of any kind, 1 system, commits and refreshes may fail, 2 clock values | `TypeOK`, `MutualExclusion`, `TipHeld`, `ChainIntegrity`, `TrailsAgree`, `AuditContinuity`, `NeverRegresses`, `ReadersSeePrefix`, `ImplementsLedger` |
| `tenants` | 3 requests, 2 organizations with a system each, 1 obligation id, commits and refreshes may fail | `AllOrNothing`, `Isolation`, `ProvenanceKept` |
| `answered` | 3 requests, fairness, all faults | `EveryRequestAnswered` |
| `pool` | 3 database requests and 1 reader on 3 threads | `LockHeldAcrossJobs`, `NeverWedged`, `EveryRequestServed` |
| `rate_limit` | 3 calls of one organization and 1 of another, capacity 2, half a token per tick, 4 clock values | `OneBucketPerOrg`, `BucketExclusive`, `RateBound`, `RefusedOnlyWhenSpent`, `EveryCallDecided` |
| `opa_shared` | 2 threads, threshold 1, 1 retry, 3 clock values | `DecisionIsOwnAnswer`, `RetriesOnlyUnreached`, `OpenIsJustified`, `EveryCallEnds` |
| `opa_serial` | 4 calls in turn, threshold 2, 1 retry, 2 clock values | `CountersTellState`, `ImplementsBreaker` |
| `derivation` | every list of up to 3 obligations, of 17 kinds under 2 ids; actions on both sides of every comparison | `PolicyIsObligations`, `SourcesExact`, `NeverLoosens` |
| `provider` | 3 calls of one provider, 2 keys, 1 change to the stored list, verification in the signer's time zone and in another | `SignedChain`, `OneReceiptPerCall`, `PassedMeansVouchedFor`, `FailureIsPlaced`, `EveryCallReturns` |
| `burst`, `opa_race`, `dropped` | | one disagreement each, see below |

The bounds.  Two checks are enough to fork a chain, three to race a reader
with two appends; four requests are what a create, two checks and a reader
need, or a create, two recompilations and a check.  A second clock value makes
creation times differ and lets the clock go back.  Isolation needs two
organizations, a create in each and a third request that crosses them: a
recompilation, a check or a reader that names what the other one owns.  In the
limiter three callers make a race for the bucket with one that is refused at
capacity 2.  Two threads are enough for each pair of accesses to the breaker, and at
threshold 1 each opens it; that more failures stand behind a higher threshold is
proved for any value (`OpenJustified`);
four calls in turn open the circuit at threshold 2, wait, close it and call
again.  Three obligations are enough for two that speak of the same thing with one
between or after them that speaks of another, in each order; every family occurs
with and without the part that makes a rule of it, limits and approver counts
with two values each.  Two ids for 17 kinds make records share an id.  Three
calls of a provider let two race while a third has signed; a list of three has a
first, a middle and a last receipt to change, and callers may already have
stored it out of order, so one change on top meets every pair of a wrong link
and a wrong signature.  A second key is enough for a part of the list, or all of
it, that somebody else signed.  Requests and callers are one-shot, so every run
ends and deadlock is not checked; that they do end is what the liveness properties say.  `Horizon`
bounds the clocks, `Reqs` and `Callers` everything else.  Where a run uses
symmetry, no liveness property is checked in it.

Fairness.  Weak fairness of each request's or caller's steps: a thread that
can run does run, and a lock that is free is given to one of those waiting.
Clients need not send, the clock need not move and OPA need not answer: a
caller that waits for OPA is woken by its timeout (`opa_client.py:157`), which
is a step of the caller.  Each process takes finitely many steps, so weak
fairness suffices for a lock that others take in between.

### Disagreements found

* `burst`: with as many waiting requests as the pool has threads, all threads
  block in `get_db` on a lock whose holder waits for a thread.  The service
  stops.  The `pool` run shows that as long as no more requests need the
  database than there are threads this cannot happen, whatever the number of
  readers.  The stress test with 50 and 100 concurrent checks does not meet it
  because every `TestClient` call has an event loop, hence a pool, of its own.
* `opa_race`: `_circuit_is_open` reads `_circuit_open_until` twice; a reset in
  between makes the comparison raise `TypeError`.  The stress test's comment
  says both outcomes of the race are decisions.
* `dropped`: an obligation that names a category of data without one of the
  prohibition phrases counts as recognized, yet no rule comes of it.  The
  docstring promises that what is not derived is listed.

What the code does in these places is in the models, and the properties are
stated so that they hold with it; a reader should know of it:

* A failure recorded while the circuit is open restarts the cooldown
  (`opa_client.py:128`).  The comment above that line says that this cannot
  happen, since `evaluate` does not get that far while the circuit is open; that
  holds for one call at a time, not for calls that were in flight when another
  thread opened it.  So an open circuit may stay open for longer than a cooldown
  after it first opened.  `OpenIsJustified` says how far this goes: nobody is let
  in while the circuit is open, so every call whose failure can restart the
  cooldown began at least a cooldown before the circuit closes.
* Threads that race lose counts, and one that loaded the count before a success
  writes it back afterwards, so the threshold need not be met by consecutive
  failures.  `OpenIsJustified` says what is left: the failures of `Threshold`
  different calls stand behind an open circuit.
* A timed-out attempt's worker runs on (`opa_client.py:154`).  Nothing bounds how
  many there are at a time.  One call at a time sends nothing while the circuit is
  open (`ImplementsBreaker`); of several, those that were let in before may still
  retry.
* Transport errors that are retried include protocol errors of an OPA that was
  reached (`opa_client.py:214-218`), although the docstring (61-66) speaks of
  connection-level failures.
* `verify_chain` takes its count after its loop (`receipt_chain.py:114`), so it
  may count a receipt that it has not looked at, although the count is documented
  as that of the receipts confirmed (24-27, 48-51).  `ReadersSeePrefix` permits
  it: it says only between which two lengths the count lies.
* A guardrail whose `db.refresh` fails exists and decides, although its creator
  got a 500 and the audit trail says nothing of it (`guardrails.py:362-365`);
  `AuditContinuity` says that this is the only way to a policy the trail does
  not know.
* Guardrails created within one second tie (`guardrails.py:474`); `NeverRegresses`
  is about the times, not about the order of the requests.
* A second residency obligation widens the allowed regions; the other families
  only tighten.  `NeverLoosens` names the exception.
* An action without a destination region is denied by a policy with regions, since
  `null` is a value in Rego; one without an amount or a currency is not denied by
  a limit.
* A limit "per day" is compared with each action by itself; the period is only
  part of the message.
* `verify_receipt` trusts the key on the receipt (`receipts.py:173-192`) and
  `verify_chain` compares no keys.  A list, or the end of one, that was altered
  and signed anew with another key passes; of a rewritten part in the middle, the
  receipts pass and the one after it is reported, as unlinked.  "A tampered/forged
  receipt (signature invalid)" (`receipt_chain.py:30`) is thus noticed only if
  its key did not change.  `PassedMeansVouchedFor` says what a pass means to a
  reader who looks at the keys: everything up to the last receipt with the
  signer's key is as it was signed.  `FailureIsPlaced` says that the receipts
  counted before a failure are as good as that, that a receipt as the signer made
  it is never blamed for its signature, and that in its own place it is blamed for
  its link only if the receipt before it is not what was signed there and has
  another key.
* `verify_chain` does not notice a lost end of the list, altered reasons, or a
  denial that was reworded.
* Receipts whose callers store them in another order than they were signed in do
  not verify as one chain.  In the service each request has a provider of its
  own and stores within `get_db`, so this does not arise there.
* A timestamp without an offset is signed as local time (`receipts.py:91`): its
  receipt fails verification in another time zone.

## 4. What is proved

Each component's theorems are in a module of their own and hold for every value
of its constants, under the assumptions named beside them (`NoneAssumption` and
the like: identities are distinct from `None`, assignments are functions, the
limiter's capacity and rate are positive numbers).

`GuardrailsProofs`: `TypeCorrect`, `DatabaseSectionExclusive`, `TipsHeld` and
`ChainsLinked`, for any number of requests and any failures.  `ChainIntegrity`
alone is not inductive: an append keeps it only if the receipt's predecessor is
still the tip.  That is `TipHeld`, which survives the steps of other requests
because only a check in the database section appends, and `MutualExclusion`
says there is at most one.  `TypeOK` carries which local values are set at
which step, so that the receipt a check appends is one it signed, and that a
request in the section holds the lock.

`GuardrailsHistoryProofs`: `TracesComplete`, `ProvenanceStable`,
`GuardrailsNeverRegress`, `ReadersAgree`, `OrganizationsIsolated`,
`TrailsMatch` and `AuditGapless`.  Its first part says
once what each kind of step does to each variable (`FailingEffect`,
`CommitEventEffect`, ...), that a step of one request leaves the others alone
(`OthersKept`) and that nobody else writes while a request is in the database
section (`SectionAlone`); everything after it is proved from these lemmas
without opening an action again.  The invariants build on one another:

* `Traces` says at which step a request has left which of its traces, so a
  request that raises between two writes is accounted for; `AllOrNothing`
  follows, and that a policy in the table was reported or its request failed
  after its commit (`Unreported`).
* `Working` says that the row a handler has read is still there and as it was
  read, through all its steps, which is what a check's event and a
  recompilation's "before" rest on.  With the fact that a row keeps all but its
  policy (`RowsStable`) it gives `ProvenanceKept`.
* `EventsLawful`: events are of the organization that owns system and
  guardrail, and a check that is about to append has written the last event.
  `NeverRegresses` follows because the chosen row is a newest one and rows
  neither go nor change their time, whatever the clock does afterwards.
* `TrailsAgree` is inductive with it: the events and the receipts of a system
  are paired in order, and the only event without a receipt is the last.
* `ReceiptsOwned` and `Reading`: the receipts of a system are of its owner's
  checks; what a reader has seen is the beginning of the chain, and the chain
  holds the checks that were answered before the reader came.  Both survive
  appends because chains only grow.  They give `ReadersSeePrefix`.
* `PoliciesOwned`, `EntriesOwned` and `EventsOwned`: what is in the tables and
  in the audit trail was asked for by a request of the organization it belongs
  to, by a request that exists already and whose call no longer changes
  (`AskedKept`).  A recompilation finds only rows of its own organization, and a
  row keeps its organization.  With `EventsLawful`, `ReceiptsOwned` and `Reading`
  they give `Isolation`.
* `AuditCurrent`: the last entry about a guardrail names the policy in its row,
  or that policy's request failed, or is about to write its entry.  This is what
  makes `AuditContinuity` inductive: a recompilation quotes what it read in the
  row, and the row is what the trail says it is.

`GuardrailsLedgerProofs`: `LedgerImplemented`, for any requests, any failures
and any clock.  One lemma per kind of step shows that it is an operation of the
ledger or leaves the mapped variables unchanged.  `PendingCases` settles what
the mapping is in terms of the one request past its commit; `CommitSimulated`
shows that the table without an unreported change is the table before the
commit (`Working`), `CheckSimulated` that the receipt which is still to be appended
will name the tip (`TipHeld`).

`ThreadPoolProofs`: `TypeCorrect`, `LockHeld` and `PoolNeverWedged`.
`LockHeldAcrossJobs` becomes inductive with `LeavingHolds`: a request that is
leaving `get_db` still has the lock.  `PoolNeverWedged` assumes no more
database requests than threads and argues by cardinality: were every thread to
run a request blocked in `get_db`, these would be all the database requests,
but the holder of the lock is a database request that is not blocked.

`RateLimitProofs`: `TypeCorrect`, `OneBucket`, `Exclusive`,
`AdmissionBounded` and `RefusalJustified`, for any capacity, cost and refill.
`RateBound` speaks of admitted calls only; `Budget` relates them to what is
left in the bucket.  For each admitted call, the calls admitted since then
and the tokens that remain are together at most a full bucket and the refill up
to the bucket's last charge (`Earned`), and all calls admitted and the tokens
that remain are at least a full bucket (`Spent`).  `Times` says that buckets
are charged at non-decreasing times, which holds because the time is read under
the bucket's lock (`BucketExclusive`) and every caller of an organization locks
the same bucket (`OneBucketPerOrg`).

`DerivationProofs`: `TypeCorrect`, `PolicyFaithful`, `SourcesFaithful` and
`Tightens`, for any obligations, in any number and order, and any actions.
`PolicyIsObligations` speaks of the end only; `LoopInv` says what the locals of
the loop are of the obligations scanned so far (`Collected`).  `ScanCollects`
shows that an iteration keeps it, `AllScanned` that nothing is left when the
function returns, and `RulesAreObligations` goes from the locals to the rules,
one rule at a time.  `Tightens` compares two specifications by the same lemma.

`PolicyProviderProofs`: `TypeCorrect`, `Chained`, `ReceiptPerCall`,
`PassedIsVouchedFor` and `FailurePlaced`, for any calls, any keys, lists of any length and any
number of changes to them.  `SignedChain` says nothing of a call that holds the
previous hash but has not signed yet; `SigningHolds` (only the holder of
`_chain_lock` is in the locked block) and `HolderCurrent` (what it has read is
still `_previous_receipt_hash`, what it has signed is the last receipt) make it
inductive.  `OwnReceipts` says at which steps a call has its receipt.  For
verification `NobodyForges` says that a signature with the signer's key, in any
receipt of the list, is over a payload the signer signed or over nothing, whatever
befalls the list.  `LoopInv` says of each receipt gone past (`GonePast`) that it
has a hash, that with the signer's key this is the hash of a payload of the
signer's, and that if it is, the list up to there is as it was signed.
`LinkedIsGonePast` takes it one receipt further: a signed payload names the one
before by its hash, and the link says that the receipt where the loop has just been
has that hash, whoever signed it.  `GenuineVerifies` is the converse, by which
`FailureJustified` acquits the receipts that are as the signer made them.  The
assumptions: `None` is none of the values, no time zone is called `"utc"`, and
the signer's key is one of the keys.

`OpaClientProofs`: `TypeCorrect`, `OwnAnswer`, `OnlyUnreachedRetried` and
`OpenJustified` for any number of callers that race in the breaker, and
`CountersCorrect` and `BreakerImplemented` for one call at a time
(`Shared = FALSE`; racing calls do not implement the documented breaker, see the
`opa_race` run).  The first three
rest on `Own`, which says of one caller how far it is with its attempts, which
of them it has given up on and whose answer its decision is; no step of another
caller touches these (`OthersKept`).  `OpenJustified` needs `Evidence`,
no count that is stored or about to be is larger than the number of calls that
have failed, which only grows, and `Begun`, by which a call that is let in finds
the circuit closed or closes it, and began no later than whoever opens it next
looks at the clock.  `CountersCorrect` needs `Serial`: from its
first attempt on, a call that is alone has found the circuit closed or has
closed it.  `BreakerImplemented` adds `Found`, what a call has found when it is
at a step (the cooldown is over, the failure it loaded is the current count, the
threshold is reached), and that the attempts sent and the calls answered are
finitely many, since the breaker counts them.  Every step of `evaluate` is one
of the breaker's or none (`EvaluateSimulated`).

Only model-checked: the liveness properties (`EveryRequestAnswered`,
`EveryRequestServed`, `EveryCallDecided`, `EveryCallEnds`, `EveryCallReturns`),
since liveness under fairness and ENABLED are out of the prover's reach, and the
three disagreements, which are counterexamples.  Every invariant, action property
and refinement of the passing runs is a theorem.  No module of the project
declares a RECURSIVE operator, so any of them can be proved about.

## 5. Not modelled

* The regular expressions over obligation text.  What they find is an input of
  `Derivation`; that the pattern for a region also takes the words that follow
  the name (`derivation_engine.py:118`) is outside the model.
* The Rego text and its evaluation by OPA beyond the comparisons of the rules,
  and `rego_package_slug`, which maps organization ids that differ in
  punctuation to one package name.
* The cryptography of the vendored receipts package.  Assumed of it: nobody but
  the signer makes a signature that verifies under the signer's key, and
  different payloads have different hashes.  Nothing is assumed of other keys.
* Which fields `build_envelope` accepts: validation of one dictionary, without
  state.  That it may refuse is modelled.
* The JSON serialisation of constraint specifications and provenance, a data
  format that is written and read by the same library.
* Logging and metrics other than the breaker's transition counters; the local
  OPA transport used by tests; the SDK snippet, which is a constant text.
* `register` of the system registry: the table of systems is filled before the
  service takes requests, as the tests and the example do.
* Durations of backoff and latency: no property depends on them.  A retry of a
  request by a client is another request.

## 6. Plan

The components are modelled, and every safety property and both refinements are
proved.  What is left:

1. An abstract specification of the limiter (the calls that a full bucket and
   its refill pay for, one at a time), implemented by `RateLimit`.
2. A specification of one chain of receipts as a client may rely on it,
   implemented by `PolicyProvider`, to state `SignedChain` and
   `OneReceiptPerCall` as one refinement.
