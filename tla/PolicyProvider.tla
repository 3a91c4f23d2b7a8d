--------------------------- MODULE PolicyProvider ---------------------------
(***************************************************************************)
(* CompliVibePolicyProvider (services/policy_provider.py) shared by        *)
(* threads, one call of check_action each.  A call is decided, then signed *)
(* under _chain_lock; its caller stores the receipt when it gets to it.    *)
(* Afterwards the stored list may suffer up to MaxChanges changes (a       *)
(* receipt lost, moved or altered, some of them signed anew with another   *)
(* key), and verify_chain goes through it.                                 *)
(***************************************************************************)
EXTENDS ReceiptChain, FiniteSets, SequencesExt

CONSTANT MaxChanges        \* bound on the changes to the stored list

ASSUME ChangesAssumption == MaxChanges \in Nat

VARIABLES pc, local,       \* each call's step and local variables
          config,          \* what the provider was built with
          prevHash,        \* _previous_receipt_hash
          chainLock,       \* the call that holds _chain_lock, or None
          changes          \* changes made to the stored list

providerVars == <<pc, local, config, prevHash, chainLock, changes>>
vars == <<chainVars, providerVars>>

PCs == {"idle", "build", "evaluate", "lock", "read", "sign", "write",
        "release", "store", "returned", "raised"}

\* The steps taken with _chain_lock held.
Signing == {"read", "sign", "write", "release"}

\* failed: an exception is on its way out of the locked block.
Local == [decision : Decisions \cup {None}, prev : Hashes,
          receipt : Receipt \cup {None}, failed : BOOLEAN]

\* signer: whether sign_receipt_fn was given; root: the hash that the first
\* receipt follows; stamp: how the callers write their timestamps.
Config == [signer : BOOLEAN, root : {None, 0}, stamp : Stamps]

Init ==
    /\ ChainInit
    /\ pc = [c \in Calls |-> "idle"]
    /\ local = [c \in Calls |-> [decision |-> None, prev |-> None,
                                 receipt |-> None, failed |-> FALSE]]
    /\ config \in Config
    /\ prevHash = config.root
    /\ chainLock = None
    /\ changes = 0

-----------------------------------------------------------------------------
\* check_action

Step(c, from, to) ==
    /\ pc[c] = from
    /\ pc' = [pc EXCEPT ![c] = to]

Arrive(c) ==
    /\ Step(c, "idle", "build")
    /\ UNCHANGED <<chainVars, local, config, prevHash, chainLock, changes>>

\* build_envelope: a field of the payload, an unknown field or a field of the
\* wrong type is a ValueError.
EnvelopeRejected(c) ==
    /\ Step(c, "build", "raised")
    /\ UNCHANGED <<chainVars, local, config, prevHash, chainLock, changes>>

EnvelopeBuilt(c) ==
    /\ Step(c, "build", "evaluate")
    /\ UNCHANGED <<chainVars, local, config, prevHash, chainLock, changes>>

\* The client decides; without a signer the decision is returned as it is.
Evaluate(c) ==
    /\ Step(c, "evaluate", IF config.signer THEN "lock" ELSE "returned")
    /\ \E d \in Decisions : local' = [local EXCEPT ![c].decision = d]
    /\ UNCHANGED <<chainVars, config, prevHash, chainLock, changes>>

\* Mutant: an exception of the client does not end the call.
EvaluateRaisesIgnored(c) ==
    /\ Step(c, "evaluate", "lock")
    /\ UNCHANGED <<chainVars, local, config, prevHash, chainLock, changes>>

\* An exception of the client.
EvaluateRaises(c) ==
    /\ Step(c, "evaluate", "raised")
    /\ UNCHANGED <<chainVars, local, config, prevHash, chainLock, changes>>

\* Mutant: no lock.
AcquireAnyway(c) ==
    /\ Step(c, "lock", "read")
    /\ chainLock' = c
    /\ UNCHANGED <<chainVars, local, config, prevHash, changes>>

Acquire(c) ==
    /\ Step(c, "lock", "read")
    /\ chainLock = None
    /\ chainLock' = c
    /\ UNCHANGED <<chainVars, local, config, prevHash, changes>>

\* The arguments of sign_receipt_fn are evaluated.
ReadPrevious(c) ==
    /\ Step(c, "read", "sign")
    /\ local' = [local EXCEPT ![c].prev = prevHash]
    /\ UNCHANGED <<chainVars, config, prevHash, chainLock, changes>>

Sign(c) ==
    LET r == NewReceipt(c, local[c].decision, config.stamp, local[c].prev) IN
    /\ Step(c, "sign", "write")
    /\ config.stamp # "malformed"
    /\ signed' = Append(signed, PayloadOf(r, SignerZone))
    /\ local' = [local EXCEPT ![c].receipt = r]
    /\ UNCHANGED <<forged, stored, zone, index, verdict, config, prevHash, chainLock, changes>>

\* Mutant: the decision is returned without a receipt.
SignErrorSwallowed(c) ==
    /\ Step(c, "sign", "release")
    /\ UNCHANGED <<chainVars, local, config, prevHash, chainLock, changes>>

\* The timestamp cannot be parsed, or the customer's signer fails.
SignRaises(c) ==
    /\ Step(c, "sign", "release")
    /\ local' = [local EXCEPT ![c].failed = TRUE]
    /\ UNCHANGED <<chainVars, config, prevHash, chainLock, changes>>

WriteBack(c) ==
    /\ Step(c, "write", "release")
    /\ prevHash' = local[c].receipt.hash
    /\ UNCHANGED <<chainVars, local, config, chainLock, changes>>

\* Mutant: an exception leaves the lock taken.
ReleaseNoFinally(c) ==
    /\ Step(c, "release", IF local[c].failed THEN "raised" ELSE "store")
    /\ chainLock' = IF local[c].failed THEN chainLock ELSE None
    /\ UNCHANGED <<chainVars, local, config, prevHash, changes>>

\* The exit of "with self._chain_lock", on return and on an exception.
Release(c) ==
    /\ Step(c, "release", IF local[c].failed THEN "raised" ELSE "store")
    /\ chainLock' = None
    /\ UNCHANGED <<chainVars, local, config, prevHash, changes>>

\* The caller appends the receipt it got to the list, in its own time.
Store(c) ==
    /\ Step(c, "store", "returned")
    /\ stored' = IF local[c].receipt = None THEN stored
                 ELSE Append(stored, local[c].receipt)
    /\ UNCHANGED <<signed, forged, zone, index, verdict, local, config, prevHash,
                   chainLock, changes>>

CheckAction(c) ==
    \/ EnvelopeRejected(c) \/ EnvelopeBuilt(c)
    \/ Evaluate(c) \/ EvaluateRaises(c)
    \/ Acquire(c) \/ ReadPrevious(c) \/ Sign(c) \/ SignRaises(c)
    \/ WriteBack(c) \/ Release(c) \/ Store(c)

-----------------------------------------------------------------------------
\* The stored list, after the calls.

AllEnded == \A c \in Calls : pc[c] \in {"returned", "raised"}

\* A receipt with one field altered; the signature is replaced by one over
\* something else.
Altered(r) ==
    {[r EXCEPT !.id = c] : c \in Calls}
    \cup {[r EXCEPT !.decision = d] : d \in Decisions \cup {"other"}}
    \cup {[r EXCEPT !.stamp = s] : s \in Stamps}
    \cup {[r EXCEPT !.reasons = FALSE], [r EXCEPT !.signature.over = 0]}
    \cup {[r EXCEPT !.prev = h] : h \in 0..Len(signed) \cup {None}}
    \cup {[r EXCEPT !.hash = h] : h \in 0..Len(signed)}
    \cup {[r EXCEPT !.key = q] : q \in Keys}

OtherKeys == Keys \ {SignerKey}

\* Receipts j to k signed anew as they are, with key q.
Resigned(list, j, k, q) ==
    [i \in DOMAIN list |->
        IF i \in j..k THEN [list[i] EXCEPT !.key = q, !.signature.by = q] ELSE list[i]]

Changed(list) ==
    {RemoveAt(list, k) : k \in DOMAIN list}
    \cup {InsertAt(list, j, list[k]) : j, k \in DOMAIN list}
    \cup {[list EXCEPT ![j] = list[k], ![k] = list[j]] : j, k \in DOMAIN list}
    \cup (UNION {{[list EXCEPT ![k] = r] : r \in Altered(list[k])} : k \in DOMAIN list})
    \cup {Resigned(list, j, k, q) : j, k \in DOMAIN list, q \in OtherKeys}

\* Receipt r in place j, and those from there to k linked to it and signed
\* anew with key q.
Rewritten(list, j, k, r, q) ==
    [i \in DOMAIN list |->
        IF i \notin j..k THEN list[i]
        ELSE LET h == -(Len(forged) + 1 + i - j)
                 old == IF i = j THEN r ELSE [list[i] EXCEPT !.prev = h + 1]
             IN  [old EXCEPT !.key = q, !.hash = h, !.signature = [by |-> q, over |-> h]]]

\* A part of the list is rewritten, from an altered receipt whose payload
\* nobody has signed before.
Rewrite ==
    \E j, k \in DOMAIN stored : \E q \in OtherKeys, r \in Altered(stored[j]) :
        /\ j <= k
        /\ \A h \in -Len(forged)..Len(signed) : ~HashOf(h, PayloadOf(r, SignerZone))
        /\ r.stamp # "malformed"
        /\ \A i \in j..k : stored[i].stamp # "malformed"
        /\ LET list == Rewritten(stored, j, k, r, q) IN
           /\ stored' = list
           /\ forged' = forged \o [i \in 1..(k - j + 1) |->
                                      PayloadOf(list[j + i - 1], SignerZone)]

Change ==
    /\ AllEnded
    /\ index = 0
    /\ changes < MaxChanges
    /\ changes' = changes + 1
    /\ \/ stored' \in Changed(stored) /\ UNCHANGED forged
       \/ Rewrite
    /\ UNCHANGED <<signed, zone, index, verdict, pc, local, config, prevHash, chainLock>>

Verify ==
    /\ AllEnded
    /\ VerifyStarts \/ VerifyChain
    /\ UNCHANGED providerVars

Finished == verdict # None /\ UNCHANGED vars

Next ==
    \/ \E c \in Calls : Arrive(c) \/ CheckAction(c)
    \/ Change \/ Verify \/ Finished

Spec == Init /\ [][Next]_vars

\* A thread that can run does run.
FairSpec == Spec /\ \A c \in Calls : WF_vars(CheckAction(c))

-----------------------------------------------------------------------------
\* Properties.

\* Every variable keeps its type, a call that signs has a decision, and one
\* that writes the hash back has a receipt.
TypeOK ==
    /\ ChainTypeOK
    /\ pc \in [Calls -> PCs]
    /\ local \in [Calls -> Local]
    /\ \A c \in Calls : pc[c] \in Signing \cup {"lock", "store"} =>
           config.signer /\ local[c].decision \in Decisions
    /\ \A c \in Calls : pc[c] = "write" => local[c].receipt # None
    /\ config \in Config
    /\ prevHash \in Hashes
    /\ chainLock \in Calls \cup {None}
    /\ changes \in 0..MaxChanges

\* The receipts of one provider are one chain in the order of signing: each
\* names the one signed before it, so no two have the same predecessor,
\* however its callers interleave and whichever of them fail
\* (policy_provider.py:195-211).  Between two signings the provider holds the
\* hash of the last one.
SignedChain ==
    /\ \A k \in DOMAIN signed :
           signed[k].prev = IF k = 1 THEN config.root ELSE k - 1
    /\ (\A c \in Calls : pc[c] # "write") =>
           prevHash = IF signed = <<>> THEN config.root ELSE Len(signed)

\* A call that returned to its caller, on a provider with a signer, has one
\* receipt, for its own decision; one that raised, or had no signer, has none.
OneReceiptPerCall ==
    \A c \in Calls :
        LET own == {k \in DOMAIN signed : signed[k].id = c} IN
        /\ pc[c] = "returned" /\ config.signer =>
              /\ Cardinality(own) = 1
              /\ \A k \in own : signed[k].decision = local[c].decision
        /\ pc[c] = "raised" \/ ~config.signer => own = {}

\* The k-th receipt of the list says what the provider signed k-th in a chain
\* without a predecessor, as far as hashes reach: not its reasons, nor which
\* of its wordings a denial has, nor which key it is signed with.
AsSigned(k) ==
    /\ config.root = None
    /\ k \in DOMAIN signed
    /\ stored[k].stamp # "malformed"
    /\ PayloadOf(stored[k], SignerZone) = signed[k]
    /\ stored[k].hash = k

\* Read in the signer's time zone, or with an offset, an instant is the same.
SameInstant(k) == stored[k].stamp = "naive" => zone = SignerZone

\* A receipt with the signer's key vouches for itself and for all the receipts
\* before it, whoever signed those; after the last one with that key the list
\* may be anyone's.
VouchedFor(n) ==
    \A k \in 1..n : stored[k].key = SignerKey =>
        \A i \in 1..k : AsSigned(i)

\* What the pass of a list means (receipt_chain.py:63-117): everything up to
\* its last receipt with the signer's key is the beginning of the chain that
\* was signed.  The keys are the reader's to look at: a lost end goes
\* unnoticed, and so does an end or a whole list signed anew with another key.
PassedMeansVouchedFor ==
    verdict # None /\ verdict.passed =>
        /\ verdict.count = Len(stored)
        /\ VouchedFor(Len(stored))

\* A receipt as the signer made it, wherever it is in the list.
Genuine(r) ==
    \E k \in DOMAIN signed :
        /\ PayloadOf(r, SignerZone) = signed[k]
        /\ r.stamp # "malformed"
        /\ r.hash = k
        /\ r.signature = [by |-> SignerKey, over |-> k]
        /\ r.key = SignerKey

\* Where a failure is reported (receipt_chain.py:18-32): what is counted before
\* it is as good as in a list that passes; a receipt as the signer made it is
\* never said to have a bad signature; and if it is in its place, it is
\* reported only as unlinked, after one with another key that does not say
\* what was signed there: the one that passes although it was rewritten.
FailureIsPlaced ==
    verdict # None /\ ~verdict.passed =>
        LET i == verdict.failure + 1 IN
        /\ i \in DOMAIN stored
        /\ verdict.count = verdict.failure
        /\ VouchedFor(verdict.failure)
        /\ Genuine(stored[i]) /\ SameInstant(i) =>
              /\ verdict.reason # "signature"
              /\ AsSigned(i) =>
                    i > 1 /\ stored[i - 1].key # SignerKey /\ ~AsSigned(i - 1)

\* Every call that was made returns or raises, and _chain_lock is free of it.
EveryCallReturns ==
    \A c \in Calls : pc[c] = "build" ~>
        pc[c] \in {"returned", "raised"} /\ chainLock # c
=============================================================================
