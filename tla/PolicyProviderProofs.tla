------------------------ MODULE PolicyProviderProofs ------------------------
(***************************************************************************)
(* Theorems about PolicyProvider, for any calls, time zones and number of  *)
(* changes to the stored list.  Signing: the holder of _chain_lock is the  *)
(* only call between reading the previous hash and replacing it.           *)
(* Verification: what the loop of verify_chain knows of the receipts it    *)
(* has gone past.                                                          *)
(***************************************************************************)
EXTENDS PolicyProvider, FiniteSetTheorems, TLAPS

-----------------------------------------------------------------------------
\* Types.

LEMMA NoneIsNothing ==
    /\ None \notin Int /\ None \notin Calls /\ None \notin Decisions
    /\ None \notin Receipt /\ None \notin Verdict
BY NoneAssumption

LEMMA PayloadType ==
    ASSUME NEW r \in Receipt, NEW z \in Zones
    PROVE  PayloadOf(r, z) \in Payload
BY DEF PayloadOf, Instant, Payload, Receipt, Decisions

LEMMA NewReceiptType ==
    ASSUME NEW c \in Calls, NEW d \in Decisions, NEW s \in Stamps, NEW h \in Hashes,
           Len(signed) \in Nat
    PROVE  NewReceipt(c, d, s, h) \in Receipt
BY KeyAssumption DEF NewReceipt, Receipt, Signature, Hashes

\* A receipt with a signature that its maker had the key for: one by the
\* signer's key is over a payload of the signer's, or over nothing.
Unforged == {r \in Receipt : r.signature.by = SignerKey => r.signature.over >= 0}

LEMMA AlteredType ==
    ASSUME NEW S \in {Receipt, Unforged}, NEW r \in S, Len(signed) \in Nat
    PROVE  Altered(r) \subseteq S
<1>0. r \in Receipt /\ (S = Unforged => (r.signature.by = SignerKey => r.signature.over >= 0))
  BY DEF Unforged
<1>1. ASSUME NEW t \in Receipt, t.signature \in {r.signature, [r.signature EXCEPT !.over = 0]}
      PROVE  t \in S
  BY <1>0, <1>1 DEF Unforged, Receipt, Signature
<1>2. \A c \in Calls : [r EXCEPT !.id = c] \in S
  BY <1>0, <1>1 DEF Receipt
<1>3. \A d \in Decisions \cup {"other"} : [r EXCEPT !.decision = d] \in S
  BY <1>0, <1>1 DEF Receipt
<1>4. \A s \in Stamps : [r EXCEPT !.stamp = s] \in S
  BY <1>0, <1>1 DEF Receipt
<1>5. [r EXCEPT !.reasons = FALSE] \in S
  BY <1>0, <1>1 DEF Receipt
<1>6. [r EXCEPT !.signature.over = 0] \in S
  <2>1. [r.signature EXCEPT !.over = 0] \in Signature
    BY <1>0 DEF Receipt, Signature
  <2>2. [r EXCEPT !.signature.over = 0] \in Receipt
    BY <1>0, <2>1 DEF Receipt
  <2>3. [r EXCEPT !.signature.over = 0].signature = [r.signature EXCEPT !.over = 0]
    BY <1>0 DEF Receipt
  <2> QED  BY <1>1, <2>2, <2>3
<1>7. \A h \in 0..Len(signed) \cup {None} : [r EXCEPT !.prev = h] \in S
  BY <1>0, <1>1 DEF Receipt, Hashes
<1>8. \A h \in 0..Len(signed) : [r EXCEPT !.hash = h] \in S
  BY <1>0, <1>1 DEF Receipt
<1>9. \A q \in Keys : [r EXCEPT !.key = q] \in S
  BY <1>0, <1>1 DEF Receipt
<1> QED
  BY <1>2, <1>3, <1>4, <1>5, <1>6, <1>7, <1>8, <1>9 DEF Altered

\* Only the holder of another key signs anew.
LEMMA ResignedType ==
    ASSUME NEW S \in {Receipt, Unforged}, NEW list \in Seq(S),
           NEW j \in DOMAIN list, NEW k \in DOMAIN list, NEW q \in OtherKeys
    PROVE  Resigned(list, j, k, q) \in Seq(S)
<1> DEFINE new(i) == [list[i] EXCEPT !.key = q, !.signature.by = q]
<1>1. ASSUME NEW i \in DOMAIN list
      PROVE  new(i) \in S
  <2>a. list[i] \in S
    OBVIOUS
  <2>b. list[i] \in Receipt
    BY <2>a DEF Unforged
  <2>0. list[i] \in Receipt /\ list[i].signature \in Signature
    BY <2>b DEF Receipt
  <2>1. [list[i].signature EXCEPT !.by = q] \in Signature
    BY <2>0 DEF Signature, OtherKeys
  <2>2. new(i) \in Receipt
    BY <2>0, <2>1 DEF Receipt, OtherKeys
  <2>3. new(i).signature = [list[i].signature EXCEPT !.by = q]
    BY <2>0 DEF Receipt
  <2>4. new(i).signature.by # SignerKey
    BY <2>0, <2>3 DEF Signature, OtherKeys
  <2> HIDE DEF new
  <2> QED  BY <2>2, <2>4 DEF Unforged
<1>2. Resigned(list, j, k, q) = [i \in 1..Len(list) |-> IF i \in j..k THEN new(i) ELSE list[i]]
  BY DEF Resigned
<1> HIDE DEF new
<1>3. \A i \in 1..Len(list) : (IF i \in j..k THEN new(i) ELSE list[i]) \in S
  BY <1>1
<1> QED  BY <1>2, <1>3

LEMMA RewrittenType ==
    ASSUME NEW S \in {Receipt, Unforged}, NEW list \in Seq(S), forged \in Seq(Payload),
           NEW j \in DOMAIN list, NEW k \in DOMAIN list, NEW r \in Receipt,
           NEW q \in OtherKeys
    PROVE  Rewritten(list, j, k, r, q) \in Seq(S)
<1> DEFINE h(i) == -(Len(forged) + 1 + i - j)
           old(i) == IF i = j THEN r ELSE [list[i] EXCEPT !.prev = h(i) + 1]
           sig(i) == [by |-> q, over |-> h(i)]
           new(i) == [old(i) EXCEPT !.key = q, !.hash = h(i), !.signature = sig(i)]
<1>1. ASSUME NEW i \in DOMAIN list
      PROVE  new(i) \in S
  <2>1. h(i) \in Int /\ h(i) + 1 \in Hashes
    BY DEF Hashes
  <2> HIDE DEF h
  <2>a. list[i] \in S
    OBVIOUS
  <2>b. list[i] \in Receipt
    BY <2>a DEF Unforged
  <2>c. [list[i] EXCEPT !.prev = h(i) + 1] \in Receipt
    BY <2>1, <2>b DEF Receipt
  <2>2. old(i) \in Receipt
    BY <2>c
  <2>3. sig(i) \in Signature /\ sig(i).by # SignerKey
    BY <2>1 DEF Signature, OtherKeys
  <2> HIDE DEF old, sig
  <2>4. new(i) \in Receipt /\ new(i).signature = sig(i)
    BY <2>1, <2>2, <2>3 DEF Receipt, OtherKeys
  <2> HIDE DEF new
  <2> QED  BY <2>3, <2>4 DEF Unforged
<1>2. Rewritten(list, j, k, r, q) =
          [i \in 1..Len(list) |-> IF i \notin j..k THEN list[i] ELSE new(i)]
  BY DEF Rewritten
<1> HIDE DEF new
<1>3. \A i \in 1..Len(list) : (IF i \notin j..k THEN list[i] ELSE new(i)) \in S
  BY <1>1
<1> QED  BY <1>2, <1>3

LEMMA ChangedType ==
    ASSUME NEW S \in {Receipt, Unforged}, NEW list \in Seq(S), Len(signed) \in Nat
    PROVE  Changed(list) \subseteq Seq(S)
<1>0. Len(list) \in Nat /\ DOMAIN list = 1..Len(list)
  OBVIOUS
<1>1. \A k \in DOMAIN list : RemoveAt(list, k) \in Seq(S)
  BY <1>0 DEF RemoveAt
<1>2. \A j, k \in DOMAIN list : InsertAt(list, j, list[k]) \in Seq(S)
  BY <1>0 DEF InsertAt
<1>3. \A k \in DOMAIN list, r \in S : [list EXCEPT ![k] = r] \in Seq(S)
  BY <1>0
<1>4. \A j, k \in DOMAIN list : [list EXCEPT ![j] = list[k], ![k] = list[j]] \in Seq(S)
  BY <1>0
<1>5. \A k \in DOMAIN list : Altered(list[k]) \subseteq S
  BY <1>0, AlteredType
<1>6. ASSUME NEW t \in Changed(list)
      PROVE  \/ \E k \in DOMAIN list : t = RemoveAt(list, k)
             \/ \E j, k \in DOMAIN list : t = InsertAt(list, j, list[k])
             \/ \E j, k \in DOMAIN list : t = [list EXCEPT ![j] = list[k], ![k] = list[j]]
             \/ \E k \in DOMAIN list : \E r \in Altered(list[k]) : t = [list EXCEPT ![k] = r]
             \/ \E j, k \in DOMAIN list : \E q \in OtherKeys : t = Resigned(list, j, k, q)
  <2>1. \/ t \in {RemoveAt(list, k) : k \in DOMAIN list}
        \/ t \in {InsertAt(list, j, list[k]) : j, k \in DOMAIN list}
        \/ t \in {[list EXCEPT ![j] = list[k], ![k] = list[j]] : j, k \in DOMAIN list}
        \/ t \in UNION {{[list EXCEPT ![k] = r] : r \in Altered(list[k])} : k \in DOMAIN list}
        \/ t \in {Resigned(list, j, k, q) : j, k \in DOMAIN list, q \in OtherKeys}
    BY DEF Changed
  <2> QED  BY <2>1
<1>7. ASSUME NEW t \in Changed(list)
      PROVE  t \in Seq(S)
  <2>1. CASE \E k \in DOMAIN list : t = RemoveAt(list, k)
    BY <1>1, <2>1
  <2>2. CASE \E j, k \in DOMAIN list : t = InsertAt(list, j, list[k])
    BY <1>2, <2>2
  <2>3. CASE \E j, k \in DOMAIN list : t = [list EXCEPT ![j] = list[k], ![k] = list[j]]
    BY <1>4, <2>3
  <2>4. CASE \E k \in DOMAIN list : \E r \in Altered(list[k]) : t = [list EXCEPT ![k] = r]
    BY <1>3, <1>5, <2>4
  <2>5. CASE \E j, k \in DOMAIN list : \E q \in OtherKeys : t = Resigned(list, j, k, q)
    BY <2>5, ResignedType
  <2> QED  BY <1>6, <2>1, <2>2, <2>3, <2>4, <2>5
<1> QED  BY <1>7

\* What a change to the list leaves it, and the payloads of others.
LEMMA ChangeType ==
    ASSUME NEW S \in {Receipt, Unforged}, stored \in Seq(S), signed \in Seq(Payload),
           forged \in Seq(Payload), Change
    PROVE  stored' \in Seq(S) /\ forged' \in Seq(Payload)
<1>1. CASE stored' \in Changed(stored) /\ UNCHANGED forged
  BY <1>1, ChangedType
<1>2. CASE Rewrite
  <2>0. PICK j \in DOMAIN stored, k \in DOMAIN stored, q \in OtherKeys :
           \E r \in Altered(stored[j]) :
               /\ j <= k
               /\ stored' = Rewritten(stored, j, k, r, q)
               /\ forged' = forged \o [i \in 1..(k - j + 1) |->
                                           PayloadOf(stored'[j + i - 1], SignerZone)]
    BY <1>2 DEF Rewrite
  <2>1. PICK r \in Altered(stored[j]) :
           /\ j <= k
           /\ stored' = Rewritten(stored, j, k, r, q)
           /\ forged' = forged \o [i \in 1..(k - j + 1) |->
                                       PayloadOf(stored'[j + i - 1], SignerZone)]
    BY <2>0
  <2>2. r \in S
    BY AlteredType
  <2>3. r \in Receipt
    BY <2>2 DEF Unforged
  <2>4. stored' \in Seq(S)
    BY <2>1, <2>3, RewrittenType
  <2>5. DOMAIN stored' = DOMAIN stored
    BY <2>1 DEF Rewritten
  <2>6. /\ k - j + 1 \in Nat
        /\ \A i \in 1..(k - j + 1) : j + i - 1 \in DOMAIN stored'
    BY <2>1, <2>5
  <2>7. \A i \in 1..(k - j + 1) : stored'[j + i - 1] \in Receipt
    BY <2>4, <2>6 DEF Unforged
  <2> DEFINE p(i) == PayloadOf(stored'[j + i - 1], SignerZone)
  <2>8. \A i \in 1..(k - j + 1) : p(i) \in Payload
    BY <2>7, PayloadType, ZoneAssumption
  <2> HIDE DEF p
  <2> DEFINE n == k - j + 1
  <2>n. n \in Nat /\ \A i \in 1..n : p(i) \in Payload
    BY <2>6, <2>8
  <2> HIDE DEF n
  <2>9. [i \in 1..n |-> p(i)] \in Seq(Payload)
    BY <2>n
  <2>10. forged' = forged \o [i \in 1..(k - j + 1) |-> p(i)]
    BY <2>1 DEF p
  <2> QED  BY <2>4, <2>9, <2>10 DEF n
<1> QED  BY <1>1, <1>2 DEF Change

\* The variables of the provider, of its calls and of verify_chain keep their
\* types, however the calls interleave and whatever befalls the list.
THEOREM TypeCorrect == Spec => []TypeOK
<1>1. Init => TypeOK
  BY ZoneAssumption, ChangesAssumption
  DEF Init, ChainInit, TypeOK, ChainTypeOK, PCs, Local, Config, Hashes, Signing
<1>2. TypeOK /\ [Next]_vars => TypeOK'
  <2> SUFFICES ASSUME TypeOK, [Next]_vars PROVE TypeOK'
    OBVIOUS
  <2>0. Len(signed) \in Nat /\ Len(stored) \in Nat
    BY DEF TypeOK, ChainTypeOK
  <2>1. ASSUME NEW c \in Calls, Arrive(c) \/ EnvelopeRejected(c) \/ EnvelopeBuilt(c)
                                 \/ EvaluateRaises(c)
        PROVE  TypeOK'
    BY <2>1 DEF Arrive, EnvelopeRejected, EnvelopeBuilt, EvaluateRaises, Step, TypeOK,
                ChainTypeOK, chainVars, PCs, Signing
  <2>2. ASSUME NEW c \in Calls, Evaluate(c)
        PROVE  TypeOK'
    BY <2>2 DEF Evaluate, Step, TypeOK, ChainTypeOK, chainVars, PCs, Signing, Local
  <2>3. ASSUME NEW c \in Calls, Acquire(c) \/ ReadPrevious(c) \/ Release(c)
        PROVE  TypeOK'
    <3>1. CASE Acquire(c)
      BY <3>1 DEF Acquire, Step, TypeOK, ChainTypeOK, chainVars, PCs, Signing
    <3>2. CASE ReadPrevious(c)
      BY <3>2 DEF ReadPrevious, Step, TypeOK, ChainTypeOK, chainVars, PCs, Signing, Local
    <3>3. CASE Release(c)
      BY <3>3 DEF Release, Step, TypeOK, ChainTypeOK, chainVars, PCs, Signing
    <3> QED  BY <2>3, <3>1, <3>2, <3>3
  <2>4. ASSUME NEW c \in Calls, Sign(c)
        PROVE  TypeOK'
    <3> DEFINE r == NewReceipt(c, local[c].decision, config.stamp, local[c].prev)
    <3>1. r \in Receipt
      BY <2>0, <2>4, NewReceiptType DEF Sign, Step, TypeOK, Signing, Local, Config
    <3>2. PayloadOf(r, SignerZone) \in Payload
      BY <3>1, PayloadType, ZoneAssumption
    <3>3. signed' \in Seq(Payload)
      BY <2>4, <3>2 DEF Sign, TypeOK, ChainTypeOK
    <3>4. local' = [local EXCEPT ![c].receipt = r]
      BY <2>4 DEF Sign
    <3> HIDE DEF r
    <3>5. local' \in [Calls -> Local]
      BY <3>1, <3>4 DEF TypeOK, Local
    <3>6. r # None
      BY <3>1, NoneIsNothing
    <3>7. /\ local'[c].receipt = r
          /\ \A d \in Calls : local'[d].decision = local[d].decision
          /\ \A d \in Calls \ {c} : local'[d] = local[d]
      BY <3>4 DEF TypeOK, Local
    <3> QED
      BY <2>4, <3>3, <3>5, <3>6, <3>7 DEF Sign, Step, TypeOK, ChainTypeOK, PCs, Signing
  <2>5. ASSUME NEW c \in Calls, SignRaises(c)
        PROVE  TypeOK'
    BY <2>5 DEF SignRaises, Step, TypeOK, ChainTypeOK, chainVars, PCs, Signing, Local
  <2>6. ASSUME NEW c \in Calls, WriteBack(c)
        PROVE  TypeOK'
    <3>1. local[c].receipt \in Receipt
      BY <2>6 DEF WriteBack, Step, TypeOK, Local
    <3>2. prevHash' \in Hashes
      BY <2>6, <3>1 DEF WriteBack, Receipt, Hashes
    <3> QED
      BY <2>6, <3>2 DEF WriteBack, Step, TypeOK, ChainTypeOK, chainVars, PCs, Signing
  <2>7. ASSUME NEW c \in Calls, Store(c)
        PROVE  TypeOK'
    <3>1. local[c].receipt # None => local[c].receipt \in Receipt
      BY DEF TypeOK, Local
    <3>2. stored' \in Seq(Receipt) /\ Len(stored') >= Len(stored)
      BY <2>0, <2>7, <3>1 DEF Store, TypeOK, ChainTypeOK
    <3>3. index' \in 0..(Len(stored') + 1)
      BY <2>0, <2>7, <3>2 DEF Store, TypeOK, ChainTypeOK
    <3> QED
      BY <2>7, <3>2, <3>3 DEF Store, Step, TypeOK, ChainTypeOK, PCs, Signing
  <2>8. CASE Change
    <3>1. stored' \in Seq(Receipt) /\ forged' \in Seq(Payload)
      BY <2>8, ChangeType DEF TypeOK, ChainTypeOK
    <3>2. index' \in 0..(Len(stored') + 1)
      BY <2>8, <3>1 DEF Change
    <3>3. changes' \in 0..MaxChanges
      BY <2>8, ChangesAssumption DEF Change, TypeOK
    <3> QED
      BY <2>8, <3>1, <3>2, <3>3 DEF Change, TypeOK, ChainTypeOK
  <2>9. CASE Verify
    <3>1. CASE VerifyStarts
      BY <2>0, <2>9, <3>1 DEF Verify, VerifyStarts, providerVars, TypeOK, ChainTypeOK
    <3>2. CASE VerifyNext
      BY <2>0, <2>9, <3>2 DEF Verify, VerifyNext, providerVars, TypeOK, ChainTypeOK
    <3>3. CASE VerifyFails
      <4>1. index - 1 \in Nat
        BY <3>3 DEF VerifyFails, TypeOK, ChainTypeOK
      <4>2. \A reason \in {"root", "link", "signature"} : Failed(index, reason) \in Verdict
        BY <4>1 DEF Failed, Verdict
      <4>3. verdict' \in {Failed(index, reason) : reason \in {"root", "link", "signature"}}
        BY <3>3 DEF VerifyFails
      <4> QED
        BY <2>9, <3>3, <4>2, <4>3 DEF Verify, VerifyFails, providerVars, TypeOK, ChainTypeOK
    <3>4. CASE VerifyPasses
      <4>1. verdict' \in Verdict
        BY <2>0, <3>4 DEF VerifyPasses, Passed, Verdict
      <4> QED
        BY <2>9, <3>4, <4>1 DEF Verify, VerifyPasses, providerVars, TypeOK, ChainTypeOK
    <3> QED  BY <2>9, <3>1, <3>2, <3>3, <3>4 DEF Verify, VerifyChain
  <2>10. CASE Finished \/ UNCHANGED vars
    BY <2>10 DEF Finished, vars, chainVars, providerVars, TypeOK, ChainTypeOK
  <2> QED
    BY <2>1, <2>2, <2>3, <2>4, <2>5, <2>6, <2>7, <2>8, <2>9, <2>10
    DEF Next, CheckAction
<1> QED  BY <1>1, <1>2, PTL DEF Spec
-----------------------------------------------------------------------------
\* Signing.

\* What the last signed receipt is followed by.
Tip == IF signed = <<>> THEN config.root ELSE Len(signed)

\* A call in the locked block has the lock.
SigningHolds == \A c \in Calls : pc[c] \in Signing => chainLock = c

\* From reading the hash to replacing it, what the call knows is current.
HolderCurrent ==
    \A c \in Calls :
        /\ pc[c] = "sign" => local[c].prev = prevHash
        /\ pc[c] = "write" => signed # <<>> /\ local[c].receipt.hash = Len(signed)

SigningInv == SigningHolds /\ HolderCurrent /\ SignedChain

\* Only the holder of the lock takes the steps of the locked block.
LEMMA OneSigner ==
    ASSUME SigningHolds, NEW c \in Calls, pc[c] \in Signing
    PROVE  \A d \in Calls \ {c} : pc[d] \notin Signing
BY DEF SigningHolds

\* The receipts of one provider are one chain in the order of signing, for any
\* number of callers and whichever of them fail.
THEOREM Chained == Spec => []SignedChain
<1>1. Init => SigningInv
  BY DEF Init, ChainInit, SigningInv, SigningHolds, HolderCurrent, SignedChain, Signing
<1>2. TypeOK /\ SigningInv /\ [Next]_vars => SigningInv'
  <2> SUFFICES ASSUME TypeOK, SigningInv, [Next]_vars PROVE SigningInv'
    OBVIOUS
  <2>0. /\ pc \in [Calls -> PCs] /\ local \in [Calls -> Local]
        /\ signed \in Seq(Payload) /\ Len(signed) \in Nat
        /\ \A c \in Calls : pc[c] = "write" => local[c].receipt \in Receipt
    BY DEF TypeOK, ChainTypeOK, Local
  <2>1. ASSUME NEW c \in Calls,
               \/ Arrive(c) \/ EnvelopeRejected(c) \/ EnvelopeBuilt(c)
               \/ Evaluate(c) \/ EvaluateRaises(c) \/ Store(c)
        PROVE  SigningInv'
    <3>1. /\ UNCHANGED <<signed, config, prevHash, chainLock>>
          /\ pc' = [pc EXCEPT ![c] = pc'[c]]
          /\ pc[c] \notin Signing /\ pc'[c] \notin Signing
      BY <2>0, <2>1 DEF Arrive, EnvelopeRejected, EnvelopeBuilt, Evaluate, EvaluateRaises,
                        Store, Step, chainVars, Signing
    <3>2. \A d \in Calls \ {c} : local'[d] = local[d]
      BY <2>0, <2>1 DEF Arrive, EnvelopeRejected, EnvelopeBuilt, Evaluate, EvaluateRaises,
                        Store, chainVars
    <3> QED
      BY <2>0, <3>1, <3>2 DEF SigningInv, SigningHolds, HolderCurrent, SignedChain, Signing
  <2>2. ASSUME NEW c \in Calls, Acquire(c)
        PROVE  SigningInv'
    <3>1. \A d \in Calls : pc[d] \notin Signing
      BY <2>2, NoneIsNothing DEF Acquire, SigningInv, SigningHolds
    <3> QED
      BY <2>0, <2>2, <3>1 DEF Acquire, Step, chainVars, SigningInv, SigningHolds,
                              HolderCurrent, SignedChain, Signing
  <2>3. ASSUME NEW c \in Calls, ReadPrevious(c)
        PROVE  SigningInv'
    BY <2>0, <2>3 DEF ReadPrevious, Step, chainVars, SigningInv, SigningHolds,
                      HolderCurrent, SignedChain, Signing, Local
  <2>4. ASSUME NEW c \in Calls, Sign(c)
        PROVE  SigningInv'
    <3> DEFINE r == NewReceipt(c, local[c].decision, config.stamp, local[c].prev)
               p == PayloadOf(r, SignerZone)
    <3>1. pc[c] = "sign" /\ \A d \in Calls \ {c} : pc[d] \notin Signing
      BY <2>4, OneSigner DEF Sign, Step, SigningInv, Signing
    <3>2. local[c].prev = Tip
      BY <3>1 DEF SigningInv, HolderCurrent, SignedChain, Signing, Tip
    <3>3. p.prev = local[c].prev /\ r.hash = Len(signed) + 1
      BY DEF PayloadOf, NewReceipt
    <3>4. signed' = Append(signed, p) /\ local' = [local EXCEPT ![c].receipt = r]
      BY <2>4 DEF Sign
    <3>5. /\ pc' = [pc EXCEPT ![c] = "write"]
          /\ UNCHANGED <<config, prevHash, chainLock>>
      BY <2>4 DEF Sign, Step
    <3> HIDE DEF r, p
    <3>6. /\ Len(signed') = Len(signed) + 1 /\ DOMAIN signed' = 1..(Len(signed) + 1)
          /\ \A k \in DOMAIN signed : signed'[k] = signed[k]
          /\ signed'[Len(signed) + 1] = p
          /\ DOMAIN signed = 1..Len(signed)
      BY <2>0, <3>4
    <3>7. \A k \in DOMAIN signed' :
              signed'[k].prev = IF k = 1 THEN config.root ELSE k - 1
      BY <2>0, <3>2, <3>3, <3>6 DEF SigningInv, SignedChain, Tip
    <3>8. SignedChain'
      BY <2>0, <3>5, <3>7 DEF SignedChain
    <3>9. SigningHolds'
      BY <2>0, <3>1, <3>5 DEF SigningInv, SigningHolds, Signing
    <3>10. local'[c].receipt = r
      BY <2>0, <3>4 DEF Local
    <3>11. HolderCurrent'
      BY <2>0, <3>1, <3>3, <3>5, <3>6, <3>10 DEF HolderCurrent, Signing
    <3> QED  BY <3>8, <3>9, <3>11 DEF SigningInv
  <2>5. ASSUME NEW c \in Calls, SignRaises(c)
        PROVE  SigningInv'
    BY <2>0, <2>5 DEF SignRaises, Step, chainVars, SigningInv, SigningHolds,
                      HolderCurrent, SignedChain, Signing, Local
  <2>6. ASSUME NEW c \in Calls, WriteBack(c)
        PROVE  SigningInv'
    <3>1. pc[c] = "write" /\ \A d \in Calls \ {c} : pc[d] \notin Signing
      BY <2>6, OneSigner DEF WriteBack, Step, SigningInv, Signing
    <3>2. prevHash' = Len(signed) /\ signed # <<>>
      BY <2>6, <3>1 DEF WriteBack, SigningInv, HolderCurrent
    <3> QED
      BY <2>0, <2>6, <3>1, <3>2 DEF WriteBack, Step, chainVars, SigningInv, SigningHolds,
                                    HolderCurrent, SignedChain, Signing
  <2>7. ASSUME NEW c \in Calls, Release(c)
        PROVE  SigningInv'
    <3>1. pc[c] = "release" /\ \A d \in Calls \ {c} : pc[d] \notin Signing
      BY <2>7, OneSigner DEF Release, Step, SigningInv, Signing
    <3> QED
      BY <2>0, <2>7, <3>1 DEF Release, Step, chainVars, SigningInv, SigningHolds,
                              HolderCurrent, SignedChain, Signing
  <2>8. CASE Change \/ Verify \/ Finished \/ UNCHANGED vars
    <3>1. UNCHANGED <<signed, config, prevHash, chainLock, pc, local>>
      BY <2>8 DEF Change, Verify, VerifyStarts, VerifyChain, VerifyNext, VerifyFails,
                  VerifyPasses, Finished, vars, chainVars, providerVars
    <3> QED
      BY <3>1 DEF SigningInv, SigningHolds, HolderCurrent, SignedChain
  <2> QED
    BY <2>1, <2>2, <2>3, <2>4, <2>5, <2>6, <2>7, <2>8 DEF Next, CheckAction
<1>3. SigningInv => SignedChain
  BY DEF SigningInv
<1> QED  BY <1>1, <1>2, <1>3, TypeCorrect, PTL DEF Spec

\* The places in the chain of the receipts of call c.
Own(c) == {k \in DOMAIN signed : signed[k].id = c}

\* Before it signs a call has no receipt, afterwards it has one, for its own
\* decision; a call whose signing raised has none.
OwnReceipts ==
    \A c \in Calls :
        /\ local[c].failed => pc[c] \in {"release", "raised"}
        /\ \/ pc[c] \in {"idle", "build", "evaluate", "lock", "read", "sign", "raised"}
           \/ local[c].failed
           \/ ~config.signer
           => Own(c) = {}
        /\ /\ pc[c] \in {"write", "release", "store", "returned"}
           /\ ~local[c].failed
           /\ config.signer
           => \E k \in DOMAIN signed :
                 Own(c) = {k} /\ signed[k].decision = local[c].decision

\* A call that returned has exactly one receipt, for its own decision, and one
\* that raised has none, for any number of callers.
THEOREM ReceiptPerCall == Spec => []OneReceiptPerCall
<1>1. Init => OwnReceipts
  <2> SUFFICES ASSUME Init PROVE OwnReceipts
    OBVIOUS
  <2>1. \A c \in Calls : local[c].failed = FALSE
    BY DEF Init
  <2>2. \A c \in Calls : pc[c] = "idle"
    BY DEF Init
  <2>3. DOMAIN signed = {}
    BY DEF Init, ChainInit
  <2>4. \A c \in Calls : Own(c) = {}
    BY <2>3 DEF Own
  <2> QED  BY <2>1, <2>2, <2>4 DEF OwnReceipts
<1>2. TypeOK /\ OwnReceipts /\ [Next]_vars => OwnReceipts'
  <2> SUFFICES ASSUME TypeOK, OwnReceipts, [Next]_vars PROVE OwnReceipts'
    OBVIOUS
  <2>0. /\ pc \in [Calls -> PCs] /\ local \in [Calls -> Local]
        /\ signed \in Seq(Payload) /\ Len(signed) \in Nat
        /\ \A c \in Calls : pc[c] \in Signing \cup {"lock", "store"} =>
               config.signer /\ local[c].decision \in Decisions
    BY DEF TypeOK, ChainTypeOK
  <2>1. ASSUME NEW c \in Calls, ~Sign(c), Arrive(c) \/ CheckAction(c)
        PROVE  OwnReceipts'
    <3>1. UNCHANGED <<signed, config>> /\ \A d \in Calls : Own(d)' = Own(d)
      BY <2>1 DEF Arrive, CheckAction, EnvelopeRejected, EnvelopeBuilt, Evaluate,
                  EvaluateRaises, Acquire, ReadPrevious, SignRaises, WriteBack, Release,
                  Store, chainVars, Own
    <3>2. \A d \in Calls \ {c} : pc'[d] = pc[d] /\ local'[d] = local[d]
      BY <2>0, <2>1 DEF Arrive, CheckAction, EnvelopeRejected, EnvelopeBuilt, Evaluate,
                  EvaluateRaises, Acquire, ReadPrevious, SignRaises, WriteBack, Release,
                  Store, Step
    <3>3. CASE SignRaises(c)
      <4>1. /\ pc[c] = "sign" /\ pc'[c] = "release" /\ local'[c].failed
        BY <2>0, <3>3 DEF SignRaises, Step, Local
      <4> QED  BY <3>1, <3>2, <4>1 DEF OwnReceipts
    <3>4. CASE Evaluate(c)
      <4>1. /\ pc[c] = "evaluate" /\ local'[c].failed = local[c].failed
            /\ pc'[c] = IF config.signer THEN "lock" ELSE "returned"
        BY <2>0, <3>4 DEF Evaluate, Step, Local
      <4> QED  BY <3>1, <3>2, <4>1 DEF OwnReceipts
    <3>5. CASE Release(c)
      <4>1. /\ pc[c] = "release" /\ local'[c] = local[c]
            /\ pc'[c] = IF local[c].failed THEN "raised" ELSE "store"
        BY <2>0, <3>5 DEF Release, Step
      <4> QED  BY <2>0, <3>1, <3>2, <4>1 DEF OwnReceipts, Signing
    <3>6. CASE ~SignRaises(c) /\ ~Evaluate(c) /\ ~Release(c)
      <4>1. /\ local'[c].failed = local[c].failed
            /\ local'[c].decision = local[c].decision
            /\ <<pc[c], pc'[c]>> \in
                   {<<"idle", "build">>, <<"build", "raised">>, <<"build", "evaluate">>,
                    <<"evaluate", "raised">>, <<"lock", "read">>, <<"read", "sign">>,
                    <<"write", "release">>, <<"store", "returned">>}
        BY <2>0, <2>1, <3>6 DEF Arrive, CheckAction, EnvelopeRejected, EnvelopeBuilt,
             EvaluateRaises, Acquire, ReadPrevious, WriteBack, Store, Step, Local
      <4> QED  BY <3>1, <3>2, <4>1 DEF OwnReceipts
    <3> QED  BY <3>3, <3>4, <3>5, <3>6
  <2>2. ASSUME NEW c \in Calls, Sign(c)
        PROVE  OwnReceipts'
    <3> DEFINE r == NewReceipt(c, local[c].decision, config.stamp, local[c].prev)
               p == PayloadOf(r, SignerZone)
               n == Len(signed) + 1
    <3>1. p.id = c /\ p.decision = local[c].decision
      BY <2>0, <2>2 DEF PayloadOf, NewReceipt, Decisions, Sign, Step, Signing
    <3>2. /\ signed' = Append(signed, p) /\ local' = [local EXCEPT ![c].receipt = r]
          /\ pc' = [pc EXCEPT ![c] = "write"] /\ pc[c] = "sign" /\ config' = config
      BY <2>2 DEF Sign, Step
    <3> HIDE DEF r, p
    <3>3. /\ DOMAIN signed' = DOMAIN signed \cup {n} /\ n \notin DOMAIN signed
          /\ \A k \in DOMAIN signed : signed'[k] = signed[k]
          /\ signed'[n] = p
      BY <2>0, <3>2
    <3> HIDE DEF n
    <3>4. /\ Own(c) = {} /\ Own(c)' = {n}
          /\ \A d \in Calls \ {c} : Own(d)' = Own(d)
      BY <3>1, <3>2, <3>3 DEF Own, OwnReceipts
    <3>5. /\ pc'[c] = "write" /\ local'[c].failed = local[c].failed /\ ~local[c].failed
          /\ local'[c].decision = local[c].decision
          /\ \A d \in Calls \ {c} : pc'[d] = pc[d] /\ local'[d] = local[d]
      BY <2>0, <3>2 DEF Local, OwnReceipts
    <3>6. config.signer
      BY <2>0, <3>2 DEF Signing
    <3> QED  BY <3>1, <3>2, <3>3, <3>4, <3>5, <3>6 DEF OwnReceipts
  <2>3. CASE Change \/ Verify \/ Finished \/ UNCHANGED vars
    <3>1. UNCHANGED <<signed, config, pc, local>>
      BY <2>3 DEF Change, Verify, VerifyStarts, VerifyChain, VerifyNext, VerifyFails,
                  VerifyPasses, Finished, vars, chainVars, providerVars
    <3> QED  BY <3>1 DEF OwnReceipts, Own
  <2> QED  BY <2>1, <2>2, <2>3 DEF Next
<1>3. OwnReceipts => OneReceiptPerCall
  <2> SUFFICES ASSUME OwnReceipts, NEW c \in Calls
               PROVE  /\ pc[c] = "returned" /\ config.signer =>
                            /\ Cardinality(Own(c)) = 1
                            /\ \A k \in Own(c) : signed[k].decision = local[c].decision
                      /\ pc[c] = "raised" \/ ~config.signer => Own(c) = {}
    BY DEF OneReceiptPerCall, Own
  <2>1. CASE pc[c] = "returned" /\ config.signer
    <3>1. PICK k : Own(c) = {k} /\ signed[k].decision = local[c].decision
      BY <2>1 DEF OwnReceipts
    <3> QED  BY <2>1, <3>1, FS_Singleton
  <2>2. CASE ~(pc[c] = "returned" /\ config.signer)
    BY <2>2 DEF OwnReceipts
  <2> QED  BY <2>1, <2>2
<1> QED  BY <1>1, <1>2, <1>3, TypeCorrect, PTL DEF Spec

-----------------------------------------------------------------------------
\* Verification.

\* A signature is over an instant of the signer's time zone.
SignedWhere == \A k \in DOMAIN signed : signed[k].instant \in {SignerZone, "utc"}

\* What is known of a receipt that verify_chain has gone past: it has a hash;
\* one with the signer's key has the hash of a payload of the signer's; and if
\* it has, then all the receipts up to it say what was signed there.
GonePast(k) ==
    /\ stored[k].hash # 0
    /\ stored[k].key = SignerKey => stored[k].hash > 0
    /\ stored[k].hash > 0 => \A i \in 1..k : AsSigned(i)

\* A failure at receipt i, for this reason, is not a false one.
Justified(i, reason) ==
    Genuine(stored[i]) /\ SameInstant(i) =>
        /\ reason # "signature"
        /\ AsSigned(i) => i > 1 /\ stored[i - 1].key # SignerKey /\ ~AsSigned(i - 1)

\* verify_chain runs when the calls have ended, and its result is about the
\* receipt it is at.
LoopInv ==
    /\ index > 0 => AllEnded
    /\ \A k \in 1..(index - 1) : GonePast(k)
    /\ verdict # None =>
          /\ index > 0
          /\ IF verdict.passed
             THEN verdict.count = Len(stored) /\ index = Len(stored) + 1
             ELSE /\ index \in DOMAIN stored
                  /\ verdict.failure = index - 1
                  /\ verdict.count = verdict.failure
                  /\ Justified(index, verdict.reason)

NoneForged ==
    /\ stored \in Seq(Unforged)
    /\ \A c \in Calls : local[c].receipt \in Unforged \cup {None}

VerifyInv == SignedWhere /\ LoopInv

\* A receipt that verifies has a hash, which is the signer's if the key is; if
\* it is, the receipt was signed, and its instant is read as it was then.
LEMMA VerifiedReceipt ==
    ASSUME TypeOK, SignedWhere, NoneForged, NEW i \in DOMAIN stored,
           VerifyReceipt(stored[i])
    PROVE  /\ stored[i].hash # 0
           /\ stored[i].key = SignerKey => stored[i].hash > 0
           /\ stored[i].hash > 0 =>
                 /\ stored[i].hash \in DOMAIN signed
                 /\ stored[i].stamp # "malformed"
                 /\ PayloadOf(stored[i], SignerZone) = signed[stored[i].hash]
<1> DEFINE h == stored[i].hash
<1>a. stored[i] \in Unforged
  BY DEF NoneForged
<1>b. stored[i] \in Receipt
  BY <1>a DEF Unforged
<1>0. /\ h \in Int /\ signed \in Seq(Payload) /\ forged \in Seq(Payload)
      /\ stored[i] \in Unforged
  BY <1>a, <1>b DEF TypeOK, ChainTypeOK, Receipt
<1>1. /\ HashOf(h, PayloadOf(stored[i], zone)) /\ stored[i].signature.over = h
      /\ stored[i].signature.by = stored[i].key /\ stored[i].stamp # "malformed"
  BY DEF VerifyReceipt
<1>2. stored[i].key = SignerKey => h >= 0
  BY <1>0, <1>1 DEF Unforged
<1> HIDE DEF h
<1>3. /\ h # 0
      /\ h > 0 => h \in DOMAIN signed /\ signed[h] = PayloadOf(stored[i], zone)
  BY <1>0, <1>1 DEF HashOf
<1>4. CASE h > 0
  <2>1. stored[i].stamp = "naive" => zone \in {SignerZone, "utc"}
    BY <1>3, <1>4 DEF SignedWhere, PayloadOf, Instant
  <2>2. SameInstant(i)
    BY <2>1, ZoneAssumption DEF SameInstant, TypeOK, ChainTypeOK
  <2>3. PayloadOf(stored[i], SignerZone) = PayloadOf(stored[i], zone)
    BY <2>2 DEF SameInstant, PayloadOf, Instant
  <2> QED  BY <1>0, <1>1, <1>2, <1>3, <1>4, <2>3 DEF h
<1> QED  BY <1>0, <1>2, <1>3, <1>4 DEF h

\* A receipt that verifies and is linked to one that was gone past is gone
\* past itself.
LEMMA LinkedIsGonePast ==
    ASSUME TypeOK, SignedWhere, NoneForged, SignedChain, NEW i \in DOMAIN stored,
           i > 1 => GonePast(i - 1), Linked(i), VerifyReceipt(stored[i])
    PROVE  GonePast(i)
<1> DEFINE h == stored[i].hash
<1>1. /\ h # 0 /\ (stored[i].key = SignerKey => h > 0)
      /\ h > 0 =>
            /\ h \in DOMAIN signed /\ stored[i].stamp # "malformed"
            /\ PayloadOf(stored[i], SignerZone) = signed[h]
  BY VerifiedReceipt
<1>2. SUFFICES ASSUME h > 0 PROVE \A j \in 1..i : AsSigned(j)
  BY <1>1 DEF GonePast
<1>0. \A j \in DOMAIN stored : stored[j] \in Receipt
  BY DEF TypeOK, ChainTypeOK
<1>3. h \in Int /\ i \in Nat /\ i >= 1
  BY <1>0 DEF TypeOK, ChainTypeOK, Receipt
<1>4. stored[i].prev = IF h = 1 THEN config.root ELSE h - 1
  BY <1>1, <1>2 DEF SignedChain, PayloadOf
<1>5. config.root \in {None, 0}
  BY DEF TypeOK, Config
<1> HIDE DEF h
<1>6. h = i /\ config.root = None /\ \A j \in 1..(i - 1) : AsSigned(j)
  <2>1. CASE i = 1
    BY <1>2, <1>3, <1>4, <1>5, <2>1, NoneIsNothing DEF Linked
  <2>2. CASE i > 1
    <3> DEFINE g == stored[i - 1].hash
    <3>0. i - 1 \in DOMAIN stored
      BY <1>3, <2>2 DEF TypeOK, ChainTypeOK
    <3>1. g \in Int
      BY <1>0, <3>0 DEF Receipt
    <3>2. g # 0 /\ (g > 0 => \A j \in 1..(i - 1) : AsSigned(j))
      BY <2>2 DEF GonePast
    <3>3. stored[i].prev = g
      BY <1>3, <2>2 DEF Linked
    <3>4. AsSigned(i - 1) => g = i - 1 /\ config.root = None
      BY DEF AsSigned
    <3> HIDE DEF g
    <3>5. h # 1 /\ g = h - 1
      BY <1>2, <1>3, <1>4, <1>5, <3>1, <3>2, <3>3, NoneIsNothing
    <3>6. \A j \in 1..(i - 1) : AsSigned(j)
      BY <1>2, <1>3, <3>2, <3>5
    <3>7. AsSigned(i - 1)
      BY <1>3, <2>2, <3>6
    <3> QED  BY <1>3, <3>4, <3>5, <3>6, <3>7
  <2> QED  BY <1>3, <2>1, <2>2
<1>7. AsSigned(i)
  BY <1>1, <1>2, <1>6 DEF AsSigned, h
<1> QED  BY <1>3, <1>6, <1>7

\* A genuine receipt verifies, wherever it is.
LEMMA GenuineVerifies ==
    ASSUME NEW i \in DOMAIN stored, Genuine(stored[i]), SameInstant(i)
    PROVE  VerifyReceipt(stored[i])
<1>1. PayloadOf(stored[i], SignerZone) = PayloadOf(stored[i], zone)
  BY DEF SameInstant, PayloadOf, Instant
<1>2. PICK k \in DOMAIN signed :
         /\ PayloadOf(stored[i], SignerZone) = signed[k]
         /\ stored[i].stamp # "malformed"
         /\ stored[i].hash = k
         /\ stored[i].signature = [by |-> SignerKey, over |-> k]
         /\ stored[i].key = SignerKey
  BY DEF Genuine
<1>3. HashOf(k, PayloadOf(stored[i], zone))
  BY <1>1, <1>2 DEF HashOf
<1>4. stored[i].signature.by = SignerKey /\ stored[i].signature.over = k
  BY <1>2
<1> QED  BY <1>2, <1>3, <1>4 DEF VerifyReceipt

\* A failure that is reported is justified.
LEMMA FailureJustified ==
    ASSUME TypeOK, SignedChain, NEW i \in DOMAIN stored, i > 1 => GonePast(i - 1),
           NEW reason, ~(Linked(i) /\ VerifyReceipt(stored[i])),
           reason = "signature" => ~VerifyReceipt(stored[i])
    PROVE  Justified(i, reason)
<1>1. SUFFICES ASSUME Genuine(stored[i]), SameInstant(i)
      PROVE /\ reason # "signature"
            /\ AsSigned(i) => i > 1 /\ stored[i - 1].key # SignerKey /\ ~AsSigned(i - 1)
  BY DEF Justified
<1>2. VerifyReceipt(stored[i]) /\ ~Linked(i)
  BY <1>1, GenuineVerifies
<1>3. ASSUME AsSigned(i)
      PROVE  i > 1 /\ stored[i - 1].key # SignerKey /\ ~AsSigned(i - 1)
  <2>1. i \in Nat /\ i >= 1
    BY DEF TypeOK, ChainTypeOK
  <2>2. stored[i].prev = IF i = 1 THEN None ELSE i - 1
    BY <1>3 DEF AsSigned, SignedChain, PayloadOf
  <2>3. i > 1
    BY <1>2, <2>1, <2>2 DEF Linked
  <2>4. ~AsSigned(i - 1)
    BY <1>2, <2>1, <2>2, <2>3 DEF Linked, AsSigned
  <2>5. i - 1 \in 1..(i - 1)
    BY <2>1, <2>3
  <2> QED  BY <2>3, <2>4, <2>5 DEF GonePast
<1> QED  BY <1>2, <1>3

LEMMA NewReceiptUnforged ==
    ASSUME TypeOK, NEW c \in Calls, pc[c] = "sign"
    PROVE  NewReceipt(c, local[c].decision, config.stamp, local[c].prev) \in Unforged
<1> DEFINE r == NewReceipt(c, local[c].decision, config.stamp, local[c].prev)
<1>1. Len(signed) \in Nat
  BY DEF TypeOK, ChainTypeOK
<1>2. r \in Receipt
  BY <1>1, NewReceiptType DEF TypeOK, Signing, Local, Config
<1>3. r.signature.over = Len(signed) + 1
  BY DEF NewReceipt
<1> HIDE DEF r
<1>4. r \in Unforged
  BY <1>1, <1>2, <1>3 DEF Unforged
<1> QED  BY <1>4 DEF r

\* Nobody but the signer signs with the signer's key.
LEMMA NobodyForges == Spec => []NoneForged
<1>1. Init => NoneForged
  BY DEF Init, ChainInit, NoneForged
<1>2. TypeOK /\ NoneForged /\ [Next]_vars => NoneForged'
  <2> SUFFICES ASSUME TypeOK, NoneForged, [Next]_vars PROVE NoneForged'
    OBVIOUS
  <2>0. /\ local \in [Calls -> Local] /\ signed \in Seq(Payload)
        /\ forged \in Seq(Payload) /\ stored \in Seq(Unforged)
    BY DEF TypeOK, ChainTypeOK, NoneForged
  <2>1. ASSUME NEW c \in Calls, Arrive(c) \/ CheckAction(c)
        PROVE  NoneForged'
    <3>1. CASE Sign(c)
      <4> DEFINE r == NewReceipt(c, local[c].decision, config.stamp, local[c].prev)
      <4>1. r \in Unforged
        BY <3>1, NewReceiptUnforged DEF Sign, Step
      <4>2. local' = [local EXCEPT ![c].receipt = r] /\ stored' = stored
        BY <3>1 DEF Sign
      <4> HIDE DEF r
      <4>3. \A d \in Calls : local'[d].receipt = IF d = c THEN r ELSE local[d].receipt
        BY <2>0, <4>2 DEF Local
      <4> QED  BY <4>1, <4>2, <4>3 DEF NoneForged
    <3>2. CASE Store(c)
      <4>1. local' = local
        BY <3>2 DEF Store
      <4>2. stored' = stored \/ stored' = Append(stored, local[c].receipt)
        BY <3>2 DEF Store
      <4>3. local[c].receipt # None => local[c].receipt \in Unforged
        BY DEF NoneForged
      <4>4. stored' \in Seq(Unforged)
        BY <2>0, <3>2, <4>3 DEF Store
      <4> QED  BY <4>1, <4>4 DEF NoneForged
    <3>3. CASE ~Sign(c) /\ ~Store(c)
      <4>1. stored' = stored
        BY <2>1, <3>3 DEF Arrive, CheckAction, EnvelopeRejected, EnvelopeBuilt, Evaluate,
             EvaluateRaises, Acquire, ReadPrevious, SignRaises, WriteBack, Release, chainVars
      <4>2. \A d \in Calls : local'[d].receipt = local[d].receipt
        BY <2>0, <2>1, <3>3 DEF Arrive, CheckAction, EnvelopeRejected, EnvelopeBuilt,
             Evaluate, EvaluateRaises, Acquire, ReadPrevious, SignRaises, WriteBack,
             Release, chainVars, Local
      <4> QED  BY <4>1, <4>2 DEF NoneForged
    <3> QED  BY <3>1, <3>2, <3>3
  <2>2. CASE Change
    <3>1. stored' \in Seq(Unforged)
      BY <2>0, <2>2, ChangeType
    <3> QED  BY <2>2, <3>1 DEF Change, NoneForged
  <2>3. CASE Verify \/ Finished \/ UNCHANGED vars
    <3>1. UNCHANGED <<stored, local>>
      BY <2>3 DEF Verify, VerifyStarts, VerifyChain, VerifyNext, VerifyFails, VerifyPasses,
                  Finished, vars, chainVars, providerVars
    <3> QED  BY <3>1 DEF NoneForged
  <2> QED  BY <2>1, <2>2, <2>3 DEF Next
<1> QED  BY <1>1, <1>2, TypeCorrect, PTL DEF Spec

LEMMA VerifyInvariant == Spec => []VerifyInv
<1>1. Init => VerifyInv
  BY DEF Init, ChainInit, VerifyInv, SignedWhere, LoopInv
<1>2. TypeOK /\ SignedChain /\ NoneForged /\ VerifyInv /\ [Next]_vars => VerifyInv'
  <2> SUFFICES ASSUME TypeOK, SignedChain, NoneForged, VerifyInv, [Next]_vars PROVE VerifyInv'
    OBVIOUS
  <2>0. /\ index \in Nat /\ Len(signed) \in Nat /\ signed \in Seq(Payload)
        /\ stored \in Seq(Receipt) /\ Len(stored) \in Nat
        /\ verdict \in Verdict \cup {None}
    BY DEF TypeOK, ChainTypeOK
  <2>1. ASSUME NEW c \in Calls, Arrive(c) \/ CheckAction(c)
        PROVE  VerifyInv'
    <3>1. index = 0 /\ verdict = None
      <4>1. pc[c] \notin {"returned", "raised"}
        BY <2>1 DEF Arrive, CheckAction, EnvelopeRejected, EnvelopeBuilt, Evaluate,
             EvaluateRaises, Acquire, ReadPrevious, Sign, SignRaises, WriteBack, Release,
             Store, Step
      <4> QED  BY <2>0, <4>1 DEF VerifyInv, LoopInv, AllEnded
    <3>2. index' = index /\ verdict' = verdict
      BY <2>1 DEF Arrive, CheckAction, EnvelopeRejected, EnvelopeBuilt, Evaluate,
           EvaluateRaises, Acquire, ReadPrevious, Sign, SignRaises, WriteBack, Release,
           Store, chainVars
    <3>3. LoopInv'
      BY <3>1, <3>2 DEF LoopInv
    <3>4. CASE Sign(c)
      <4> DEFINE p == PayloadOf(NewReceipt(c, local[c].decision, config.stamp,
                                           local[c].prev), SignerZone)
      <4>1. p.instant \in {SignerZone, "utc"}
        BY DEF PayloadOf, Instant
      <4>2. signed' = Append(signed, p)
        BY <3>4 DEF Sign
      <4> HIDE DEF p
      <4>3. SignedWhere'
        BY <2>0, <4>1, <4>2 DEF VerifyInv, SignedWhere
      <4> QED  BY <3>3, <4>3 DEF VerifyInv
    <3>5. CASE ~Sign(c)
      <4>1. signed' = signed
        BY <2>1, <3>5 DEF Arrive, CheckAction, EnvelopeRejected, EnvelopeBuilt, Evaluate,
             EvaluateRaises, Acquire, ReadPrevious, SignRaises, WriteBack, Release,
             Store, chainVars
      <4> QED  BY <3>3, <4>1 DEF VerifyInv, SignedWhere
    <3> QED  BY <3>4, <3>5
  <2>2. CASE Change
    BY <2>0, <2>2 DEF Change, VerifyInv, SignedWhere, LoopInv
  <2>3. CASE Verify
    <3>1. /\ UNCHANGED <<signed, stored, pc, config>> /\ AllEnded
          /\ index > 0 => zone' = zone
      BY <2>3 DEF Verify, VerifyStarts, VerifyChain, VerifyNext, VerifyFails,
                  VerifyPasses, providerVars
    <3>2. SignedWhere' /\ AllEnded'
      BY <3>1 DEF VerifyInv, SignedWhere, AllEnded
    <3>3. index > 0 => \A k \in Int : GonePast(k)' <=> GonePast(k)
      BY <3>1 DEF GonePast, AsSigned
    <3>4. index > 0 => \A k \in Int : \A r : Justified(k, r)' <=> Justified(k, r)
      BY <3>1 DEF Justified, Genuine, AsSigned, SameInstant
    <3>5. CASE VerifyStarts
      BY <2>0, <3>2, <3>5 DEF VerifyStarts, VerifyInv, LoopInv
    <3>6. CASE VerifyNext
      <4>1. index \in DOMAIN stored /\ index > 0 /\ index' = index + 1 /\ verdict' = None
        BY <2>0, <3>6 DEF VerifyNext
      <4>2. GonePast(index)
        BY <2>0, <3>6, <4>1, LinkedIsGonePast DEF VerifyNext, VerifyInv, LoopInv
      <4> QED  BY <2>0, <3>2, <3>3, <4>1, <4>2 DEF VerifyInv, LoopInv
    <3>7. CASE VerifyFails
      <4>1. /\ index \in DOMAIN stored /\ index > 0 /\ index' = index
            /\ ~(Linked(index) /\ VerifyReceipt(stored[index]))
        BY <2>0, <3>7 DEF VerifyFails
      <4>3. /\ verdict' # None /\ ~verdict'.passed /\ verdict'.failure = index - 1
            /\ verdict'.count = verdict'.failure
            /\ verdict'.reason = "signature" => ~VerifyReceipt(stored[index])
        <5>1. PICK reason \in {"root", "link", "signature"} :
                 /\ verdict' = Failed(index, reason)
                 /\ reason = "signature" => ~VerifyReceipt(stored[index])
          BY <3>7 DEF VerifyFails
        <5>2. Failed(index, reason) \in Verdict
          BY <2>0, <4>1 DEF Failed, Verdict
        <5> QED  BY <5>1, <5>2, NoneIsNothing DEF Failed
      <4>4. index > 1 => GonePast(index - 1)
        BY <2>0 DEF VerifyInv, LoopInv
      <4>5. Justified(index, verdict'.reason)
        BY <4>1, <4>3, <4>4, FailureJustified
      <4> QED
        BY <2>0, <3>1, <3>2, <3>3, <3>4, <4>1, <4>3, <4>5 DEF VerifyInv, LoopInv
    <3>8. CASE VerifyPasses
      <4>1. /\ index = Len(stored) + 1 /\ index' = index /\ verdict' = Passed
            /\ verdict'.passed /\ verdict'.count = Len(stored)
        BY <3>8 DEF VerifyPasses, Passed
      <4> QED  BY <2>0, <3>1, <3>2, <3>3, <4>1 DEF VerifyInv, LoopInv
    <3> QED  BY <2>3, <3>5, <3>6, <3>7, <3>8 DEF Verify, VerifyChain
  <2>4. CASE Finished \/ UNCHANGED vars
    BY <2>4 DEF Finished, vars, chainVars, providerVars, VerifyInv, SignedWhere, LoopInv,
                AllEnded, GonePast, Justified, AsSigned, SameInstant, Genuine
  <2> QED  BY <2>1, <2>2, <2>3, <2>4 DEF Next
<1> QED  BY <1>1, <1>2, TypeCorrect, Chained, NobodyForges, PTL DEF Spec

\* Up to its last receipt with the signer's key, a list that passes is the
\* beginning of the chain that was signed, whatever befell it and however its
\* receipts were stored.
THEOREM PassedIsVouchedFor == Spec => []PassedMeansVouchedFor
<1>1. ASSUME TypeOK, VerifyInv, verdict # None, verdict.passed
      PROVE  verdict.count = Len(stored) /\ VouchedFor(Len(stored))
  <2>1. /\ verdict.count = Len(stored) /\ index = Len(stored) + 1
        /\ \A k \in 1..(index - 1) : GonePast(k)
    BY <1>1 DEF VerifyInv, LoopInv
  <2>2. index - 1 = Len(stored)
    BY <1>1, <2>1 DEF TypeOK, ChainTypeOK
  <2> QED  BY <2>1, <2>2 DEF VouchedFor, GonePast
<1>2. TypeOK /\ VerifyInv => PassedMeansVouchedFor
  BY <1>1 DEF PassedMeansVouchedFor
<1> QED  BY <1>2, TypeCorrect, VerifyInvariant, PTL

\* A list that fails does so at a receipt that is not the one signed in that
\* place, or right after one that was rewritten with another key.
THEOREM FailurePlaced == Spec => []FailureIsPlaced
<1>1. ASSUME TypeOK, VerifyInv, verdict # None, ~verdict.passed
      PROVE  LET i == verdict.failure + 1 IN
             /\ i \in DOMAIN stored
             /\ verdict.count = verdict.failure
             /\ VouchedFor(verdict.failure)
             /\ Justified(i, verdict.reason)
  <2>1. /\ index \in DOMAIN stored /\ verdict.failure = index - 1
        /\ verdict.count = verdict.failure /\ Justified(index, verdict.reason)
        /\ \A k \in 1..(index - 1) : GonePast(k)
    BY <1>1 DEF VerifyInv, LoopInv
  <2>2. index \in Nat
    BY <1>1 DEF TypeOK, ChainTypeOK
  <2>3. verdict.failure + 1 = index
    BY <2>1, <2>2
  <2>4. VouchedFor(verdict.failure)
    BY <2>1 DEF VouchedFor, GonePast
  <2> QED  BY <2>1, <2>3, <2>4
<1>2. TypeOK /\ VerifyInv => FailureIsPlaced
  BY <1>1 DEF Justified, FailureIsPlaced
<1> QED  BY <1>2, TypeCorrect, VerifyInvariant, PTL
=============================================================================
