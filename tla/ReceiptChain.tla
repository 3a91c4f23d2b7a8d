---------------------------- MODULE ReceiptChain ----------------------------
(***************************************************************************)
(* Signed receipts (services/receipts.py) and verify_chain                 *)
(* (services/receipt_chain.py), which goes through a stored list of them.  *)
(*                                                                         *)
(* A payload is known by its hash: k is the hash of signed[k], the k-th    *)
(* that the provider's signer signed, -k that of forged[k], one which only *)
(* the holder of another key signed, and 0 that of anything else.  So two  *)
(* payloads have one hash only if they are equal, and a signature by the   *)
(* signer's key is over a payload of signed or over nothing: that is what  *)
(* the vendored package provides.  Nothing is said of the other keys, and  *)
(* a receipt carries the key it is verified with.  The receipt id, unique  *)
(* to a call, also stands for the hash of the envelope.                    *)
(***************************************************************************)
EXTENDS Integers, Sequences

CONSTANTS Calls,           \* the calls of check_action; each draws one receipt id
          Zones,           \* the offsets of local time from UTC
          SignerZone,      \* the one where receipts are signed
          Keys,            \* public keys
          SignerKey,       \* that of the provider's signer
          None

ASSUME ZoneAssumption == SignerZone \in Zones /\ "utc" \notin Zones
ASSUME KeyAssumption == SignerKey \in Keys

VARIABLES signed,          \* the payloads signed so far by the provider's signer
          forged,          \* the payloads signed with other keys only
          stored,          \* the list of receipts that is verified
          zone,            \* the local time of the process that verifies it
          index,           \* the receipt verify_chain is at, or 0
          verdict          \* its result, or None

chainVars == <<signed, forged, stored, zone, index, verdict>>

Decisions == {"allow", "deny"}
\* A timestamp has a UTC offset, or it has none, or it is no timestamp.
Stamps == {"offset", "naive", "malformed"}
Hashes == Int \cup {None}

Payload == [id : Calls, decision : Decisions, instant : Zones \cup {"utc"},
            prev : Hashes]

\* The key that a signature was made with, and the hash of what it is over.
Signature == [by : Keys, over : Int]

\* reasons is TRUE for the text that was given to the signer.
Receipt == [id : Calls, decision : Decisions \cup {"other"}, stamp : Stamps,
            reasons : BOOLEAN, prev : Hashes, hash : Int, signature : Signature,
            key : Keys]

Verdict == [passed : BOOLEAN, count : Nat, failure : Nat \cup {None},
            reason : {"root", "link", "signature", None}]

ASSUME NoneAssumption ==
    None \notin Int \cup Calls \cup Decisions \cup Receipt \cup Verdict

-----------------------------------------------------------------------------
\* services/receipts.py

\* A timestamp without an offset is read as local time.
Instant(stamp, z) == IF stamp = "naive" THEN z ELSE "utc"

\* The payload of a receipt as a process in time zone z rebuilds it: every
\* decision that is not "allow" is a denial, and the reasons have no part.
PayloadOf(r, z) ==
    [id |-> r.id, decision |-> IF r.decision = "allow" THEN "allow" ELSE "deny",
     instant |-> Instant(r.stamp, z), prev |-> r.prev]

\* The receipt of the payload that is about to be signed.
NewReceipt(c, decision, stamp, prev) ==
    [id |-> c, decision |-> decision, stamp |-> stamp, reasons |-> TRUE,
     prev |-> prev, hash |-> Len(signed) + 1,
     signature |-> [by |-> SignerKey, over |-> Len(signed) + 1], key |-> SignerKey]

\* h is the hash of payload p.
HashOf(h, p) ==
    \/ h \in DOMAIN signed /\ signed[h] = p
    \/ -h \in DOMAIN forged /\ forged[-h] = p

\* Mutant: the hash is not computed anew.
VerifyStatedHash(r) ==
    /\ r.stamp # "malformed"
    /\ r.signature = [by |-> r.key, over |-> r.hash]
    /\ r.hash # 0

\* The signature is by the key that the receipt carries, whosever it is, over
\* the rebuilt payload, whose hash is the receipt's.
VerifyReceipt(r) ==
    /\ r.stamp # "malformed"
    /\ r.signature.by = r.key
    /\ HashOf(r.signature.over, PayloadOf(r, zone))
    /\ r.hash = r.signature.over

-----------------------------------------------------------------------------
\* verify_chain

\* Mutant: the failure is reported one receipt late.
FailedLate(i, reason) ==
    [passed |-> FALSE, count |-> i, failure |-> i, reason |-> reason]

Failed(i, reason) ==
    [passed |-> FALSE, count |-> i - 1, failure |-> i - 1, reason |-> reason]

Passed == [passed |-> TRUE, count |-> Len(stored), failure |-> None, reason |-> None]

Linked(i) ==
    stored[i].prev = IF i = 1 THEN None ELSE stored[i - 1].hash

VerifyStarts ==
    /\ index = 0
    /\ index' = 1
    /\ zone' \in Zones
    /\ UNCHANGED <<signed, forged, stored, verdict>>

\* One iteration that finds nothing wrong.
VerifyNext ==
    /\ verdict = None
    /\ index \in DOMAIN stored
    /\ Linked(index)
    /\ VerifyReceipt(stored[index])
    /\ index' = index + 1
    /\ UNCHANGED <<signed, forged, stored, zone, verdict>>

\* The first failure ends the loop; the link is looked at before the signature.
VerifyFails ==
    /\ verdict = None
    /\ index \in DOMAIN stored
    /\ \/ /\ ~Linked(index)
          /\ verdict' = Failed(index, IF index = 1 THEN "root" ELSE "link")
       \/ /\ Linked(index)
          /\ ~VerifyReceipt(stored[index])
          /\ verdict' = Failed(index, "signature")
    /\ UNCHANGED <<signed, forged, stored, zone, index>>

\* The list is empty or all of it has been looked at.
VerifyPasses ==
    /\ verdict = None
    /\ index = Len(stored) + 1
    /\ verdict' = Passed
    /\ UNCHANGED <<signed, forged, stored, zone, index>>

VerifyChain == VerifyNext \/ VerifyFails \/ VerifyPasses

ChainInit ==
    /\ signed = <<>>
    /\ forged = <<>>
    /\ stored = <<>>
    /\ zone = SignerZone
    /\ index = 0
    /\ verdict = None

ChainTypeOK ==
    /\ signed \in Seq(Payload)
    /\ forged \in Seq(Payload)
    /\ stored \in Seq(Receipt)
    /\ zone \in Zones
    /\ index \in 0..(Len(stored) + 1)
    /\ verdict \in Verdict \cup {None}
=============================================================================
