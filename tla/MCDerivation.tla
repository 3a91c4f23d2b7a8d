---------------------------- MODULE MCDerivation ----------------------------
(***************************************************************************)
(* Obligations and actions for TLC: each thing that an obligation may say, *)
(* with and without its optional parts, and an action on each side of      *)
(* every limit.                                                            *)
(***************************************************************************)
EXTENDS Derivation

Nothing ==
    [limit |-> Null, residency |-> FALSE, region |-> Null, jurisdiction |-> Null,
     categories |-> {}, ban |-> FALSE, approval |-> FALSE, approvers |-> Null]

Limited(m, c) == [Nothing EXCEPT !.limit = [max |-> m, currency |-> c]]
Resident(r, j) == [Nothing EXCEPT !.residency = TRUE, !.region = r, !.jurisdiction = j]
Data(cs, b) == [Nothing EXCEPT !.categories = cs, !.ban = b]
Approved(n) == [Nothing EXCEPT !.approval = TRUE, !.approvers = n]

Texts ==
    {[Nothing EXCEPT !.jurisdiction = "IN"], [Nothing EXCEPT !.ban = TRUE],
     Limited(1, "USD"), Limited(2, "USD"), Limited(0, "EUR"), Limited(Null, "USD"),
     Resident("IN", Null), Resident("EU", "IN"), Resident(Null, "IN"),
     Resident(Null, Null),
     Data({"pii"}, FALSE), Data({"health"}, TRUE), Data({"pii", "health"}, FALSE),
     Approved(Null), Approved(0), Approved(2),
     [Limited(1, "USD") EXCEPT !.approval = TRUE, !.residency = TRUE,
                               !.categories = {"pii"}, !.ban = TRUE]}

WithId(t, i) ==
    [id |-> i, limit |-> t.limit, residency |-> t.residency, region |-> t.region,
     jurisdiction |-> t.jurisdiction, categories |-> t.categories, ban |-> t.ban,
     approval |-> t.approval, approvers |-> t.approvers]

MCObligations == {WithId(t, i) : t \in Texts, i \in Ids}

\* Without an explicit "0 approvers", which asks for nothing.
MCBinding == {o \in MCObligations : o.approvers # 0}

\* Harmless unless a region is required.
Quiet ==
    [amount |-> Null, currency |-> Null, region |-> "IN", categories |-> {},
     crossBorder |-> FALSE, requiresApproval |-> FALSE, approvedBy |-> 0]

MCActions ==
    {[Quiet EXCEPT !.amount = n, !.currency = c] :
        n \in -1..3 \cup {Null}, c \in Currencies \cup {Null}}
    \cup {[Quiet EXCEPT !.region = r] : r \in Regions \cup {Null}}
    \cup {[Quiet EXCEPT !.categories = cs, !.crossBorder = b] :
        cs \in SUBSET Categories, b \in BOOLEAN}
    \cup {[Quiet EXCEPT !.requiresApproval = b, !.approvedBy = n] :
        b \in BOOLEAN, n \in 0..2}
=============================================================================
