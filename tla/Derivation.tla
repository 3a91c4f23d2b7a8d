----------------------------- MODULE Derivation -----------------------------
(***************************************************************************)
(* derive_and_compile of services/derivation_engine.py: one pass over the  *)
(* obligations collects a ConstraintSpec, which is rendered as a Rego      *)
(* policy and validated.                                                   *)
(*                                                                         *)
(* An obligation is what the regular expressions find in its text; which   *)
(* texts match is not modelled.  A policy is what its rules compare with;  *)
(* a rule that is not rendered has nothing ({} or 0) there.  Tuples        *)
(* without duplicates are sets.  Amounts are integers.  The period of a    *)
(* limit ("per day") only appears in the message of a denial, so it is     *)
(* left out: every action is compared with the limit by itself.            *)
(***************************************************************************)
EXTENDS Integers, Sequences

CONSTANTS Obligations,     \* the obligations that may be submitted
          MaxObligations,  \* bound on how many are submitted at once
          Actions,         \* the actions a policy is asked about
          Ids, Currencies, Regions, Categories,
          Null

\* limit: an amount with a limiting phrase; max is Null when the digits of the
\* amount are commas only.  region: the name found after "within";
\* jurisdiction: the field of the record.  ban: a cross-border prohibition.
\* approvers: an explicit number of approvers.
Limits == [max : Nat \cup {Null}, currency : Currencies]
Obligation ==
    [id : Ids, limit : Limits \cup {Null},
     residency : BOOLEAN, region : Regions \cup {Null},
     jurisdiction : Regions \cup {Null},
     categories : SUBSET Categories, ban : BOOLEAN,
     approval : BOOLEAN, approvers : Nat \cup {Null}]

\* The fields of an ActionEnvelope that rules read; approvedBy is the length
\* of the list.
Action ==
    [amount : Int \cup {Null}, currency : Currencies \cup {Null},
     region : Regions \cup {Null}, categories : SUBSET Categories,
     crossBorder : BOOLEAN, requiresApproval : BOOLEAN, approvedBy : Nat]

ASSUME BoundAssumption == MaxObligations \in Nat
ASSUME NullAssumption == Null \notin Int \cup Currencies \cup Regions \cup Limits
ASSUME InputAssumption == Obligations \subseteq Obligation /\ Actions \subseteq Action

VARIABLES phase,           \* where derive_and_compile is
          obligations,     \* its argument
          next,            \* the obligation the loop is at
          spec,            \* the locals of the loop, then the ConstraintSpec
          policy           \* the compiled Rego

vars == <<phase, obligations, next, spec, policy>>

\* limits, regions and categories with the obligations they come from; a
\* GeographicScope, DataScope or ApprovalRequirement exists when its sources
\* are not empty.
Specs ==
    [limits : SUBSET [limit : Limits, source : Ids],
     regions : SUBSET Regions, geoSources : SUBSET Ids,
     categories : SUBSET Categories, crossBorderAllowed : BOOLEAN,
     dataSources : SUBSET Ids,
     minApprovers : Nat, approvalSources : SUBSET Ids,
     unrecognized : SUBSET Ids]

Policies ==
    [limits : SUBSET Limits, regions : SUBSET Regions,
     restricted : SUBSET Categories, minApprovers : Nat]

NoSpec ==
    [limits |-> {}, regions |-> {}, geoSources |-> {},
     categories |-> {}, crossBorderAllowed |-> TRUE, dataSources |-> {},
     minApprovers |-> 0, approvalSources |-> {}, unrecognized |-> {}]

Lists == UNION {[1..n -> Obligations] : n \in 0..MaxObligations}

Init ==
    /\ phase = "derive"
    /\ obligations \in Lists
    /\ next = 1
    /\ spec = NoSpec
    /\ policy = Null

-----------------------------------------------------------------------------
\* derive_constraint_spec: what one obligation adds.

\* The region a residency obligation names, in its text or else its record.
Named(o) == IF o.region # Null THEN {o.region} ELSE {o.jurisdiction} \ {Null}

\* How many approvers an approval obligation needs.
Needs(o) == IF o.approvers = Null THEN 1 ELSE o.approvers

\* Mutant: an approval requirement alone is not a match.
RecognizedButApproval(o) == o.limit # Null \/ o.residency \/ o.categories # {}

\* matched_any
Recognized(o) ==
    o.limit # Null \/ o.residency \/ o.categories # {} \/ o.approval

\* Mutant: the last obligation decides.
StricterIsLast(m, o) == IF o.approval THEN Needs(o) ELSE m

\* max(approval_min, ...)
Stricter(m, o) == IF o.approval /\ Needs(o) > m THEN Needs(o) ELSE m

\* Mutant: a later obligation about data lifts the prohibition.
StillAllowedOfLast(allowed, o) == IF o.categories = {} THEN allowed ELSE ~o.ban

\* The prohibition is only looked for in a text that names a category.
StillAllowed(allowed, o) == allowed /\ ~(o.ban /\ o.categories # {})

SourceIf(cond, o) == IF cond THEN {o.id} ELSE {}

\* One iteration of the loop.
Scan(s, o) ==
    [limits |-> s.limits \cup IF o.limit = Null THEN {}
                              ELSE {[limit |-> o.limit, source |-> o.id]},
     regions |-> s.regions \cup IF o.residency THEN Named(o) ELSE {},
     geoSources |-> s.geoSources \cup SourceIf(o.residency, o),
     categories |-> s.categories \cup o.categories,
     crossBorderAllowed |-> StillAllowed(s.crossBorderAllowed, o),
     dataSources |-> s.dataSources \cup SourceIf(o.categories # {}, o),
     minApprovers |-> Stricter(s.minApprovers, o),
     approvalSources |-> s.approvalSources \cup SourceIf(o.approval, o),
     unrecognized |-> s.unrecognized \cup SourceIf(~Recognized(o), o)]

\* Mutant: the amount is not converted.
ConvertsAnything(o) == TRUE

\* float(...) of the amount found succeeds.
Converts(o) == o.limit # Null => o.limit.max # Null

\* One obligation is scanned.
Derive ==
    /\ phase = "derive"
    /\ next <= Len(obligations)
    /\ Converts(obligations[next])
    /\ spec' = Scan(spec, obligations[next])
    /\ next' = next + 1
    /\ UNCHANGED <<phase, obligations, policy>>

\* An amount of commas only: ValueError from the middle of the loop.
DeriveRaises ==
    /\ phase = "derive"
    /\ next <= Len(obligations)
    /\ ~Converts(obligations[next])
    /\ phase' = "raised"
    /\ UNCHANGED <<obligations, next, spec, policy>>

-----------------------------------------------------------------------------
\* compile_constraint_spec and validate_rego_syntax.

Compiled(s) ==
    [limits |-> {entry.limit : entry \in s.limits},
     regions |-> s.regions,
     restricted |-> IF s.crossBorderAllowed THEN {} ELSE s.categories,
     minApprovers |-> IF s.approvalSources = {} THEN 0 ELSE s.minApprovers]

Compile ==
    /\ phase = "derive"
    /\ next > Len(obligations)
    /\ policy' = Compiled(spec)
    /\ phase' = "validate"
    /\ UNCHANGED <<obligations, next, spec>>

\* opa check accepts the policy, or it does not (ValueError), or it cannot be
\* run in time (RuntimeError, TimeoutExpired).
Validate ==
    /\ phase = "validate"
    /\ phase' \in {"returned", "raised"}
    /\ UNCHANGED <<obligations, next, spec, policy>>

\* The set of rules of the policy p that deny action a, by what each compares.
\* A missing region is null in the input, which is a value in Rego: the rule
\* on regions applies to it, and null is in no list.
Denials(p, a) ==
    {rule \in {"amount", "region", "category", "approval"} :
        \/ /\ rule = "amount"
           /\ a.amount # Null /\ a.amount > 0
           /\ \E l \in p.limits : a.currency = l.currency /\ a.amount > l.max
        \/ /\ rule = "region"
           /\ p.regions # {} /\ a.region \notin p.regions
        \/ /\ rule = "category"
           /\ a.crossBorder
           /\ a.categories \cap p.restricted # {}
        \/ /\ rule = "approval"
           /\ a.requiresApproval
           /\ a.approvedBy < p.minApprovers}

\* allow if count(deny) == 0
Denies(p, a) == Denials(p, a) # {}

Done ==
    /\ phase \in {"returned", "raised"}
    /\ UNCHANGED vars

Next == Derive \/ DeriveRaises \/ Compile \/ Validate \/ Done

Spec == Init /\ [][Next]_vars

-----------------------------------------------------------------------------
\* Properties.

\* Every variable keeps its type; a limit that was recorded is a number.
TypeOK ==
    /\ phase \in {"derive", "validate", "returned", "raised"}
    /\ obligations \in Seq(Obligations)
    /\ next \in 1..(Len(obligations) + 1)
    /\ spec \in Specs
    /\ \A entry \in spec.limits : entry.limit.max \in Nat
    /\ policy \in Policies \cup {Null}
    /\ phase \in {"validate", "returned"} =>
          policy = Compiled(spec) /\ next = Len(obligations) + 1

Submitted == {obligations[k] : k \in DOMAIN obligations}

\* What the submitted obligations together forbid, said without the loop:
\* more than some limit in its currency; a destination that no residency
\* obligation names, if any is named; a cross-border transfer of a category
\* that any obligation names, if one of them prohibits transfers; fewer
\* approvers than some obligation needs.
Forbidden(a) ==
    LET named == UNION {Named(o) : o \in {q \in Submitted : q.residency}} IN
    \/ /\ a.amount # Null /\ a.amount > 0
       /\ \E o \in Submitted : /\ o.limit # Null
                               /\ o.limit.currency = a.currency
                               /\ a.amount > o.limit.max
    \/ named # {} /\ a.region \notin named
    \/ /\ a.crossBorder
       /\ \E o \in Submitted : o.ban /\ o.categories # {}
       /\ \E o \in Submitted : a.categories \cap o.categories # {}
    \/ /\ a.requiresApproval
       /\ \E o \in Submitted : o.approval /\ a.approvedBy < Needs(o)

\* The compiled policy denies exactly what the obligations forbid, whatever
\* their number and order and however many speak of the same thing.
PolicyIsObligations ==
    phase = "returned" => \A a \in Actions : Denies(policy, a) <=> Forbidden(a)

IdsOf(S) == {o.id : o \in S}

\* The provenance of every part of the specification is exact: the ids it
\* quotes are those of the obligations that state it, no more and no fewer,
\* and unrecognized_obligation_ids has exactly those that state nothing.
SourcesExact ==
    phase = "returned" =>
        /\ spec.limits = {[limit |-> o.limit, source |-> o.id] :
                             o \in {q \in Submitted : q.limit # Null}}
        /\ spec.geoSources = IdsOf({o \in Submitted : o.residency})
        /\ spec.dataSources = IdsOf({o \in Submitted : o.categories # {}})
        /\ spec.approvalSources = IdsOf({o \in Submitted : o.approval})
        /\ spec.unrecognized =
              IdsOf({o \in Submitted : ~(\/ o.limit # Null \/ o.residency
                                         \/ o.categories # {} \/ o.approval)})

\* No further obligation lifts a restriction that the earlier ones impose,
\* with one exception: a second residency obligation widens the regions.
NeverLoosens ==
    [][\A a \in Actions :
          Denials(Compiled(spec), a) \ {"region"} \subseteq Denials(Compiled(spec'), a)
      ]_vars

\* "An obligation matching none of the families is recorded in
\* unrecognized_obligation_ids rather than silently dropped"
\* (derivation_engine.py:149-152): an obligation that is not recorded there
\* has, taken alone, a policy that denies something.
RecognizedConstrains ==
    phase = "returned" =>
        \A o \in Submitted : o.id \notin spec.unrecognized =>
            \E a \in Actions : Denies(Compiled(Scan(NoSpec, o)), a)
=============================================================================
