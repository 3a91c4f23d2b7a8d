-------------------------- MODULE DerivationProofs --------------------------
(***************************************************************************)
(* Theorems about Derivation, for any obligations and any number of them.  *)
(* The loop invariant says what the locals of derive_constraint_spec are   *)
(* of the obligations scanned so far; with all of them scanned, the rules  *)
(* compiled from the locals are compared with Forbidden rule by rule.      *)
(***************************************************************************)
EXTENDS Derivation, TLAPS

\* What a set S of obligations states.
LimitsOf(S)  == {[limit |-> o.limit, source |-> o.id] : o \in {q \in S : q.limit # Null}}
RegionsOf(S) == UNION {Named(o) : o \in {q \in S : q.residency}}
CategoriesOf(S) == UNION {o.categories : o \in S}
AllowedBy(S) == \A o \in S : ~(o.ban /\ o.categories # {})
StatesNothing(o) ==
    ~(o.limit # Null \/ o.residency \/ o.categories # {} \/ o.approval)

\* s is what the loop has made of the obligations in S.
Collected(s, S) ==
    /\ s.limits = LimitsOf(S)
    /\ s.regions = RegionsOf(S)
    /\ s.geoSources = IdsOf({o \in S : o.residency})
    /\ s.categories = CategoriesOf(S)
    /\ s.crossBorderAllowed = AllowedBy(S)
    /\ s.dataSources = IdsOf({o \in S : o.categories # {}})
    /\ s.approvalSources = IdsOf({o \in S : o.approval})
    /\ s.unrecognized = IdsOf({o \in S : StatesNothing(o)})
    /\ \A o \in S : o.approval => Needs(o) <= s.minApprovers
    /\ s.minApprovers = 0 \/ \E o \in S : o.approval /\ s.minApprovers = Needs(o)

Scanned == {obligations[k] : k \in 1..(next - 1)}

LoopInv == Collected(spec, Scanned)

-----------------------------------------------------------------------------
\* Types.

LEMMA NeedsNat == ASSUME NEW o \in Obligation PROVE Needs(o) \in Nat
BY DEF Needs, Obligation

LEMMA NamedType == ASSUME NEW o \in Obligation PROVE Named(o) \subseteq Regions
BY DEF Named, Obligation

LEMMA ScanType ==
    ASSUME NEW s \in Specs, NEW o \in Obligation, Converts(o),
           \A entry \in s.limits : entry.limit.max \in Nat
    PROVE  /\ Scan(s, o) \in Specs
           /\ \A entry \in Scan(s, o).limits : entry.limit.max \in Nat
<1> DEFINE t == Scan(s, o)
<1>1. /\ o.id \in Ids
      /\ o.limit \in Limits \cup {Null}
      /\ o.residency \in BOOLEAN /\ o.ban \in BOOLEAN /\ o.approval \in BOOLEAN
      /\ o.categories \subseteq Categories
  BY DEF Obligation
<1>2. /\ s.limits \subseteq [limit : Limits, source : Ids]
      /\ s.regions \subseteq Regions /\ s.geoSources \subseteq Ids
      /\ s.categories \subseteq Categories /\ s.crossBorderAllowed \in BOOLEAN
      /\ s.dataSources \subseteq Ids /\ s.minApprovers \in Nat
      /\ s.approvalSources \subseteq Ids /\ s.unrecognized \subseteq Ids
  BY DEF Specs
<1>3. /\ t.limits \subseteq [limit : Limits, source : Ids]
      /\ \A entry \in t.limits : entry.limit.max \in Nat
  BY <1>1, <1>2 DEF Scan, Converts, Limits
<1>4. t.regions \subseteq Regions
  BY <1>2, NamedType DEF Scan
<1>5. /\ t.geoSources \subseteq Ids /\ t.dataSources \subseteq Ids
      /\ t.approvalSources \subseteq Ids /\ t.unrecognized \subseteq Ids
  BY <1>1, <1>2 DEF Scan, SourceIf
<1>6. t.categories \subseteq Categories
  BY <1>1, <1>2 DEF Scan
<1>7. t.crossBorderAllowed \in BOOLEAN
  BY DEF Scan, StillAllowed
<1>8. t.minApprovers \in Nat
  BY <1>2, NeedsNat DEF Scan, Stricter
<1>9. t = [limits |-> t.limits, regions |-> t.regions, geoSources |-> t.geoSources,
           categories |-> t.categories, crossBorderAllowed |-> t.crossBorderAllowed,
           dataSources |-> t.dataSources, minApprovers |-> t.minApprovers,
           approvalSources |-> t.approvalSources, unrecognized |-> t.unrecognized]
  BY DEF Scan
<1> HIDE DEF t
<1>10. t \in Specs
  BY <1>3, <1>4, <1>5, <1>6, <1>7, <1>8, <1>9 DEF Specs
<1> QED  BY <1>3, <1>10 DEF t

LEMMA CompiledType == ASSUME NEW s \in Specs PROVE Compiled(s) \in Policies
<1>1. \A entry \in s.limits : entry.limit \in Limits  BY DEF Specs
<1>2. {entry.limit : entry \in s.limits} \subseteq Limits  BY <1>1
<1>3. s.regions \subseteq Regions /\ s.categories \subseteq Categories /\ s.minApprovers \in Nat
  BY DEF Specs
<1> QED  BY <1>2, <1>3 DEF Compiled, Policies

\* The variables of derive_and_compile keep their types.
THEOREM TypeCorrect == Spec => []TypeOK
<1>1. Init => TypeOK
  <2> SUFFICES ASSUME Init PROVE TypeOK  OBVIOUS
  <2>1. obligations \in Seq(Obligations)
    BY BoundAssumption DEF Init, Lists
  <2>2. NoSpec \in Specs  BY DEF NoSpec, Specs
  <2>3. Len(obligations) \in Nat  BY <2>1
  <2> QED  BY <2>1, <2>2, <2>3 DEF Init, TypeOK, NoSpec
<1>2. TypeOK /\ [Next]_vars => TypeOK'
  <2> SUFFICES ASSUME TypeOK, [Next]_vars PROVE TypeOK'  OBVIOUS
  <2>0. Len(obligations) \in Nat /\ next \in Nat  BY DEF TypeOK
  <2>1. CASE Derive
    <3>1. obligations[next] \in Obligation /\ Converts(obligations[next])
      BY <2>0, <2>1, InputAssumption DEF Derive, TypeOK
    <3>2. spec' \in Specs /\ \A entry \in spec'.limits : entry.limit.max \in Nat
      BY <2>1, <3>1, ScanType DEF Derive, TypeOK
    <3>3. next' \in 1..(Len(obligations) + 1)  BY <2>0, <2>1 DEF Derive, TypeOK
    <3> QED  BY <2>1, <3>2, <3>3 DEF Derive, TypeOK
  <2>2. CASE DeriveRaises  BY <2>2 DEF DeriveRaises, TypeOK
  <2>3. CASE Compile
    <3>1. next = Len(obligations) + 1  BY <2>0, <2>3 DEF Compile, TypeOK
    <3>2. Compiled(spec) \in Policies  BY CompiledType DEF TypeOK
    <3> QED  BY <2>3, <3>1, <3>2 DEF Compile, TypeOK
  <2>4. CASE Validate  BY <2>4 DEF Validate, TypeOK
  <2>5. CASE Done \/ UNCHANGED vars  BY <2>5 DEF Done, vars, TypeOK
  <2> QED  BY <2>1, <2>2, <2>3, <2>4, <2>5 DEF Next
<1> QED  BY <1>1, <1>2, PTL DEF Spec

-----------------------------------------------------------------------------
\* The loop.

\* One iteration adds what one obligation states.
LEMMA ScanCollects ==
    ASSUME NEW S \in SUBSET Obligation, NEW o \in Obligation, NEW s \in Specs,
           Collected(s, S)
    PROVE  Collected(Scan(s, o), S \cup {o})
<1> DEFINE t == Scan(s, o)
           T == S \cup {o}
<1>1. t.limits = LimitsOf(T)
  BY DEF Scan, Collected, LimitsOf
<1>2. t.regions = RegionsOf(T)
  BY DEF Scan, Collected, RegionsOf
<1>3. /\ t.geoSources = IdsOf({q \in T : q.residency})
      /\ t.dataSources = IdsOf({q \in T : q.categories # {}})
      /\ t.approvalSources = IdsOf({q \in T : q.approval})
  BY DEF Scan, Collected, IdsOf, SourceIf
<1>4. t.unrecognized = IdsOf({q \in T : StatesNothing(q)})
  BY DEF Scan, Collected, IdsOf, SourceIf, StatesNothing, Recognized
<1>5. t.categories = CategoriesOf(T)
  BY DEF Scan, Collected, CategoriesOf
<1>6. t.crossBorderAllowed = AllowedBy(T)
  BY DEF Scan, Collected, AllowedBy, StillAllowed
<1>7. /\ \A q \in T : q.approval => Needs(q) <= t.minApprovers
      /\ t.minApprovers = 0 \/ \E q \in T : q.approval /\ t.minApprovers = Needs(q)
  <2>1. s.minApprovers \in Nat /\ \A q \in T : Needs(q) \in Nat
    BY NeedsNat DEF Specs
  <2>2. t.minApprovers = IF o.approval /\ Needs(o) > s.minApprovers
                         THEN Needs(o) ELSE s.minApprovers
    BY DEF Scan, Stricter
  <2> QED  BY <2>1, <2>2 DEF Collected
<1> QED  BY <1>1, <1>2, <1>3, <1>4, <1>5, <1>6, <1>7 DEF Collected

\* At each iteration the locals are what the obligations before it state.
LEMMA LoopInvariant == Spec => []LoopInv
<1>1. Init => LoopInv
  <2> SUFFICES ASSUME Init PROVE LoopInv  OBVIOUS
  <2>1. Scanned = {}  BY DEF Init, Scanned
  <2> QED
    BY <2>1 DEF Init, LoopInv, Collected, NoSpec, LimitsOf, RegionsOf, IdsOf,
                CategoriesOf, AllowedBy
<1>2. TypeOK /\ LoopInv /\ [Next]_vars => LoopInv'
  <2> SUFFICES ASSUME TypeOK, LoopInv, [Next]_vars PROVE LoopInv'  OBVIOUS
  <2>1. CASE Derive
    <3>1. Len(obligations) \in Nat /\ next \in 1..Len(obligations)
      BY <2>1 DEF Derive, TypeOK
    <3>2. \A k \in 1..next : obligations[k] \in Obligation
      BY <3>1, InputAssumption DEF TypeOK
    <3>3. Scanned' = Scanned \cup {obligations[next]}
      BY <2>1, <3>1 DEF Derive, Scanned
    <3>4. Scanned \subseteq Obligation  BY <3>1, <3>2 DEF Scanned
    <3>5. Collected(Scan(spec, obligations[next]), Scanned \cup {obligations[next]})
      BY <3>1, <3>2, <3>4, ScanCollects DEF LoopInv, TypeOK
    <3>6. spec' = Scan(spec, obligations[next])  BY <2>1 DEF Derive
    <3> QED  BY <3>3, <3>5, <3>6 DEF LoopInv
  <2>2. CASE DeriveRaises \/ Compile \/ Validate \/ Done \/ UNCHANGED vars
    <3>1. spec' = spec /\ Scanned' = Scanned
      BY <2>2 DEF DeriveRaises, Compile, Validate, Done, vars, Scanned
    <3> QED  BY <3>1 DEF LoopInv
  <2> QED  BY <2>1, <2>2 DEF Next
<1> QED  BY <1>1, <1>2, TypeCorrect, PTL DEF Spec

\* When the function returns, every obligation has been scanned.
LEMMA AllScanned ==
    ASSUME TypeOK, phase = "returned"
    PROVE  Scanned = Submitted /\ Submitted \subseteq Obligation
<1>1. next = Len(obligations) + 1 /\ Len(obligations) \in Nat  BY DEF TypeOK
<1>2. DOMAIN obligations = 1..(next - 1)  BY <1>1 DEF TypeOK
<1>3. \A k \in DOMAIN obligations : obligations[k] \in Obligation
  BY <1>1, <1>2, InputAssumption DEF TypeOK
<1> QED  BY <1>2, <1>3 DEF Scanned, Submitted

-----------------------------------------------------------------------------
\* What the compiled policy does.

LEMMA RulesAreObligations ==
    ASSUME NEW S \in SUBSET Obligation, NEW s \in Specs, Collected(s, S),
           \A entry \in s.limits : entry.limit.max \in Nat,
           NEW a \in Action
    PROVE  LET d == Denials(Compiled(s), a) IN
           /\ "amount" \in d <=>
                 /\ a.amount # Null /\ a.amount > 0
                 /\ \E o \in S : /\ o.limit # Null
                                 /\ o.limit.currency = a.currency
                                 /\ a.amount > o.limit.max
           /\ "region" \in d <=> RegionsOf(S) # {} /\ a.region \notin RegionsOf(S)
           /\ "category" \in d <=>
                 /\ a.crossBorder
                 /\ ~AllowedBy(S)
                 /\ \E o \in S : a.categories \cap o.categories # {}
           /\ "approval" \in d <=>
                 /\ a.requiresApproval
                 /\ \E o \in S : o.approval /\ a.approvedBy < Needs(o)
<1> DEFINE p == Compiled(s)
           d == Denials(p, a)
<1>1. "amount" \in d <=>
          /\ a.amount # Null /\ a.amount > 0
          /\ \E o \in S : /\ o.limit # Null
                          /\ o.limit.currency = a.currency
                          /\ a.amount > o.limit.max
  <2>1. /\ \A l \in p.limits : \E o \in S : o.limit # Null /\ l = o.limit
        /\ \A o \in S : o.limit # Null => o.limit \in p.limits
    <3>1. p.limits = {entry.limit : entry \in LimitsOf(S)}
      BY DEF Compiled, Collected
    <3>2. \A entry \in LimitsOf(S) : \E o \in S : o.limit # Null /\ entry.limit = o.limit
      BY DEF LimitsOf
    <3>3. ASSUME NEW o \in S, o.limit # Null PROVE o.limit \in p.limits
      <4>1. [limit |-> o.limit, source |-> o.id] \in LimitsOf(S)  BY <3>3 DEF LimitsOf
      <4>2. [limit |-> o.limit, source |-> o.id].limit = o.limit  OBVIOUS
      <4> HIDE DEF p
      <4> QED  BY <3>1, <4>1, <4>2
    <3> HIDE DEF p
    <3> QED  BY <3>1, <3>2, <3>3
  <2>2. "amount" \in d <=>
          /\ a.amount # Null /\ a.amount > 0
          /\ \E l \in p.limits : a.currency = l.currency /\ a.amount > l.max
    BY DEF Denials
  <2> HIDE DEF p, d
  <2> QED  BY <2>1, <2>2
<1>2. "region" \in d <=> RegionsOf(S) # {} /\ a.region \notin RegionsOf(S)
  BY DEF Denials, Compiled, Collected
<1>3. "category" \in d <=>
          /\ a.crossBorder
          /\ ~AllowedBy(S)
          /\ \E o \in S : a.categories \cap o.categories # {}
  <2>1. p.restricted = IF AllowedBy(S) THEN {} ELSE CategoriesOf(S)
    BY DEF Compiled, Collected
  <2>2. "category" \in d <=> a.crossBorder /\ a.categories \cap p.restricted # {}
    BY DEF Denials
  <2> HIDE DEF p, d
  <2> QED  BY <2>1, <2>2 DEF CategoriesOf
<1>4. "approval" \in d <=>
          /\ a.requiresApproval
          /\ \E o \in S : o.approval /\ a.approvedBy < Needs(o)
  <2>1. /\ a.approvedBy \in Nat /\ s.minApprovers \in Nat
        /\ \A o \in S : Needs(o) \in Nat
    BY NeedsNat DEF Action, Specs
  <2>2. s.approvalSources = {} => \A o \in S : ~o.approval
    BY DEF Collected, IdsOf
  <2>3. p.minApprovers = IF s.approvalSources = {} THEN 0 ELSE s.minApprovers
    BY DEF Compiled
  <2>4. "approval" \in d <=> a.requiresApproval /\ a.approvedBy < p.minApprovers
    BY DEF Denials
  <2> HIDE DEF p, d
  <2> QED  BY <2>1, <2>2, <2>3, <2>4 DEF Collected
<1> QED  BY <1>1, <1>2, <1>3, <1>4

\* The compiled policy denies exactly what the obligations forbid, for any
\* obligations, in any number and order, and any actions.
THEOREM PolicyFaithful == Spec => []PolicyIsObligations
<1>1. TypeOK /\ LoopInv => PolicyIsObligations
  <2> SUFFICES ASSUME TypeOK, LoopInv, phase = "returned", NEW a \in Actions
               PROVE  Denies(policy, a) <=> Forbidden(a)
    BY DEF PolicyIsObligations
  <2> DEFINE d == Denials(Compiled(spec), a)
  <2>1. policy = Compiled(spec)  BY DEF TypeOK
  <2>2. Collected(spec, Submitted) /\ Submitted \in SUBSET Obligation
    BY AllScanned DEF LoopInv
  <2>3. a \in Action  BY InputAssumption
  <2>4. spec \in Specs /\ \A entry \in spec.limits : entry.limit.max \in Nat
    BY DEF TypeOK
  <2>5. Denies(policy, a) <=>
            "amount" \in d \/ "region" \in d \/ "category" \in d \/ "approval" \in d
    BY <2>1 DEF Denies, Denials
  <2>6. /\ "amount" \in d <=>
              /\ a.amount # Null /\ a.amount > 0
              /\ \E o \in Submitted : /\ o.limit # Null
                                      /\ o.limit.currency = a.currency
                                      /\ a.amount > o.limit.max
        /\ "region" \in d <=> RegionsOf(Submitted) # {} /\ a.region \notin RegionsOf(Submitted)
        /\ "category" \in d <=>
              /\ a.crossBorder
              /\ ~AllowedBy(Submitted)
              /\ \E o \in Submitted : a.categories \cap o.categories # {}
        /\ "approval" \in d <=>
              /\ a.requiresApproval
              /\ \E o \in Submitted : o.approval /\ a.approvedBy < Needs(o)
    BY <2>2, <2>3, <2>4, RulesAreObligations
  <2>7. ~AllowedBy(Submitted) <=> \E o \in Submitted : o.ban /\ o.categories # {}
    BY DEF AllowedBy
  <2> HIDE DEF d
  <2> QED  BY <2>5, <2>6, <2>7 DEF Forbidden, RegionsOf
<1> QED  BY <1>1, TypeCorrect, LoopInvariant, PTL

\* The sources of every part of the specification are exact, for any
\* obligations, also when several carry one id.
THEOREM SourcesFaithful == Spec => []SourcesExact
<1>1. TypeOK /\ LoopInv => SourcesExact
  <2> SUFFICES ASSUME TypeOK, LoopInv, phase = "returned" PROVE SourcesExact
    BY DEF SourcesExact
  <2>1. Collected(spec, Submitted)  BY AllScanned DEF LoopInv
  <2> QED  BY <2>1 DEF Collected, SourcesExact, LimitsOf, StatesNothing
<1> QED  BY <1>1, TypeCorrect, LoopInvariant, PTL

-----------------------------------------------------------------------------
\* Scanning never lifts a denial, residency apart.

LEMMA ScanTightens ==
    ASSUME NEW S \in SUBSET Obligation, NEW o \in Obligation, NEW s \in Specs,
           Collected(s, S), Converts(o),
           \A entry \in s.limits : entry.limit.max \in Nat,
           NEW a \in Action
    PROVE  Denials(Compiled(s), a) \ {"region"} \subseteq Denials(Compiled(Scan(s, o)), a)
<1> DEFINE d == Denials(Compiled(s), a)
           e == Denials(Compiled(Scan(s, o)), a)
           T == S \cup {o}
<1>1. /\ Scan(s, o) \in Specs /\ Collected(Scan(s, o), T) /\ T \in SUBSET Obligation
      /\ \A entry \in Scan(s, o).limits : entry.limit.max \in Nat
  BY ScanType, ScanCollects
<1>2. "amount" \in d => "amount" \in e
  BY <1>1, RulesAreObligations
<1>3. "category" \in d => "category" \in e
  <2>1. "category" \in d <=>
            /\ a.crossBorder
            /\ ~AllowedBy(S)
            /\ \E q \in S : a.categories \cap q.categories # {}
    BY RulesAreObligations
  <2>2. "category" \in e <=>
            /\ a.crossBorder
            /\ ~AllowedBy(T)
            /\ \E q \in T : a.categories \cap q.categories # {}
    BY <1>1, RulesAreObligations
  <2>3. AllowedBy(T) => AllowedBy(S)  BY DEF AllowedBy
  <2> HIDE DEF d, e
  <2> QED  BY <2>1, <2>2, <2>3
<1>4. "approval" \in d => "approval" \in e
  BY <1>1, RulesAreObligations
<1>5. d \subseteq {"amount", "region", "category", "approval"}
  BY DEF Denials
<1> QED  BY <1>2, <1>3, <1>4, <1>5

\* No further obligation lifts a restriction on amounts, transfers or
\* approvals, for any obligations and any actions.
THEOREM Tightens == Spec => NeverLoosens
<1> DEFINE Act == \A a \in Actions :
                    Denials(Compiled(spec), a) \ {"region"} \subseteq
                        Denials(Compiled(spec'), a)
<1>1. TypeOK /\ LoopInv /\ [Next]_vars => [Act]_vars
  <2> SUFFICES ASSUME TypeOK, LoopInv, Next, NEW a \in Actions
               PROVE  Denials(Compiled(spec), a) \ {"region"} \subseteq
                          Denials(Compiled(spec'), a)
    OBVIOUS
  <2>1. CASE Derive
    <3>1. Len(obligations) \in Nat /\ next \in 1..Len(obligations)
      BY <2>1 DEF Derive, TypeOK
    <3>2. \A k \in 1..next : obligations[k] \in Obligation
      BY <3>1, InputAssumption DEF TypeOK
    <3>3. Scanned \in SUBSET Obligation  BY <3>1, <3>2 DEF Scanned
    <3>4. Converts(obligations[next]) /\ spec' = Scan(spec, obligations[next])
      BY <2>1 DEF Derive
    <3>5. /\ a \in Action /\ spec \in Specs /\ Collected(spec, Scanned)
          /\ \A entry \in spec.limits : entry.limit.max \in Nat
      BY InputAssumption DEF TypeOK, LoopInv
    <3> QED  BY <3>1, <3>2, <3>3, <3>4, <3>5, ScanTightens
  <2>2. CASE DeriveRaises \/ Compile \/ Validate \/ Done
    <3>1. spec' = spec  BY <2>2 DEF DeriveRaises, Compile, Validate, Done, vars
    <3> QED  BY <3>1
  <2> QED  BY <2>1, <2>2 DEF Next
<1> QED  BY <1>1, TypeCorrect, LoopInvariant, PTL DEF Spec, NeverLoosens
=============================================================================
