-------------------------- MODULE GuardrailLedger --------------------------
(***************************************************************************)
(* What the guardrail service promises, with every operation in one step.  *)
(*                                                                         *)
(* The service keeps guardrail rows, decision events, one hash chain of    *)
(* receipts per ai_system and an audit trail.  Creating or recompiling a   *)
(* guardrail writes its row and the matching audit entry at once, or no    *)
(* entry if the database may fail after a commit (MayGoUnreported); a      *)
(* checked action writes its event, extends the chain of its system by one *)
(* receipt linked to the tip, and writes its audit entry at once.  Module  *)
(* Guardrails, in which these writes are separate steps of concurrent      *)
(* requests, implements this specification.                                *)
(***************************************************************************)
EXTENDS Naturals, Sequences

CONSTANTS Ids,        \* identifiers of requests, and of what they create
          Orgs, Systems, ObligationIds,
          Seconds,    \* the values of the created_at column
          MayGoUnreported,  \* may a guardrail lack its audit entry?
          None        \* "no value": null in JSON, None in Python

VARIABLES rows,       \* guardrail rows, by guardrail id
          events,     \* decision events in commit order
          chain,      \* the receipts of each system, oldest first
          audit       \* audit entries in the order they were written

vars == <<rows, events, chain, audit>>

Decisions == {"allow", "deny"}

-----------------------------------------------------------------------------

\* The receipt that extends the chain s: it names the hash of the tip.  A
\* receipt's hash covers its own fresh id, so the id stands for the hash.
Tip(s) == IF s = <<>> THEN None ELSE s[Len(s)].id

Linked(s, id, decision) ==
    Append(s, [id |-> id, prev |-> Tip(s), decision |-> decision])

Init ==
    /\ rows = [g \in {} |-> None]
    /\ events = <<>>
    /\ chain = [s \in Systems |-> <<>>]
    /\ audit = <<>>

\* The entry of a guardrail, which the database may prevent.
Report(entry) ==
    \/ audit' = Append(audit, entry)
    \/ MayGoUnreported /\ audit' = audit

\* A guardrail appears together with its audit entry, which has no "before".
Create(g) ==
    \E o \in Orgs, s \in Systems, I \in SUBSET ObligationIds, t \in Seconds :
        /\ g \notin DOMAIN rows
        /\ rows' = [x \in DOMAIN rows \cup {g} |->
                      IF x = g THEN [org |-> o, sys |-> s, ids |-> I,
                                     created |-> t, compiled |-> g]
                               ELSE rows[x]]
        /\ Report([action |-> "created", entity |-> g,
                   org |-> o, before |-> None, after |-> g])
        /\ UNCHANGED <<events, chain>>

\* Recompiling replaces the compiled policy and nothing else; the entry
\* quotes the policy it replaced.
Recompile(q) ==
    \E g \in DOMAIN rows :
        /\ rows' = [rows EXCEPT ![g].compiled = q]
        /\ Report([action |-> "recompiled", entity |-> g, org |-> rows[g].org,
                   before |-> rows[g].compiled, after |-> q])
        /\ UNCHANGED <<events, chain>>

\* A decision is taken by a guardrail of the system it is about, and its
\* event, its receipt and its audit entry belong to that one request.
Check(e) ==
    \E g \in DOMAIN rows, d \in Decisions :
        LET s == rows[g].sys IN
        /\ \A i \in 1..Len(events) : events[i].id # e
        /\ events' = Append(events, [id |-> e, guardrail |-> g,
                                     policy |-> rows[g].compiled,
                                     org |-> rows[g].org, sys |-> s,
                                     decision |-> d, receipt |-> e])
        /\ chain' = [chain EXCEPT ![s] = Linked(@, e, d)]
        /\ audit' = Append(audit, [action |-> "checked", entity |-> e,
                                   org |-> rows[g].org,
                                   before |-> None, after |-> d])
        /\ UNCHANGED rows

Next == \E id \in Ids : Create(id) \/ Recompile(id) \/ Check(id)

Spec == Init /\ [][Next]_vars
=============================================================================
