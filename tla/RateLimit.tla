----------------------------- MODULE RateLimit -----------------------------
(***************************************************************************)
(* services/rate_limit.py: one token bucket per organization, created at   *)
(* the organization's first call under double-checked locking, and charged *)
(* under the bucket's own lock.                                            *)
(*                                                                         *)
(* Each caller is a thread that runs TokenBucketRateLimiter.allow once.    *)
(* Time is time.monotonic() in ticks.  Token counts are integers in units  *)
(* of 1/Cost token: a call costs Cost, a tick refills Refill.  A bucket    *)
(* object is named by the caller that constructed it.                      *)
(***************************************************************************)
EXTENDS Integers, Sequences

CONSTANTS Callers, Orgs,
          OrgOf,           \* caller -> the organization it calls for
          Capacity,        \* capacity, in tokens
          Cost,            \* one token, in units
          Refill,          \* refill_per_second, in units per tick
          Horizon,         \* bound on the clock
          None

\* The constructor rejects a capacity or a rate that is not positive.
ASSUME OrgOfAssumption == OrgOf \in [Callers -> Orgs]
ASSUME UnitsAssumption == Cost \in Nat \ {0} /\ Refill \in Nat \ {0}
ASSUME CapacityAssumption == Capacity \in Nat \ {0}
ASSUME HorizonAssumption == Horizon \in Nat
ASSUME NoneAssumption == None \notin Callers

VARIABLES pc,
          buckets,         \* limiter._buckets: org -> bucket or None
          registryLock,    \* limiter._registry_lock: its holder or None
          heap,            \* bucket -> [tokens, last_refill, lock], or None
          mine,            \* the bucket a caller got from _get_bucket
          now,             \* the time a caller read inside allow
          clock,
          admitted         \* history: the times of the admitted calls of an org

vars == <<pc, buckets, registryLock, heap, mine, now, clock, admitted>>

PCs == {"get", "create", "recheck", "acquire", "time", "charge",
        "allowed", "refused"}

Full == Capacity * Cost

Bucket == [tokens : 0..Full, last : 0..Horizon, lock : Callers \cup {None}]

ASSUME NoBucketAssumption == None \notin Bucket

Init ==
    /\ pc = [c \in Callers |-> "get"]
    /\ buckets = [o \in Orgs |-> None]
    /\ registryLock = None
    /\ heap = [b \in Callers |-> None]
    /\ mine = [c \in Callers |-> None]
    /\ now = [c \in Callers |-> 0]
    /\ clock = 0
    /\ admitted = [o \in Orgs |-> <<>>]

-----------------------------------------------------------------------------

Step(c, from, to) ==
    /\ pc[c] = from
    /\ pc' = [pc EXCEPT ![c] = to]

\* The unlocked lookup that serves all calls after the first.
GetBucket(c) ==
    /\ Step(c, "get", IF buckets[OrgOf[c]] = None THEN "create" ELSE "acquire")
    /\ mine' = [mine EXCEPT ![c] = buckets[OrgOf[c]]]
    /\ UNCHANGED <<buckets, registryLock, heap, now, clock, admitted>>

LockRegistry(c) ==
    /\ Step(c, "create", "recheck")
    /\ registryLock = None
    /\ registryLock' = c
    /\ UNCHANGED <<buckets, heap, mine, now, clock, admitted>>

\* Mutant: a new bucket starts empty.
NewBucketEmpty == [tokens |-> 0, last |-> clock, lock |-> None]

NewBucket == [tokens |-> Full, last |-> clock, lock |-> None]

\* Mutant: the registry is not looked up again under its lock.
CreateUnchecked(c) ==
    /\ Step(c, "recheck", "acquire")
    /\ heap' = [heap EXCEPT ![c] = NewBucket]
    /\ buckets' = [buckets EXCEPT ![OrgOf[c]] = c]
    /\ mine' = [mine EXCEPT ![c] = c]
    /\ registryLock' = None
    /\ UNCHANGED <<now, clock, admitted>>

\* Mutant: a caller that finds a bucket returns without releasing the lock.
CreateKeepsLock(c) ==
    LET found == buckets[OrgOf[c]] IN
    /\ Step(c, "recheck", "acquire")
    /\ IF found = None
       THEN /\ heap' = [heap EXCEPT ![c] = NewBucket]
            /\ buckets' = [buckets EXCEPT ![OrgOf[c]] = c]
            /\ mine' = [mine EXCEPT ![c] = c]
            /\ registryLock' = None
       ELSE /\ mine' = [mine EXCEPT ![c] = found]
            /\ UNCHANGED <<heap, buckets, registryLock>>
    /\ UNCHANGED <<now, clock, admitted>>

\* Second lookup under the registry lock; a bucket is built only if no other
\* caller has built one in the meantime.
CreateOrReuse(c) ==
    LET found == buckets[OrgOf[c]] IN
    /\ Step(c, "recheck", "acquire")
    /\ IF found = None
       THEN /\ heap' = [heap EXCEPT ![c] = NewBucket]
            /\ buckets' = [buckets EXCEPT ![OrgOf[c]] = c]
            /\ mine' = [mine EXCEPT ![c] = c]
       ELSE /\ mine' = [mine EXCEPT ![c] = found]
            /\ UNCHANGED <<heap, buckets>>
    /\ registryLock' = None
    /\ UNCHANGED <<now, clock, admitted>>

\* Mutant: allow does not wait for the bucket's lock.
LockBucketAnyway(c) ==
    /\ Step(c, "acquire", "time")
    /\ heap' = [heap EXCEPT ![mine[c]].lock = c]
    /\ UNCHANGED <<buckets, registryLock, mine, now, clock, admitted>>

LockBucket(c) ==
    /\ Step(c, "acquire", "time")
    /\ heap[mine[c]].lock = None
    /\ heap' = [heap EXCEPT ![mine[c]].lock = c]
    /\ UNCHANGED <<buckets, registryLock, mine, now, clock, admitted>>

ReadTime(c) ==
    /\ Step(c, "time", "charge")
    /\ now' = [now EXCEPT ![c] = clock]
    /\ UNCHANGED <<buckets, registryLock, heap, mine, clock, admitted>>

Smaller(a, b) == IF a <= b THEN a ELSE b

\* Mutant: the refill is not capped.
RefilledUncapped(b, t) ==
    IF t > b.last THEN [b EXCEPT !.tokens = @ + Refill * (t - b.last), !.last = t]
    ELSE b

\* The tokens of bucket b at time t; a clock that did not move adds nothing.
Refilled(b, t) ==
    IF t > b.last
    THEN [b EXCEPT !.tokens = Smaller(Full, @ + Refill * (t - b.last)),
                   !.last = t]
    ELSE b

\* Refill, take a token if there is one, release the lock.
Charge(c) ==
    LET b == Refilled(heap[mine[c]], now[c])
        o == OrgOf[c]
    IN
    /\ pc[c] = "charge"
    /\ IF b.tokens >= Cost
       THEN /\ Step(c, "charge", "allowed")
            /\ heap' = [heap EXCEPT ![mine[c]] =
                          [b EXCEPT !.tokens = @ - Cost, !.lock = None]]
            /\ admitted' = [admitted EXCEPT ![o] = Append(@, now[c])]
       ELSE /\ Step(c, "charge", "refused")
            /\ heap' = [heap EXCEPT ![mine[c]] = [b EXCEPT !.lock = None]]
            /\ UNCHANGED admitted
    /\ UNCHANGED <<buckets, registryLock, mine, now, clock>>

Allow(c) ==
    \/ GetBucket(c) \/ LockRegistry(c) \/ CreateOrReuse(c)
    \/ LockBucket(c) \/ ReadTime(c) \/ Charge(c)

Tick ==
    /\ clock < Horizon
    /\ clock' = clock + 1
    /\ UNCHANGED <<pc, buckets, registryLock, heap, mine, now, admitted>>

Next == Tick \/ \E c \in Callers : Allow(c)

Spec == Init /\ [][Next]_vars

\* Every thread that can run is run; threading.Lock admits one that waits.
FairSpec == Spec /\ \A c \in Callers : WF_vars(Allow(c))

-----------------------------------------------------------------------------

\* Every variable holds a value the code can store in it, and callers past
\* _get_bucket have a bucket.
TypeOK ==
    /\ pc \in [Callers -> PCs]
    /\ buckets \in [Orgs -> Callers \cup {None}]
    /\ registryLock \in Callers \cup {None}
    /\ heap \in [Callers -> Bucket \cup {None}]
    /\ mine \in [Callers -> Callers \cup {None}]
    /\ now \in [Callers -> 0..Horizon]
    /\ clock \in 0..Horizon
    /\ admitted \in [Orgs -> Seq(0..Horizon)]

\* An organization never has two buckets, however its first calls race: who
\* has got a bucket has got the registered one (rate_limit.py:106-115).
OneBucketPerOrg ==
    /\ \A o \in Orgs : buckets[o] # None =>
          heap[buckets[o]] # None /\ OrgOf[buckets[o]] = o
    /\ \A c \in Callers :
          /\ mine[c] # None => mine[c] = buckets[OrgOf[c]]
          /\ pc[c] \in {"acquire", "time", "charge"} => mine[c] # None

\* Only one caller at a time reads the time of a bucket and charges it.
BucketExclusive ==
    \A c \in Callers :
        pc[c] \in {"time", "charge"} =>
            heap[mine[c]].lock = c

\* In any period the calls admitted for an organization cost at most a full
\* bucket and what the period refilled, counting both its ends.
RateBound ==
    \A o \in Orgs : \A i, j \in 1..Len(admitted[o]) :
        i <= j => (j - i + 1) * Cost <=
                      Full + Refill * (admitted[o][j] - admitted[o][i])

\* No call is refused before a full bucket of calls of the same organization
\* has been admitted: refusals and other organizations take nothing from it.
RefusedOnlyWhenSpent ==
    \A c \in Callers :
        pc[c] = "refused" => (Len(admitted[OrgOf[c]]) + 1) * Cost > Full

\* Every call is decided.
EveryCallDecided ==
    \A c \in Callers : <>(pc[c] \in {"allowed", "refused"})
=============================================================================
