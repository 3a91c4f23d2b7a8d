-------------------------- MODULE RateLimitProofs ---------------------------
(***************************************************************************)
(* Theorems about RateLimit, for any number of callers and organizations   *)
(* and any capacity and rate: an organization has one bucket, and what it  *)
(* is admitted in any period is bounded.                                   *)
(***************************************************************************)
EXTENDS RateLimit, TLAPS

LEMMA FullNat == Full \in Nat /\ Cost \in Nat /\ Refill \in Nat /\ Cost <= Full
<1>1. Capacity \in Nat /\ 1 <= Capacity /\ Cost \in Nat /\ Refill \in Nat
      BY CapacityAssumption, UnitsAssumption
<1>2. \A a, k \in Nat : 1 <= k => k * a \in Nat /\ a <= k * a
      OBVIOUS
<1> QED BY <1>1, <1>2 DEF Full

\* A caller that works on a bucket works on the one of its organization.
LEMMA Mine ==
    ASSUME TypeOK, OneBucketPerOrg, NEW c \in Callers,
           pc[c] \in {"acquire", "time", "charge"}
    PROVE  /\ mine[c] \in Callers
           /\ mine[c] = buckets[OrgOf[c]]
           /\ heap[mine[c]] \in Bucket
           /\ OrgOf[c] \in Orgs
           /\ \A o \in Orgs : buckets[o] = mine[c] => o = OrgOf[c]
BY OrgOfAssumption DEF TypeOK, OneBucketPerOrg

\* The bucket of an organization.
LEMMA BucketOf ==
    ASSUME TypeOK, OneBucketPerOrg, NEW o \in Orgs, buckets[o] # None
    PROVE  /\ buckets[o] \in Callers
           /\ heap[buckets[o]] \in Bucket
           /\ OrgOf[buckets[o]] = o
           /\ heap[buckets[o]].tokens \in 0..Full
           /\ heap[buckets[o]].last \in 0..Horizon
BY DEF TypeOK, OneBucketPerOrg, Bucket

\* What a refill adds is what the time since the last one earned, at most.
LEMMA RefilledIs ==
    ASSUME NEW b \in Bucket, NEW t \in 0..Horizon, b.last <= t
    PROVE  LET n == Refilled(b, t) IN
           /\ n \in Bucket
           /\ n.last = t
           /\ n.lock = b.lock
           /\ n.tokens <= b.tokens + Refill * (t - b.last)
           /\ b.tokens <= n.tokens
<1>1. /\ b.tokens \in Nat /\ b.tokens <= Full /\ b.last \in 0..Horizon
      /\ b.lock \in Callers \cup {None} /\ t \in Nat /\ b.last \in Nat
      BY FullNat, HorizonAssumption DEF Bucket
<1>2. CASE t > b.last
  <2> DEFINE e == Refill * (t - b.last)
  <2>1. e \in Nat
    <3>1. t - b.last \in Nat BY <1>1, <1>2
    <3>2. \A x, y \in Nat : x * y \in Nat OBVIOUS
    <3> QED BY <3>1, <3>2, FullNat
  <2> HIDE DEF e
  <2>2. Smaller(Full, b.tokens + e) \in 0..Full
        /\ Smaller(Full, b.tokens + e) <= b.tokens + e
        /\ b.tokens <= Smaller(Full, b.tokens + e)
        BY <1>1, <2>1, FullNat DEF Smaller
  <2>3. Refilled(b, t) = [b EXCEPT !.tokens = Smaller(Full, b.tokens + e), !.last = t]
        BY <1>2 DEF Refilled, e
  <2>4. Refilled(b, t) = [tokens |-> Smaller(Full, b.tokens + e), last |-> t,
                          lock |-> b.lock]
        BY <2>3 DEF Bucket
  <2> QED BY <2>2, <2>4, <1>1 DEF Bucket, e
<1>3. CASE t = b.last
  <2>1. Refilled(b, t) = b BY <1>1, <1>3 DEF Refilled
  <2>2. t - b.last = 0 BY <1>1, <1>3
  <2>3. Refill * (t - b.last) = 0 BY <2>2, FullNat
  <2> QED BY <2>1, <2>3, <1>1, <1>3
<1> QED BY <1>1, <1>2, <1>3

-----------------------------------------------------------------------------
\* The inductive invariant.

\* Buckets are charged at the times they are read at, in order.
Times ==
    /\ \A o \in Orgs : buckets[o] # None => heap[buckets[o]].last <= clock
    /\ \A c \in Callers : pc[c] = "charge" =>
          heap[mine[c]].last <= now[c] /\ now[c] <= clock

\* The calls admitted from the i-th on and the tokens that are left are
\* together no more than a full bucket and the refill since then.
Earned(o, i) ==
    LET b == heap[buckets[o]]
        n == Len(admitted[o])
    IN  /\ admitted[o][i] <= b.last
        /\ (n - i + 1) * Cost + b.tokens
              <= Full + Refill * (b.last - admitted[o][i])

\* Tokens are only taken by admitted calls.
Spent(o) == Full <= Len(admitted[o]) * Cost + heap[buckets[o]].tokens

Budget ==
    \A o \in Orgs :
        IF buckets[o] = None THEN admitted[o] = <<>>
        ELSE Spent(o) /\ \A i \in 1..Len(admitted[o]) : Earned(o, i)

\* With the properties of the run this is inductive: RateBound speaks of the
\* admitted calls only, and Earned relates them to the tokens that are left.
IInv ==
    /\ TypeOK /\ OneBucketPerOrg /\ BucketExclusive
    /\ Times /\ Budget
    /\ RateBound /\ RefusedOnlyWhenSpent

LEMMA InvInit == Init => IInv
<1> SUFFICES ASSUME Init PROVE IInv
    OBVIOUS
<1> USE DEF Init
<1>1. TypeOK BY HorizonAssumption DEF TypeOK, PCs
<1>2. OneBucketPerOrg BY DEF OneBucketPerOrg
<1>3. BucketExclusive BY DEF BucketExclusive
<1>4. Times BY DEF Times
<1>5. Budget BY DEF Budget
<1>6. RateBound BY DEF RateBound
<1>7. RefusedOnlyWhenSpent BY DEF RefusedOnlyWhenSpent
<1> QED BY <1>1, <1>2, <1>3, <1>4, <1>5, <1>6, <1>7 DEF IInv

-----------------------------------------------------------------------------
\* Steps that leave the buckets alone.

LEMMA QuietKeeps ==
    ASSUME IInv, UNCHANGED <<buckets, heap, admitted>>, TypeOK',
           clock \in Nat, clock' \in Nat, clock <= clock',
           \A c \in Callers :
              /\ pc'[c] = pc[c] \/ pc'[c] \notin {"charge", "refused"}
              /\ pc'[c] = "time" => pc[c] = "time"
              /\ pc'[c] = "charge" => now'[c] = now[c]
              /\ pc'[c] \in {"time", "charge"} => mine'[c] = mine[c]
    PROVE  BucketExclusive' /\ Times' /\ Budget' /\ RateBound'
           /\ RefusedOnlyWhenSpent'
<1> USE DEF IInv
<1>1. BucketExclusive' BY DEF BucketExclusive
<1>2. Times'
  <2>1. ASSUME NEW o \in Orgs, buckets[o] # None
        PROVE  heap[buckets[o]].last <= clock'
        BY <2>1, BucketOf, HorizonAssumption DEF Times
  <2>2. ASSUME NEW c \in Callers, pc'[c] = "charge"
        PROVE  heap[mine[c]].last <= now[c] /\ now[c] <= clock'
    <3>1. pc[c] = "charge" BY <2>2
    <3>2. now[c] \in Nat BY HorizonAssumption DEF TypeOK
    <3> QED BY <3>1, <3>2 DEF Times
  <2> QED BY <2>1, <2>2 DEF Times
<1>3. Budget' BY DEF Budget, Spent, Earned
<1>4. RateBound' BY DEF RateBound
<1>5. RefusedOnlyWhenSpent' BY DEF RefusedOnlyWhenSpent
<1> QED BY <1>1, <1>2, <1>3, <1>4, <1>5

LEMMA ClockNat ==
    ASSUME TypeOK PROVE clock \in Nat /\ clock <= Horizon
                        /\ \A c \in Callers : now[c] \in Nat
BY HorizonAssumption DEF TypeOK

LEMMA GetBucketStep ==
    ASSUME IInv, NEW c \in Callers, GetBucket(c) PROVE IInv'
<1> USE DEF IInv
<1>1. TypeOK' BY OrgOfAssumption DEF TypeOK, GetBucket, Step, PCs
<1>2. OneBucketPerOrg'
      BY OrgOfAssumption DEF OneBucketPerOrg, TypeOK, GetBucket, Step
<1>3. BucketExclusive' /\ Times' /\ Budget' /\ RateBound' /\ RefusedOnlyWhenSpent'
      BY <1>1, QuietKeeps, ClockNat DEF GetBucket, Step, TypeOK
<1> QED BY <1>1, <1>2, <1>3

LEMMA LockRegistryStep ==
    ASSUME IInv, NEW c \in Callers, LockRegistry(c) PROVE IInv'
<1> USE DEF IInv
<1>1. TypeOK' BY DEF TypeOK, LockRegistry, Step, PCs
<1>2. OneBucketPerOrg' BY DEF OneBucketPerOrg, TypeOK, LockRegistry, Step
<1>3. BucketExclusive' /\ Times' /\ Budget' /\ RateBound' /\ RefusedOnlyWhenSpent'
      BY <1>1, QuietKeeps, ClockNat DEF LockRegistry, Step, TypeOK
<1> QED BY <1>1, <1>2, <1>3

LEMMA TickStep ==
    ASSUME IInv, Tick PROVE IInv'
<1> USE DEF IInv
<1>1. TypeOK' BY HorizonAssumption DEF TypeOK, Tick
<1>2. OneBucketPerOrg' BY DEF OneBucketPerOrg, Tick
<1>3. BucketExclusive' /\ Times' /\ Budget' /\ RateBound' /\ RefusedOnlyWhenSpent'
      BY <1>1, QuietKeeps, ClockNat DEF Tick
<1> QED BY <1>1, <1>2, <1>3

LEMMA ReadTimeStep ==
    ASSUME IInv, NEW c \in Callers, ReadTime(c) PROVE IInv'
<1> USE DEF IInv
<1>1. TypeOK' BY DEF TypeOK, ReadTime, Step, PCs
<1>2. OneBucketPerOrg' BY DEF OneBucketPerOrg, TypeOK, ReadTime, Step
<1>3. BucketExclusive' BY DEF BucketExclusive, TypeOK, ReadTime, Step
<1>4. Times'
  <2>1. \A o \in Orgs : buckets[o] # None => heap[buckets[o]].last <= clock
        BY DEF Times
  <2>2. heap[mine[c]].last <= clock
    <3>1. pc[c] = "time" BY DEF ReadTime, Step
    <3>2. buckets[OrgOf[c]] # None /\ mine[c] = buckets[OrgOf[c]]
          BY <3>1, Mine, NoneAssumption
    <3> QED BY <2>1, <3>2, OrgOfAssumption
  <2>3. now' = [now EXCEPT ![c] = clock] /\ clock' = clock /\ heap' = heap
        /\ mine' = mine /\ buckets' = buckets
        /\ \A d \in Callers : d # c => pc'[d] = pc[d]
        BY DEF ReadTime, Step, TypeOK
  <2>4. ASSUME NEW d \in Callers, pc'[d] = "charge"
        PROVE  heap[mine[d]].last <= now'[d] /\ now'[d] <= clock
    <3>1. CASE d = c BY <3>1, <2>2, <2>3, ClockNat DEF TypeOK
    <3>2. CASE d # c BY <3>2, <2>3, <2>4 DEF Times, TypeOK
    <3> QED BY <3>1, <3>2
  <2> QED BY <2>1, <2>3, <2>4 DEF Times
<1>5. Budget' BY DEF Budget, Spent, Earned, ReadTime
<1>6. RateBound' BY DEF RateBound, ReadTime
<1>7. RefusedOnlyWhenSpent'
      BY DEF RefusedOnlyWhenSpent, ReadTime, Step, TypeOK
<1> QED BY <1>1, <1>2, <1>3, <1>4, <1>5, <1>6, <1>7

-----------------------------------------------------------------------------
\* The three steps that write to a bucket.

\* A caller that is built a bucket finds none: no other caller has one of the
\* organization, and c's name is not that of a bucket in use.
LEMMA CreateStep ==
    ASSUME IInv, NEW c \in Callers, CreateOrReuse(c), buckets[OrgOf[c]] = None
    PROVE  IInv'
<1> USE DEF IInv
<1> DEFINE org == OrgOf[c]
<1>1. /\ pc[c] = "recheck" /\ pc' = [pc EXCEPT ![c] = "acquire"]
      /\ heap' = [heap EXCEPT ![c] = NewBucket]
      /\ buckets' = [buckets EXCEPT ![org] = c]
      /\ mine' = [mine EXCEPT ![c] = c]
      /\ registryLock' = None
      /\ now' = now /\ clock' = clock /\ admitted' = admitted
      /\ org \in Orgs
      BY OrgOfAssumption DEF CreateOrReuse, Step
<1>2. NewBucket \in Bucket /\ NewBucket.tokens = Full /\ NewBucket.last = clock
      BY FullNat DEF NewBucket, Bucket, TypeOK
<1>3. TypeOK' BY <1>1, <1>2 DEF TypeOK, PCs
<1>4. /\ heap'[c] = NewBucket /\ buckets'[org] = c /\ mine'[c] = c
      /\ \A b \in Callers \ {c} : heap'[b] = heap[b] /\ mine'[b] = mine[b]
                                  /\ pc'[b] = pc[b]
      /\ \A o \in Orgs \ {org} : buckets'[o] = buckets[o]
      BY <1>1 DEF TypeOK
\* c is not in use.
<1>5. \A o \in Orgs : buckets[o] # None => buckets[o] # c
      BY DEF OneBucketPerOrg
<1>6. \A d \in Callers : mine[d] # None => mine[d] # c /\ OrgOf[d] # org
      BY <1>5, OrgOfAssumption DEF OneBucketPerOrg
<1>7. OneBucketPerOrg'
  <2>1. \A o \in Orgs : buckets'[o] # None =>
            heap'[buckets'[o]] # None /\ OrgOf[buckets'[o]] = o
    <3>1. CASE \E o \in Orgs : o = org
          BY <1>1, <1>2, <1>4, <1>5, NoBucketAssumption DEF OneBucketPerOrg, TypeOK
    <3> QED BY <3>1, <1>1
  <2>2. \A d \in Callers : mine'[d] # None => mine'[d] = buckets'[OrgOf[d]]
        BY <1>4, <1>6, OrgOfAssumption DEF OneBucketPerOrg
  <2>3. \A d \in Callers : pc'[d] \in {"acquire", "time", "charge"} => mine'[d] # None
        BY <1>4, NoneAssumption DEF OneBucketPerOrg
  <2> QED BY <2>1, <2>2, <2>3 DEF OneBucketPerOrg
<1>8. \A d \in Callers : pc'[d] \in {"time", "charge"} =>
          pc[d] = pc'[d] /\ mine'[d] = mine[d] /\ heap'[mine[d]] = heap[mine[d]]
  <2>1. SUFFICES ASSUME NEW d \in Callers, pc'[d] \in {"time", "charge"}
                 PROVE  pc[d] = pc'[d] /\ mine'[d] = mine[d]
                        /\ heap'[mine[d]] = heap[mine[d]]
        OBVIOUS
  <2>2. d # c BY <2>1, <1>1 DEF TypeOK
  <2>3. pc[d] = pc'[d] /\ mine'[d] = mine[d] BY <2>2, <1>4
  <2>4. mine[d] \in Callers /\ mine[d] # c
        BY <2>1, <2>3, <1>6, Mine, NoneAssumption
  <2> QED BY <2>3, <2>4, <1>4
<1>9. BucketExclusive' BY <1>8 DEF BucketExclusive
<1>10. \A o \in Orgs \ {org} : buckets'[o] = buckets[o]
            /\ (buckets[o] # None => heap'[buckets[o]] = heap[buckets[o]])
       BY <1>4, <1>5, BucketOf
<1>11. Times'
  <2>1. \A o \in Orgs : buckets'[o] # None => heap'[buckets'[o]].last <= clock'
        BY <1>1, <1>2, <1>4, <1>10, ClockNat DEF Times
  <2>2. \A d \in Callers : pc'[d] = "charge" =>
            heap'[mine'[d]].last <= now'[d] /\ now'[d] <= clock'
        BY <1>1, <1>8 DEF Times
  <2> QED BY <2>1, <2>2 DEF Times
<1>12. Budget'
  <2>1. ASSUME NEW o \in Orgs \ {org}
        PROVE  IF buckets'[o] = None THEN admitted'[o] = <<>>
               ELSE Spent(o)' /\ \A i \in 1..Len(admitted'[o]) : Earned(o, i)'
        BY <1>1, <1>10 DEF Budget, Spent, Earned
  <2>2. admitted'[org] = <<>> BY <1>1 DEF Budget
  <2>3. 0 * Cost = 0 BY FullNat
  <2>4. Spent(org)' /\ \A i \in 1..Len(admitted'[org]) : Earned(org, i)'
        BY <2>2, <2>3, <1>2, <1>4, FullNat DEF Spent, Earned
  <2> QED BY <2>1, <2>4, <1>4, NoneAssumption DEF Budget
<1>13. RateBound' BY <1>1 DEF RateBound
<1>14. RefusedOnlyWhenSpent' BY <1>1 DEF RefusedOnlyWhenSpent, TypeOK
<1> QED BY <1>3, <1>7, <1>9, <1>11, <1>12, <1>13, <1>14

LEMMA ReuseStep ==
    ASSUME IInv, NEW c \in Callers, CreateOrReuse(c), buckets[OrgOf[c]] # None
    PROVE  IInv'
<1> USE DEF IInv
<1>1. TypeOK' BY OrgOfAssumption DEF TypeOK, CreateOrReuse, Step, PCs
<1>2. OneBucketPerOrg'
      BY OrgOfAssumption DEF OneBucketPerOrg, TypeOK, CreateOrReuse, Step
<1>3. BucketExclusive' /\ Times' /\ Budget' /\ RateBound' /\ RefusedOnlyWhenSpent'
      BY <1>1, QuietKeeps, ClockNat DEF CreateOrReuse, Step, TypeOK
<1> QED BY <1>1, <1>2, <1>3

LEMMA LockBucketStep ==
    ASSUME IInv, NEW c \in Callers, LockBucket(c) PROVE IInv'
<1> USE DEF IInv
<1> DEFINE m == mine[c]
<1>1. /\ pc[c] = "acquire" /\ pc' = [pc EXCEPT ![c] = "time"]
      /\ heap[m].lock = None
      /\ heap' = [heap EXCEPT ![m].lock = c]
      /\ UNCHANGED <<buckets, registryLock, mine, now, clock, admitted>>
      BY DEF LockBucket, Step
<1>2. m \in Callers /\ heap[m] \in Bucket /\ m = buckets[OrgOf[c]]
      BY <1>1, Mine
<1>3. /\ heap'[m] \in Bucket /\ heap'[m].lock = c
      /\ heap'[m].tokens = heap[m].tokens /\ heap'[m].last = heap[m].last
      /\ \A b \in Callers \ {m} : heap'[b] = heap[b]
      BY <1>1, <1>2 DEF TypeOK, Bucket
<1>4. TypeOK' BY <1>1, <1>2, <1>3 DEF TypeOK, PCs
<1>5. OneBucketPerOrg'
  <2>1. \A b \in Callers : heap[b] # None => heap'[b] # None
        BY <1>3, NoBucketAssumption
  <2>2. \A o \in Orgs : buckets[o] # None =>
            heap'[buckets[o]] # None /\ OrgOf[buckets[o]] = o
        BY <2>1, BucketOf DEF OneBucketPerOrg
  <2>3. \A d \in Callers : pc'[d] \in {"acquire", "time", "charge"} => mine[d] # None
        BY <1>1, <1>2, NoneAssumption DEF OneBucketPerOrg, TypeOK
  <2> QED BY <2>2, <2>3, <1>1 DEF OneBucketPerOrg
<1>6. BucketExclusive'
  <2>1. SUFFICES ASSUME NEW d \in Callers, pc'[d] \in {"time", "charge"}
                 PROVE  heap'[mine[d]].lock = d
        BY <1>1 DEF BucketExclusive
  <2>2. CASE d = c BY <2>2, <1>3
  <2>3. CASE d # c
    <3>1. pc[d] \in {"time", "charge"} BY <2>1, <2>3, <1>1 DEF TypeOK
    <3>2. heap[mine[d]].lock = d /\ mine[d] \in Callers
          BY <3>1, Mine DEF BucketExclusive
    <3>3. mine[d] # m BY <3>2, <1>1, NoneAssumption
    <3> QED BY <3>2, <3>3, <1>3
  <2> QED BY <2>2, <2>3
<1>7. \A b \in Callers : heap'[b].tokens = heap[b].tokens
                        /\ heap'[b].last = heap[b].last
      BY <1>3
<1>8. Times'
  <2>1. \A o \in Orgs : buckets[o] # None => heap'[buckets[o]].last <= clock
        BY <1>7, BucketOf DEF Times
  <2>2. ASSUME NEW d \in Callers, pc'[d] = "charge"
        PROVE  heap'[mine[d]].last <= now[d] /\ now[d] <= clock
    <3>1. pc[d] = "charge" BY <2>2, <1>1 DEF TypeOK
    <3>2. mine[d] \in Callers BY <3>1, Mine
    <3> QED BY <3>1, <3>2, <1>7 DEF Times
  <2> QED BY <2>1, <2>2, <1>1 DEF Times
<1>9. Budget'
  <2>1. SUFFICES ASSUME NEW o \in Orgs, buckets[o] # None
                 PROVE  Spent(o)' /\ \A i \in 1..Len(admitted[o]) : Earned(o, i)'
        BY <1>1 DEF Budget
  <2>2. buckets[o] \in Callers BY <2>1, BucketOf
  <2>3. Spent(o) /\ \A i \in 1..Len(admitted[o]) : Earned(o, i)
        BY <2>1 DEF Budget
  <2> QED BY <2>2, <2>3, <1>1, <1>7 DEF Spent, Earned
<1>10. RateBound' BY <1>1 DEF RateBound
<1>11. RefusedOnlyWhenSpent' BY <1>1 DEF RefusedOnlyWhenSpent, TypeOK
<1> QED BY <1>4, <1>5, <1>6, <1>8, <1>9, <1>10, <1>11

-----------------------------------------------------------------------------
\* Charge.

\* Arithmetic of one more call of cost C at time t: K calls, tokens k left at
\* time l, T tokens after the refill.
LEMMA OneMore ==
    ASSUME NEW K \in Int, NEW C \in Int, NEW k \in Int, NEW F \in Int,
           NEW R \in Int, NEW l \in Int, NEW a \in Int, NEW t \in Int,
           NEW T \in Int,
           K * C + k <= F + R * (l - a), T <= k + R * (t - l)
    PROVE  /\ K * C + T <= F + R * (t - a)
           /\ (K + 1) * C + (T - C) <= F + R * (t - a)
           /\ C <= T => (K + 1) * C <= F + R * (t - a)
<1>1. R * (l - a) + R * (t - l) = R * (t - a) OBVIOUS
<1>2. (K + 1) * C = K * C + C OBVIOUS
<1>3. K * C \in Int /\ R * (l - a) \in Int /\ R * (t - l) \in Int
      /\ R * (t - a) \in Int
      OBVIOUS
<1> QED BY <1>1, <1>2, <1>3

LEMMA UnlockedWith ==
    ASSUME NEW b \in Bucket, NEW k \in 0..Full
    PROVE  LET N == [b EXCEPT !.tokens = k, !.lock = None]
           IN  N \in Bucket /\ N.tokens = k /\ N.last = b.last
BY DEF Bucket

LEMMA ChargeStep ==
    ASSUME IInv, NEW c \in Callers, Charge(c) PROVE IInv'
<1> USE DEF IInv
<1> DEFINE m == mine[c]
           o == OrgOf[c]
           b == heap[m]
           B == Refilled(b, now[c])
           n == Len(admitted[o])
<1>1. /\ pc[c] = "charge"
      /\ \/ /\ B.tokens >= Cost
            /\ pc' = [pc EXCEPT ![c] = "allowed"]
            /\ heap' = [heap EXCEPT ![m] = [B EXCEPT !.tokens = @ - Cost, !.lock = None]]
            /\ admitted' = [admitted EXCEPT ![o] = Append(@, now[c])]
         \/ /\ ~(B.tokens >= Cost)
            /\ pc' = [pc EXCEPT ![c] = "refused"]
            /\ heap' = [heap EXCEPT ![m] = [B EXCEPT !.lock = None]]
            /\ admitted' = admitted
      /\ UNCHANGED <<buckets, registryLock, mine, now, clock>>
      BY DEF Charge, Step
<1>2. /\ m \in Callers /\ b \in Bucket /\ m = buckets[o] /\ o \in Orgs
      /\ m # None /\ \A x \in Orgs : buckets[x] = m => x = o
      BY <1>1, Mine, NoneAssumption
<1>3. /\ b.tokens \in Nat /\ b.last \in Nat /\ now[c] \in 0..Horizon /\ now[c] \in Nat
      /\ b.last <= now[c] /\ now[c] <= clock /\ clock \in Nat
      BY <1>1, <1>2, ClockNat, HorizonAssumption, FullNat DEF Times, TypeOK, Bucket
<1>4. /\ B \in Bucket /\ B.last = now[c] /\ B.tokens \in Nat /\ B.tokens <= Full
      /\ B.tokens <= b.tokens + Refill * (now[c] - b.last)
      /\ b.tokens <= B.tokens
  <2>1. B \in Bucket /\ B.last = now[c] /\ b.tokens <= B.tokens
        /\ B.tokens <= b.tokens + Refill * (now[c] - b.last)
        BY <1>2, <1>3, RefilledIs
  <2> HIDE DEF B
  <2> QED BY <2>1, FullNat DEF Bucket
<1>5. admitted \in [Orgs -> Seq(0..Horizon)] /\ n \in Nat
      BY <1>2 DEF TypeOK
<1> HIDE DEF B
\* What the step does, whether the call is admitted or refused.
<1>6. /\ heap'[m] \in Bucket /\ heap'[m].last = now[c]
      /\ \A x \in Callers \ {m} : heap'[x] = heap[x]
      /\ heap' \in [Callers -> Bucket \cup {None}]
  <2>1. CASE B.tokens >= Cost
    <3> DEFINE N == [B EXCEPT !.tokens = @ - Cost, !.lock = None]
    <3>1. heap' = [heap EXCEPT ![m] = N] BY <1>1, <2>1
    <3>2. B.tokens - Cost \in 0..Full BY <2>1, <1>4, FullNat, UnitsAssumption
    <3>3. N = [B EXCEPT !.tokens = B.tokens - Cost, !.lock = None] OBVIOUS
    <3>4. N \in Bucket /\ N.last = now[c] BY <3>2, <3>3, <1>4, UnlockedWith
    <3> HIDE DEF N
    <3> QED BY <3>1, <3>4, <1>2 DEF TypeOK
  <2>2. CASE ~(B.tokens >= Cost)
    <3> DEFINE N == [B EXCEPT !.lock = None]
    <3>1. heap' = [heap EXCEPT ![m] = N] BY <1>1, <2>2
    <3>2. N = [tokens |-> B.tokens, last |-> B.last, lock |-> None]
          BY <1>4 DEF Bucket
    <3>3. N \in Bucket /\ N.last = now[c] BY <3>2, <1>4 DEF Bucket
    <3> HIDE DEF N
    <3> QED BY <3>1, <3>3, <1>2 DEF TypeOK
  <2> QED BY <2>1, <2>2
<1>7. \/ /\ Cost <= B.tokens
         /\ pc'[c] = "allowed"
         /\ heap'[m].tokens = B.tokens - Cost
         /\ Len(admitted'[o]) = n + 1
         /\ admitted'[o][n + 1] = now[c]
         /\ \A i \in 1..n : admitted'[o][i] = admitted[o][i]
      \/ /\ B.tokens < Cost
         /\ pc'[c] = "refused"
         /\ heap'[m].tokens = B.tokens
         /\ admitted'[o] = admitted[o]
  <2>1. CASE B.tokens >= Cost
    <3>1. heap'[m].tokens = B.tokens - Cost
      <4>1. heap'[m] = [B EXCEPT !.tokens = @ - Cost, !.lock = None]
            BY <1>1, <2>1, <1>2 DEF TypeOK
      <4> QED BY <4>1, <1>4 DEF Bucket
    <3>2. admitted'[o] = Append(admitted[o], now[c])
          BY <1>1, <2>1, <1>2, <1>5
    <3>3. admitted[o] \in Seq(0..Horizon) BY <1>2, <1>5
    <3>4. /\ Len(admitted'[o]) = n + 1
          /\ admitted'[o][n + 1] = now[c]
          /\ \A i \in 1..n : admitted'[o][i] = admitted[o][i]
          BY <3>2, <3>3, <1>3
    <3>5. pc'[c] = "allowed" BY <1>1, <2>1 DEF TypeOK
    <3> QED BY <3>1, <3>4, <3>5, <2>1, <1>4, FullNat
  <2>2. CASE ~(B.tokens >= Cost)
    <3>1. heap'[m].tokens = B.tokens
      <4>1. heap'[m] = [B EXCEPT !.lock = None]
            BY <1>1, <2>2, <1>2 DEF TypeOK
      <4> QED BY <4>1, <1>4 DEF Bucket
    <3>2. pc'[c] = "refused" /\ admitted'[o] = admitted[o] BY <1>1, <2>2 DEF TypeOK
    <3> QED BY <3>1, <3>2, <2>2, <1>4, FullNat
  <2> QED BY <2>1, <2>2
<1>8. /\ \A x \in Orgs \ {o} : admitted'[x] = admitted[x]
      /\ \A d \in Callers \ {c} : pc'[d] = pc[d]
      /\ admitted' \in [Orgs -> Seq(0..Horizon)]
      /\ pc' \in [Callers -> PCs]
  <2>1. Append(admitted[o], now[c]) \in Seq(0..Horizon) BY <1>2, <1>3, <1>5
  <2> QED BY <1>1, <1>5, <2>1 DEF TypeOK, PCs
<1>9. TypeOK' BY <1>1, <1>6, <1>8 DEF TypeOK
<1>10. OneBucketPerOrg'
  <2>1. \A x \in Callers : heap[x] # None => heap'[x] # None
        BY <1>6, NoBucketAssumption
  <2>2. \A x \in Orgs : buckets[x] # None =>
            heap'[buckets[x]] # None /\ OrgOf[buckets[x]] = x
        BY <2>1, BucketOf DEF OneBucketPerOrg
  <2>3. \A d \in Callers : pc'[d] \in {"acquire", "time", "charge"} => mine[d] # None
        BY <1>7, <1>8 DEF OneBucketPerOrg
  <2> QED BY <2>2, <2>3, <1>1 DEF OneBucketPerOrg
\* Nobody else is charging the same bucket.
<1>11. \A d \in Callers : pc'[d] \in {"time", "charge"} =>
           pc'[d] = pc[d] /\ mine[d] \in Callers /\ mine[d] # m
  <2>1. SUFFICES ASSUME NEW d \in Callers, pc'[d] \in {"time", "charge"}
                 PROVE  pc'[d] = pc[d] /\ mine[d] \in Callers /\ mine[d] # m
        OBVIOUS
  <2>2. d # c BY <2>1, <1>7
  <2>3. pc'[d] = pc[d] /\ mine[d] \in Callers BY <2>1, <2>2, <1>8, Mine
  <2>4. heap[mine[d]].lock = d /\ b.lock = c
        BY <2>1, <2>3, <1>1 DEF BucketExclusive
  <2> QED BY <2>2, <2>3, <2>4
<1>12. BucketExclusive' BY <1>1, <1>6, <1>11 DEF BucketExclusive
<1>13. \A x \in Orgs \ {o} : buckets[x] # None =>
           buckets[x] \in Callers /\ heap'[buckets[x]] = heap[buckets[x]]
       BY <1>2, <1>6, BucketOf
<1>14. Times'
  <2>1. \A x \in Orgs : buckets[x] # None => heap'[buckets[x]].last <= clock
        BY <1>2, <1>3, <1>6, <1>13 DEF Times
  <2>2. \A d \in Callers : pc'[d] = "charge" =>
            heap'[mine[d]].last <= now[d] /\ now[d] <= clock
        BY <1>6, <1>11 DEF Times
  <2> QED BY <2>1, <2>2, <1>1 DEF Times
<1>15. Spent(o) /\ \A i \in 1..n : Earned(o, i)
       BY <1>2 DEF Budget
<1>16. ASSUME NEW i \in 1..n
       PROVE  LET K == n - i + 1
                  a == admitted[o][i]
              IN  /\ a \in Nat /\ a <= now[c]
                  /\ K * Cost + B.tokens <= Full + Refill * (now[c] - a)
                  /\ (K + 1) * Cost + (B.tokens - Cost)
                        <= Full + Refill * (now[c] - a)
                  /\ Cost <= B.tokens =>
                        (K + 1) * Cost <= Full + Refill * (now[c] - a)
  <2> DEFINE K == n - i + 1
             a == admitted[o][i]
  <2>1. a \in Nat BY <1>2, <1>5, HorizonAssumption
  <2>2. a <= b.last /\ K * Cost + b.tokens <= Full + Refill * (b.last - a)
        BY <1>2, <1>15 DEF Earned
  <2>3. K \in Int BY <1>5
  <2> HIDE DEF K, a
  <2>4. /\ K * Cost + B.tokens <= Full + Refill * (now[c] - a)
        /\ (K + 1) * Cost + (B.tokens - Cost) <= Full + Refill * (now[c] - a)
        /\ Cost <= B.tokens => (K + 1) * Cost <= Full + Refill * (now[c] - a)
    <3> DEFINE k == b.tokens
               l == b.last
               t == now[c]
               T == B.tokens
    <3>1. /\ k \in Int /\ l \in Int /\ t \in Int /\ T \in Int /\ a \in Int
          /\ Cost \in Int /\ Full \in Int /\ Refill \in Int /\ K \in Int
          BY <2>1, <2>3, <1>3, <1>4, FullNat
    <3>2. K * Cost + k <= Full + Refill * (l - a) /\ T <= k + Refill * (t - l)
          BY <2>2, <1>4
    <3> HIDE DEF k, l, t, T
    <3>3. /\ K * Cost + T <= Full + Refill * (t - a)
          /\ (K + 1) * Cost + (T - Cost) <= Full + Refill * (t - a)
          /\ Cost <= T => (K + 1) * Cost <= Full + Refill * (t - a)
          BY <3>1, <3>2, OneMore
    <3> QED BY <3>3 DEF t, T
  <2>5. a <= now[c] BY <2>1, <2>2, <1>3
  <2> QED BY <2>1, <2>4, <2>5 DEF K, a
<1>17. Full <= n * Cost + B.tokens
  <2>1. n * Cost \in Nat /\ Full <= n * Cost + b.tokens
    <3>1. \A x, y \in Nat : x * y \in Nat OBVIOUS
    <3> QED BY <3>1, <1>2, <1>5, <1>15, FullNat DEF Spent
  <2> DEFINE X == n * Cost
             u == b.tokens
             T == B.tokens
  <2>2. X \in Nat /\ u \in Nat /\ T \in Nat /\ Full \in Nat /\ Full <= X + u /\ u <= T
        BY <2>1, <1>3, <1>4, FullNat
  <2> HIDE DEF X, u, T
  <2>3. Full <= X + T BY <2>2
  <2> QED BY <2>3 DEF X, T
<1>18. Spent(o)' /\ \A i \in 1..Len(admitted'[o]) : Earned(o, i)'
  <2> DEFINE T == heap'[m].tokens
  <2>1. Spent(o)' <=> Full <= Len(admitted'[o]) * Cost + T
        BY <1>1, <1>2 DEF Spent
  <2>2. \A i : Earned(o, i)' <=>
            /\ admitted'[o][i] <= now[c]
            /\ (Len(admitted'[o]) - i + 1) * Cost + T
                  <= Full + Refill * (now[c] - admitted'[o][i])
        BY <1>1, <1>2, <1>6 DEF Earned
  <2>3. CASE Cost <= B.tokens /\ T = B.tokens - Cost
             /\ Len(admitted'[o]) = n + 1 /\ admitted'[o][n + 1] = now[c]
             /\ \A i \in 1..n : admitted'[o][i] = admitted[o][i]
    <3>1. (n + 1) * Cost = n * Cost + Cost /\ n * Cost \in Int
          BY <1>5, FullNat
    <3>2. Full <= (n + 1) * Cost + T BY <3>1, <2>3, <1>4, <1>17, FullNat
    <3>3. ASSUME NEW i \in 1..n PROVE Earned(o, i)'
      <4>1. Len(admitted'[o]) - i + 1 = (n - i + 1) + 1 BY <2>3, <1>5
      <4> QED BY <4>1, <1>16, <2>2, <2>3
    <3>4. ASSUME NEW i \in 1..Len(admitted'[o]), i = n + 1 PROVE Earned(o, i)'
      <4>1. admitted'[o][i] = now[c] BY <2>3, <3>4
      <4>2. (Len(admitted'[o]) - i + 1) * Cost = Cost
        <5>1. Len(admitted'[o]) - i + 1 = 1 BY <2>3, <1>5, <3>4
        <5> QED BY <5>1, FullNat
      <4>3. Refill * (now[c] - admitted'[o][i]) = 0
        <5>1. now[c] - admitted'[o][i] = 0 BY <4>1, <1>3
        <5> QED BY <5>1, FullNat
      <4>4. Cost + T <= Full + 0 BY <2>3, <1>4, FullNat
      <4>5. admitted'[o][i] <= now[c] BY <4>1, <1>3
      <4> QED BY <4>2, <4>3, <4>4, <4>5, <2>2
    <3>5. \A i \in 1..Len(admitted'[o]) : i \in 1..n \/ i = n + 1
          BY <2>3, <1>5
    <3> QED BY <3>2, <3>3, <3>4, <3>5, <2>1, <2>3
  <2>4. CASE T = B.tokens /\ admitted'[o] = admitted[o]
        BY <2>4, <2>1, <2>2, <1>16, <1>17
  <2> QED BY <2>3, <2>4, <1>7
<1>19. Budget'
  <2>1. ASSUME NEW x \in Orgs \ {o}, buckets[x] # None
        PROVE  Spent(x)' /\ \A i \in 1..Len(admitted'[x]) : Earned(x, i)'
        BY <2>1, <1>1, <1>8, <1>13 DEF Budget, Spent, Earned
  <2>2. \A x \in Orgs \ {o} : buckets[x] = None => admitted'[x] = <<>>
        BY <1>8 DEF Budget
  <2> QED BY <2>1, <2>2, <1>1, <1>2, <1>18 DEF Budget
<1>20. RateBound'
  <2>1. SUFFICES ASSUME NEW x \in Orgs, NEW i \in 1..Len(admitted'[x]),
                        NEW j \in 1..Len(admitted'[x]), i <= j
                 PROVE  (j - i + 1) * Cost
                           <= Full + Refill * (admitted'[x][j] - admitted'[x][i])
        BY DEF RateBound
  <2>2. CASE admitted'[x] = admitted[x]
        BY <2>1, <2>2 DEF RateBound
  <2>3. CASE x = o /\ Cost <= B.tokens
             /\ Len(admitted'[o]) = n + 1 /\ admitted'[o][n + 1] = now[c]
             /\ \A q \in 1..n : admitted'[o][q] = admitted[o][q]
    <3>1. CASE j \in 1..n
      <4>1. i \in 1..n BY <3>1, <2>1, <2>3
      <4> QED BY <3>1, <4>1, <2>1, <2>3, <1>2 DEF RateBound
    <3>2. CASE j = n + 1 /\ i \in 1..n
      <4>1. j - i + 1 = (n - i + 1) + 1 BY <3>2, <1>5
      <4> QED BY <3>2, <4>1, <2>3, <1>16
    <3>3. CASE j = n + 1 /\ i = n + 1
      <4>1. j - i + 1 = 1 BY <3>3, <1>5
      <4>2. 1 * Cost = Cost /\ Refill * 0 = 0 /\ now[c] - now[c] = 0
            /\ Full + 0 = Full
            BY <1>3, FullNat
      <4> QED BY <3>3, <4>1, <4>2, <2>3, FullNat
    <3>4. j \in 1..n \/ (j = n + 1 /\ (i \in 1..n \/ i = n + 1))
          BY <2>1, <2>3, <1>5
    <3> QED BY <3>1, <3>2, <3>3, <3>4
  <2> QED BY <2>2, <2>3, <1>7, <1>8
<1>21. RefusedOnlyWhenSpent'
  <2>1. SUFFICES ASSUME NEW d \in Callers, pc'[d] = "refused"
                 PROVE  (Len(admitted'[OrgOf[d]]) + 1) * Cost > Full
        BY DEF RefusedOnlyWhenSpent
  <2> DEFINE N == Len(admitted[OrgOf[d]])
             N1 == Len(admitted'[OrgOf[d]])
  <2>2. OrgOf[d] \in Orgs BY OrgOfAssumption
  <2>3. N \in Nat /\ N1 \in Nat BY <2>2, <1>8 DEF TypeOK
  <2>4. N <= N1
    <3>1. CASE OrgOf[d] = o BY <3>1, <1>5, <1>7
    <3>2. CASE OrgOf[d] # o BY <3>2, <2>2, <2>3, <1>8
    <3> QED BY <3>1, <3>2
  <2>5. (N + 1) * Cost > Full
    <3>1. CASE d = c
      <4>1. B.tokens < Cost BY <3>1, <2>1, <1>7
      <4>2. (n + 1) * Cost = n * Cost + Cost /\ n * Cost \in Int
            BY <1>5, FullNat
      <4>3. (n + 1) * Cost > Full BY <4>1, <4>2, <1>4, <1>17, FullNat
      <4> QED BY <3>1, <4>3
    <3>2. CASE d # c
          BY <3>2, <2>1, <1>8 DEF RefusedOnlyWhenSpent
    <3> QED BY <3>1, <3>2
  <2> HIDE DEF N, N1
  <2>6. (N + 1) * Cost <= (N1 + 1) * Cost
    <3>1. PICK k \in Nat : N1 = N + k BY <2>3, <2>4
    <3>2. (N1 + 1) * Cost = (N + 1) * Cost + k * Cost BY <3>1, <2>3, FullNat
    <3>3. \A x, y \in Nat : x * y \in Nat OBVIOUS
    <3> QED BY <3>1, <3>2, <3>3, <2>3, FullNat
  <2>7. (N + 1) * Cost \in Int /\ (N1 + 1) * Cost \in Int BY <2>3, FullNat
  <2>8. (N1 + 1) * Cost > Full BY <2>5, <2>6, <2>7, FullNat
  <2> QED BY <2>8 DEF N1
<1> QED BY <1>9, <1>10, <1>12, <1>14, <1>19, <1>20, <1>21

-----------------------------------------------------------------------------

LEMMA Inductive == Spec => []IInv
<1>1. ASSUME IInv, [Next]_vars PROVE IInv'
  <2>1. CASE Tick BY <1>1, <2>1, TickStep
  <2>2. ASSUME NEW c \in Callers, Allow(c) PROVE IInv'
        BY <1>1, <2>2, GetBucketStep, LockRegistryStep, CreateStep, ReuseStep,
           LockBucketStep, ReadTimeStep, ChargeStep DEF Allow
  <2>3. CASE UNCHANGED vars
    <3>1. TypeOK' BY <1>1, <2>3 DEF vars, TypeOK, IInv
    <3>2. OneBucketPerOrg' BY <1>1, <2>3 DEF vars, OneBucketPerOrg, IInv
    <3>3. BucketExclusive' /\ Times' /\ Budget' /\ RateBound' /\ RefusedOnlyWhenSpent'
          BY <1>1, <2>3, <3>1, QuietKeeps, ClockNat DEF vars, IInv
    <3> QED BY <3>1, <3>2, <3>3 DEF IInv
  <2> QED BY <1>1, <2>1, <2>2, <2>3 DEF Next
<1> QED BY <1>1, InvInit, PTL DEF Spec

\* Every variable keeps its type; in particular a bucket never holds more
\* than its capacity nor less than nothing (rate_limit.py:67-79).
THEOREM TypeCorrect == Spec => []TypeOK
BY Inductive, PTL DEF IInv

\* However the first calls of an organization race, it has one bucket
\* (rate_limit.py:106-115).
THEOREM OneBucket == Spec => []OneBucketPerOrg
BY Inductive, PTL DEF IInv

\* Reading the time of a bucket and charging it is one critical section.
THEOREM Exclusive == Spec => []BucketExclusive
BY Inductive, PTL DEF IInv

\* The limiter's promise: in any period an organization is admitted no more
\* calls than a full bucket and the refill of the period pay for.
THEOREM AdmissionBounded == Spec => []RateBound
BY Inductive, PTL DEF IInv

\* And no fewer than a full bucket before the first refusal.
THEOREM RefusalJustified == Spec => []RefusedOnlyWhenSpent
BY Inductive, PTL DEF IInv
=============================================================================
