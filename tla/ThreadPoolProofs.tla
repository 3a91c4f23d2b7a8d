-------------------------- MODULE ThreadPoolProofs --------------------------
(***************************************************************************)
(* Theorems about ThreadPool: the lock stays with the request that came    *)
(* past get_db, and the pool cannot be wedged by no more database requests *)
(* than it has threads.                                                    *)
(***************************************************************************)
EXTENDS ThreadPool, FiniteSetTheorems, TLAPS

\* Every endpoint has a handler as its last job, and at most one get_db.
LEMMA JobsShape ==
    ASSUME NEW e \in Endpoints
    PROVE  /\ Len(Jobs(e)) \in Nat
           /\ DOMAIN Jobs(e) = 1..Len(Jobs(e))
           /\ 1 \in DOMAIN Jobs(e)
           /\ Jobs(e)[Len(Jobs(e))] # "db"
           /\ \A i, j \in DOMAIN Jobs(e) :
                 Jobs(e)[i] = "db" /\ Jobs(e)[j] = "db" => i = j
           /\ e = "read" => \A i \in DOMAIN Jobs(e) : Jobs(e)[i] # "db"
<1>1. CASE e = "create"    BY <1>1 DEF Jobs
<1>2. CASE e = "recompile" BY <1>2 DEF Jobs
<1>3. CASE e = "check"     BY <1>3 DEF Jobs
<1>4. CASE e = "read"      BY <1>4 DEF Jobs
<1> QED BY <1>1, <1>2, <1>3, <1>4 DEF Endpoints

LEMMA JobsOfShape ==
    ASSUME NEW r \in Reqs
    PROVE  /\ Len(JobsOf(r)) \in Nat
           /\ DOMAIN JobsOf(r) = 1..Len(JobsOf(r))
           /\ 1 \in DOMAIN JobsOf(r)
           /\ JobsOf(r)[Len(JobsOf(r))] # "db"
           /\ \A i, j \in DOMAIN JobsOf(r) :
                 JobsOf(r)[i] = "db" /\ JobsOf(r)[j] = "db" => i = j
           /\ Endpoint[r] = "read" => \A i \in DOMAIN JobsOf(r) : JobsOf(r)[i] # "db"
BY JobsShape, EndpointAssumption DEF JobsOf

\* A request that is leaving get_db holds the lock; with LockHeldAcrossJobs
\* this is inductive.
LeavingHolds == \A r \in Reqs : pc[r] = "leaving" => dbLock = r

IInv == TypeOK /\ LockHeldAcrossJobs /\ LeavingHolds

-----------------------------------------------------------------------------

LEMMA InvInit == Init => IInv
<1> SUFFICES ASSUME Init PROVE IInv
    OBVIOUS
<1>1. TypeOK BY JobsOfShape DEF Init, TypeOK
<1>2. LockHeldAcrossJobs
      BY NoneAssumption DEF Init, LockHeldAcrossJobs, PastGetDb
<1>3. LeavingHolds BY DEF Init, LeavingHolds
<1> QED BY <1>1, <1>2, <1>3 DEF IInv

\* Moving from a job that is not get_db to the next one does not bring a
\* request past get_db.
LEMMA PastNext ==
    ASSUME NEW r \in Reqs, TypeOK,
           job' = [job EXCEPT ![r] = @ + 1], job[r] < Len(JobsOf(r))
    PROVE  /\ At(r) # "db" => (PastGetDb(r)' <=> PastGetDb(r))
           /\ At(r) = "db" => PastGetDb(r)'
           /\ \A q \in Reqs \ {r} : PastGetDb(q)' <=> PastGetDb(q)
<1>1. job[r] \in Nat /\ job'[r] = job[r] + 1 BY DEF TypeOK
<1>2. 1 \in 1..job[r] /\ job[r] \in 1..job[r]
      BY <1>1, JobsOfShape DEF TypeOK
<1>3. \A i : i \in 1..(job'[r] - 1) <=> i \in 1..(job[r] - 1) \/ i = job[r]
      BY <1>1, <1>2
<1>4. \A q \in Reqs \ {r} : job'[q] = job[q] BY DEF TypeOK
<1>5. JobsOf(r)' = JobsOf(r) /\ \A q \in Reqs : JobsOf(q)' = JobsOf(q)
      BY DEF JobsOf, Jobs
<1> QED BY <1>1, <1>2, <1>3, <1>4, <1>5 DEF PastGetDb, At

LEMMA InvStep ==
    ASSUME IInv, [Next]_vars PROVE IInv'
<1> USE DEF IInv
<1>1. ASSUME NEW r \in Reqs, TakeThread(r) PROVE IInv'
  <2>1. TypeOK' BY <1>1 DEF TakeThread, TypeOK, JobsOf, Jobs
  <2>2. \A q \in Reqs : PastGetDb(q)' <=> PastGetDb(q)
        BY <1>1 DEF TakeThread, PastGetDb, JobsOf, Jobs
  <2>3. LockHeldAcrossJobs'
        BY <1>1, <2>2 DEF TakeThread, LockHeldAcrossJobs, TypeOK
  <2>4. LeavingHolds' BY <1>1 DEF TakeThread, LeavingHolds, TypeOK
  <2> QED BY <2>1, <2>3, <2>4
<1>2. ASSUME NEW r \in Reqs, Return(r), job[r] < Len(JobsOf(r)) PROVE IInv'
  <2>1. /\ pc[r] = "running" /\ pc' = [pc EXCEPT ![r] = "queued"]
        /\ job' = [job EXCEPT ![r] = @ + 1]
        /\ IF At(r) = "db" THEN dbLock = None /\ dbLock' = r ELSE dbLock' = dbLock
        BY <1>2 DEF Return
  <2>2. job[r] + 1 \in DOMAIN JobsOf(r)
        BY <1>2, JobsOfShape DEF TypeOK
  <2>3. TypeOK'
    <3>1. pc' \in [Reqs -> {"queued", "running", "leaving", "done"}]
          BY <2>1 DEF TypeOK
    <3>2. job' \in [Reqs -> Nat] BY <2>1 DEF TypeOK
    <3>3. \A q \in Reqs : job'[q] \in DOMAIN JobsOf(q)'
          BY <2>1, <2>2 DEF TypeOK, JobsOf, Jobs
    <3>4. dbLock' \in Reqs \cup {None} BY <2>1 DEF TypeOK
    <3> QED BY <3>1, <3>2, <3>3, <3>4 DEF TypeOK
  <2>4. LockHeldAcrossJobs'
    <3>1. SUFFICES ASSUME NEW q \in Reqs
                   PROVE  dbLock' = q <=> PastGetDb(q)' /\ pc'[q] # "done"
          BY DEF LockHeldAcrossJobs
    <3>2. (dbLock = q <=> PastGetDb(q) /\ pc[q] # "done")
          BY DEF LockHeldAcrossJobs
    <3>3. pc'[q] # "done" <=> pc[q] # "done" BY <2>1 DEF TypeOK
    <3>4. CASE q = r /\ At(r) = "db"
          BY <2>1, <3>4, <1>2, PastNext DEF TypeOK
    <3>5. CASE q = r /\ At(r) # "db"
          BY <2>1, <3>2, <3>3, <3>5, <1>2, PastNext
    <3>6. CASE q # r
      <4>1. PastGetDb(q)' <=> PastGetDb(q) BY <3>6, <2>1, <1>2, PastNext
      <4>2. dbLock' = q <=> dbLock = q BY <2>1, <3>6, NoneAssumption
      <4> QED BY <4>1, <4>2, <3>2, <3>3
    <3> QED BY <3>4, <3>5, <3>6
  <2>5. LeavingHolds' BY <2>1, NoneAssumption DEF LeavingHolds, TypeOK
  <2> QED BY <2>3, <2>4, <2>5
\* The last job returned or a job raised: only pc[r] changes.
<1>3. ASSUME NEW r \in Reqs, pc[r] = "running", UNCHANGED <<job, dbLock>>,
             pc' = [pc EXCEPT ![r] = Finished(r)]
      PROVE  IInv'
  <2>1. pc'[r] \in {"leaving", "done"} /\ (pc'[r] = "leaving" <=> dbLock = r)
        BY <1>3 DEF Finished, TypeOK
  <2>2. \A q \in Reqs \ {r} : pc'[q] = pc[q] BY <1>3 DEF TypeOK
  <2>3. \A q \in Reqs : PastGetDb(q)' <=> PastGetDb(q)
        BY <1>3 DEF PastGetDb, JobsOf, Jobs
  <2>4. TypeOK'
    <3>1. pc' \in [Reqs -> {"queued", "running", "leaving", "done"}]
          BY <1>3, <2>1 DEF TypeOK
    <3> QED BY <3>1, <1>3 DEF TypeOK, JobsOf, Jobs
  <2>5. LockHeldAcrossJobs' BY <1>3, <2>1, <2>2, <2>3 DEF LockHeldAcrossJobs
  <2>6. LeavingHolds' BY <1>3, <2>1, <2>2 DEF LeavingHolds
  <2> QED BY <2>4, <2>5, <2>6
<1>4. ASSUME NEW r \in Reqs, Return(r), ~(job[r] < Len(JobsOf(r))) PROVE IInv'
  <2>1. At(r) # "db"
        BY <1>4, JobsOfShape DEF At, TypeOK
  <2> QED BY <1>4, <2>1, <1>3 DEF Return
<1>5. ASSUME NEW r \in Reqs, Raise(r) PROVE IInv'
      BY <1>5, <1>3 DEF Raise
<1>6. ASSUME NEW r \in Reqs, LeaveDb(r) PROVE IInv'
  <2>1. dbLock = r /\ dbLock' = None /\ job' = job
        /\ pc' = [pc EXCEPT ![r] = "done"]
        BY <1>6 DEF LeaveDb, LeavingHolds
  <2>2. TypeOK' BY <2>1 DEF TypeOK, JobsOf, Jobs
  <2>3. \A q \in Reqs : PastGetDb(q)' <=> PastGetDb(q)
        BY <2>1 DEF PastGetDb, JobsOf, Jobs
  <2>4. LockHeldAcrossJobs'
        BY <2>1, <2>3, NoneAssumption DEF LockHeldAcrossJobs, TypeOK
  <2>5. LeavingHolds' BY <2>1 DEF LeavingHolds, TypeOK
  <2> QED BY <2>2, <2>4, <2>5
<1>7. CASE UNCHANGED vars
  <2>1. TypeOK' BY <1>7 DEF vars, TypeOK, JobsOf, Jobs
  <2>2. LockHeldAcrossJobs' /\ LeavingHolds'
        BY <1>7 DEF vars, LockHeldAcrossJobs, LeavingHolds, PastGetDb, JobsOf, Jobs
  <2> QED BY <2>1, <2>2
<1> QED BY <1>1, <1>2, <1>4, <1>5, <1>6, <1>7 DEF Next, Serve

LEMMA Inductive == Spec => []IInv
BY InvInit, InvStep, PTL DEF Spec

\* Each request is always at one of its jobs, and the lock is held by a
\* request or free.
THEOREM TypeCorrect == Spec => []TypeOK
BY Inductive, PTL DEF IInv

\* Through all jobs after get_db until it has left get_db, a request holds
\* _db_lock, and it never holds it before (guardrails.py:296-302).
THEOREM LockHeld == Spec => []LockHeldAcrossJobs
BY Inductive, PTL DEF IInv

-----------------------------------------------------------------------------

\* The requests that need the database.
DbReqs == {r \in Reqs : Endpoint[r] # "read"}

\* With no more requests for the database than threads, a request that holds
\* the lock and waits for a thread is never kept from one by requests that
\* wait for the lock, however many readers there are.
THEOREM PoolNeverWedged ==
    ASSUME Cardinality(DbReqs) <= Threads PROVE Spec => []NeverWedged
<1>1. ASSUME IInv PROVE NeverWedged
  <2>1. SUFFICES ASSUME dbLock # None
                 PROVE  Cardinality({r \in Reqs : Blocked(r)}) < Threads
    <3>1. Cardinality({r \in Reqs : Blocked(r)}) \in Nat
          BY FiniteAssumption, FS_Subset, FS_CardinalityType
    <3> QED BY <2>1, <3>1, ThreadsAssumption DEF NeverWedged
  <2> DEFINE B == {r \in Reqs : Blocked(r)}
  <2>2. dbLock \in Reqs BY <1>1, <2>1 DEF IInv, TypeOK
  <2>3. PastGetDb(dbLock)
        BY <1>1, <2>2 DEF IInv, LockHeldAcrossJobs
  <2>4. dbLock \in DbReqs
    <3>1. PICK i \in 1..(job[dbLock] - 1) : JobsOf(dbLock)[i] = "db"
          BY <2>3 DEF PastGetDb
    <3>2. job[dbLock] \in DOMAIN JobsOf(dbLock) BY <1>1, <2>2 DEF IInv, TypeOK
    <3>3. i \in DOMAIN JobsOf(dbLock)
          BY <3>1, <3>2, <2>2, JobsOfShape
    <3> QED BY <3>1, <3>3, <2>2, JobsOfShape DEF DbReqs
  <2>5. dbLock \notin B
    <3>1. SUFFICES ASSUME At(dbLock) = "db" PROVE FALSE
          BY DEF Blocked
    <3>2. PICK i \in 1..(job[dbLock] - 1) : JobsOf(dbLock)[i] = "db"
          BY <2>3 DEF PastGetDb
    <3>3. job[dbLock] \in DOMAIN JobsOf(dbLock) BY <1>1, <2>2 DEF IInv, TypeOK
    <3>4. i \in DOMAIN JobsOf(dbLock) /\ i # job[dbLock]
          BY <3>2, <3>3, <2>2, JobsOfShape
    <3> QED BY <3>1, <3>2, <3>3, <3>4, <2>2, JobsOfShape DEF At
  <2>6. B \subseteq DbReqs
    <3>1. SUFFICES ASSUME NEW r \in Reqs, At(r) = "db" PROVE Endpoint[r] # "read"
          BY DEF Blocked, DbReqs
    <3>2. job[r] \in DOMAIN JobsOf(r) BY <1>1 DEF IInv, TypeOK
    <3> QED BY <3>1, <3>2, JobsOfShape DEF At
  <2>7. IsFiniteSet(DbReqs) BY FiniteAssumption, FS_Subset DEF DbReqs
  <2>8. IsFiniteSet(DbReqs \ {dbLock})
        /\ Cardinality(DbReqs \ {dbLock}) = Cardinality(DbReqs) - 1
        BY <2>4, <2>7, FS_RemoveElement
  <2>9. Cardinality(B) <= Cardinality(DbReqs \ {dbLock})
        BY <2>5, <2>6, <2>8, FS_Subset
  <2>10. Cardinality(B) \in Nat /\ Cardinality(DbReqs) \in Nat
         BY <2>6, <2>7, FS_Subset, FS_CardinalityType
  <2> HIDE DEF B
  <2>11. Cardinality(B) < Threads BY <2>8, <2>9, <2>10, ThreadsAssumption
  <2> QED BY <2>11 DEF B
<1> QED BY <1>1, Inductive, PTL
=============================================================================
