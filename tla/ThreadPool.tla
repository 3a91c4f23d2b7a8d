----------------------------- MODULE ThreadPool -----------------------------
(***************************************************************************)
(* The threads that serve the endpoints of api/guardrails.py.              *)
(*                                                                         *)
(* The endpoints and their dependencies are all synchronous functions.     *)
(* FastAPI calls them one after the other, and every call is a job of one  *)
(* bounded pool of threads, queued for when no thread is free.  get_db     *)
(* takes _db_lock in such a job and keeps it after the job has ended, until *)
(* the response is out; the exit of get_db does not need a thread of the   *)
(* pool.  What the functions compute is in module Guardrails.              *)
(***************************************************************************)
EXTENDS Naturals, Sequences, FiniteSets

CONSTANTS Reqs,            \* the requests in flight
          Endpoint,        \* request -> the endpoint it calls
          Threads,         \* size of the pool (40 unless configured)
          None

Endpoints == {"create", "recompile", "check", "read"}

ASSUME EndpointAssumption == Endpoint \in [Reqs -> Endpoints]
ASSUME ThreadsAssumption == Threads \in Nat \ {0}
ASSUME FiniteAssumption == IsFiniteSet(Reqs)
ASSUME NoneAssumption == None \notin Reqs

VARIABLES pc,
          job,             \* the number of the call a request is at
          dbLock           \* the request that holds _db_lock, or None

vars == <<pc, job, dbLock>>

\* Mutant: the readers use the database too.
JobsWithReadersInDb(endpoint) ==
    CASE endpoint = "create"    -> <<"permission", "db", "registry", "audit", "handler">>
      [] endpoint = "recompile" -> <<"permission", "db", "audit", "handler">>
      [] endpoint = "check"     ->
            <<"permission", "limit", "db", "registry", "audit", "handler">>
      [] endpoint = "read"      -> <<"permission", "db", "registry", "handler">>

\* The parameters of an endpoint in the order of its signature, then itself.
Jobs(endpoint) ==
    CASE endpoint = "create"    -> <<"permission", "db", "registry", "audit", "handler">>
      [] endpoint = "recompile" -> <<"permission", "db", "audit", "handler">>
      [] endpoint = "check"     ->
            <<"permission", "limit", "db", "registry", "audit", "handler">>
      [] endpoint = "read"      -> <<"permission", "registry", "handler">>

JobsOf(r) == Jobs(Endpoint[r])
At(r) == JobsOf(r)[job[r]]

Init ==
    /\ pc = [r \in Reqs |-> "queued"]
    /\ job = [r \in Reqs |-> 1]
    /\ dbLock = None

Running == {r \in Reqs : pc[r] = "running"}

\* A thread waits in get_db for the lock that another request holds.
Blocked(r) == pc[r] = "running" /\ At(r) = "db" /\ dbLock # None

-----------------------------------------------------------------------------

TakeThread(r) ==
    /\ pc[r] = "queued"
    /\ Cardinality(Running) < Threads
    /\ pc' = [pc EXCEPT ![r] = "running"]
    /\ UNCHANGED <<job, dbLock>>

\* The response is ready: a request in get_db has yet to leave it.
Finished(r) == IF dbLock' = r THEN "leaving" ELSE "done"

\* Mutant: the job counter runs past the last call.
ReturnPastEnd(r) ==
    /\ pc[r] = "running"
    /\ IF At(r) = "db" THEN dbLock = None /\ dbLock' = r ELSE UNCHANGED dbLock
    /\ job' = [job EXCEPT ![r] = @ + 1]
    /\ pc' = [pc EXCEPT ![r] = IF job[r] < Len(JobsOf(r)) THEN "queued"
                               ELSE Finished(r)]

\* The call returns and its thread is free again.  get_db returns when it has
\* the lock.
Return(r) ==
    /\ pc[r] = "running"
    /\ IF At(r) = "db" THEN dbLock = None /\ dbLock' = r ELSE UNCHANGED dbLock
    /\ IF job[r] < Len(JobsOf(r))
       THEN /\ job' = [job EXCEPT ![r] = @ + 1]
            /\ pc' = [pc EXCEPT ![r] = "queued"]
       ELSE /\ pc' = [pc EXCEPT ![r] = Finished(r)]
            /\ UNCHANGED job

\* 401 or 429; or 422, which comes after the dependencies; or an exception of
\* the handler.
Raise(r) ==
    /\ pc[r] = "running"
    /\ \/ At(r) \in {"permission", "limit", "handler"}
       \/ job[r] = Len(JobsOf(r)) - 1
    /\ At(r) # "db"
    /\ UNCHANGED <<job, dbLock>>
    /\ pc' = [pc EXCEPT ![r] = Finished(r)]

\* Mutant: the lock is not released.
LeaveDbNoRelease(r) ==
    /\ pc[r] = "leaving"
    /\ pc' = [pc EXCEPT ![r] = "done"]
    /\ UNCHANGED <<job, dbLock>>

\* The exit of get_db, on a thread of its own.
LeaveDb(r) ==
    /\ pc[r] = "leaving"
    /\ pc' = [pc EXCEPT ![r] = "done"]
    /\ dbLock' = None
    /\ UNCHANGED job

Serve(r) == TakeThread(r) \/ Return(r) \/ Raise(r) \/ LeaveDb(r)

Next == \E r \in Reqs : Serve(r)

Spec == Init /\ [][Next]_vars

\* The event loop hands free threads to the queue in turn, and a thread that
\* can run does run.
FairSpec == Spec /\ \A r \in Reqs : WF_vars(Serve(r))

-----------------------------------------------------------------------------

\* Every variable holds a value it can have; a request is at one of its jobs.
TypeOK ==
    /\ pc \in [Reqs -> {"queued", "running", "leaving", "done"}]
    /\ job \in [Reqs -> Nat]
    /\ \A r \in Reqs : job[r] \in DOMAIN JobsOf(r)
    /\ dbLock \in Reqs \cup {None}

PastGetDb(r) == \E i \in 1..(job[r] - 1) : JobsOf(r)[i] = "db"

\* _db_lock is held exactly by the request that has come past get_db and has
\* not left it: also between two jobs, when the request has no thread.
LockHeldAcrossJobs ==
    \A r \in Reqs : dbLock = r <=> PastGetDb(r) /\ pc[r] # "done"

\* With no more database requests than threads the pool is not wedged: the
\* threads are not all waiting in get_db for a request that itself waits for
\* a thread (guardrails.py:296-302).
NeverWedged ==
    ~ /\ dbLock # None
      /\ pc[dbLock] = "queued"
      /\ Cardinality({r \in Reqs : Blocked(r)}) >= Threads

\* All requests sent at the same time are answered, as the stress test
\* asserts for 50 and 100 of them (test_concurrent_check_action.py:144).
EveryRequestServed == \A r \in Reqs : <>(pc[r] = "done")
=============================================================================
