------------------------------- MODULE FileOps -------------------------------
(***************************************************************************)
(* Asynchronous file I/O of qd_fs.c: requests that threads hand to a       *)
(* shared thread pool, which is created at first use, and whose results    *)
(* come back through qd_event_defer to the event loop.  The pool and the   *)
(* loop are taken at their interface: a submitted task is run, or dropped  *)
(* when the pool is destroyed; a deferred call is run by the loop.         *)
(***************************************************************************)
EXTENDS Naturals, FiniteSets

CONSTANTS Callers, Reqs, MaxPools

VARIABLES pool,     \* g_fs_pool: 0 or the number of a pool
          made,     \* pools created so far
          lock,     \* holder of g_fs_pool_lock
          pc,       \* of qd_fs_read / qd_fs_write and of qd_fs_cleanup, per caller
          got,      \* the pool a caller works with
          req,      \* state of a request
          told,     \* callbacks run, per request
          detached, \* qd_fs_req_cancel was called
          poolOf,   \* pool that has the request
          tidy      \* history: no call was under way when the pool was destroyed

fsVars == <<pool, made, lock, pc, got, req, told, detached, poolOf, tidy>>

NoOne == "no one"

ASSUME FileOpsAssumption == NoOne \notin Callers

FSInit == /\ pool = 0 /\ made = 0 /\ lock = NoOne /\ tidy = TRUE
          /\ pc = [c \in Callers |-> "idle"] /\ got = [c \in Callers |-> 0]
          /\ req = [r \in Reqs |-> "free"] /\ told = [r \in Reqs |-> 0]
          /\ detached = [r \in Reqs |-> FALSE] /\ poolOf = [r \in Reqs |-> 0]

Go(c, to) == pc' = [pc EXCEPT ![c] = to]

\* get_fs_pool: the first look is made without the lock.
FsCall(c) ==
  /\ pc[c] = "idle"
  /\ IF pool # 0 THEN Go(c, "submit") /\ got' = [got EXCEPT ![c] = pool]
     ELSE Go(c, "lock") /\ UNCHANGED got
  /\ UNCHANGED <<pool, made, lock, req, told, detached, poolOf, tidy>>

FsLock(c) ==
  /\ pc[c] = "lock" /\ lock = NoOne /\ lock' = c /\ Go(c, "make")
  /\ UNCHANGED <<pool, made, got, req, told, detached, poolOf, tidy>>

\* Defect: the pool is not looked at again under the lock.
FsMakeBlind(c) ==
  /\ pc[c] = "make" /\ made < MaxPools
  /\ pool' = made + 1 /\ made' = made + 1
  /\ lock' = NoOne /\ got' = [got EXCEPT ![c] = pool'] /\ Go(c, "submit")
  /\ UNCHANGED <<req, told, detached, poolOf, tidy>>

\* The second look, under the lock; creating the pool may fail.
FsMake(c) ==
  /\ pc[c] = "make"
  /\ \/ pool = 0 /\ made < MaxPools /\ pool' = made + 1 /\ made' = made + 1
     \/ UNCHANGED <<pool, made>>
  /\ lock' = NoOne /\ got' = [got EXCEPT ![c] = pool']
  /\ Go(c, IF pool' = 0 THEN "idle" ELSE "submit")
  /\ UNCHANGED <<req, told, detached, poolOf, tidy>>

\* The task is filled in and submitted; a pool that refuses leaves the task to
\* nobody.
FsSubmit(c, r) ==
  /\ pc[c] = "submit" /\ req[r] = "free" /\ Go(c, "idle")
  /\ \/ req' = [req EXCEPT ![r] = "queued"] /\ poolOf' = [poolOf EXCEPT ![r] = got[c]]
     \/ req' = [req EXCEPT ![r] = "leaked"] /\ UNCHANGED poolOf
  /\ got' = [got EXCEPT ![c] = 0]
  /\ UNCHANGED <<pool, made, lock, told, detached, tidy>>

\* fs_worker: pread or pwrite on a worker of the pool
FsWorker(r) ==
  /\ req[r] = "queued" /\ poolOf[r] = pool /\ req' = [req EXCEPT ![r] = "worked"]
  /\ UNCHANGED <<pool, made, lock, pc, got, told, detached, poolOf, tidy>>

\* worker_complete_shim: when the defer fails the task is freed and its
\* callback never runs.
WorkerComplete(r) ==
  /\ req[r] = "worked"
  /\ \E to \in {"deferred", "leaked"} : req' = [req EXCEPT ![r] = to]
  /\ UNCHANGED <<pool, made, lock, pc, got, told, detached, poolOf, tidy>>

\* fs_complete_main, on the loop
FsComplete(r) ==
  /\ req[r] = "deferred" /\ req' = [req EXCEPT ![r] = "done"]
  /\ told' = [told EXCEPT ![r] = IF detached[r] THEN @ ELSE @ + 1]
  /\ UNCHANGED <<pool, made, lock, pc, got, detached, poolOf, tidy>>

\* qd_fs_req_cancel, by the loop's thread, on a task that is still there
FsCancel(r) ==
  /\ req[r] \in {"queued", "worked", "deferred"} /\ ~detached[r]
  /\ detached' = [detached EXCEPT ![r] = TRUE]
  /\ UNCHANGED <<pool, made, lock, pc, got, req, told, poolOf, tidy>>

\* qd_fs_cleanup: the workers are joined; what they have not taken is dropped.
FsCleanup ==
  /\ lock = NoOne /\ pool # 0 /\ pool' = 0
  /\ tidy' = (tidy /\ \A c \in Callers : pc[c] # "submit")
  /\ \E end \in [Reqs -> {"deferred", "leaked"}] :
       req' = [r \in Reqs |-> IF poolOf[r] = pool /\ req[r] \in {"queued", "worked"}
                              THEN end[r] ELSE req[r]]
  /\ UNCHANGED <<made, lock, pc, got, told, detached, poolOf>>

FSNext == \/ FsCleanup
          \/ \E c \in Callers : \/ FsCall(c) \/ FsLock(c) \/ FsMake(c)
                                \/ \E r \in Reqs : FsSubmit(c, r)
          \/ \E r \in Reqs : \/ FsWorker(r) \/ WorkerComplete(r) \/ FsComplete(r) \/ FsCancel(r)

FSSpec == FSInit /\ [][FSNext]_fsVars

-----------------------------------------------------------------------------

\* A caller that has the pool has the one that exists, and no second pool is
\* made while one does, although the first look is taken without the lock;
\* unless qd_fs_cleanup ran while a call was under way.
PoolShared == tidy => \A c \in Callers : pc[c] = "submit" => got[c] = pool

\* A request's callback runs at most once, only when the work is done, and not
\* after the request was cancelled.
CallbackOnce ==
  \A r \in Reqs : told[r] <= 1 /\ (told[r] = 1 => req[r] = "done" /\ ~detached[r])

\* Racing first calls share a pool, and racing ends of a request call back once.
FsExact == PoolShared /\ CallbackOnce
=============================================================================
