------------------------------- MODULE Future -------------------------------
(***************************************************************************)
(* The future of one task: qd_threadpool_submit_future, the worker's steps *)
(* on task->future, and the qd_future functions called by the threads of   *)
(* the application.  The state word is written with and without the mutex, *)
(* the condition variable is waited for under it.                          *)
(***************************************************************************)
EXTENDS Integers, FiniteSets

CONSTANTS
  Waiters,   \* application threads that share the caller's reference
  FutureCalls      \* what they call: a subset of {"wait", "timedwait", "cancel"}

VARIABLES
  state, refs, freed,   \* struct qd_future: state, refcount, future_destroy ran
  flock,                 \* a waiter holds the mutex between test and sleep
  wpc,                  \* the worker: where the task is
  fpc, res,              \* a thread: control, result of its last call
  cancelled, released   \* history: cancel returned QD_OK; release was called

fuVars == <<state, refs, freed, flock, wpc, fpc, res, cancelled, released>>

\* qd_future_state_t
PENDING == 0
RUNNING == 1
COMPLETED == 2
CANCELLED == 3

FutGoto(t, l) == fpc' = [fpc EXCEPT ![t] = l]
FutReturn(t, r) == FutGoto(t, "idle") /\ res' = [res EXCEPT ![t] = r]

FUInit ==
  /\ state = PENDING /\ refs = 0 /\ freed = FALSE
  /\ flock = FALSE /\ wpc = "none"
  /\ fpc = [t \in Waiters |-> "idle"] /\ res = [t \in Waiters |-> "none"]
  /\ cancelled = FALSE /\ released = FALSE

\* pthread_cond_broadcast: the sleepers go for the mutex.
Broadcast ==
  fpc' = [t \in Waiters |-> IF fpc[t] = "sleep" THEN "lock"
                           ELSE IF fpc[t] = "timed" THEN "tlock" ELSE fpc[t]]

-----------------------------------------------------------------------------
\* Mutant: the task takes no reference of its own.
SubmitUncounted ==
  /\ wpc = "none"
  /\ refs' = 1 /\ wpc' = "queued"
  /\ UNCHANGED <<state, freed, flock, fpc, res, cancelled, released>>

\* future_create and the reference of the task; a task that no queue takes
\* gives both references back and the caller gets NULL.
SubmitFuture ==
  /\ wpc = "none"
  /\ \/ refs' = 2 /\ wpc' = "queued" /\ UNCHANGED <<freed, released>>
     \/ refs' = 0 /\ freed' = TRUE /\ wpc' = "refused" /\ released' = TRUE
  /\ UNCHANGED <<state, flock, fpc, res, cancelled>>

\* A worker has popped the task: the state is stored, whatever it was.
WorkerStart ==
  /\ wpc = "queued"
  /\ state' = RUNNING /\ wpc' = "func"
  /\ UNCHANGED <<refs, freed, flock, fpc, res, cancelled, released>>

\* task->func returns.
WorkerFunc ==
  /\ wpc = "func" /\ wpc' = "ran"
  /\ UNCHANGED <<state, refs, freed, flock, fpc, res, cancelled, released>>

\* Under the mutex: completed, and the waiters are woken.
WorkerComplete ==
  /\ wpc = "ran" /\ ~flock
  /\ state' = COMPLETED /\ Broadcast /\ wpc' = "done"
  /\ UNCHANGED <<refs, freed, flock, res, cancelled, released>>

-----------------------------------------------------------------------------
(* Calls of the application                                                *)

Usable(t) == fpc[t] = "idle" /\ wpc # "none" /\ ~released

WaitCall(t) ==
  /\ Usable(t)
  /\ \/ "wait" \in FutureCalls /\ FutGoto(t, "lock")
     \/ "timedwait" \in FutureCalls /\ FutGoto(t, "tlock")
  /\ UNCHANGED <<state, refs, freed, flock, wpc, res, cancelled, released>>

\* With the mutex (again): the loop condition.
WaitTest(t) ==
  /\ fpc[t] \in {"lock", "tlock"} /\ ~flock
  /\ IF state >= COMPLETED THEN FutReturn(t, "OK") /\ UNCHANGED flock
     ELSE flock' = TRUE /\ UNCHANGED res
          /\ FutGoto(t, IF fpc[t] = "lock" THEN "tested" ELSE "ttested")
  /\ UNCHANGED <<state, refs, freed, wpc, cancelled, released>>

\* pthread_cond_wait or pthread_cond_timedwait lets the mutex go.
WaitSleep(t) ==
  /\ fpc[t] \in {"tested", "ttested"}
  /\ FutGoto(t, IF fpc[t] = "tested" THEN "sleep" ELSE "timed")
  /\ flock' = FALSE
  /\ UNCHANGED <<state, refs, freed, wpc, res, cancelled, released>>

WaitTimeout(t) ==
  /\ fpc[t] = "timed" /\ ~flock /\ FutReturn(t, "TIMEOUT")
  /\ UNCHANGED <<state, refs, freed, flock, wpc, cancelled, released>>

\* The compare-exchange is outside the mutex, ...
CancelCas(t) ==
  /\ Usable(t) /\ "cancel" \in FutureCalls
  /\ \/ state = PENDING /\ state' = CANCELLED /\ FutGoto(t, "cancel")
        /\ UNCHANGED res
     \/ state # PENDING /\ FutReturn(t, "BUSY") /\ UNCHANGED state
  /\ UNCHANGED <<refs, freed, flock, wpc, cancelled, released>>

\* ... the broadcast inside.
CancelBroadcast(t) ==
  /\ fpc[t] = "cancel" /\ ~flock
  /\ fpc' = [u \in Waiters |-> IF u = t THEN "idle"
                              ELSE IF fpc[u] = "sleep" THEN "lock"
                              ELSE IF fpc[u] = "timed" THEN "tlock" ELSE fpc[u]]
  /\ res' = [res EXCEPT ![t] = "OK"] /\ cancelled' = TRUE
  /\ UNCHANGED <<state, refs, freed, flock, wpc, released>>

\* The application drops its reference when no thread of it is in a call.
FutureRelease ==
  /\ wpc # "none" /\ ~released /\ \A t \in Waiters : fpc[t] = "idle"
  /\ released' = TRUE /\ refs' = refs - 1 /\ freed' = (refs = 1)
  /\ UNCHANGED <<state, flock, wpc, fpc, res, cancelled>>

-----------------------------------------------------------------------------
WorkerStep == WorkerStart \/ WorkerFunc \/ WorkerComplete

CallStep(t) == WaitTest(t) \/ WaitSleep(t) \/ WaitTimeout(t)
               \/ CancelBroadcast(t)

FUNext ==
  \/ SubmitFuture \/ WorkerStep \/ FutureRelease
  \/ \E t \in Waiters : WaitCall(t) \/ CancelCas(t) \/ CallStep(t)

FUSpec == FUInit /\ [][FUNext]_fuVars

-----------------------------------------------------------------------------
(* Properties.                                                             *)

\* Every field and local has a value of its C type.
FUTypeOK ==
  /\ state \in PENDING .. CANCELLED /\ refs \in 0 .. 2
  /\ freed \in BOOLEAN /\ flock \in BOOLEAN
  /\ wpc \in {"none", "refused", "queued", "func", "ran", "done"}
  /\ fpc \in [Waiters -> {"idle", "lock", "tlock", "tested", "ttested",
                         "sleep", "timed", "cancel"}]
  /\ res \in [Waiters -> {"none", "OK", "BUSY", "TIMEOUT"}]
  /\ cancelled \in BOOLEAN /\ released \in BOOLEAN

\* A future that future_destroy freed is touched by nobody any more: the
\* worker is past its last access and no thread is in a call.
NoUseAfterFree ==
  freed => wpc \in {"refused", "done"} /\ \A t \in Waiters : fpc[t] = "idle"

\* qd_future_wait without a timeout returns, whether the task completes or
\* is cancelled and however the two race with the test under the mutex.
WaitReturns == \A t \in Waiters : fpc[t] = "sleep" ~> fpc[t] = "idle"

\* A task whose future qd_future_cancel cancelled is not run.
CancelledNotRun == [][WorkerFunc => ~cancelled]_fuVars
=============================================================================
