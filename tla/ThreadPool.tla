----------------------------- MODULE ThreadPool -----------------------------
(***************************************************************************)
(* src/core/qd_threadpool.c: workers, their queues, submission, pause,     *)
(* shutdown and destroy.  An operation on one queue is one step: MpmcRing  *)
(* and WsDeque show that the lock-free ones behave so, and the priority    *)
(* lists are under a mutex.  What happens between two queues, and between  *)
(* a queue, the counters and the wake-up eventfd, is interleaved.          *)
(***************************************************************************)
EXTENDS Integers, Sequences, FiniteSets

CONSTANTS
  N,          \* pool->num_workers
  Clients,    \* threads outside the pool that submit
  MaxTasks,   \* bound: tasks submitted
  Low, High,  \* tasks submitted with QD_PRIORITY_LOW and _HIGH
  BatchSize,  \* count of submit_batch
  RingCap,    \* capacity of a worker's external ring
  DequeCap,   \* capacity of a worker's deque
  Stealing,   \* config->enable_stealing
  Calls       \* what the application does, each call of the control thread
              \* once: a subset of {"submit", "callback", "batch", "child",
              \* "pause", "graceful", "immediate", "destroy"}

ASSUME ThreadPoolAssumption ==
  /\ N \in Nat \ {0} /\ MaxTasks \in Nat /\ BatchSize \in Nat \ {0}
  /\ RingCap \in Nat \ {0} /\ DequeCap \in Nat \ {0} /\ Stealing \in BOOLEAN

VARIABLES
  running, mode, paused, pending, rr, tokens,  \* tokens: value of wake_fd
  ring, ext, deque, prio,  \* global ring, external rings, deques, priority
                           \* lists of the workers (0 .. N - 1) and, at N, of
                           \* the global queue
  wpc, probe, cur,         \* worker_thread: control, victim index, task
  spc, want, batch, mine, stask,
                           \* a submit call: control, tasks left, kind, queued
  mpc, made,               \* control thread: control and calls made
  next, st, accepted,      \* tasks: next one, state, submit returned QD_OK
  early, after             \* history: counted before a graceful shutdown;
                           \* begun by a worker while the mode was
                           \* immediate

pool    == <<running, mode, paused>>
queues  == <<ring, ext, deque, prio>>
worker  == <<wpc, probe, cur>>
submit  == <<spc, want, batch, mine, stask>>
control == <<mpc, made>>
vars == <<pool, rr, pending, tokens, queues, worker, submit, control,
          next, st, accepted, early, after>>

Workers == 0 .. N - 1
Tasks == 1 .. MaxTasks
NORMAL == 1
Level(t) == IF t \in High THEN 2 ELSE IF t \in Low THEN 0 ELSE NORMAL
Levels == {0, NORMAL, 2}

NONE == 0
GRACEFUL == 1
IMMEDIATE == 2

In(t, s) == st' = [st EXCEPT ![t] = s]
Goto(w, l) == wpc' = [wpc EXCEPT ![w] = l]

\* qd_threadpool_create_ex
Init ==
  /\ running = TRUE /\ mode = NONE /\ paused = FALSE
  /\ pending = 0 /\ rr = 0 /\ tokens = 0
  /\ ring = <<>> /\ ext = [w \in Workers |-> <<>>]
  /\ deque = [w \in Workers |-> <<>>]
  /\ prio = [q \in 0 .. N |-> [l \in Levels |-> <<>>]]
  /\ wpc = [w \in Workers |-> "loop"]
  /\ probe = [w \in Workers |-> 0] /\ cur = [w \in Workers |-> 0]
  /\ spc = [x \in Workers \cup Clients |-> "idle"]
  /\ want = [x \in Workers \cup Clients |-> 0]
  /\ batch = [x \in Workers \cup Clients |-> FALSE]
  /\ mine = [x \in Workers \cup Clients |-> {}]
  /\ stask = [x \in Workers \cup Clients |-> 0]
  /\ mpc = "idle" /\ made = {}
  /\ next = 1 /\ st = [t \in Tasks |-> "new"] /\ accepted = {}
  /\ early = {} /\ after = [w \in Workers |-> 0]

GlobalCap == RingCap * N

-----------------------------------------------------------------------------
(* The submit functions, called by clients and, inside a task, by workers. *)

\* The entry checks: running is TRUE (otherwise QD_ERR_BUSY is returned), and
\* the application uses no pool it is destroying.
Start(x, isBatch, n) ==
  /\ spc[x] = "idle" /\ running /\ next <= MaxTasks
  /\ IF x \in Workers THEN wpc[x] = "run" /\ "child" \in Calls
     ELSE "destroy" \notin made
  /\ want' = [want EXCEPT ![x] = n]
  /\ batch' = [batch EXCEPT ![x] = isBatch]
  /\ stask' = [stask EXCEPT ![x] = next] /\ next' = next + 1
  /\ spc' = [spc EXCEPT ![x] = "count"]
  /\ UNCHANGED <<pool, rr, pending, tokens, queues, worker, mine, control, st,
                 accepted, early, after>>

SubmitPriority(x) == "submit" \in Calls /\ Start(x, FALSE, 1)

SubmitCallback(x) ==
  "callback" \in Calls /\ Level(next) = NORMAL /\ Start(x, FALSE, 1)

SubmitBatch(x) ==
  "batch" \in Calls /\ Level(next) = NORMAL /\ Start(x, TRUE, BatchSize)

\* The task is allocated and counted in pending_tasks before it is queued.
SubmitCount(x) ==
  /\ spc[x] = "count"
  /\ pending' = pending + 1 /\ In(stask[x], "counted")
  /\ spc' = [spc EXCEPT ![x] = IF x \in Workers THEN "local"
                               ELSE IF Level(stask[x]) = NORMAL THEN "ring"
                               ELSE "global"]
  /\ UNCHANGED <<pool, rr, tokens, queues, worker, want, batch, mine, stask,
                 control, next, accepted, early, after>>

\* The task is in a queue: the rest of the batch, then the wake-up.
Pushed(x) ==
  LET more == want[x] > 1 /\ next <= MaxTasks /\ Level(next) = NORMAL
  IN /\ In(stask[x], "queued")
     /\ mine' = [mine EXCEPT ![x] = @ \cup {stask[x]}]
     /\ want' = [want EXCEPT ![x] = IF more THEN @ - 1 ELSE 0]
     /\ spc' = [spc EXCEPT ![x] = IF more THEN "count" ELSE "wake"]
     /\ stask' = [stask EXCEPT ![x] = IF more THEN next ELSE 0]
     /\ next' = IF more THEN next + 1 ELSE next
     /\ UNCHANGED <<pool, pending, tokens, worker, batch, control, accepted,
                    early, after>>

\* Inside a task: the worker's own queue.  A full deque refuses a single
\* task and sends a batch to the external queues.
SubmitLocal(x) ==
  /\ spc[x] = "local" /\ UNCHANGED rr
  /\ LET t == stask[x]
         full == Len(deque[x]) >= DequeCap - 1
     IN
     \/ /\ Level(t) # NORMAL
        /\ prio' = [prio EXCEPT ![x][Level(t)] = Append(@, t)]
        /\ Pushed(x) /\ UNCHANGED <<ring, ext, deque>>
     \/ /\ Level(t) = NORMAL /\ ~full
        /\ deque' = [deque EXCEPT ![x] = Append(@, t)]
        /\ Pushed(x) /\ UNCHANGED <<ring, ext, prio>>
     \/ /\ Level(t) = NORMAL /\ full /\ ~batch[x]
        /\ pending' = pending - 1 /\ In(t, "refused")
        /\ spc' = [spc EXCEPT ![x] = "idle"]
        /\ stask' = [stask EXCEPT ![x] = 0] /\ want' = [want EXCEPT ![x] = 0]
        /\ UNCHANGED <<pool, tokens, queues, worker, batch, mine, control,
                       next, accepted, early, after>>
     \/ /\ Level(t) = NORMAL /\ full /\ batch[x]
        /\ spc' = [spc EXCEPT ![x] = "ring"]
        /\ UNCHANGED <<pool, pending, tokens, queues, worker, want, batch,
                       mine, stask, control, next, st, accepted, early, after>>

\* pool_submit_external: the global ring, ...
SubmitRing(x) ==
  /\ spc[x] = "ring" /\ UNCHANGED rr
  /\ \/ /\ Len(ring) < GlobalCap
        /\ ring' = Append(ring, stask[x])
        /\ Pushed(x) /\ UNCHANGED <<ext, deque, prio>>
     \/ /\ Len(ring) >= GlobalCap
        /\ spc' = [spc EXCEPT ![x] = "ext"]
        /\ UNCHANGED <<pool, pending, tokens, queues, worker, want, batch,
                       mine, stask, control, next, st, accepted, early, after>>

\* ... the external ring of the next worker in turn, ...
SubmitExt(x) ==
  /\ spc[x] = "ext"
  /\ rr' = (rr + 1) % N
  /\ \/ /\ Len(ext[rr]) < RingCap
        /\ ext' = [ext EXCEPT ![rr] = Append(@, stask[x])]
        /\ Pushed(x) /\ UNCHANGED <<ring, deque, prio>>
     \/ /\ Len(ext[rr]) >= RingCap
        /\ spc' = [spc EXCEPT ![x] = "global"]
        /\ UNCHANGED <<queues, want, batch, mine, stask, st, pool, pending, tokens,
                       worker, control, next, accepted, early, after>>

\* ... or the unbounded lists of the global queue.
SubmitGlobal(x) ==
  /\ spc[x] = "global" /\ UNCHANGED rr
  /\ prio' = [prio EXCEPT ![N][Level(stask[x])] = Append(@, stask[x])]
  /\ Pushed(x) /\ UNCHANGED <<ring, ext, deque>>

\* Mutant: nobody is woken while some worker looks awake.
SubmitWakeSleepers(x) ==
  /\ spc[x] = "wake"
  /\ tokens' = IF \E w \in Workers : wpc[w] # "read" THEN tokens
               ELSE tokens + Cardinality(mine[x])
  /\ accepted' = accepted \cup mine[x]
  /\ mine' = [mine EXCEPT ![x] = {}] /\ spc' = [spc EXCEPT ![x] = "idle"]
  /\ batch' = [batch EXCEPT ![x] = FALSE]
  /\ UNCHANGED <<pool, rr, pending, queues, worker, want, stask, control,
                 next, st, early, after>>

\* qd_pool_wake, and the call returns.
SubmitWake(x) ==
  /\ spc[x] = "wake"
  /\ tokens' = tokens + Cardinality(mine[x])
  /\ accepted' = accepted \cup mine[x]
  /\ mine' = [mine EXCEPT ![x] = {}] /\ spc' = [spc EXCEPT ![x] = "idle"]
  /\ batch' = [batch EXCEPT ![x] = FALSE]
  /\ UNCHANGED <<pool, rr, pending, queues, worker, want, stask, control,
                 next, st, early, after>>

-----------------------------------------------------------------------------
(* worker_thread                                                           *)

\* Mutant: a graceful shutdown is obeyed at once.
WorkerLoopLeaves(w) ==
  /\ wpc[w] = "loop"
  /\ Goto(w, IF mode # NONE THEN "exit" ELSE IF paused THEN "park" ELSE "local")
  /\ UNCHANGED <<pool, rr, pending, tokens, queues, probe, cur, submit,
                 control, next, st, accepted, early, after>>

\* The top of the loop: stop, sleep while paused, or look for a task.
WorkerLoop(w) ==
  /\ wpc[w] = "loop"
  /\ Goto(w, IF mode = IMMEDIATE \/ (mode = GRACEFUL /\ pending = 0)
             THEN "exit"
             ELSE IF mode = NONE /\ paused THEN "park" ELSE "local")
  /\ UNCHANGED <<pool, rr, pending, tokens, queues, probe, cur, submit,
                 control, next, st, accepted, early, after>>

Take(w, t) ==
  /\ cur' = [cur EXCEPT ![w] = t] /\ In(t, "running") /\ Goto(w, "run")
  /\ probe' = [probe EXCEPT ![w] = 0]
  /\ after' = [after EXCEPT ![w] = @ + (IF mode = IMMEDIATE THEN 1 ELSE 0)]
  /\ UNCHANGED <<pool, rr, pending, tokens, submit, control, next, accepted,
                 early>>

TryNext(w, l) ==
  /\ Goto(w, l)
  /\ UNCHANGED <<pool, rr, pending, tokens, queues, cur, submit, control,
                 next, st, accepted, early, after>>

Waiting(q) == {l \in Levels : prio[q][l] # <<>>}

\* The oldest task of the highest level of queue q.
TakeList(w, q) ==
  LET l == CHOOSE h \in Waiting(q) : \A k \in Waiting(q) : k <= h
  IN /\ Take(w, Head(prio[q][l]))
     /\ prio' = [prio EXCEPT ![q][l] = Tail(@)]
     /\ UNCHANGED <<ring, ext, deque>>

\* work_queue_pop: the worker's own lists, then its deque from the back.
WorkerLocal(w) ==
  /\ wpc[w] = "local"
  /\ \/ Waiting(w) # {} /\ TakeList(w, w)
     \/ /\ Waiting(w) = {} /\ deque[w] # <<>>
        /\ Take(w, deque[w][Len(deque[w])])
        /\ deque' = [deque EXCEPT ![w] = SubSeq(@, 1, Len(@) - 1)]
        /\ UNCHANGED <<ring, ext, prio>>
     \/ /\ Waiting(w) = {} /\ deque[w] = <<>>
        /\ TryNext(w, "prio") /\ UNCHANGED probe

WorkerPrio(w) ==
  /\ wpc[w] = "prio"
  /\ \/ Waiting(N) # {} /\ TakeList(w, N)
     \/ Waiting(N) = {} /\ TryNext(w, "ext") /\ UNCHANGED probe

TakeExt(w, v) ==
  /\ Take(w, Head(ext[v]))
  /\ ext' = [ext EXCEPT ![v] = Tail(@)] /\ UNCHANGED <<ring, deque, prio>>

\* Mutant: the worker leaves its external ring to the thieves.
WorkerExtSkip(w) ==
  wpc[w] = "ext" /\ TryNext(w, "ring") /\ UNCHANGED probe

WorkerExt(w) ==
  /\ wpc[w] = "ext"
  /\ \/ ext[w] # <<>> /\ TakeExt(w, w)
     \/ ext[w] = <<>> /\ TryNext(w, "ring") /\ UNCHANGED probe

WorkerRing(w) ==
  /\ wpc[w] = "ring"
  /\ \/ /\ ring # <<>> /\ Take(w, Head(ring))
        /\ ring' = Tail(ring) /\ UNCHANGED <<ext, deque, prio>>
     \/ ring = <<>> /\ TryNext(w, "steal") /\ UNCHANGED probe

\* The loop over the victims: i runs over the workers, the one whose number
\* is i is skipped, and worker (id + i) mod N is tried.
WorkerSteal(w) ==
  /\ wpc[w] = "steal"
  /\ LET i == probe[w]
         v == (w + i) % N
     IN
     \/ /\ ~Stealing \/ i >= N
        /\ TryNext(w, "idle") /\ probe' = [probe EXCEPT ![w] = 0]
     \/ /\ Stealing /\ i < N /\ i = w
        /\ TryNext(w, "steal") /\ probe' = [probe EXCEPT ![w] = i + 1]
     \/ /\ Stealing /\ i < N /\ i # w /\ ext[v] # <<>> /\ TakeExt(w, v)
     \/ /\ Stealing /\ i < N /\ i # w /\ ext[v] = <<>>
        /\ TryNext(w, "steal_deque") /\ UNCHANGED probe

\* work_queue_steal: the victim's deque from the front.
WorkerStealDeque(w) ==
  /\ wpc[w] = "steal_deque"
  /\ LET v == (w + probe[w]) % N IN
     \/ /\ deque[v] # <<>> /\ Take(w, Head(deque[v]))
        /\ deque' = [deque EXCEPT ![v] = Tail(@)]
        /\ UNCHANGED <<ring, ext, prio>>
     \/ /\ deque[v] = <<>> /\ TryNext(w, "steal")
        /\ probe' = [probe EXCEPT ![w] = @ + 1]

\* The task function and on_complete return.
WorkerRun(w) ==
  /\ wpc[w] = "run" /\ spc[w] = "idle"
  /\ In(cur[w], "done") /\ cur' = [cur EXCEPT ![w] = 0] /\ Goto(w, "done")
  /\ UNCHANGED <<pool, rr, pending, tokens, queues, probe, submit,
                 control, next, accepted, early, after>>

WorkerDone(w) ==
  /\ wpc[w] = "done"
  /\ pending' = pending - 1 /\ Goto(w, "loop")
  /\ UNCHANGED <<pool, rr, tokens, queues, probe, cur, submit, control, next,
                 st, accepted, early, after>>

\* No task found: the shutdown tests again before sleeping.
WorkerIdle(w) ==
  /\ wpc[w] = "idle"
  /\ Goto(w, IF mode = IMMEDIATE \/ (mode = GRACEFUL /\ pending = 0)
             THEN "exit" ELSE "read")
  /\ UNCHANGED <<pool, rr, pending, tokens, queues, probe, cur, submit,
                 control, next, st, accepted, early, after>>

\* read() of the semaphore eventfd: blocks at zero, takes one.
WorkerRead(w) ==
  /\ wpc[w] \in {"park", "read"} /\ tokens > 0
  /\ tokens' = tokens - 1 /\ Goto(w, "loop")
  /\ UNCHANGED <<pool, rr, pending, queues, probe, cur, submit, control, next,
                 st, accepted, early, after>>

-----------------------------------------------------------------------------
(* The control thread: pause, resume, shutdown and destroy                 *)

PoolPause ==
  /\ mpc = "idle" /\ "pause" \in Calls \ made
  /\ paused' = TRUE /\ made' = made \cup {"pause"} /\ mpc' = "pause"
  /\ UNCHANGED <<running, mode, rr, pending, tokens, queues, worker, submit,
                 next, st, accepted, early, after>>

PoolResume ==
  /\ mpc = "idle" /\ paused
  /\ paused' = FALSE /\ mpc' = "resume"
  /\ UNCHANGED <<running, mode, rr, pending, tokens, queues, worker, submit,
                 made, next, st, accepted, early, after>>

\* The wake-up that ends pause and resume: one token for each worker.
PoolWake ==
  /\ mpc \in {"pause", "resume"}
  /\ tokens' = tokens + N /\ mpc' = "idle"
  /\ UNCHANGED <<pool, rr, pending, queues, worker, submit, made, next, st,
                 accepted, early, after>>

Counted == {t \in Tasks : st[t] \notin {"new", "refused"}}

\* Entry of shutdown, which destroy calls with GRACEFUL whatever the mode is.
\* The application destroys a pool nobody else is submitting to.
PoolShutdown(call) ==
  /\ mpc = "idle" /\ call \in Calls \ made /\ "destroy" \notin made
  /\ call = "destroy" => \A c \in Clients : spc[c] = "idle"
  /\ mode' = IF call = "immediate" THEN IMMEDIATE ELSE GRACEFUL
  /\ made' = made \cup {call} /\ mpc' = "stop"
  /\ early' = IF mode = NONE /\ call # "immediate" THEN Counted ELSE early
  /\ UNCHANGED <<running, paused, rr, pending, tokens, queues, worker, submit,
                 next, st, accepted, after>>

ShutdownRunning ==
  /\ mpc = "stop"
  /\ running' = FALSE /\ mpc' = "stop_wake"
  /\ UNCHANGED <<mode, paused, rr, pending, tokens, queues, worker, submit,
                 made, next, st, accepted, early, after>>

\* Mutant: one token too few.
ShutdownWakeShort ==
  /\ mpc = "stop_wake"
  /\ tokens' = tokens + N - 1
  /\ mpc' = IF "destroy" \in made THEN "join" ELSE "idle"
  /\ UNCHANGED <<pool, rr, pending, queues, worker, submit, made, next, st,
                 accepted, early, after>>

ShutdownWake ==
  /\ mpc = "stop_wake"
  /\ tokens' = tokens + N
  /\ mpc' = IF "destroy" \in made THEN "join" ELSE "idle"
  /\ UNCHANGED <<pool, rr, pending, queues, worker, submit, made, next, st,
                 accepted, early, after>>

\* destroy: every worker is joined, then the pool is freed.
DestroyJoin ==
  /\ mpc = "join" /\ \A w \in Workers : wpc[w] = "exit"
  /\ mpc' = "freed"
  /\ UNCHANGED <<pool, rr, pending, tokens, queues, worker, submit, made,
                 next, st, accepted, early, after>>

-----------------------------------------------------------------------------
SubmitCall(x) == SubmitPriority(x) \/ SubmitCallback(x) \/ SubmitBatch(x)

SubmitStep(x) == \/ SubmitCount(x) \/ SubmitLocal(x) \/ SubmitRing(x)
                 \/ SubmitExt(x) \/ SubmitGlobal(x) \/ SubmitWake(x)

WorkerStep(w) == \/ WorkerLoop(w) \/ WorkerLocal(w) \/ WorkerPrio(w)
                 \/ WorkerExt(w) \/ WorkerRing(w) \/ WorkerSteal(w)
                 \/ WorkerStealDeque(w) \/ WorkerRun(w) \/ WorkerDone(w)
                 \/ WorkerIdle(w) \/ WorkerRead(w)

ControlStep == PoolResume \/ PoolWake \/ ShutdownRunning \/ ShutdownWake
               \/ DestroyJoin

Next ==
  \/ \E x \in Workers \cup Clients : SubmitCall(x) \/ SubmitStep(x)
  \/ \E w \in Workers : WorkerStep(w)
  \/ PoolPause \/ (\E c \in {"graceful", "immediate", "destroy"} : PoolShutdown(c))
  \/ ControlStep

Spec == Init /\ [][Next]_vars

\* Every thread is scheduled, task functions return, and the application
\* resumes a pool it paused; nobody has to submit, pause or shut down.
FairSpec ==
  /\ Spec /\ WF_vars(ControlStep)
  /\ \A w \in Workers : WF_vars(WorkerStep(w))
  /\ \A x \in Workers \cup Clients : WF_vars(SubmitStep(x))

-----------------------------------------------------------------------------
(* Properties.                                                             *)

\* Every field and local has a value of its C type; pending_tasks and the
\* wake-up counter never go below zero.
TypeOK ==
  /\ running \in BOOLEAN /\ mode \in {NONE, GRACEFUL, IMMEDIATE}
  /\ paused \in BOOLEAN /\ pending \in Nat /\ tokens \in Nat /\ rr \in Workers
  /\ ring \in Seq(Tasks) /\ ext \in [Workers -> Seq(Tasks)]
  /\ deque \in [Workers -> Seq(Tasks)]
  /\ prio \in [0 .. N -> [Levels -> Seq(Tasks)]]
  /\ wpc \in [Workers -> {"loop", "park", "local", "prio", "ext", "ring",
                          "steal", "steal_deque", "run", "done", "idle",
                          "read", "exit"}]
  /\ probe \in [Workers -> 0 .. N] /\ cur \in [Workers -> 0 .. MaxTasks]
  /\ st \in [Tasks -> {"new", "counted", "queued", "running", "done",
                       "refused"}]
  /\ mpc \in {"idle", "pause", "resume", "stop", "stop_wake", "join", "freed"}

\* What qd_threadpool_wait waits for.
WaitOver == pending = 0

\* When qd_threadpool_wait returns QD_OK, every task whose submission returned
\* before has been run, the tasks submitted by running tasks included.
WaitSeesDone == WaitOver => \A t \in accepted : st[t] = "done"

Gone(w) == wpc[w] = "exit"

\* A worker leaves a graceful shutdown only when every task counted before
\* the shutdown was called has been run, by whichever worker holds it, or was
\* refused by a full deque.
GracefulFinishes ==
  "immediate" \notin made /\ (\E w \in Workers : Gone(w))
    => \A t \in early : st[t] \in {"done", "refused"}

\* No wake-up is lost: when all workers sleep, no token is left and nobody is
\* in the middle of a call, nothing is in the queues that every worker serves,
\* the global ring and the global lists.
NoStranded ==
  /\ tokens = 0 /\ mode = NONE /\ ~paused /\ mpc = "idle"
  /\ \A w \in Workers : wpc[w] \in {"park", "read"}
  /\ \A c \in Clients : spc[c] = "idle"
  => ring = <<>> /\ Waiting(N) = {}

\* While the mode is QD_SHUTDOWN_IMMEDIATE a worker begins at most the one task
\* it was already looking for; the pending ones are cancelled.
ImmediateStops == \A w \in Workers : after[w] <= 1

\* Every task a submit function accepted is run before the last worker has
\* left a graceful shutdown.
AcceptedRun ==
  "immediate" \notin made /\ (\A w \in Workers : Gone(w))
    => \A t \in accepted : st[t] = "done"

\* Every accepted task is run in the end.
TasksRun == \A t \in Tasks : t \in accepted ~> st[t] = "done"

\* Once shutdown or destroy was called every worker leaves its loop, so that
\* the joins of destroy return.
ShutdownEnds == mode # NONE ~> \A w \in Workers : Gone(w)

\* What the pool owes its callers at any moment: a wait that is over has seen
\* every task done, a graceful shutdown leaves none behind, an immediate one
\* begins none.
PoolSafe == TypeOK /\ WaitSeesDone /\ GracefulFinishes /\ ImmediateStops
=============================================================================
