----------------------------- MODULE Workqueue ------------------------------
(***************************************************************************)
(* src/core/qd_workqueue.c on top of the channel: work items go through    *)
(* the thread pool to worker threads (the channel's Producers), which send *)
(* them back over the channel; the event-loop thread (the channel's        *)
(* Consumer) drains it when the eventfd is readable and calls on_complete. *)
(* The channel part is the detailed one of Channel, so a worker inside     *)
(* try_send and the loop inside try_recv_batch interleave step by step.    *)
(* The pool is a set of items from which any worker takes any item.        *)
(***************************************************************************)
EXTENDS Channel, FiniteSets

CONSTANTS
  Api    \* calls the application makes: a subset of
         \* {"submit", "batch", "delayed", "work", "cancellable", "destroy"}

VARIABLES
  place,     \* where each item is: unused, refused, timer, pool, worker,
             \* channel, lost (no one holds it any more), freed
  status,    \* item->status: CANCELLED, or OK for any other
  delayed,   \* items with delay_ms > 0
  handles,   \* items the application holds a qd_work_handle_t for
  called,    \* how often on_complete was called for an item
  pending, inflight, draining,  \* fields of struct qd_workqueue
  wpc, witem,                   \* workers: control and item
  lpc, results,                 \* loop thread: control, rest of the batch
  stale                         \* items whose handle was used after the free

itemVars  == <<place, status, delayed, handles, called, stale>>
countVars == <<pending, inflight, draining>>
loopVars  == <<lpc, results>>
workVars  == <<wpc, witem>>
wqVars == <<itemVars, countVars, loopVars, workVars>>

WQInit ==
  /\ Init
  /\ place = [i \in Items |-> "unused"]
  /\ status = [i \in Items |-> "OK"]
  /\ delayed = {} /\ handles = {} /\ stale = {}
  /\ called = [i \in Items |-> 0]
  /\ pending = 0 /\ inflight = 0 /\ draining = 0
  /\ wpc = [w \in Producers |-> "idle"]
  /\ witem = [w \in Producers |-> Nobody]
  /\ lpc = "poll" /\ results = <<>>

-----------------------------------------------------------------------------
(* Submission, on the loop thread between two events.  The pool may refuse *)
(* a task; the item is then freed and the counters go back.                *)

\* The items of S are allocated and counted; those of ok are accepted and go to
\* place p, the others are refused.
Accept(S, ok, p) ==
  /\ lpc = "poll" /\ ok \subseteq S
  /\ \A i \in S : place[i] = "unused"
  /\ pending' = pending + Cardinality(ok)
  /\ inflight' = inflight + Cardinality(ok)
  /\ place' = [i \in Items |-> IF i \in ok THEN p
                               ELSE IF i \in S THEN "refused" ELSE place[i]]
  /\ UNCHANGED <<vars, status, called, stale, draining, loopVars, workVars>>

Submit(i, ok) ==
  /\ "submit" \in Api
  /\ Accept({i}, ok, "pool") /\ UNCHANGED <<delayed, handles>>

SubmitBatch(S, ok) ==
  /\ "batch" \in Api /\ S # {}
  /\ Accept(S, ok, "pool") /\ UNCHANGED <<delayed, handles>>

\* The item first goes to a timeout of the aio loop.
SubmitDelayed(i, ok) ==
  /\ "delayed" \in Api
  /\ Accept({i}, ok, "timer")
  /\ delayed' = delayed \cup {i} /\ UNCHANGED handles

SubmitWork(i, ok, delay) ==
  /\ "work" \in Api
  /\ Accept({i}, ok, IF delay THEN "timer" ELSE "pool")
  /\ delayed' = IF delay THEN delayed \cup {i} ELSE delayed
  /\ UNCHANGED handles

SubmitCancellable(i, ok) ==
  /\ "cancellable" \in Api
  /\ Accept({i}, ok, "pool")
  /\ handles' = handles \cup ok /\ UNCHANGED delayed

\* handle_completion of QD_OP_TIMEOUT: the pool takes the item or refuses it.
TimerFires(i, taken) ==
  /\ lpc = "poll" /\ place[i] = "timer"
  /\ place' = [place EXCEPT ![i] = IF taken THEN "pool" ELSE "refused"]
  /\ pending' = IF taken THEN pending ELSE pending - 1
  /\ inflight' = IF taken THEN inflight ELSE inflight - 1
  /\ UNCHANGED <<vars, status, delayed, handles, called, stale, draining,
                 loopVars, workVars>>

\* cancel stores into the item, whatever has become of it; the application then
\* releases the handle.
Cancel(i) ==
  /\ lpc = "poll" /\ i \in handles
  /\ handles' = handles \ {i}
  /\ IF place[i] = "freed"
     THEN stale' = stale \cup {i} /\ UNCHANGED status
     ELSE status' = [status EXCEPT ![i] = "CANCELLED"] /\ UNCHANGED stale
  /\ UNCHANGED <<vars, place, delayed, called, countVars, loopVars, workVars>>

-----------------------------------------------------------------------------
(* Workers: work_item_execute, then work_item_complete.                    *)

\* work_item_free
Free(i) ==
  place' = [place EXCEPT ![i] = IF @ = "freed" THEN "freed twice" ELSE "freed"]

WorkerTake(w, i) ==
  /\ wpc[w] = "idle" /\ place[i] = "pool"
  /\ place' = [place EXCEPT ![i] = "worker"]
  /\ witem' = [witem EXCEPT ![w] = i]
  /\ wpc' = [wpc EXCEPT ![w] = "check"]
  /\ UNCHANGED <<vars, status, delayed, handles, called, stale, countVars,
                 loopVars>>

\* A cancelled item is skipped.
WorkerCheck(w) ==
  /\ wpc[w] = "check"
  /\ wpc' = [wpc EXCEPT ![w] = IF status[witem[w]] = "CANCELLED"
                               THEN "complete" ELSE "run"]
  /\ UNCHANGED <<vars, itemVars, countVars, loopVars, witem>>

\* The work function returns, with any status but CANCELLED (none but that one is
\* told apart); the store overwrites a cancel that came late.
WorkerRun(w) ==
  /\ wpc[w] = "run"
  /\ status' = [status EXCEPT ![witem[w]] = "OK"]
  /\ wpc' = [wpc EXCEPT ![w] = "complete"]
  /\ UNCHANGED <<vars, place, delayed, handles, called, stale, countVars,
                 loopVars, witem>>

\* Mutant: inflight is not given back while the queue drains.
WorkerCompleteKept(w) ==
  /\ wpc[w] = "complete"
  /\ IF draining = 1
     THEN wpc' = [wpc EXCEPT ![w] = "free"] /\ UNCHANGED vars
     ELSE /\ CallSend(w, witem[w], "try_send")
          /\ wpc' = [wpc EXCEPT ![w] = "sending"]
  /\ UNCHANGED <<itemVars, countVars, loopVars, witem>>

\* While the queue drains, the worker frees the item itself.
WorkerComplete(w) ==
  /\ wpc[w] = "complete"
  /\ IF draining = 1
     THEN /\ inflight' = inflight - 1
          /\ wpc' = [wpc EXCEPT ![w] = "free"]
          /\ UNCHANGED vars
     ELSE /\ CallSend(w, witem[w], "try_send")
          /\ wpc' = [wpc EXCEPT ![w] = "sending"]
          /\ UNCHANGED inflight
  /\ UNCHANGED <<itemVars, pending, draining, loopVars, witem>>

\* The steps of try_send; an accepted item belongs to the channel from the
\* successful compare-exchange on.
WorkerSend(w) ==
  /\ wpc[w] = "sending" /\ ProducerStep(w)
  /\ place' = IF tail' # tail /\ place[witem[w]] = "worker"
              THEN [place EXCEPT ![witem[w]] = "channel"] ELSE place
  /\ UNCHANGED <<status, delayed, handles, called, stale, countVars, loopVars,
                 workVars>>

\* try_send has returned; its result is ignored.
WorkerSent(w) ==
  /\ wpc[w] = "sending" /\ pc[w] = "idle"
  /\ inflight' = inflight - 1
  /\ place' = IF ret[w] = "OK" THEN place
              ELSE [place EXCEPT ![witem[w]] = "lost"]
  /\ wpc' = [wpc EXCEPT ![w] = "idle"]
  /\ UNCHANGED <<vars, status, delayed, handles, called, stale, pending,
                 draining, loopVars, witem>>

WorkerFree(w) ==
  /\ wpc[w] = "free"
  /\ Free(witem[w])
  /\ wpc' = [wpc EXCEPT ![w] = "idle"]
  /\ UNCHANGED <<vars, status, delayed, handles, called, stale, countVars,
                 loopVars, witem>>

WorkerStep(w) ==
  \/ WorkerCheck(w) \/ WorkerRun(w)
  \/ WorkerComplete(w) \/ WorkerSend(w) \/ WorkerSent(w) \/ WorkerFree(w)

-----------------------------------------------------------------------------
(* The loop thread: drain_channel_completions and qd_workqueue_destroy.    *)
(* destroy runs on it too, so draining tells the two drains apart.         *)

\* The watched eventfd is readable: QD_OP_CHANNEL, handle_completion, process.
ChannelEvent ==
  /\ lpc = "poll" /\ eventfd = 1
  /\ lpc' = "batch"
  /\ UNCHANGED <<vars, itemVars, countVars, workVars, results>>

DrainBatch ==
  /\ lpc = "batch"
  /\ CallRecv("try_recv_batch", MaxItems)
  /\ lpc' = "recv"
  /\ UNCHANGED <<itemVars, countVars, workVars, results>>

DrainRecv ==
  /\ lpc = "recv" /\ RecvStep
  /\ UNCHANGED <<itemVars, countVars, workVars, loopVars>>

\* The batch call has returned: no items, ack; else handle them.
DrainGot ==
  /\ lpc = "recv" /\ cpc = "idle"
  /\ IF got = <<>>
     THEN eventfd' = 0 /\ lpc' = "size" /\ UNCHANGED results
     ELSE results' = got /\ lpc' = "handle" /\ UNCHANGED eventfd
  /\ UNCHANGED <<ring, syncVars, prodVars, consVars, itemVars, countVars,
                 workVars>>

\* One item: a delayed one is skipped, a cancelled one is freed in silence.
DrainHandle ==
  /\ lpc = "handle" /\ results # <<>>
  /\ LET i == Head(results)
     IN IF i \in delayed
        THEN /\ place' = [place EXCEPT ![i] = "lost"]
             /\ UNCHANGED <<called, pending>>
        ELSE /\ called' = IF status[i] = "CANCELLED" THEN called
                          ELSE [called EXCEPT ![i] = @ + 1]
             /\ Free(i) /\ pending' = pending - 1
  /\ results' = Tail(results) /\ UNCHANGED lpc
  /\ UNCHANGED <<vars, status, delayed, handles, stale, inflight, draining,
                 workVars>>

DrainHandled ==
  /\ lpc = "handle" /\ results = <<>>
  /\ lpc' = "batch"
  /\ UNCHANGED <<vars, itemVars, countVars, workVars, results>>

\* qd_channel_size after the ack: leave the loop only when nothing is there.
DrainSize ==
  /\ lpc = "size"
  /\ lpc' = IF tail # head THEN "batch" ELSE IF draining = 1 THEN "freed" ELSE "poll"
  /\ UNCHANGED <<vars, itemVars, countVars, workVars, results>>

\* destroy: unwatch, raise draining, wait until inflight is 0, drain, free.
Destroy ==
  /\ "destroy" \in Api /\ lpc = "poll"
  /\ draining' = 1 /\ lpc' = "wait"
  /\ UNCHANGED <<vars, itemVars, pending, inflight, workVars, results>>

\* Mutant: the wait stops one task early.
DestroyWaitedShort ==
  /\ lpc = "wait" /\ inflight <= 1
  /\ lpc' = "batch"
  /\ UNCHANGED <<vars, itemVars, countVars, workVars, results>>

DestroyWaited ==
  /\ lpc = "wait" /\ inflight <= 0
  /\ lpc' = "batch"
  /\ UNCHANGED <<vars, itemVars, countVars, workVars, results>>

LoopStep ==
  \/ ChannelEvent \/ DrainBatch \/ DrainRecv \/ DrainGot \/ DrainHandle
  \/ DrainHandled \/ DrainSize \/ DestroyWaited

-----------------------------------------------------------------------------
WQStep ==
  \/ \E i \in Items : \E ok \in {{}, {i}} :
       \/ Submit(i, ok) \/ SubmitDelayed(i, ok) \/ SubmitCancellable(i, ok)
       \/ \E delay \in BOOLEAN : SubmitWork(i, ok, delay)
  \/ \E S \in SUBSET Items : \E ok \in SUBSET S : SubmitBatch(S, ok)
  \/ \E i \in Items, taken \in BOOLEAN : TimerFires(i, taken)
  \/ \E i \in Items : Cancel(i)
  \/ \E w \in Producers : \/ \E i \in Items : WorkerTake(w, i)
                          \/ WorkerStep(w)
  \/ LoopStep \/ Destroy

WQNext == WQStep /\ UNCHANGED flags

WQSpec == WQInit /\ [][WQNext]_<<vars, wqVars>>

\* Workers and the loop thread keep running, every item of the pool is taken in
\* the end, and a compare-exchange that can succeed again and again once does.
WQFairness ==
  /\ \A w \in Producers :
       /\ WF_<<vars, wqVars>>(WorkerStep(w) /\ UNCHANGED flags)
       /\ WF_<<vars, wqVars>>(\E i \in Items :
                               WorkerTake(w, i) /\ UNCHANGED flags)
       /\ SF_<<vars, wqVars>>(WorkerSend(w) /\ tail' # tail
                             /\ UNCHANGED flags)
  /\ WF_<<vars, wqVars>>(LoopStep /\ UNCHANGED flags)

WQFairSpec == WQSpec /\ WQFairness

-----------------------------------------------------------------------------
(* Properties.                                                             *)

\* Every field of the work queue and of its items holds a value of its type; in
\* particular neither counter goes below zero.
WQTypeOK ==
  /\ place \in [Items -> {"unused", "refused", "timer", "pool", "worker",
                          "channel", "lost", "freed", "freed twice"}]
  /\ status \in [Items -> {"OK", "CANCELLED"}]
  /\ delayed \subseteq Items /\ handles \subseteq Items /\ stale \subseteq Items
  /\ called \in [Items -> Nat]
  /\ pending \in Nat /\ inflight \in Nat /\ draining \in {0, 1}

\* A worker that may still touch the queue or its channel.
InComplete(w) == wpc[w] \in {"check", "run", "complete", "sending"}

\* destroy frees the queue and its channel only when no worker will touch them
\* again and no task that would is left in the pool.
NoUseAfterDestroy ==
  lpc = "freed" => /\ \A w \in Producers : ~InComplete(w)
                   /\ \A i \in Items : place[i] \notin {"pool", "timer"}

\* on_complete is called at most once for an item, and the item is freed at most
\* once, whether the loop thread handles it or a worker frees it while draining.
CompletedOnce ==
  \A i \in Items : called[i] <= 1 /\ place[i] # "freed twice"

\* pending counts what was accepted and is not yet handled.
PendingCounts ==
  draining = 0 =>
    pending = Cardinality({i \in Items : place[i] \in
                             {"timer", "pool", "worker", "channel", "lost"}})

\* destroy returns, whatever the workers are doing when it is called, unless a
\* delayed item waits for its timeout, which only the waiting thread delivers.
DestroyReturns ==
  lpc = "wait" /\ (\A i \in Items : place[i] # "timer") ~> lpc = "freed"

\* Everything is at rest: the loop polls, no event is due, workers are idle.
AtRest ==
  /\ lpc = "poll" /\ eventfd = 0
  /\ \A w \in Producers : wpc[w] = "idle"
  /\ \A i \in Items : place[i] \notin {"pool", "timer"}

\* The loop is never at rest while an item waits in the channel ("keeps firing
\* while channel has items").
NoLostWakeup == AtRest => tail = head

\* on_complete is called exactly once for every accepted item, once all is at
\* rest and the channel is empty.
AlwaysCalled ==
  AtRest /\ tail = head =>
    \A i \in Items : place[i] \in {"unused", "refused"} \/ called[i] = 1

\* cancel of an item that is already completed touches nothing.
CancelAfterIsNoop == stale = {}

\* Every item is accounted for, from its submission to its one completion or
\* to the end of qd_workqueue_destroy, which no worker outlives in the queue.
ItemsAccounted == WQTypeOK /\ NoUseAfterDestroy /\ PendingCounts /\ CompletedOnce
=============================================================================
