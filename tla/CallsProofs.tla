----------------------------- MODULE CallsProofs -----------------------------
(***************************************************************************)
(* Proofs about the calls of MCCalls: no sender of the channel comes to    *)
(* lock the mutex it holds, and no future is used after it was freed, for  *)
(* any threads, capacity, flags and calls.                                 *)
(***************************************************************************)
EXTENDS MCCalls, ChannelProofs

-----------------------------------------------------------------------------
(* The mutex of the channel.                                               *)

\* Inside the locked branch of try_send; the first label is before its lock.
Locked == {"ovf_tail", "ovf_head", "ovf_clear", "ovf_drop", "ovf_write",
           "ovf_commit", "ovf_publish", "ovf_unlock"}

\* A sender is in the locked branch of try_send only under QD_CHAN_OVERFLOW;
\* then no sender is in the slow path of send, and the one that owns the mutex
\* is past the lock of that branch.
SenderInv(p) ==
  /\ pc[p] \in Locked \cup {"ovf_lock"} => Overflow
  /\ Overflow => /\ mode[p] # "send_locked" /\ pc[p] \notin {"lock", "wait", "asleep"}
                 /\ lock = p => pc[p] \in Locked

SendersInv == \A p \in Producers : SenderInv(p)

LEMMA SendersInit == Init => SendersInv
BY ChannelAssumption DEF Init, SendersInv, SenderInv, Locked

\* What try_send returns leads into the slow path of send only when it is BUSY,
\* which it never is under QD_CHAN_OVERFLOW.
LEMMA ReturnKeepsSender ==
  ASSUME TypeOK, SendersInv, flags' = flags, NEW p \in Producers, NEW r,
         pc[p] \notin Locked, Overflow => r # "BUSY", Return(p, r)
  PROVE  SendersInv'
<1> USE DEF TypeOK, SendersInv, SenderInv, Overflow, Return, Goto
<1>1. SUFFICES ASSUME NEW q \in Producers
               PROVE  SenderInv(q)'
  BY Zenon
<1>2. CASE q = p
  BY <1>2, ChannelAssumption DEF Locked
<1>3. CASE q # p
  <2>1. pc'[q] = pc[q] /\ mode'[q] = mode[q]
    BY <1>3
  <2>2. lock' = q => lock = q
    BY ChannelAssumption
  <2> QED
    BY Zenon, <2>1, <2>2
<1> QED
  BY Zenon, <1>2, <1>3

LEMMA ProducerKeepsSenders ==
  ASSUME TypeOK, SendersInv, flags' = flags, NEW p \in Producers, ProducerStep(p)
  PROVE  SendersInv'
<1> USE DEF TypeOK, SendersInv, SenderInv, Overflow, Goto, syncVars, callVars
<1>1. ASSUME pc[p] \notin Locked, mode' = mode, lock' = lock,
             NEW l, l \notin Locked \cup {"ovf_lock", "lock", "wait", "asleep"}, Goto(p, l)
      PROVE  SendersInv'
  BY <1>1
<1>2. ASSUME pc[p] \in Locked, mode' = mode, lock' = lock,
             NEW l, l \in Locked, Goto(p, l)
      PROVE  SendersInv'
  BY Zenon, <1>2 DEF Locked
<1>3. CASE TrySendClosed(p)
  <2>1. CASE closed = 1
    BY <1>3, <2>1, ReturnKeepsSender DEF TrySendClosed, Locked
  <2>2. CASE closed # 1
    BY <1>1, <1>3, <2>2 DEF TrySendClosed, Locked
  <2> QED
    BY Zenon, <2>1, <2>2
<1>4. CASE TrySendLoadTail(p)
  BY <1>1, <1>4 DEF TrySendLoadTail, Locked
<1>5. CASE TrySendLoadHead(p)
  <2>1. CASE Full(ptail[p], head) /\ ~Overflow
    <3>1. Return(p, "BUSY")
      BY <1>5, <2>1 DEF TrySendLoadHead
    <3> QED
      BY <1>5, <2>1, <3>1, ReturnKeepsSender DEF TrySendLoadHead, Locked
  <2>2. CASE ~Full(ptail[p], head)
    BY <1>1, <1>5, <2>2 DEF TrySendLoadHead, Locked
  <2>3. CASE Full(ptail[p], head) /\ Overflow
    <3>1. Goto(p, "ovf_lock") /\ mode' = mode /\ lock' = lock /\ pc[p] = "load_head"
      BY <1>5, <2>3 DEF TrySendLoadHead
    <3> QED
      BY <2>3, <3>1 DEF Locked
  <2> QED
    BY <2>1, <2>2, <2>3
<1>6. CASE TrySendCas(p)
  BY <1>1, <1>6 DEF TrySendCas, Locked
<1>7. CASE TrySendWrite(p) \/ TrySendCommit(p)
  BY <1>1, <1>7 DEF TrySendWrite, TrySendCommit, Locked
<1>8. CASE TrySendSignal(p)
  BY Zenon, <1>8, ReturnKeepsSender DEF TrySendSignal, Locked
<1>9. CASE OvfLock(p)
  BY <1>9, ChannelAssumption DEF OvfLock, Locked, condVars
<1>10. CASE OvfLoadTail(p) \/ OvfLoadHead(p)
  BY Zenon, <1>2, <1>10 DEF OvfLoadTail, OvfLoadHead, Locked
<1>11. CASE OvfClear(p) \/ OvfDrop(p)
  BY <1>2, <1>11 DEF OvfClear, OvfDrop, Locked
<1>12. CASE OvfWrite(p) \/ OvfCommit(p) \/ OvfPublish(p)
  BY <1>2, <1>12 DEF OvfWrite, OvfCommit, OvfPublish, Locked
<1>13. CASE OvfUnlock(p)
  BY <1>13, ChannelAssumption DEF OvfUnlock, Locked
<1>14. CASE SendLock(p) \/ SendWait(p)
  BY <1>14, ChannelAssumption DEF SendLock, SendWait, Locked
<1> QED
  BY Zenon, <1>3, <1>4, <1>5, <1>6, <1>7, <1>8, <1>9, <1>10, <1>11, <1>12, <1>13, <1>14
     DEF ProducerStep

\* The consumer and the closing thread take nothing from a sender but the mutex.
LEMMA OthersKeepSenders ==
  ASSUME TypeOK, SendersInv, flags' = flags, pc' = pc, mode' = mode,
         lock' \in {lock, Consumer, Nobody}
  PROVE  SendersInv'
BY ChannelAssumption DEF SendersInv, SenderInv, Overflow

LEMMA NextKeepsSenders == TypeOK /\ SendersInv /\ [Next]_vars => SendersInv'
<1> SUFFICES ASSUME TypeOK, SendersInv, [Next]_vars
             PROVE  SendersInv'
  BY Zenon
<1>1. CASE UNCHANGED vars
  BY Zenon, <1>1, OthersKeepSenders DEF vars, prodVars, callVars, syncVars
<1>2. ASSUME Next
      PROVE  SendersInv'
  <2>1. flags' = flags /\ Step
    BY Zenon, <1>2 DEF Next
  <2>2. ASSUME NEW p \in Producers, NEW v \in unsent, NEW m \in Sends \cap Calls,
               CallSend(p, v, m)
        PROVE  SendersInv'
    BY <2>1, <2>2 DEF CallSend, Goto, TypeOK, SendersInv, SenderInv, Overflow, Sends,
                      Locked, syncVars
  <2>3. ASSUME NEW p \in Producers, ProducerStep(p)
        PROVE  SendersInv'
    BY Zenon, <2>1, <2>3, ProducerKeepsSenders
  <2>4. ASSUME NEW m \in Recvs \cap Calls, NEW n \in 1 .. MaxItems, CallRecv(m, n)
        PROVE  SendersInv'
    BY Zenon, <2>1, <2>4, OthersKeepSenders DEF CallRecv, syncVars, prodVars, callVars
  <2>5. CASE RecvStep
    <3>1. pc' = pc /\ mode' = mode
      BY Zenon, <2>5 DEF RecvStep, RecvClosed, RecvLoadHead, RecvLoadTail, RecvCopy,
           RecvGiveUp, RecvClear, RecvAdvance, RecvLock, RecvWait, prodVars, callVars
    <3>2. lock' \in {lock, Consumer, Nobody}
      BY Zenon, <2>5 DEF RecvStep, RecvClosed, RecvLoadHead, RecvLoadTail, RecvCopy,
           RecvGiveUp, RecvClear, RecvAdvance, RecvLock, RecvWait, RecvNothing, syncVars
    <3> QED
      BY Zenon, <2>1, <3>1, <3>2, OthersKeepSenders
  <2>6. CASE Ack \/ CloseFlag \/ CloseBroadcast
    BY Zenon, <2>1, <2>6, OthersKeepSenders DEF Ack, CloseFlag, CloseBroadcast, syncVars,
         prodVars, callVars
  <2> QED
    BY Zenon, <2>1, <2>2, <2>3, <2>4, <2>5, <2>6 DEF Step
<1> QED
  BY Zenon, <1>1, <1>2

-----------------------------------------------------------------------------
(* The references of a future.                                             *)

\* Only a refused submit frees the future: the task keeps its reference, the
\* application gives its own back once.  Nobody is in a call before the future
\* is there or after it was released.
FutureInv ==
  /\ freed <=> wpc = "refused"
  /\ wpc = "none" => refs = 0 /\ ~released
  /\ wpc = "refused" => released
  /\ wpc \notin {"none", "refused"} => refs = IF released THEN 1 ELSE 2
  /\ released \/ wpc = "none" => \A t \in Waiters : fpc[t] = "idle"

LEMMA FutureInit == FUInit => FUTypeOK /\ FutureInv
<1> SUFFICES ASSUME FUInit PROVE FUTypeOK /\ FutureInv
  BY Zenon
<1>1. /\ fpc \in [Waiters -> {"idle", "lock", "tlock", "tested", "ttested",
                            "sleep", "timed", "cancel"}]
      /\ res \in [Waiters -> {"none", "OK", "BUSY", "TIMEOUT"}]
      /\ \A t \in Waiters : fpc[t] = "idle"
  BY Zenon DEF FUInit
<1>2. FUTypeOK
  <2>1. state \in PENDING .. CANCELLED /\ refs \in 0 .. 2
    BY DEF FUInit, PENDING, CANCELLED
  <2> QED
    BY Zenon, <1>1, <2>1 DEF FUInit, FUTypeOK
<1> QED
  BY Zenon, <1>1, <1>2 DEF FUInit, FutureInv

LEMMA FutureKeeps == FUTypeOK /\ FutureInv /\ [FUNext]_fuVars => (FUTypeOK /\ FutureInv)'
<1> SUFFICES ASSUME FUTypeOK, FutureInv, [FUNext]_fuVars
             PROVE  (FUTypeOK /\ FutureInv)'
  BY Zenon
<1> USE DEF FUTypeOK, FutureInv, PENDING, RUNNING, COMPLETED, CANCELLED
<1>1. CASE UNCHANGED fuVars
  BY Zenon, <1>1 DEF fuVars
<1>2. CASE SubmitFuture
  <2>1. CASE refs' = 2 /\ wpc' = "queued" /\ UNCHANGED <<freed, released>>
    BY <1>2, <2>1 DEF SubmitFuture
  <2>2. CASE refs' = 0 /\ freed' = TRUE /\ wpc' = "refused" /\ released' = TRUE
    BY Zenon, <1>2, <2>2 DEF SubmitFuture
  <2> QED
    BY Zenon, <1>2, <2>1, <2>2 DEF SubmitFuture
<1>3. CASE WorkerStart \/ WorkerFunc
  BY <1>3 DEF WorkerStart, WorkerFunc
<1>4. CASE WorkerComplete
  <2>1. \A t \in Waiters : fpc[t] = "idle" => fpc'[t] = "idle"
    BY Zenon, <1>4 DEF WorkerComplete, Broadcast
  <2>2. fpc' \in [Waiters -> {"idle", "lock", "tlock", "tested", "ttested",
                              "sleep", "timed", "cancel"}]
    BY Zenon, <1>4 DEF WorkerComplete, Broadcast
  <2> QED
    BY <1>4, <2>1, <2>2 DEF WorkerComplete
<1>5. CASE FutureRelease
  <2>1. refs = 2 /\ wpc # "refused" /\ ~freed
    BY Zenon, <1>5 DEF FutureRelease
  <2>2. refs' = 1 /\ freed' = FALSE /\ released' = TRUE /\ UNCHANGED wpc
    BY <1>5, <2>1 DEF FutureRelease
  <2> QED
    BY <1>5, <2>1, <2>2 DEF FutureRelease
<1>6. ASSUME NEW t \in Waiters, WaitCall(t) \/ CancelCas(t)
      PROVE  (FUTypeOK /\ FutureInv)'
  BY <1>6 DEF WaitCall, CancelCas, Usable, FutGoto, FutReturn
<1>7. ASSUME NEW t \in Waiters, WaitTest(t) \/ WaitSleep(t) \/ WaitTimeout(t)
      PROVE  (FUTypeOK /\ FutureInv)'
  <2>1. ~released /\ wpc # "none"
    BY Zenon, <1>7 DEF WaitTest, WaitSleep, WaitTimeout
  <2>2. UNCHANGED <<state, refs, freed, wpc, cancelled, released>>
    BY Zenon, <1>7 DEF WaitTest, WaitSleep, WaitTimeout
  <2>3. flock' \in BOOLEAN
    BY Zenon, <1>7 DEF WaitTest, WaitSleep, WaitTimeout
  <2>4. /\ fpc' \in [Waiters -> {"idle", "lock", "tlock", "tested", "ttested",
                               "sleep", "timed", "cancel"}]
        /\ res' \in [Waiters -> {"none", "OK", "BUSY", "TIMEOUT"}]
    <3>1. CASE WaitTest(t)
      BY <3>1 DEF WaitTest, FutGoto, FutReturn
    <3>2. CASE WaitSleep(t) \/ WaitTimeout(t)
      BY Zenon, <3>2 DEF WaitSleep, WaitTimeout, FutGoto, FutReturn
    <3> QED
      BY Zenon, <1>7, <3>1, <3>2
  <2> QED
    BY Zenon, <2>1, <2>2, <2>3, <2>4
<1>8. ASSUME NEW t \in Waiters, CancelBroadcast(t)
      PROVE  (FUTypeOK /\ FutureInv)'
  BY Zenon, <1>8 DEF CancelBroadcast
<1> QED
  BY <1>1, <1>2, <1>3, <1>4, <1>5, <1>6, <1>7, <1>8 DEF FUNext, WorkerStep, CallStep

-----------------------------------------------------------------------------
CallsInv == TypeOK /\ SendersInv /\ FUTypeOK /\ FutureInv

\* Whatever calls overlap, every field keeps its type, a sender of the channel
\* in overflow mode is not the owner of the mutex it is about to lock, and a
\* freed future is in nobody's hands.
THEOREM CallsCorrect == CLSpec => []CallsSafe
<1>1. CLInit => CallsInv
  BY Zenon, InitTypeOK, SendersInit, FutureInit DEF CLInit, CallsInv
<1>2. CallsInv /\ [CLNext]_callsVars => CallsInv'
  <2> SUFFICES ASSUME CallsInv, [CLNext]_callsVars
               PROVE  CallsInv'
    BY Zenon
  <2>1. [Next]_vars /\ [FUNext]_fuVars
    BY Zenon DEF CLNext, Chan, Fut, callsVars
  <2> QED
    BY Zenon, <2>1, NextTypeOK, NextKeepsSenders, FutureKeeps DEF CallsInv
<1>3. CallsInv => CallsSafe
  BY Zenon, ChannelAssumption DEF CallsInv, CallsSafe, SendersInv, SenderInv, NoSelfDeadlock,
       FutureInv, NoUseAfterFree, Locked, FUTypeOK
<1> QED
  BY <1>1, <1>2, <1>3, PTL DEF CLSpec
=============================================================================
