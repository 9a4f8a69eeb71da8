------------------------------- MODULE MCCalls ------------------------------
(***************************************************************************)
(* Calls that must return: the blocking calls of the channel or the calls  *)
(* on a future.  `part` is chosen at the start and never changes.          *)
(***************************************************************************)
EXTENDS Channel, Future

VARIABLE part
callsVars == <<part, vars, fuVars>>

\* qd_channel_create is given one of the flags only where the channel is used.
CLInit == /\ part \in {"channel", "future"} /\ Init /\ FUInit
          /\ part = "channel" \/ flags = {}

Chan(A) == part = "channel" /\ A /\ UNCHANGED <<part, fuVars>>
Fut(A)  == part = "future" /\ A /\ UNCHANGED <<part, vars>>

CLNext == Chan(Next) \/ Fut(FUNext)

\* The threads that wait for the future bear the names of the senders, so that
\* one fairness condition does for a thread in either part.
MCWaiters == Producers

\* A thread inside a call is scheduled; so are the consumer in a receive and
\* the worker that runs the task of the future, whose function returns.
Runs(t) == Chan(ProducerStep(t) /\ UNCHANGED flags) \/ Fut(WaitSleep(t))
Serves  == Chan(RecvStep /\ UNCHANGED flags) \/ Fut(WorkerStart \/ WorkerFunc)

\* A compare-exchange that can succeed again and again once does, and the
\* future's mutex is fair to the threads that want it.
Wins(t) == \/ Chan(TrySendCas(t) /\ tail' # tail /\ UNCHANGED flags)
           \/ Fut(WaitTest(t) \/ CancelBroadcast(t))

CLSpec ==
  /\ CLInit /\ [][CLNext]_callsVars
  /\ \A t \in Producers : WF_callsVars(Runs(t)) /\ SF_callsVars(Wins(t))
  /\ WF_callsVars(Serves)
  /\ WF_callsVars(Chan(CloseBroadcast /\ UNCHANGED flags))
  /\ SF_callsVars(Fut(WorkerComplete))

\* Whatever calls overlap, no field loses its type, no sender of the channel
\* comes to lock the mutex it holds, and no future is used after it was freed.
CallsSafe == TypeOK /\ FUTypeOK /\ NoSelfDeadlock /\ NoUseAfterFree

\* The calls return: qd_channel_try_recv from its spin, a blocked send or
\* receive once the channel is closed, qd_future_wait.
CallsReturn == SpinEnds /\ CloseReleases /\ WaitReturns
=============================================================================
