------------------------------- MODULE MCLoop -------------------------------
(***************************************************************************)
(* The event loop, the epoll backend, the life cycle of a daemon, or the   *)
(* task ring of the pool under its pushers and poppers: `part` is chosen   *)
(* at the start and never changes.                                         *)
(***************************************************************************)
EXTENDS EventLoop, AioEpoll, Daemon, MpmcRing

VARIABLE part
loopVars == <<part, elVars, epVars, dmVars, mrVars>>

ReadSets  == {{"READ"}, {"READ", "ONESHOT"}}
MCClients ==
  [api : {{"file", "async"}, {"defer", "signal"}}, rule : {"own"}]
    \cup [api : {{"file"}, {"defer", "async"}, {"defer", "signal"}}, rule : {"any"}]

LoopInit == /\ part \in {"loop", "epoll", "daemon", "ring"}
            /\ EPInit /\ ELInit /\ DMInit /\ MRInit
            /\ part = "loop" \/ client = CHOOSE c \in Clients : TRUE

Loop(A)  == part = "loop" /\ A /\ UNCHANGED <<part, epVars, dmVars, mrVars>>
Epoll(A) == part = "epoll" /\ A /\ UNCHANGED <<part, elVars, dmVars, mrVars>>
Life(A)  == part = "daemon" /\ A /\ UNCHANGED <<part, elVars, epVars, mrVars>>
Ring(A)  == part = "ring" /\ A /\ UNCHANGED <<part, elVars, epVars, dmVars>>

LoopNext == Loop(ELNext) \/ Epoll(EPNext) \/ Life(DMNext) \/ Ring(MRNext)

\* The loop thread, the thread in qd_aio_run and the threads of a daemon keep
\* running.  In the ring threads inside a call do, poppers keep coming back (the
\* workers poll the ring), and a compare-exchange that can succeed again and
\* again once does.  Since part never changes, a condition may cover the thread
\* of a loop and a thread of the ring.
Runs(q) == \/ Loop(LoopStep) \/ Epoll(EPNext /\ EPLoop) \/ Ring(PushStep(q))
Comes(r) == Ring(PopCall(r) \/ PopStep(r))

LoopSpec == /\ LoopInit /\ [][LoopNext]_loopVars
            /\ \A q \in Pushers : /\ WF_loopVars(Runs(q))
                                  /\ SF_loopVars(Ring(PushCas(q) /\ mtail' # mtail))
            /\ \A r \in Poppers : /\ WF_loopVars(Comes(r))
                                  /\ SF_loopVars(Ring(PopCas(r) /\ mhead' # mhead))
            /\ \A p \in Procs : /\ WF_loopVars(Life(DMStart(p)))
                                /\ WF_loopVars(Life(DMLoop(p)))
                                /\ \A t \in {"main", "app"} : WF_loopVars(Life(DMThread(p, t)))

\* The types of the loop, of the backend and of the ring.
LoopTypeOK == ELTypeOK /\ EPTypeOK /\ MRTypeOK

\* The loop and the backend keep their types, and the loop uses no source,
\* handler or loop that a callback of its own has freed.
LoopSafe == LoopTypeOK /\ NoFreedUse

\* What is handed to a running loop happens: deferred functions run,
\* notifications arrive, and a stop ends qd_event_loop_run and qd_aio_run.
LoopProgress == DeferredRuns /\ AsyncDelivered /\ StopReturns /\ AioStopReturns

\* qd_daemon_shutdown tears the daemon down once, and to the end.
DaemonStops == []TeardownOnce /\ ShutdownEnds

\* The ring gives every pushed task to one popper, from the cell that was its
\* own, and leaves none behind.
TasksPopped ==
  [](QueueBounded /\ CellExclusive /\ PopReturnsPushed) /\ AllPopped
=============================================================================
