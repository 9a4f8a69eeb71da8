------------------------------ MODULE EventLoop -----------------------------
(***************************************************************************)
(* src/core/qd_event.c: the epoll event loop.  One thread runs the loop;   *)
(* the calls of the API come from any thread, or from a callback that the  *)
(* loop thread is running, so they may happen between any two steps of the *)
(* loop.  Timers are modelled in TimerWheel: here the wheel is empty.      *)
(* Sources are user file descriptors, async notifiers (an eventfd each),   *)
(* and the loop's own wakeup eventfd and signalfd.                         *)
(***************************************************************************)
EXTENDS Integers, Sequences, FiniteSets, SequencesExt

CONSTANTS
  Files,      \* user file descriptors, one source each
  Asyncs,     \* qd_async_t notifiers, one source each
  Works,      \* functions given to qd_event_defer
  Handlers,   \* handlers given to qd_event_add_signal, for one signal
  EventSets,  \* event sets the application registers
  Clients     \* applications: [api, rule] with the calls they make, a subset of
              \* {"file", "async", "defer", "signal"}, and how they delete

VARIABLES
  lstate, lpc,   \* loop->state and the control of the loop thread
  events,        \* the rest of the epoll_wait result: <<source, flags>>
  todo, pending, \* the list process_pending_work took, and loop->pending
  ran,           \* history: works that have run
  list,          \* loop->sources, newest first
  src,           \* per source: enabled and the events of struct qd_event_source
  kernel,        \* per source: the epoll interest (None when not registered)
  ready,         \* per source: the flags the kernel would report
  wake, sigs,    \* counter of the wakeup eventfd, signals queued
  handlers, hcur,\* loop->signal_handlers and the one whose callback runs
  freed, uaf,    \* freed objects; history: one of them was used
  client         \* one of Clients

elVars == <<lstate, lpc, events, todo, pending, ran, list, src, kernel, ready,
            wake, sigs, handlers, hcur, freed, uaf, client>>

Sources  == Files \cup Asyncs
Internal == {"wakeup", "signal"}

\* The interest of a descriptor that is not registered: it reports nothing.
None == [mask |-> {}, fired |-> TRUE]

\* to_epoll_events and from_epoll_events; EPOLLET and EPOLLONESHOT are never
\* reported back
EpollName == [READ |-> "IN", WRITE |-> "OUT", ERROR |-> "ERR", HANGUP |-> "HUP",
              RDHUP |-> "RDHUP", EDGE |-> "ET", ONESHOT |-> "ONESHOT"]

ToEpoll(evs) == {EpollName[e] : e \in evs}

FromEpoll(flags) == {e \in DOMAIN EpollName \ {"EDGE", "ONESHOT"} :
                       EpollName[e] \in flags}

\* What the kernel reports of a source: the interest, and errors always, unless
\* a one-shot source has been reported.
Report(s) == IF kernel[s].fired THEN {}
             ELSE ready[s] \cap (kernel[s].mask \cup {"ERR", "HUP"})

Interest(evs) == [mask |-> ToEpoll(evs), fired |-> FALSE]

\* Rule "own": a source is deleted only by its own callback or while no event of
\* the loop is outstanding, a handler never by a callback, the loop is
\* destroyed only when it does not run.  Rule "any": no restriction.
Allowed(p) == client.rule = "any" \/ p

-----------------------------------------------------------------------------
(* qd_event_loop_create_ex: the wakeup and signal descriptors are sources   *)
(* that are never deleted; they are represented by wake and sigs.           *)

ELInit ==
  /\ client \in Clients
  /\ lstate = "STOPPED" /\ lpc = "out"
  /\ events = <<>> /\ todo = <<>> /\ pending = <<>> /\ ran = {}
  /\ list = <<>>
  /\ src = [s \in Sources |-> [enabled |-> FALSE, events |-> {}]]
  /\ kernel = [s \in Sources |-> None]
  /\ ready = [s \in Sources |-> {}]
  /\ wake = 0 /\ sigs = 0 /\ handlers = <<>> /\ hcur = "none"
  /\ freed = {} /\ uaf = FALSE

kernelVars == <<kernel, ready, wake, sigs>>
runVars    == <<lstate, lpc, events, todo, ran, hcur, client>>

Live == "loop" \notin freed

-----------------------------------------------------------------------------
(* Sources *)

\* qd_event_add: epoll_ctl and the list under the lock.  The descriptor may
\* report events from here on.
EventAdd(s, evs) ==
  /\ Live /\ s \notin Range(list) /\ s \notin freed
  /\ src' = [src EXCEPT ![s] = [enabled |-> TRUE, events |-> evs]]
  /\ kernel' = [kernel EXCEPT ![s] = Interest(evs)]
  /\ list' = <<s>> \o list
  /\ UNCHANGED <<runVars, pending, ready, wake, sigs, handlers, freed, uaf>>

EventMod(s, evs) ==
  /\ Live /\ s \in Range(list)
  /\ src' = [src EXCEPT ![s].events = evs]
  /\ kernel' = [kernel EXCEPT ![s] = Interest(evs)]
  /\ UNCHANGED <<runVars, pending, list, ready, wake, sigs, handlers, freed, uaf>>

EventEnable(s) ==
  /\ Live /\ s \in Range(list) /\ ~src[s].enabled
  /\ src' = [src EXCEPT ![s].enabled = TRUE]
  /\ kernel' = [kernel EXCEPT ![s] = Interest(src[s].events)]
  /\ UNCHANGED <<runVars, pending, list, ready, wake, sigs, handlers, freed, uaf>>

\* An empty interest; errors and hangups are still reported.
EventDisable(s) ==
  /\ Live /\ s \in Range(list) /\ src[s].enabled
  /\ src' = [src EXCEPT ![s].enabled = FALSE]
  /\ kernel' = [kernel EXCEPT ![s] = Interest({})]
  /\ UNCHANGED <<runVars, pending, list, ready, wake, sigs, handlers, freed, uaf>>

\* Defect: the descriptor stays in epoll.
EventDelRegistered(s) ==
  /\ Live /\ s \in Range(list)
  /\ Allowed(~\E i \in DOMAIN events : events[i][1] = s)
  /\ list' = SelectSeq(list, LAMBDA x : x # s)
  /\ freed' = freed \cup {s}
  /\ UNCHANGED <<runVars, pending, src, kernelVars, handlers, uaf>>

\* qd_event_del and del_fd: out of epoll and of the list, and freed.  For an
\* async notifier this is qd_async_destroy.
EventDel(s) ==
  /\ Live /\ s \in Range(list)
  /\ Allowed(~\E i \in DOMAIN events : events[i][1] = s)
  /\ kernel' = [kernel EXCEPT ![s] = None]
  /\ ready' = [ready EXCEPT ![s] = {}]
  /\ list' = SelectSeq(list, LAMBDA x : x # s)
  /\ freed' = freed \cup {s}
  /\ UNCHANGED <<runVars, pending, src, wake, sigs, handlers, uaf>>

\* The environment makes a user descriptor readable, or its peer hangs up.
Environment(s, flag) ==
  /\ s \in Files /\ s \in Range(list) /\ flag \notin ready[s]
  /\ ready' = [ready EXCEPT ![s] = @ \cup {flag}]
  /\ UNCHANGED <<runVars, pending, list, src, kernel, wake, sigs, handlers, freed, uaf>>

\* qd_async_send: a write to the notifier's eventfd
AsyncSend(a) ==
  /\ Live /\ a \in Asyncs \cap Range(list)
  /\ ready' = [ready EXCEPT ![a] = {"IN"}]
  /\ UNCHANGED <<runVars, pending, list, src, kernel, wake, sigs, handlers, freed, uaf>>

-----------------------------------------------------------------------------
(* Deferred functions, signals, stop *)

\* qd_event_loop_wakeup; the counter of the eventfd saturates, one is enough
Wakeup == wake' = 1

\* Defect: the wakeup is forgotten.
DeferSilent(w) ==
  /\ Live /\ w \notin ran \cup Range(todo) \cup Range(pending)
  /\ pending' = Append(pending, w)
  /\ UNCHANGED <<runVars, list, src, kernelVars, handlers, freed, uaf>>

\* qd_event_defer appends under pending_lock and then writes the eventfd.
Defer(w) ==
  /\ Live /\ w \notin ran \cup Range(todo) \cup Range(pending)
  /\ pending' = Append(pending, w)
  /\ Wakeup
  /\ UNCHANGED <<runVars, list, src, kernel, ready, sigs, handlers, freed, uaf>>

AddSignal(h) ==
  /\ Live /\ h \notin Range(handlers) \cup freed
  /\ handlers' = <<h>> \o handlers
  /\ UNCHANGED <<runVars, pending, list, src, kernelVars, freed, uaf>>

\* qd_event_del_signal removes and frees the first handler of the signal.
DelSignal ==
  /\ Live /\ handlers # <<>> /\ Allowed(hcur = "none")
  /\ handlers' = Tail(handlers)
  /\ freed' = freed \cup {Head(handlers)}
  /\ UNCHANGED <<runVars, pending, list, src, kernelVars, uaf>>

\* A blocked signal becomes pending on the signalfd.
Signal ==
  /\ sigs = 0 /\ sigs' = 1
  /\ UNCHANGED <<runVars, pending, list, src, kernel, ready, wake, handlers, freed, uaf>>

LoopStop ==
  /\ Live
  /\ lstate' = "STOPPING" /\ Wakeup
  /\ UNCHANGED <<lpc, events, todo, pending, ran, list, src, kernel, ready, sigs,
                 handlers, hcur, freed, uaf, client>>

\* qd_event_loop_destroy: stop, then everything is freed, pending work unrun.
Destroy ==
  /\ Live /\ Allowed(lpc = "out")
  /\ lstate' = "STOPPING" /\ Wakeup
  /\ freed' = freed \cup {"loop"} \cup Range(list) \cup Range(handlers)
  /\ list' = <<>> /\ handlers' = <<>> /\ pending' = <<>>
  /\ kernel' = [s \in Sources |-> None]
  /\ UNCHANGED <<lpc, events, todo, ran, src, ready, sigs, hcur, uaf, client>>

-----------------------------------------------------------------------------
(* The loop thread: qd_event_loop_run and run_once *)

loopFrame == <<list, src, handlers, freed, client>>

Run ==
  /\ Live /\ lpc = "out"
  /\ lstate' = "RUNNING" /\ lpc' = "check"
  /\ UNCHANGED <<loopFrame, kernelVars, events, todo, pending, ran, hcur, uaf>>

Check ==
  /\ lpc = "check"
  /\ \/ lstate = "RUNNING" /\ lpc' = "pending" /\ UNCHANGED lstate
     \/ lstate # "RUNNING" /\ lpc' = "out" /\ lstate' = "STOPPED"
  /\ UNCHANGED <<loopFrame, kernelVars, events, todo, pending, ran, hcur, uaf>>

\* process_pending_work takes the whole list under pending_lock ...
TakePending ==
  /\ lpc = "pending"
  /\ todo' = pending /\ pending' = <<>> /\ lpc' = "work"
  /\ UNCHANGED <<loopFrame, kernelVars, lstate, events, ran, hcur, uaf>>

\* ... and runs it.
RunWork ==
  /\ lpc = "work" /\ todo # <<>>
  /\ ran' = ran \cup {Head(todo)} /\ todo' = Tail(todo)
  /\ UNCHANGED <<loopFrame, kernelVars, lstate, lpc, events, pending, hcur, uaf>>

Flags(s) == IF s = "wakeup" THEN IF wake > 0 THEN {"IN"} ELSE {}
            ELSE IF s = "signal" THEN IF sigs > 0 THEN {"IN"} ELSE {}
            ELSE Report(s)

Pollable == {s \in Sources \cup Internal : Flags(s) # {}}

\* epoll_wait reports every ready source, in some order.
Poll ==
  LET S == Pollable IN
  /\ lpc = "work" /\ todo = <<>> /\ S # {}
  /\ \E q \in SetToSeqs(S) : events' = [i \in DOMAIN q |-> <<q[i], Flags(q[i])>>]
  /\ kernel' = [s \in Sources |->
                  IF s \in S /\ "ONESHOT" \in kernel[s].mask
                  THEN [kernel[s] EXCEPT !.fired = TRUE] ELSE kernel[s]]
  /\ lpc' = "dispatch"
  /\ UNCHANGED <<loopFrame, lstate, todo, pending, ran, ready, wake, sigs, hcur, uaf>>

\* Nothing is ready until the timeout passes or a signal interrupts the wait.
PollNothing ==
  /\ lpc = "work" /\ todo = <<>> /\ Pollable = {} /\ lpc' = "check"
  /\ UNCHANGED <<loopFrame, kernelVars, lstate, events, todo, pending, ran, hcur, uaf>>

\* wakeup_callback reads the counter.
WakeupCallback ==
  /\ Head(events)[1] = "wakeup"
  /\ wake' = 0
  /\ UNCHANGED <<kernel, ready, sigs, lpc, hcur, uaf>>

\* signal_callback reads one signal and walks the handlers, without the lock.
SignalCallback ==
  /\ Head(events)[1] = "signal"
  /\ sigs' = 0
  /\ \/ handlers = <<>> /\ UNCHANGED <<lpc, hcur>>
     \/ handlers # <<>> /\ lpc' = "handlers" /\ hcur' = Head(handlers)
  /\ UNCHANGED <<kernel, ready, wake, uaf>>

\* A source of the application: the callback of a descriptor reads it or not,
\* async_event_wrapper resets its eventfd and calls the notifier's callback.
SourceCallback ==
  LET s == Head(events)[1] IN
  /\ s \in Sources
  /\ \/ s \in freed /\ uaf' = TRUE /\ UNCHANGED ready
     \/ s \notin freed /\ ~src[s].enabled /\ UNCHANGED <<ready, uaf>>
     \/ /\ s \notin freed /\ src[s].enabled /\ UNCHANGED uaf
        /\ \/ s \in Asyncs /\ ready' = [ready EXCEPT ![s] = {}]
           \/ /\ s \in Files
              /\ \E r \in {ready[s], ready[s] \ {"IN"}} : ready' = [ready EXCEPT ![s] = r]
  /\ UNCHANGED <<kernel, wake, sigs, lpc, hcur>>

Dispatch ==
  /\ lpc = "dispatch" /\ events # <<>>
  /\ events' = Tail(events)
  /\ WakeupCallback \/ SignalCallback \/ SourceCallback
  /\ UNCHANGED <<loopFrame, lstate, todo, pending, ran>>

\* The callback of a handler has returned: the next one, or back to the batch.
NextHandler ==
  LET later == {i \in DOMAIN handlers : i > 1 /\ handlers[i - 1] = hcur} IN
  /\ lpc = "handlers"
  /\ uaf' = (uaf \/ hcur \in freed)
  /\ \/ /\ later = {} /\ hcur' = "none" /\ lpc' = "dispatch"
     \/ /\ later # {} /\ UNCHANGED lpc
        /\ hcur' = handlers[CHOOSE i \in later : TRUE]
  /\ UNCHANGED <<loopFrame, kernelVars, lstate, events, todo, pending, ran>>

PostPoll ==
  /\ lpc = "dispatch" /\ events = <<>> /\ lpc' = "check"
  /\ UNCHANGED <<loopFrame, kernelVars, lstate, events, todo, pending, ran, hcur, uaf>>

\* The loop was destroyed under the thread that runs it.
UseFreedLoop ==
  /\ ~Live /\ lpc # "out" /\ ~uaf /\ uaf' = TRUE
  /\ UNCHANGED <<runVars, pending, list, src, kernelVars, handlers, freed>>

LoopStep == Live /\ ( \/ Check \/ TakePending \/ RunWork \/ Poll \/ Dispatch
                      \/ NextHandler \/ PostPoll )

ApiStep ==
  \/ /\ "file" \in client.api
     /\ \E s \in Files : \/ \E evs \in EventSets : EventAdd(s, evs) \/ EventMod(s, evs)
                          \/ \E f \in {"IN", "HUP"} : Environment(s, f)
  \/ "async" \in client.api /\ \E a \in Asyncs : EventAdd(a, {"READ"}) \/ AsyncSend(a)
  \/ \E s \in Sources : EventEnable(s) \/ EventDisable(s) \/ EventDel(s)
  \/ "defer" \in client.api /\ \E w \in Works : Defer(w)
  \/ /\ "signal" \in client.api
     /\ \/ \E h \in Handlers : AddSignal(h)
        \/ DelSignal \/ Signal
  \/ LoopStop \/ Destroy

ELNext == ApiStep \/ LoopStep \/ Run \/ (Live /\ PollNothing) \/ UseFreedLoop

\* The loop thread goes on while it has something to do; nothing is assumed of
\* timeouts and interrupted waits.
ELFairSpec == ELInit /\ [][ELNext]_elVars /\ WF_elVars(LoopStep)

-----------------------------------------------------------------------------

ELTypeOK ==
  /\ lstate \in {"STOPPED", "RUNNING", "STOPPING"}
  /\ lpc \in {"out", "check", "pending", "work", "dispatch", "handlers"}
  /\ Range(pending) \cup Range(todo) \subseteq Works
  /\ Range(list) \subseteq Sources /\ IsInjective(list)
  /\ src \in [Sources -> [enabled : BOOLEAN, events : SUBSET DOMAIN EpollName]]

\* While deletions keep to the rule, the loop uses no source, handler or loop
\* that was freed: neither the rest of the epoll_wait batch nor the walk over
\* the signal handlers meets one.
NoFreedUse == client.rule = "own" => ~uaf

\* A function given to qd_event_defer runs, unless the loop is stopped first:
\* no wakeup is lost between the list and the poll.
DeferredRuns ==
  \A w \in Works : (w \in Range(pending)) ~> (w \in ran \/ lstate # "RUNNING" \/ ~Live)

\* A loop that runs when it is stopped returns, even from a poll without a
\* timeout.
StopReturns == (lstate = "STOPPING" /\ lpc # "out") ~> (lpc = "out" \/ ~Live)

\* A notification is handed to the callback of its notifier, unless the loop
\* stops or the notifier is disabled or destroyed.
AsyncDelivered ==
  \A a \in Asyncs : (ready[a] # {}) ~>
    (ready[a] = {} \/ lstate # "RUNNING" \/ ~src[a].enabled \/ ~Live)
=============================================================================
