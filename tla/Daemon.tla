------------------------------- MODULE Daemon -------------------------------
(***************************************************************************)
(* Life cycle of qdaemon processes that share one PID file (qd_daemon.c    *)
(* and the signal path of qd_signal.c).  A process has a main thread that  *)
(* creates, initialises and runs the daemon, and an application thread     *)
(* that may call qd_daemon_shutdown or qd_daemon_reload at any time.       *)
(* Signals reach the main thread through the event loop.                   *)
(*                                                                         *)
(* The PID file is a name (path) for one of a few inodes, 0 for none; an   *)
(* inode has a lock holder and a content.  fcntl locks end with the        *)
(* process.  g_signal.lock is an ordinary mutex: a thread that takes it    *)
(* twice waits for ever.                                                   *)
(***************************************************************************)
EXTENDS Naturals, FiniteSets

CONSTANTS Procs,     \* processes, each of which may be started again
          Inodes,    \* inodes the PID file may get, a range 1..n
          Starts,    \* how often a process may be started
          MaxAsks,   \* how many signals and calls a process may get
          Logs       \* values of "qd_log_init was called" to consider

Nobody == "nobody"

ASSUME DaemonAssumption ==
  Inodes \subseteq Nat \ {0} /\ Nobody \notin Procs /\ Logs \subseteq BOOLEAN

VARIABLES path, holder, content, proc, started, crossed

dmVars == <<path, holder, content, proc, started, crossed>>

Signals == {"TERM", "HUP"}
Gone == [main |-> "gone", app |-> "idle", state |-> "STOPPED", fd |-> 0,
         loop |-> "none", sig |-> FALSE, lock |-> "free", pending |-> {},
         log |-> FALSE, removed |-> FALSE, raced |-> FALSE, downs |-> 0, asks |-> 0]

\* Program counters of qd_daemon_shutdown, in either thread
ShutdownSteps == {"cas", "drain", "unlink", "sigdown", "logdown", "fin"}

DMInit == /\ path = 0 /\ crossed = FALSE
          /\ holder = [i \in Inodes |-> Nobody] /\ content = [i \in Inodes |-> Nobody]
          /\ proc = [p \in Procs |-> Gone] /\ started = [p \in Procs |-> 0]

Alive(p) == proc[p].main # "gone"

\* Thread t of p moves on and leaves the file alone.
Step(p, new) == /\ proc' = [proc EXCEPT ![p] = new]
                /\ UNCHANGED <<path, holder, content, started, crossed>>

-----------------------------------------------------------------------------
(* Start: qd_daemon_create and qd_daemon_init *)

Create(p) ==
  /\ ~Alive(p) /\ started[p] < Starts
  /\ started' = [started EXCEPT ![p] = @ + 1]
  /\ \E log \in Logs : proc' = [proc EXCEPT ![p] = [Gone EXCEPT !.main = "check", !.log = log]]
  /\ UNCHANGED <<path, holder, content, crossed>>

\* qd_pidfile_check: a pid in the file, of a process that exists
Running == path # 0 /\ content[path] # Nobody /\ Alive(content[path])

\* The check for another instance, then qd_daemonize, which may fail.
InitCheck(p) ==
  /\ proc[p].main = "check"
  /\ \E to \in IF Running THEN {"failed"} ELSE {"open", "failed"} :
       Step(p, [proc[p] EXCEPT !.main = to, !.state = "STARTING"])

FreshFile == {i \in Inodes : /\ i # path /\ holder[i] = Nobody
                         /\ \A q \in Procs : proc[q].fd # i}

\* qd_pidfile_lock, open with O_CREAT
PidOpen(p) ==
  /\ proc[p].main = "open"
  /\ \E i \in IF path # 0 THEN {path} ELSE FreshFile :
       /\ path' = i
       /\ content' = IF path = 0 THEN [content EXCEPT ![i] = Nobody] ELSE content
       /\ proc' = [proc EXCEPT ![p].main = "setlk", ![p].fd = i]
  /\ UNCHANGED <<holder, started, crossed>>

\* Defect: the instance check alone is taken for enough.
PidLockAny(p) ==
  /\ proc[p].main = "setlk"
  /\ holder' = [holder EXCEPT ![proc[p].fd] = p]
  /\ content' = [content EXCEPT ![proc[p].fd] = Nobody]
  /\ proc' = [proc EXCEPT ![p].main = "write"]
  /\ UNCHANGED <<path, started, crossed>>

\* fcntl(F_SETLK) and ftruncate; when it is refused the descriptor is closed
\* and initialisation fails.
PidLock(p) ==
  /\ proc[p].main = "setlk"
  /\ IF holder[proc[p].fd] = Nobody
     THEN /\ holder' = [holder EXCEPT ![proc[p].fd] = p]
          /\ content' = [content EXCEPT ![proc[p].fd] = Nobody]
          /\ proc' = [proc EXCEPT ![p].main = "write"]
     ELSE /\ proc' = [proc EXCEPT ![p].main = "failed", ![p].fd = 0]
          /\ UNCHANGED <<holder, content>>
  /\ UNCHANGED <<path, started, crossed>>

PidWrite(p) ==
  /\ proc[p].main = "write"
  /\ content' = [content EXCEPT ![proc[p].fd] = p]
  /\ proc' = [proc EXCEPT ![p].main = "signals"]
  /\ UNCHANGED <<path, holder, started, crossed>>

\* qd_signal_init: its failure is not looked at.
SignalInit(p) ==
  /\ proc[p].main = "signals"
  /\ \E ok \in BOOLEAN : Step(p, [proc[p] EXCEPT !.main = "create", !.sig = ok])

\* Event loop, thread pool, IPC server; any of them may fail.
InitCreate(p) ==
  /\ proc[p].main = "create"
  /\ \/ Step(p, [proc[p] EXCEPT !.main = "user", !.loop = "idle"])
     \/ Step(p, [proc[p] EXCEPT !.main = "failed"])

\* The on_init callback, and the state a successful start ends in
InitUser(p) ==
  /\ proc[p].main = "user"
  /\ \/ Step(p, [proc[p] EXCEPT !.main = "ready", !.state = "RUNNING"])
     \/ Step(p, [proc[p] EXCEPT !.main = "failed"])

\* qd_daemon_run: qd_event_loop_run stores RUNNING whatever it finds.
RunDaemon(p) ==
  /\ proc[p].main = "ready" /\ Step(p, [proc[p] EXCEPT !.main = "loop", !.loop = "running"])

RunReturns(p) ==
  /\ proc[p].main = "loop" /\ proc[p].loop # "running"
  /\ Step(p, [proc[p] EXCEPT !.main = "left"])

\* The process ends: fcntl locks and descriptors go with it, and its pid in
\* a file is one that no process has (a restart gets a new one).
Vanish(p) ==
  /\ proc' = [proc EXCEPT ![p] = Gone]
  /\ holder' = [i \in Inodes |-> IF holder[i] = p THEN Nobody ELSE holder[i]]
  /\ content' = [i \in Inodes |-> IF content[i] = p THEN Nobody ELSE content[i]]
  /\ UNCHANGED <<path, started, crossed>>

\* main() calls qd_daemon_destroy and returns; it has to see that no other
\* thread is still using the daemon.
DestroyDaemon(p) == proc[p].main \in {"failed", "left"} /\ proc[p].app = "idle" /\ Vanish(p)

\* The process is killed, at any point.
Crash(p) == Alive(p) /\ Vanish(p)

-----------------------------------------------------------------------------
(* Signals *)

\* A blocked signal waits for the signalfd; otherwise the default action ends
\* the process.
Kill(p, s) ==
  /\ Alive(p) /\ s \notin proc[p].pending /\ proc[p].asks < MaxAsks
  /\ IF proc[p].sig
     THEN Step(p, [proc[p] EXCEPT !.pending = @ \cup {s}, !.asks = @ + 1])
     ELSE Vanish(p)

\* qd_signal_process: the handler runs with g_signal.lock held.
SignalProcess(p, s) ==
  /\ proc[p].main = "loop" /\ proc[p].sig /\ s \in proc[p].pending
  /\ proc[p].lock = "free"
  /\ Step(p, [proc[p] EXCEPT !.pending = @ \ {s}, !.lock = "main",
                             !.main = IF s = "TERM" THEN "cas" ELSE "reload"])

\* Defect: the loop over the handlers is left without the unlock.
SignalReturnLocked(p) ==
  /\ proc[p].main = "return" /\ Step(p, [proc[p] EXCEPT !.main = "loop"])

\* The handler has returned.
SignalReturn(p) ==
  /\ proc[p].main = "return" /\ Step(p, [proc[p] EXCEPT !.main = "loop", !.lock = "free"])

-----------------------------------------------------------------------------
(* qd_daemon_shutdown and qd_daemon_reload, by thread t ("main" or "app") *)

Back(t) == IF t = "main" THEN "return" ELSE "idle"

\* The application thread calls in; it can once the daemon is initialised.
AppCall(p) ==
  /\ proc[p].app = "idle" /\ proc[p].main \notin {"gone", "failed", "user"}
  /\ proc[p].loop # "none" /\ proc[p].asks < MaxAsks
  /\ \E to \in {"cas", "reload"} : Step(p, [proc[p] EXCEPT !.app = to, !.asks = @ + 1])

\* Only one caller gets from RUNNING to STOPPING; it runs on_shutdown and
\* stops the loop.
ShutdownCas(p, t) ==
  /\ proc[p][t] = "cas"
  /\ IF proc[p].state = "RUNNING"
     THEN Step(p, [proc[p] EXCEPT ![t] = "drain", !.state = "STOPPING", !.downs = @ + 1])
     ELSE Step(p, [proc[p] EXCEPT ![t] = Back(t)])

\* qd_event_loop_stop, then the thread pool is drained for at most 5 s
ShutdownDrain(p, t) ==
  /\ proc[p][t] = "drain"
  /\ Step(p, [proc[p] EXCEPT ![t] = "unlink",
                             !.loop = IF @ = "running" THEN "stopping" ELSE @])

\* qd_pidfile_remove unlinks the name.  crossed: another process has opened
\* the inode and will lock a file that has no name.
ShutdownUnlink(p, t) ==
  /\ proc[p][t] = "unlink" /\ path' = 0
  /\ crossed' = (crossed \/ \E q \in Procs \ {p} : path # 0 /\ proc[q].fd = path)
  /\ proc' = [proc EXCEPT ![p] = [@ EXCEPT ![t] = "sigdown", !.removed = TRUE]]
  /\ UNCHANGED <<holder, content, started>>

\* qd_signal_shutdown takes g_signal.lock; a signal that is pending when the
\* mask is lifted ends the process.
ShutdownSignals(p, t) ==
  /\ proc[p][t] = "sigdown" /\ proc[p].lock = "free"
  /\ IF proc[p].pending # {} /\ proc[p].sig THEN Vanish(p)
     ELSE Step(p, [proc[p] EXCEPT ![t] = "logdown", !.sig = FALSE])

\* qd_log_shutdown flushes with its lock held, and so never returns once the
\* log is initialised.
ShutdownLog(p, t) ==
  /\ proc[p][t] = "logdown" /\ ~proc[p].log
  /\ Step(p, [proc[p] EXCEPT ![t] = "fin"])

ShutdownDone(p, t) ==
  /\ proc[p][t] = "fin"
  /\ Step(p, [proc[p] EXCEPT ![t] = Back(t), !.state = "STOPPED"])

\* raced: a reload stores its states over those of a shutdown.
Reload(p, t) ==
  /\ proc[p][t] = "reload"
  /\ Step(p, [proc[p] EXCEPT ![t] = "reloaded", !.state = "RELOADING",
                             !.raced = @ \/ proc[p].state # "RUNNING"])

ReloadDone(p, t) ==
  /\ proc[p][t] = "reloaded"
  /\ Step(p, [proc[p] EXCEPT ![t] = Back(t), !.state = "RUNNING",
                             !.raced = @ \/ proc[p].state # "RELOADING"])

-----------------------------------------------------------------------------

DMStart(p) == \/ InitCheck(p) \/ PidOpen(p) \/ PidLock(p) \/ PidWrite(p)
              \/ SignalInit(p) \/ InitCreate(p) \/ InitUser(p) \/ RunDaemon(p)

DMThread(p, t) == \/ ShutdownCas(p, t) \/ ShutdownDrain(p, t) \/ ShutdownUnlink(p, t)
                  \/ ShutdownSignals(p, t) \/ ShutdownLog(p, t) \/ ShutdownDone(p, t)
                  \/ Reload(p, t) \/ ReloadDone(p, t)

DMLoop(p) == RunReturns(p) \/ SignalReturn(p) \/ \E s \in Signals : SignalProcess(p, s)

DMNext == \E p \in Procs :
  \/ Create(p) \/ DMStart(p) \/ DMLoop(p) \/ DestroyDaemon(p) \/ Crash(p) \/ AppCall(p)
  \/ \E s \in Signals : Kill(p, s)
  \/ \E t \in {"main", "app"} : DMThread(p, t)

\* The threads of a process run; nobody has to start, kill or call it.
DMFair == \A p \in Procs : /\ WF_dmVars(DMStart(p)) /\ WF_dmVars(DMLoop(p))
                           /\ WF_dmVars(DMThread(p, "main")) /\ WF_dmVars(DMThread(p, "app"))

DMSpec == DMInit /\ [][DMNext]_dmVars /\ DMFair

-----------------------------------------------------------------------------

\* Between its lock of the PID file and its removal
Serving(p) == proc[p].fd # 0 /\ proc[p].main # "setlk" /\ ~proc[p].removed

\* qd_daemon_init lets one instance per PID file through, whatever two starts,
\* a crash and a restart do between the check, the lock and the write; except
\* after a shutdown has unlinked a file that a starting process had open.
Alone ==
  crossed \/ \A p, q \in Procs : (Serving(p) /\ Serving(q)) => p = q

\* A running instance can be seen: the name leads to a file it has locked and
\* that holds its pid, so that the next start is refused.
Visible ==
  crossed \/ \A p \in Procs :
    (Serving(p) /\ proc[p].main \notin {"write"}) =>
      path = proc[p].fd /\ content[path] = p

\* One instance per PID file, and one that the next start will see.
SingleInstance == Alone /\ Visible

\* A daemon is torn down at most once, however many signals and threads ask
\* for it; except when a reload has stored RUNNING over a shutdown.
TeardownOnce == \A p \in Procs : proc[p].raced \/ proc[p].downs <= 1

\* A shutdown called by a thread other than the one that handles signals ends
\* with the daemon STOPPED, when the log is not in use.
ShutdownEnds == \A p \in Procs :
  (proc[p].app = "drain" /\ ~proc[p].log) ~>
    (proc[p].state = "STOPPED" \/ proc[p].raced)

\* SIGTERM stops a running daemon.
TermStops == \A p \in Procs :
  (proc[p].main = "loop" /\ proc[p].state = "RUNNING" /\ "TERM" \in proc[p].pending) ~>
    (proc[p].state = "STOPPED")
=============================================================================
