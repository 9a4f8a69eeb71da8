---------------------------- MODULE SharedProofs ----------------------------
(***************************************************************************)
(* What processes share.  One instance per PID file, for any number of     *)
(* processes, starts, crashes, signals and calls, and the shared pool and  *)
(* the callbacks of qd_fs.c, for any number of callers and requests.  The  *)
(* rings in shared memory, for every size: the ring of ShmRing passes on   *)
(* the byte stream, for every choice of lengths, and the rings of DhcpBde  *)
(* keep their messages whole, in order and once.  Positions in a ring are  *)
(* compared by their distance around it, which turns the modulus into      *)
(* linear arithmetic.                                                      *)
(***************************************************************************)
EXTENDS Daemon, FileOps, ShmRing, DhcpBde, TLAPS

-----------------------------------------------------------------------------
(* The daemon and its PID file.                                            *)

MainPc == {"gone", "check", "open", "setlk", "write", "signals", "create", "user",
           "ready", "loop", "left", "failed", "return", "reload", "reloaded"} \cup ShutdownSteps
AppPc == {"idle", "reload", "reloaded"} \cup ShutdownSteps

ProcType == [main : MainPc, app : AppPc,
             state : {"STOPPED", "STARTING", "RUNNING", "RELOADING", "STOPPING"},
             fd : Inodes \cup {0}, loop : {"none", "idle", "running", "stopping"},
             sig : BOOLEAN, lock : {"free", "main"}, pending : SUBSET Signals,
             log : BOOLEAN, removed : BOOLEAN, raced : BOOLEAN, downs : Nat, asks : Nat]

\* Before the PID file is written no other thread knows of the daemon.
Early(v) == v.main \in {"check", "open", "setlk", "write"} =>
              ~v.removed /\ v.app = "idle" /\ v.loop = "none"

\* A process that serves holds the lock of the inode it opened; and unless a
\* shutdown crossed with a start, the name leads to every inode that is open
\* and was not removed by its holder.  A process that has written its pid
\* finds it there.
PidInv ==
  /\ proc \in [Procs -> ProcType]
  /\ path \in Inodes \cup {0} /\ crossed \in BOOLEAN
  /\ holder \in [Inodes -> Procs \cup {Nobody}]
  /\ content \in [Inodes -> Procs \cup {Nobody}]
  /\ \A p \in Procs : Early(proc[p])
  /\ \A p \in Procs : Serving(p) => holder[proc[p].fd] = p
  /\ ~crossed => \A p \in Procs : (proc[p].fd # 0 /\ ~proc[p].removed) => proc[p].fd = path
  /\ ~crossed => \A p \in Procs :
       (Serving(p) /\ proc[p].main # "write") => content[path] = p

\* What the file needs to know of a step that leaves it alone: nobody's
\* descriptor, removal or place between lock and write changes.
LEMMA QuietStep ==
  ASSUME PidInv, NEW p \in Procs, NEW new \in ProcType, Step(p, new),
         Early(new), new.fd = proc[p].fd, new.removed = proc[p].removed,
         (new.main = "setlk") <=> (proc[p].main = "setlk"),
         (new.main = "write") <=> (proc[p].main = "write")
  PROVE  PidInv'
<1>1. proc' \in [Procs -> ProcType] /\ proc'[p] = new
      /\ \A q \in Procs \ {p} : proc'[q] = proc[q]
  BY Zenon DEF PidInv, Step
<1>2. \A q \in Procs : /\ proc'[q].fd = proc[q].fd /\ proc'[q].removed = proc[q].removed
                       /\ (proc'[q].main = "setlk") <=> (proc[q].main = "setlk")
                       /\ (proc'[q].main = "write") <=> (proc[q].main = "write")
  BY Zenon, <1>1
<1>3. \A q \in Procs : Serving(q)' <=> Serving(q)
  BY Zenon, <1>2 DEF Serving
<1> QED
  BY <1>1, <1>2, <1>3 DEF PidInv, Step

\* The end of a process releases what it held and nothing else.
LEMMA VanishKeeps ==
  ASSUME PidInv, NEW p \in Procs, Vanish(p)
  PROVE  PidInv'
<1>1. Gone \in ProcType
  BY Zenon DEF Gone, ProcType, MainPc, AppPc
<1>2. /\ proc' \in [Procs -> ProcType] /\ proc'[p] = Gone
      /\ \A q \in Procs \ {p} : proc'[q] = proc[q]
  BY Zenon, <1>1 DEF PidInv, Vanish
<1>3. ~Serving(p)' /\ proc'[p].fd = 0 /\ Early(proc'[p])
  BY <1>2 DEF Serving, Gone, Early
<1>4. \A q \in Procs \ {p} : Serving(q)' <=> Serving(q)
  BY Zenon, <1>2 DEF Serving
<1>5. \A q \in Procs : Serving(q) => holder[proc[q].fd] = q /\ proc[q].fd \in Inodes
  <2> SUFFICES ASSUME NEW q \in Procs, Serving(q) PROVE holder[proc[q].fd] = q /\ proc[q].fd \in Inodes
    BY Zenon
  <2>1. proc[q] \in ProcType
    BY Zenon DEF PidInv
  <2> QED
    BY Zenon, <2>1 DEF PidInv, Serving, ProcType
<1>6. /\ holder' \in [Inodes -> Procs \cup {Nobody}]
      /\ content' \in [Inodes -> Procs \cup {Nobody}]
      /\ \A i \in Inodes : (holder[i] # p => holder'[i] = holder[i])
                           /\ (content[i] # p => content'[i] = content[i])
  BY Zenon DEF PidInv, Vanish
<1>7. \A q \in Procs : Serving(q)' => holder'[proc'[q].fd] = q
  BY <1>2, <1>3, <1>4, <1>5, <1>6
<1>8. ~crossed' => \A q \in Procs : (proc'[q].fd # 0 /\ ~proc'[q].removed) => proc'[q].fd = path'
  BY Zenon, <1>2, <1>3 DEF PidInv, Vanish
<1>9. ~crossed' => \A q \in Procs : (Serving(q)' /\ proc'[q].main # "write") => content'[path'] = q
  <2> SUFFICES ASSUME ~crossed', NEW q \in Procs, Serving(q)', proc'[q].main # "write"
               PROVE  content'[path'] = q
    BY Zenon
  <2>1. q # p /\ Serving(q) /\ proc[q].main # "write" /\ ~crossed /\ path' = path
    BY Zenon, <1>2, <1>3, <1>4 DEF Vanish
  <2>2. proc[q].fd = path /\ content[path] = q /\ path \in Inodes
    BY Zenon, <2>1, <1>5 DEF PidInv, Serving
  <2> QED
    BY Zenon, <2>1, <2>2, <1>6
<1> QED
  BY Zenon, <1>2, <1>3, <1>6, <1>7, <1>8, <1>9 DEF PidInv, Vanish
\* The invariant holds initially.
LEMMA PidInvInit == DMInit => PidInv
<1> SUFFICES ASSUME DMInit PROVE PidInv
  BY Zenon
<1>1. Gone \in ProcType
  BY Zenon DEF Gone, ProcType, MainPc, AppPc
<1>2. proc \in [Procs -> ProcType] /\ \A p \in Procs : proc[p].fd = 0 /\ Early(proc[p])
  BY Zenon, <1>1 DEF DMInit, Gone, Early
<1>3. \A p \in Procs : ~Serving(p)
  BY Zenon, <1>2 DEF Serving
<1> QED
  BY Zenon, <1>2, <1>3 DEF DMInit, PidInv

\* A start that fails once the PID file is written
LEMMA FailKeeps ==
  ASSUME PidInv, NEW p \in Procs, proc[p].main \in {"create", "user"},
         Step(p, [proc[p] EXCEPT !.main = "failed"])
  PROVE  PidInv'
<1> DEFINE new == [proc[p] EXCEPT !.main = "failed"]
<1>1. proc[p] \in ProcType /\ Step(p, new)
  BY Zenon DEF PidInv
<1>2. new \in ProcType
  BY <1>1 DEF ProcType, MainPc
<1>3. new.main = "failed" /\ new.fd = proc[p].fd /\ new.removed = proc[p].removed
  BY Zenon, <1>1 DEF ProcType
<1>4. Early(new)
  BY Zenon, <1>3 DEF Early
<1> HIDE DEF new
<1> QED
  BY Zenon, <1>1, <1>2, <1>3, <1>4, QuietStep

\* Start-up steps other than those of the PID file
LEMMA StartKeeps ==
  ASSUME PidInv, NEW p \in Procs,
         InitCheck(p) \/ SignalInit(p) \/ InitCreate(p) \/ InitUser(p) \/ RunDaemon(p)
  PROVE  PidInv'
<1> proc[p] \in ProcType
  BY Zenon DEF PidInv
<1>1. CASE InitCheck(p)
  <2>1. PICK to \in {"open", "failed"} :
          Step(p, [proc[p] EXCEPT !.main = to, !.state = "STARTING"])
    BY Zenon, <1>1 DEF InitCheck
  <2>2. [proc[p] EXCEPT !.main = to, !.state = "STARTING"] \in ProcType
    BY Zenon DEF ProcType, MainPc
  <2>3. Early([proc[p] EXCEPT !.main = to, !.state = "STARTING"])
    BY Zenon, <1>1 DEF InitCheck, ProcType, Early, PidInv
  <2> QED
    BY Zenon, <1>1, <2>1, <2>2, <2>3, QuietStep DEF InitCheck, ProcType
<1>2. CASE SignalInit(p)
  <2>1. PICK ok \in BOOLEAN : Step(p, [proc[p] EXCEPT !.main = "create", !.sig = ok])
    BY Zenon, <1>2 DEF SignalInit
  <2>2. [proc[p] EXCEPT !.main = "create", !.sig = ok] \in ProcType
    BY Zenon DEF ProcType, MainPc
  <2>3. Early([proc[p] EXCEPT !.main = "create", !.sig = ok])
    BY Zenon DEF Early, ProcType
  <2> QED
    BY Zenon, <1>2, <2>1, <2>2, <2>3, QuietStep DEF SignalInit, ProcType
<1>3. CASE InitCreate(p)
  <2>1. [proc[p] EXCEPT !.main = "user", !.loop = "idle"] \in ProcType
    BY Zenon DEF ProcType, MainPc
  <2>2. CASE Step(p, [proc[p] EXCEPT !.main = "user", !.loop = "idle"])
    <3> DEFINE new == [proc[p] EXCEPT !.main = "user", !.loop = "idle"]
    <3>1. new \in ProcType /\ Step(p, new)
      BY Zenon, <2>1, <2>2
    <3>2. new.main = "user" /\ new.fd = proc[p].fd /\ new.removed = proc[p].removed
      BY Zenon DEF ProcType
    <3>3. Early(new)
      BY Zenon, <3>2 DEF Early
    <3> HIDE DEF new
    <3> QED
      BY Zenon, <1>3, <3>1, <3>2, <3>3, QuietStep DEF InitCreate
  <2>3. CASE Step(p, [proc[p] EXCEPT !.main = "failed"])
    BY Zenon, <1>3, <2>3, FailKeeps DEF InitCreate
  <2> QED
    BY Zenon, <1>3, <2>2, <2>3 DEF InitCreate
<1>4. CASE InitUser(p)
  <2>1. [proc[p] EXCEPT !.main = "ready", !.state = "RUNNING"] \in ProcType
    BY Zenon DEF ProcType, MainPc
  <2>2. CASE Step(p, [proc[p] EXCEPT !.main = "ready", !.state = "RUNNING"])
    <3> DEFINE new == [proc[p] EXCEPT !.main = "ready", !.state = "RUNNING"]
    <3>1. new \in ProcType /\ Step(p, new)
      BY Zenon, <2>1, <2>2
    <3>2. new.main = "ready" /\ new.fd = proc[p].fd /\ new.removed = proc[p].removed
      BY Zenon DEF ProcType
    <3>3. Early(new)
      BY Zenon, <3>2 DEF Early
    <3> HIDE DEF new
    <3> QED
      BY Zenon, <1>4, <3>1, <3>2, <3>3, QuietStep DEF InitUser
  <2>3. CASE Step(p, [proc[p] EXCEPT !.main = "failed"])
    BY Zenon, <1>4, <2>3, FailKeeps DEF InitUser
  <2> QED
    BY Zenon, <1>4, <2>2, <2>3 DEF InitUser
<1>5. CASE RunDaemon(p)
  <2>1. [proc[p] EXCEPT !.main = "loop", !.loop = "running"] \in ProcType
    BY Zenon DEF ProcType, MainPc
  <2> QED
    BY Zenon, <1>5, <2>1, QuietStep DEF RunDaemon, ProcType, Early, PidInv
<1> QED
  BY Zenon, <1>1, <1>2, <1>3, <1>4, <1>5
\* The open gives the name and the descriptor the same inode.
LEMMA OpenKeeps ==
  ASSUME PidInv, NEW p \in Procs, PidOpen(p) PROVE PidInv'
<1>1. PICK i \in IF path # 0 THEN {path} ELSE FreshFile :
        /\ path' = i
        /\ content' = IF path = 0 THEN [content EXCEPT ![i] = Nobody] ELSE content
        /\ proc' = [proc EXCEPT ![p].main = "setlk", ![p].fd = i]
  BY Zenon DEF PidOpen
<1>2. i \in Inodes /\ (path # 0 => i = path) /\ (path = 0 => i \in FreshFile)
  BY Zenon DEF PidInv, FreshFile
<1> proc[p] \in ProcType
  BY Zenon DEF PidInv
<1>3. proc' = [proc EXCEPT ![p] = [proc[p] EXCEPT !.main = "setlk", !.fd = i]]
  BY Zenon, <1>1 DEF PidInv
<1>4. [proc[p] EXCEPT !.main = "setlk", !.fd = i] \in ProcType
  BY Zenon, <1>2 DEF ProcType, MainPc
<1>5. /\ proc' \in [Procs -> ProcType] /\ proc'[p].fd = i /\ proc'[p].main = "setlk"
      /\ Early(proc'[p]) /\ \A q \in Procs \ {p} : proc'[q] = proc[q]
  <2>1. /\ proc \in [Procs -> ProcType] /\ proc[p].main = "open" /\ Early(proc[p])
    BY Zenon DEF PidInv, PidOpen
  <2>2. /\ proc' \in [Procs -> ProcType]
        /\ proc'[p] = [proc[p] EXCEPT !.main = "setlk", !.fd = i]
        /\ \A q \in Procs \ {p} : proc'[q] = proc[q]
    BY Zenon, <1>3, <1>4, <2>1
  <2>3. /\ proc'[p].fd = i /\ proc'[p].main = "setlk" /\ proc'[p].app = proc[p].app
        /\ proc'[p].removed = proc[p].removed /\ proc'[p].loop = proc[p].loop
    BY <2>2 DEF ProcType
  <2> QED
    BY Zenon, <2>1, <2>2, <2>3 DEF Early
<1>6. ~Serving(p)' /\ \A q \in Procs \ {p} : Serving(q)' <=> Serving(q)
  BY Zenon, <1>5 DEF Serving
<1>7. ~crossed => \A q \in Procs \ {p} : (proc[q].fd # 0 /\ ~proc[q].removed) => path # 0 /\ i = path
  BY Zenon, <1>2 DEF PidInv
<1>8. content' \in [Inodes -> Procs \cup {Nobody}] /\ (path # 0 => content' = content)
  BY Zenon, <1>1, <1>2 DEF PidInv
<1>9. ~crossed' => \A q \in Procs : (proc'[q].fd # 0 /\ ~proc'[q].removed) => proc'[q].fd = path'
  BY Zenon, <1>1, <1>5, <1>7 DEF PidInv, PidOpen
<1>10. ~crossed' => \A q \in Procs : (Serving(q)' /\ proc'[q].main # "write") => content'[path'] = q
  BY <1>1, <1>5, <1>6, <1>7, <1>8 DEF PidInv, PidOpen, Serving
<1> QED
  BY <1>1, <1>2, <1>5, <1>6, <1>8, <1>9, <1>10 DEF PidInv, PidOpen

\* The lock is given only when nobody, and so no process that serves, has it.
LEMMA LockKeeps ==
  ASSUME PidInv, NEW p \in Procs, PidLock(p) PROVE PidInv'
<1> proc[p] \in ProcType
  BY Zenon DEF PidInv
<1>0. ~Serving(p) /\ proc[p].main = "setlk"
  BY Zenon DEF PidLock, Serving
<1>1. CASE holder[proc[p].fd] = Nobody
  <2>1. /\ holder' = [holder EXCEPT ![proc[p].fd] = p]
        /\ content' = [content EXCEPT ![proc[p].fd] = Nobody]
        /\ proc' = [proc EXCEPT ![p].main = "write"] /\ UNCHANGED <<path, crossed>>
    BY Zenon, <1>1 DEF PidLock
  <2>2. [proc[p] EXCEPT !.main = "write"] \in ProcType
    BY Zenon DEF ProcType, MainPc
  <2>3. /\ proc' \in [Procs -> ProcType] /\ proc'[p].main = "write" /\ proc'[p].fd = proc[p].fd
        /\ proc'[p].removed = proc[p].removed
        /\ Early(proc'[p]) /\ \A q \in Procs \ {p} : proc'[q] = proc[q]
    BY <1>0, <2>1, <2>2 DEF PidInv, ProcType, Early
  <2>4. \A q \in Procs \ {p} : Serving(q)' <=> Serving(q)
    BY Zenon, <2>3 DEF Serving
  <2>5. \A q \in Procs \ {p} : Serving(q) => proc[q].fd # proc[p].fd
    BY <1>1, DaemonAssumption DEF PidInv
  <2>6. \A q \in Procs : proc[q].fd \in Inodes \cup {0}
    BY Zenon DEF PidInv, ProcType
  <2>7. \A q \in Procs : Serving(q)' => holder'[proc'[q].fd] = q
    BY <2>1, <2>3, <2>4, <2>5, <2>6 DEF PidInv, Serving
  <2>8. ~crossed' => \A q \in Procs : (Serving(q)' /\ proc'[q].main # "write") => content'[path'] = q
    <3> SUFFICES ASSUME ~crossed', NEW q \in Procs, Serving(q)', proc'[q].main # "write"
                 PROVE  content'[path'] = q
      BY Zenon
    <3>1. q # p /\ Serving(q) /\ proc[q].main # "write" /\ ~crossed /\ path' = path
      BY Zenon, <2>1, <2>3, <2>4
    <3>2. proc[q].fd = path /\ content[path] = q
      BY Zenon, <3>1 DEF PidInv, Serving
    <3> QED
      BY <3>1, <3>2, <2>1, <2>5, <2>6 DEF PidInv, Serving
  <2>9. ~crossed' => \A q \in Procs : (proc'[q].fd # 0 /\ ~proc'[q].removed) => proc'[q].fd = path'
    BY Zenon, <2>1, <2>3 DEF PidInv
  <2>10. /\ holder' \in [Inodes -> Procs \cup {Nobody}] /\ content' \in [Inodes -> Procs \cup {Nobody}]
    BY Zenon, <2>1 DEF PidInv
  <2> QED
    BY Zenon, <2>1, <2>3, <2>7, <2>8, <2>9, <2>10 DEF PidInv
<1>2. CASE holder[proc[p].fd] # Nobody
  <2>1. /\ proc' = [proc EXCEPT ![p].main = "failed", ![p].fd = 0]
        /\ UNCHANGED <<path, crossed, holder, content>>
    BY Zenon, <1>2 DEF PidLock
  <2>2. proc' = [proc EXCEPT ![p] = [proc[p] EXCEPT !.main = "failed", !.fd = 0]]
    BY Zenon, <2>1 DEF PidInv
  <2>3. [proc[p] EXCEPT !.main = "failed", !.fd = 0] \in ProcType
    BY Zenon DEF ProcType, MainPc
  <2>4. /\ proc' \in [Procs -> ProcType] /\ proc'[p].fd = 0
        /\ Early(proc'[p]) /\ \A q \in Procs \ {p} : proc'[q] = proc[q]
    BY <2>2, <2>3 DEF PidInv, ProcType, Early
  <2>5. ~Serving(p)' /\ \A q \in Procs \ {p} : Serving(q)' <=> Serving(q)
    BY Zenon, <2>4 DEF Serving
  <2> QED
    BY Zenon, <2>1, <2>4, <2>5 DEF PidInv
<1> QED
  BY Zenon, <1>1, <1>2

\* The pid goes into the inode the name leads to.
LEMMA WriteKeeps ==
  ASSUME PidInv, NEW p \in Procs, PidWrite(p) PROVE PidInv'
<1> proc[p] \in ProcType
  BY Zenon DEF PidInv
<1>1. /\ content' = [content EXCEPT ![proc[p].fd] = p]
      /\ proc' = [proc EXCEPT ![p].main = "signals"] /\ UNCHANGED <<path, crossed, holder>>
      /\ proc[p].main = "write"
  BY Zenon DEF PidWrite
<1>2. [proc[p] EXCEPT !.main = "signals"] \in ProcType
  BY Zenon DEF ProcType, MainPc
<1>3. /\ proc' \in [Procs -> ProcType] /\ proc'[p].main = "signals" /\ proc'[p].fd = proc[p].fd
      /\ proc'[p].removed = proc[p].removed
      /\ Early(proc'[p]) /\ \A q \in Procs \ {p} : proc'[q] = proc[q]
  BY <1>1, <1>2 DEF PidInv, ProcType, Early
<1>4. \A q \in Procs : Serving(q)' <=> Serving(q)
  BY Zenon, <1>1, <1>3 DEF Serving
<1>5. \A q \in Procs : proc[q].fd \in Inodes \cup {0}
  BY Zenon DEF PidInv, ProcType
<1>6. \A q, v \in Procs : (~crossed /\ Serving(q) /\ Serving(v)) => q = v
  BY DEF PidInv, Serving
<1>7. ~crossed' => \A q \in Procs : (Serving(q)' /\ proc'[q].main # "write") => content'[path'] = q
  <2> SUFFICES ASSUME ~crossed', NEW q \in Procs, Serving(q)', proc'[q].main # "write"
               PROVE  content'[path'] = q
    BY Zenon
  <2>1. Serving(q) /\ ~crossed /\ path' = path /\ proc[q].fd = path /\ path \in Inodes
    BY <1>1, <1>4, <1>5 DEF PidInv, Serving
  <2>2. CASE q = p
    BY Zenon, <2>1, <2>2, <1>1 DEF PidInv
  <2>3. CASE q # p
    <3>1. ~Serving(p) /\ content[path] = q
      BY Zenon, <2>1, <2>3, <1>3, <1>6 DEF PidInv
    <3>2. proc[p].fd = 0
      BY Zenon, <3>1, <1>1 DEF Serving, PidInv, Early
    <3>3. proc[p].fd # path
      BY Zenon, <2>1, <3>2, DaemonAssumption
    <3> QED
      BY Zenon, <2>1, <3>1, <3>3, <1>1 DEF PidInv
  <2> QED
    BY Zenon, <2>2, <2>3
<1>8. content' \in [Inodes -> Procs \cup {Nobody}]
  BY Zenon, <1>1 DEF PidInv
<1> QED
  BY <1>1, <1>3, <1>4, <1>7, <1>8 DEF PidInv
\* The loop, its signals and the calls of the application
LEMMA LoopKeeps ==
  ASSUME PidInv, NEW p \in Procs,
         RunReturns(p) \/ SignalReturn(p) \/ AppCall(p)
           \/ \E s \in Signals : SignalProcess(p, s) \/ (Kill(p, s) /\ proc[p].sig)
  PROVE  PidInv'
<1> proc[p] \in ProcType
  BY Zenon DEF PidInv
<1> DEFINE more == proc[p].asks + 1
<1>0. more \in Nat
  BY DEF ProcType
<1> HIDE DEF more
<1>1. CASE RunReturns(p)
  <2>1. [proc[p] EXCEPT !.main = "left"] \in ProcType
    BY Zenon DEF ProcType, MainPc
  <2> QED
    BY Zenon, <1>1, <2>1, QuietStep DEF RunReturns, ProcType, Early
<1>2. CASE SignalReturn(p)
  <2>1. [proc[p] EXCEPT !.main = "loop", !.lock = "free"] \in ProcType
    BY Zenon DEF ProcType, MainPc
  <2> QED
    BY Zenon, <1>2, <2>1, QuietStep DEF SignalReturn, ProcType, Early
<1>3. CASE AppCall(p)
  <2>1. PICK to \in {"cas", "reload"} : Step(p, [proc[p] EXCEPT !.app = to, !.asks = more])
    BY Zenon, <1>3 DEF AppCall, more
  <2>2. [proc[p] EXCEPT !.app = to, !.asks = more] \in ProcType
    BY Zenon, <1>0 DEF ProcType, AppPc, ShutdownSteps
  <2>3. Early([proc[p] EXCEPT !.app = to, !.asks = more])
    BY Zenon, <1>3 DEF AppCall, Early, PidInv, ProcType
  <2> QED
    BY Zenon, <2>1, <2>2, <2>3, QuietStep DEF ProcType
<1>4. ASSUME NEW s \in Signals, SignalProcess(p, s) PROVE PidInv'
  <2> DEFINE to == IF s = "TERM" THEN "cas" ELSE "reload"
  <2>1. to \in {"cas", "reload"}
    BY Zenon
  <2> HIDE DEF to
  <2>2. Step(p, [proc[p] EXCEPT !.pending = @ \ {s}, !.lock = "main", !.main = to])
    BY Zenon, <1>4 DEF SignalProcess, to
  <2>3. [proc[p] EXCEPT !.pending = @ \ {s}, !.lock = "main", !.main = to] \in ProcType
    <3>1. to \in MainPc
      BY Zenon, <2>1 DEF MainPc, ShutdownSteps
    <3> QED
      BY Zenon, <3>1 DEF ProcType
  <2>4. Early([proc[p] EXCEPT !.pending = @ \ {s}, !.lock = "main", !.main = to])
    BY Zenon, <2>1 DEF Early, ProcType
  <2> QED
    BY Zenon, <1>4, <2>1, <2>2, <2>3, <2>4, QuietStep DEF SignalProcess, ProcType
<1>5. ASSUME NEW s \in Signals, Kill(p, s), proc[p].sig PROVE PidInv'
  <2>1. Step(p, [proc[p] EXCEPT !.pending = @ \cup {s}, !.asks = more])
    BY Zenon, <1>5 DEF Kill, more
  <2>2. [proc[p] EXCEPT !.pending = @ \cup {s}, !.asks = more] \in ProcType
    BY Zenon, <1>0 DEF ProcType
  <2>3. Early([proc[p] EXCEPT !.pending = @ \cup {s}, !.asks = more])
    BY Zenon DEF Early, PidInv, ProcType
  <2> QED
    BY Zenon, <2>1, <2>2, <2>3, QuietStep DEF ProcType
<1> QED
  BY Zenon, <1>1, <1>2, <1>3, <1>4, <1>5

\* The removal of the name: a process that has the inode open is counted as
\* crossed, and nobody else had the name's inode.
LEMMA UnlinkKeeps ==
  ASSUME PidInv, NEW p \in Procs, NEW t \in {"main", "app"}, ShutdownUnlink(p, t)
  PROVE  PidInv'
<1> proc[p] \in ProcType
  BY Zenon DEF PidInv
<1>1. /\ path' = 0 /\ UNCHANGED <<holder, content>>
      /\ proc' = [proc EXCEPT ![p] = [proc[p] EXCEPT ![t] = "sigdown", !.removed = TRUE]]
      /\ crossed' = (crossed \/ \E q \in Procs \ {p} : path # 0 /\ proc[q].fd = path)
  BY Zenon DEF ShutdownUnlink, PidInv
<1>2. proc[p].main \notin {"check", "open", "setlk", "write"}
  BY Zenon DEF ShutdownUnlink, PidInv, Early, ProcType
<1>3. [proc[p] EXCEPT ![t] = "sigdown", !.removed = TRUE] \in ProcType
  <2>1. CASE t = "main"
    <3>1. "sigdown" \in MainPc
      BY Zenon DEF MainPc, ShutdownSteps
    <3> QED
      BY Zenon, <2>1, <3>1 DEF ProcType
  <2>2. CASE t = "app"
    BY <2>2 DEF ProcType, AppPc, ShutdownSteps
  <2> QED
    BY Zenon, <2>1, <2>2
<1>4. /\ [proc[p] EXCEPT ![t] = "sigdown", !.removed = TRUE].removed
      /\ Early([proc[p] EXCEPT ![t] = "sigdown", !.removed = TRUE])
  <2>1. CASE t = "main"
    BY Zenon, <2>1 DEF ProcType, Early
  <2>2. CASE t = "app"
    BY Zenon, <1>2, <2>2 DEF ProcType, Early
  <2> QED
    BY Zenon, <2>1, <2>2
<1>5. /\ proc' \in [Procs -> ProcType] /\ proc'[p].removed /\ Early(proc'[p])
      /\ \A q \in Procs \ {p} : proc'[q] = proc[q]
  BY Zenon, <1>1, <1>3, <1>4 DEF PidInv
<1>6. ~Serving(p)' /\ \A q \in Procs \ {p} : Serving(q)' <=> Serving(q)
  BY Zenon, <1>5 DEF Serving
<1>7. ~crossed' => ~crossed /\ \A q \in Procs \ {p} : proc[q].fd = 0 \/ proc[q].removed
  BY Zenon, <1>1 DEF PidInv
<1>8. crossed' \in BOOLEAN
  BY Zenon, <1>1 DEF PidInv
<1> QED
  BY <1>1, <1>5, <1>6, <1>7, <1>8 DEF PidInv, Serving
\* new differs from v in t, which is to, and in what the file does not depend on.
SameFile(v, new, t, to) ==
  /\ new \in ProcType /\ new[t] = to /\ new.fd = v.fd /\ new.removed = v.removed
  /\ t = "main" => new.app = v.app
  /\ t = "app" => new.main = v.main

\* The records those steps write
LEMMA ThreadTypes ==
  ASSUME NEW v \in ProcType, NEW t \in {"main", "app"},
         NEW to \in ShutdownSteps \cup {Back(t), "reloaded"},
         NEW st \in {"STOPPED", "STARTING", "RUNNING", "RELOADING", "STOPPING"},
         NEW lp \in {"none", "idle", "running", "stopping"}, NEW rc \in BOOLEAN, NEW dn \in Nat
  PROVE  /\ SameFile(v, [v EXCEPT ![t] = to], t, to)
         /\ SameFile(v, [v EXCEPT ![t] = to, !.state = st, !.downs = dn], t, to)
         /\ SameFile(v, [v EXCEPT ![t] = to, !.loop = lp], t, to)
         /\ SameFile(v, [v EXCEPT ![t] = to, !.sig = FALSE], t, to)
         /\ SameFile(v, [v EXCEPT ![t] = to, !.state = st], t, to)
         /\ SameFile(v, [v EXCEPT ![t] = to, !.state = st, !.raced = rc], t, to)
<1>0. (t = "main" => to \in MainPc) /\ (t = "app" => to \in AppPc)
  BY Zenon DEF MainPc, AppPc, ShutdownSteps, Back
<1>1. SameFile(v, [v EXCEPT ![t] = to], t, to)
  <2>1. CASE t = "main"
    BY Zenon, <1>0, <2>1 DEF ProcType, SameFile
  <2>2. CASE t = "app"
    BY Zenon, <1>0, <2>2 DEF ProcType, SameFile
  <2> QED
    BY Zenon, <2>1, <2>2
<1>2. SameFile(v, [v EXCEPT ![t] = to, !.state = st, !.downs = dn], t, to)
  <2>1. CASE t = "main"
    BY <1>0, <2>1 DEF ProcType, SameFile
  <2>2. CASE t = "app"
    BY <1>0, <2>2 DEF ProcType, SameFile
  <2> QED
    BY Zenon, <2>1, <2>2
<1>3. SameFile(v, [v EXCEPT ![t] = to, !.loop = lp], t, to)
  <2>1. CASE t = "main"
    BY <1>0, <2>1 DEF ProcType, SameFile
  <2>2. CASE t = "app"
    BY <1>0, <2>2 DEF ProcType, SameFile
  <2> QED
    BY Zenon, <2>1, <2>2
<1>4. SameFile(v, [v EXCEPT ![t] = to, !.sig = FALSE], t, to)
  <2>1. CASE t = "main"
    BY Zenon, <1>0, <2>1 DEF ProcType, SameFile
  <2>2. CASE t = "app"
    BY Zenon, <1>0, <2>2 DEF ProcType, SameFile
  <2> QED
    BY Zenon, <2>1, <2>2
<1>5. SameFile(v, [v EXCEPT ![t] = to, !.state = st], t, to)
  <2>1. CASE t = "main"
    BY <1>0, <2>1 DEF ProcType, SameFile
  <2>2. CASE t = "app"
    BY <1>0, <2>2 DEF ProcType, SameFile
  <2> QED
    BY Zenon, <2>1, <2>2
<1>6. SameFile(v, [v EXCEPT ![t] = to, !.state = st, !.raced = rc], t, to)
  <2>1. CASE t = "main"
    BY <1>0, <2>1 DEF ProcType, SameFile
  <2>2. CASE t = "app"
    BY <1>0, <2>2 DEF ProcType, SameFile
  <2> QED
    BY Zenon, <2>1, <2>2
<1> QED
  BY Zenon, <1>1, <1>2, <1>3, <1>4, <1>5, <1>6

\* A step of a thread in the shutdown or the reload that leaves the file alone
LEMMA ThreadStep ==
  ASSUME PidInv, NEW p \in Procs, NEW t \in {"main", "app"},
         proc[p][t] \in ShutdownSteps \cup {"reload", "reloaded"},
         NEW to \in ShutdownSteps \cup {Back(t), "reloaded"},
         NEW new, SameFile(proc[p], new, t, to), Step(p, new)
  PROVE  PidInv'
<1>1. CASE t = "main"
  <2>1. /\ proc[p].main \notin {"check", "open", "setlk", "write"}
        /\ new.main \notin {"check", "open", "setlk", "write"}
    BY Zenon, <1>1 DEF ShutdownSteps, Back, SameFile
  <2> QED
    BY Zenon, <1>1, <2>1, QuietStep DEF Early, SameFile
<1>2. CASE t = "app"
  <2>1. proc[p].main \notin {"check", "open", "setlk", "write"}
    BY Zenon, <1>2 DEF PidInv, Early, ShutdownSteps
  <2> QED
    BY Zenon, <1>2, <2>1, QuietStep DEF Early, SameFile, PidInv
<1> QED
  BY Zenon, <1>1, <1>2

\* qd_daemon_shutdown and qd_daemon_reload, but for the removal of the file
LEMMA ThreadKeeps ==
  ASSUME PidInv, NEW p \in Procs, NEW t \in {"main", "app"}, DMThread(p, t), ~ShutdownUnlink(p, t)
  PROVE  PidInv'
<1> proc[p] \in ProcType
  BY Zenon DEF PidInv
<1>0. Back(t) \in ShutdownSteps \cup {Back(t), "reloaded"} /\ "reloaded" \in ShutdownSteps \cup {Back(t), "reloaded"}
      /\ \A s \in ShutdownSteps : s \in ShutdownSteps \cup {Back(t), "reloaded"}
  BY Zenon
<1>1. CASE ShutdownCas(p, t)
  <2> DEFINE more == proc[p].downs + 1
  <2>1. more \in Nat
    BY DEF ProcType
  <2> HIDE DEF more
  <2>2. CASE Step(p, [proc[p] EXCEPT ![t] = "drain", !.state = "STOPPING", !.downs = more])
    <3>1. SameFile(proc[p], [proc[p] EXCEPT ![t] = "drain", !.state = "STOPPING", !.downs = more], t, "drain")
      BY Zenon, <2>1, ThreadTypes DEF ShutdownSteps
    <3> QED
      BY Zenon, <1>1, <2>2, <3>1, ThreadStep DEF ShutdownCas, ShutdownSteps
  <2>3. CASE Step(p, [proc[p] EXCEPT ![t] = Back(t)])
    <3>1. SameFile(proc[p], [proc[p] EXCEPT ![t] = Back(t)], t, Back(t))
      BY Zenon, ThreadTypes
    <3> QED
      BY Zenon, <1>1, <2>3, <3>1, ThreadStep DEF ShutdownCas, ShutdownSteps
  <2> QED
    BY Zenon, <1>1, <2>2, <2>3 DEF ShutdownCas, more
<1>2. CASE ShutdownDrain(p, t)
  <2> DEFINE lp == IF proc[p].loop = "running" THEN "stopping" ELSE proc[p].loop
  <2>1. lp \in {"none", "idle", "running", "stopping"}
    BY Zenon DEF ProcType
  <2>2. Step(p, [proc[p] EXCEPT ![t] = "unlink", !.loop = lp])
    <3>1. [proc[p] EXCEPT ![t] = "unlink"].loop = proc[p].loop
      <4>1. CASE t = "main"
        BY Zenon, <4>1 DEF ProcType
      <4>2. CASE t = "app"
        BY Zenon, <4>2 DEF ProcType
      <4> QED
        BY Zenon, <4>1, <4>2
    <3> QED
      BY Zenon, <1>2, <3>1 DEF ShutdownDrain
  <2> HIDE DEF lp
  <2>3. SameFile(proc[p], [proc[p] EXCEPT ![t] = "unlink", !.loop = lp], t, "unlink")
    BY <2>1, ThreadTypes DEF ShutdownSteps
  <2> QED
    BY Zenon, <1>2, <2>2, <2>3, ThreadStep DEF ShutdownDrain, ShutdownSteps
<1>3. CASE ShutdownSignals(p, t)
  <2>1. CASE Vanish(p)
    BY Zenon, <2>1, VanishKeeps
  <2>2. CASE Step(p, [proc[p] EXCEPT ![t] = "logdown", !.sig = FALSE])
    <3>1. SameFile(proc[p], [proc[p] EXCEPT ![t] = "logdown", !.sig = FALSE], t, "logdown")
      BY Zenon, ThreadTypes DEF ShutdownSteps
    <3> QED
      BY Zenon, <1>3, <2>2, <3>1, ThreadStep DEF ShutdownSignals, ShutdownSteps
  <2> QED
    BY Zenon, <1>3, <2>1, <2>2 DEF ShutdownSignals
<1>4. CASE ShutdownLog(p, t)
  <2>1. SameFile(proc[p], [proc[p] EXCEPT ![t] = "fin"], t, "fin")
    BY Zenon, ThreadTypes DEF ShutdownSteps
  <2> QED
    BY Zenon, <1>4, <2>1, ThreadStep DEF ShutdownLog, ShutdownSteps
<1>5. CASE ShutdownDone(p, t)
  <2>1. SameFile(proc[p], [proc[p] EXCEPT ![t] = Back(t), !.state = "STOPPED"], t, Back(t))
    BY Zenon, ThreadTypes
  <2> QED
    BY Zenon, <1>5, <2>1, ThreadStep DEF ShutdownDone, ShutdownSteps
<1>6. CASE Reload(p, t)
  <2> DEFINE rc == proc[p].raced \/ proc[p].state # "RUNNING"
  <2>1. rc \in BOOLEAN
    BY Zenon DEF ProcType
  <2>2. Step(p, [proc[p] EXCEPT ![t] = "reloaded", !.state = "RELOADING", !.raced = rc])
    BY Zenon, <1>6 DEF Reload
  <2> HIDE DEF rc
  <2>3. SameFile(proc[p], [proc[p] EXCEPT ![t] = "reloaded", !.state = "RELOADING", !.raced = rc], t, "reloaded")
    BY <2>1, ThreadTypes
  <2> QED
    BY Zenon, <1>6, <2>2, <2>3, ThreadStep DEF Reload
<1>7. CASE ReloadDone(p, t)
  <2> DEFINE rc == proc[p].raced \/ proc[p].state # "RELOADING"
  <2>1. rc \in BOOLEAN
    BY Zenon DEF ProcType
  <2>2. Step(p, [proc[p] EXCEPT ![t] = Back(t), !.state = "RUNNING", !.raced = rc])
    BY Zenon, <1>7 DEF ReloadDone
  <2> HIDE DEF rc
  <2>3. SameFile(proc[p], [proc[p] EXCEPT ![t] = Back(t), !.state = "RUNNING", !.raced = rc], t, Back(t))
    BY <2>1, ThreadTypes
  <2> QED
    BY Zenon, <1>7, <2>2, <2>3, ThreadStep DEF ReloadDone
<1> QED
  BY Zenon, <1>1, <1>2, <1>3, <1>4, <1>5, <1>6, <1>7 DEF DMThread

\* A new process starts without a descriptor.
LEMMA CreateKeeps ==
  ASSUME PidInv, NEW p \in Procs, Create(p) PROVE PidInv'
<1>1. PICK log \in Logs : proc' = [proc EXCEPT ![p] = [Gone EXCEPT !.main = "check", !.log = log]]
  BY Zenon DEF Create
<1>2. /\ [Gone EXCEPT !.main = "check", !.log = log] \in ProcType
      /\ Early([Gone EXCEPT !.main = "check", !.log = log])
      /\ [Gone EXCEPT !.main = "check", !.log = log].fd = 0
  BY Zenon, DaemonAssumption DEF Gone, ProcType, MainPc, AppPc, Early
<1>3. /\ proc' \in [Procs -> ProcType] /\ proc'[p].fd = 0 /\ Early(proc'[p])
      /\ \A q \in Procs \ {p} : proc'[q] = proc[q]
  BY Zenon, <1>1, <1>2 DEF PidInv
<1>4. ~Serving(p)' /\ \A q \in Procs \ {p} : Serving(q)' <=> Serving(q)
  BY Zenon, <1>3 DEF Serving
<1> QED
  BY Zenon, <1>3, <1>4 DEF PidInv, Create

\* At any time at most one process is between locking the PID file and
\* removing it, and it can be found through the file: qd_daemon_init admits
\* one instance, unless a removal crossed with a start.
THEOREM OneInstance == DMSpec => []SingleInstance
<1>1. PidInv /\ [DMNext]_dmVars => PidInv'
  <2> SUFFICES ASSUME PidInv, [DMNext]_dmVars PROVE PidInv'
    BY Zenon
  <2>1. CASE UNCHANGED dmVars
    BY Zenon, <2>1 DEF PidInv, dmVars, Serving
  <2>2. ASSUME NEW p \in Procs, Create(p) PROVE PidInv'
    BY Zenon, <2>2, CreateKeeps
  <2>3. ASSUME NEW p \in Procs, DMStart(p) PROVE PidInv'
    BY Zenon, <2>3, StartKeeps, OpenKeeps, LockKeeps, WriteKeeps DEF DMStart
  <2>4. ASSUME NEW p \in Procs, DMLoop(p) \/ AppCall(p) PROVE PidInv'
    BY Zenon, <2>4, LoopKeeps DEF DMLoop
  <2>5. ASSUME NEW p \in Procs, NEW s \in Signals, Kill(p, s) PROVE PidInv'
    BY Zenon, <2>5, LoopKeeps, VanishKeeps DEF Kill
  <2>6. ASSUME NEW p \in Procs, DestroyDaemon(p) \/ Crash(p) PROVE PidInv'
    BY Zenon, <2>6, VanishKeeps DEF DestroyDaemon, Crash
  <2>7. ASSUME NEW p \in Procs, NEW t \in {"main", "app"}, DMThread(p, t) PROVE PidInv'
    BY Zenon, <2>7, ThreadKeeps, UnlinkKeeps
  <2> QED
    BY Zenon, <2>1, <2>2, <2>3, <2>4, <2>5, <2>6, <2>7 DEF DMNext
<1>2. PidInv => SingleInstance
  BY DEF PidInv, SingleInstance, Alone, Visible, Serving
<1> QED
  BY PidInvInit, <1>1, <1>2, PTL DEF DMSpec


-----------------------------------------------------------------------------
(* The shared pool of qd_fs.c and the callbacks of its requests.           *)

ReqStates == {"free", "queued", "leaked", "worked", "deferred", "done"}

\* The one who has the lock is about to look for the pool again; who has got a
\* pool has the one that exists; a callback ran only for a request that is done
\* and was not cancelled.
FsInv ==
  /\ pool \in Nat /\ made \in Nat /\ lock \in Callers \cup {NoOne} /\ tidy \in BOOLEAN
  /\ pc \in [Callers -> {"idle", "lock", "make", "submit"}] /\ got \in [Callers -> Nat]
  /\ req \in [Reqs -> ReqStates] /\ told \in [Reqs -> Nat]
  /\ detached \in [Reqs -> BOOLEAN]
  /\ \A c \in Callers : pc[c] = "make" <=> lock = c
  /\ tidy => \A c \in Callers : pc[c] = "submit" => got[c] = pool /\ pool # 0
  /\ \A v \in Reqs : told[v] = 0 \/ (told[v] = 1 /\ req[v] = "done" /\ ~detached[v])

LEMMA FsInvInit == FSInit => FsInv
<1> SUFFICES ASSUME FSInit PROVE FsInv
  BY Zenon
<1>1. /\ req \in [Reqs -> ReqStates] /\ told \in [Reqs -> Nat]
      /\ detached \in [Reqs -> BOOLEAN] /\ \A v \in Reqs : told[v] = 0
  BY Zenon DEF FSInit, ReqStates
<1>2. /\ pc \in [Callers -> {"idle", "lock", "make", "submit"}] /\ got \in [Callers -> Nat]
      /\ \A c \in Callers : pc[c] = "idle" /\ lock # c
  BY Zenon, FileOpsAssumption DEF FSInit
<1> QED
  BY Zenon, <1>1, <1>2 DEF FSInit, FsInv

LEMMA FsInvNext == FsInv /\ [FSNext]_fsVars => FsInv'
<1> SUFFICES ASSUME FsInv, [FSNext]_fsVars
             PROVE  FsInv'
  BY Zenon
<1> USE FileOpsAssumption DEF FsInv, ReqStates, Go
<1>1. CASE UNCHANGED fsVars
  BY Zenon, <1>1 DEF fsVars
<1>2. CASE FsCleanup
  <2>1. PICK end \in [Reqs -> {"deferred", "leaked"}] :
          req' = [v \in Reqs |-> IF poolOf[v] = pool /\ req[v] \in {"queued", "worked"}
                                 THEN end[v] ELSE req[v]]
    BY Zenon, <1>2 DEF FsCleanup
  <2>2. /\ req' \in [Reqs -> ReqStates]
        /\ \A v \in Reqs : req[v] = "done" => req'[v] = "done"
    BY Zenon, <2>1
  <2>3. /\ pool' = 0 /\ UNCHANGED <<made, lock, pc, got, told, detached, poolOf>>
        /\ tidy' = (tidy /\ \A c \in Callers : pc[c] # "submit")
    BY Zenon, <1>2 DEF FsCleanup
  <2>4. tidy' \in BOOLEAN /\ (tidy' => \A c \in Callers : pc[c] # "submit")
    BY Zenon, <2>3
  <2> QED
    BY Zenon, <2>2, <2>3, <2>4
<1>3. ASSUME NEW c \in Callers, FsCall(c)
      PROVE  FsInv'
  BY <1>3 DEF FsCall
<1>4. ASSUME NEW c \in Callers, FsLock(c)
      PROVE  FsInv'
  BY <1>4 DEF FsLock, NoOne
<1>5. ASSUME NEW c \in Callers, FsMake(c)
      PROVE  FsInv'
  <2>1. /\ pc[c] = "make" /\ lock = c /\ lock' = NoOne /\ got' = [got EXCEPT ![c] = pool']
        /\ pc' = [pc EXCEPT ![c] = IF pool' = 0 THEN "idle" ELSE "submit"]
        /\ UNCHANGED <<req, told, detached, poolOf, tidy>>
    BY Zenon, <1>5 DEF FsMake
  <2>2. pool' \in Nat /\ made' \in Nat /\ (pool # 0 => pool' = pool)
    BY <1>5 DEF FsMake
  <2>3. \A d \in Callers : d # c => pc'[d] = pc[d] /\ got'[d] = got[d] /\ pc[d] # "make"
    BY Zenon, <2>1
  <2>4. pc'[c] # "make" /\ (pc'[c] = "submit" => got'[c] = pool' /\ pool' # 0)
    BY Zenon, <2>1
  <2>5. tidy' => \A d \in Callers : pc'[d] = "submit" => got'[d] = pool' /\ pool' # 0
    BY <2>1, <2>2, <2>3, <2>4
  <2>6. \A d \in Callers : pc'[d] = "make" <=> lock' = d
    BY Zenon, <2>1, <2>3, <2>4
  <2> QED
    BY Zenon, <2>1, <2>2, <2>5, <2>6
<1>6. ASSUME NEW c \in Callers, NEW v \in Reqs, FsSubmit(c, v)
      PROVE  FsInv'
  BY <1>6 DEF FsSubmit
<1>7. ASSUME NEW v \in Reqs, FsWorker(v) \/ WorkerComplete(v)
      PROVE  FsInv'
  BY <1>7 DEF FsWorker, WorkerComplete
<1>8. ASSUME NEW v \in Reqs, FsComplete(v)
      PROVE  FsInv'
  <2>1. /\ req[v] = "deferred" /\ req' = [req EXCEPT ![v] = "done"]
        /\ told' = [told EXCEPT ![v] = IF detached[v] THEN @ ELSE @ + 1]
        /\ UNCHANGED <<pool, made, lock, pc, got, detached, poolOf, tidy>>
    BY Zenon, <1>8 DEF FsComplete
  <2>2. /\ told[v] = 0 /\ told' \in [Reqs -> Nat]
        /\ told'[v] = 0 \/ (told'[v] = 1 /\ ~detached[v])
    BY <2>1
  <2>3. req' \in [Reqs -> ReqStates] /\ req'[v] = "done"
    BY Zenon, <2>1
  <2>4. \A q \in Reqs \ {v} : told'[q] = told[q] /\ req'[q] = req[q]
    BY Zenon, <2>1
  <2> QED
    BY <2>1, <2>2, <2>3, <2>4
<1>9. ASSUME NEW v \in Reqs, FsCancel(v)
      PROVE  FsInv'
  BY Zenon, <1>9 DEF FsCancel
<1> QED
  BY Zenon, <1>1, <1>2, <1>3, <1>4, <1>5, <1>6, <1>7, <1>8, <1>9 DEF FSNext

\* However first calls race for the pool without the lock, they share the pool
\* that exists; and however the ends of a request race, its callback runs at
\* most once, when the work is done, and not after qd_fs_req_cancel.
THEOREM FsCorrect == FSSpec => []FsExact
<1>1. FsInv => FsExact
  BY DEF FsInv, FsExact, PoolShared, CallbackOnce
<1> QED
  BY <1>1, FsInvInit, FsInvNext, PTL DEF FSSpec

-----------------------------------------------------------------------------
(* The byte ring: the inductive invariant.                                 *)

Pos == 0..(N - 1)
Pcs == {"absent", "sized", "unsized", "broken", "idle", "look", "copy", "store", "wake",
        "wait", "sleep", "awake"}
Party == [pc : Pcs, len : Pos, pos : Pos]
Inside == {"look", "copy", "store", "wait", "sleep", "awake"}

ShmTypes == /\ wpos \in Pos /\ rpos \in Pos /\ written \in Nat /\ taken \in Nat
            /\ data \in [Pos -> Nat] /\ w \in Party /\ r \in Party

\* What a call in progress knows
WriterKnows == /\ w.pc \in Inside => w.pos = wpos /\ w.len >= 1
               /\ w.pc \in {"copy", "store"} => Free(wpos, rpos) >= w.len
               /\ w.pc = "store" => \A i \in Pos : Offset(wpos, i) < w.len
                                      => data[i] = written + Offset(wpos, i) + 1
ReaderKnows == /\ r.pc \in Inside => r.pos = rpos /\ r.len >= 1
               /\ r.pc \in {"copy", "store"} => Unread(wpos, rpos) >= r.len

ShmInv == ShmTypes /\ WriterKnows /\ ReaderKnows /\ RingExact

-----------------------------------------------------------------------------

\* The modulus of a position advanced by less than a round
LEMMA ModIs == ASSUME NEW p \in Pos, NEW l \in 0..N
               PROVE  (p + l) % N = IF p + l >= N THEN p + l - N ELSE p + l
  BY ShmAssumption DEF Pos

\* A span is the bytes whose distance from its start is less than its length.
LEMMA SpanIs == ASSUME NEW p \in Pos, NEW l \in Pos, NEW i \in Pos
                PROVE  i \in Span(p, l) <=> Offset(p, i) < l
<1>1. ASSUME i \in Span(p, l) PROVE Offset(p, i) < l
  <2>1. PICK k \in 0..(l - 1) : i = (p + k) % N BY Zenon, <1>1 DEF Span
  <2>2. k \in 0..N BY <2>1, ShmAssumption DEF Pos
  <2>3. i = IF p + k >= N THEN p + k - N ELSE p + k BY Zenon, <2>1, <2>2, ModIs
  <2> QED BY <2>1, <2>3, ShmAssumption DEF Offset, Pos
<1>2. ASSUME Offset(p, i) < l PROVE i \in Span(p, l)
  <2> DEFINE k == Offset(p, i)
  <2>1. k \in 0..(l - 1) BY <1>2, ShmAssumption DEF Offset, Pos
  <2>2. k \in 0..N BY <2>1, ShmAssumption DEF Pos
  <2>3. (p + k) % N = IF p + k >= N THEN p + k - N ELSE p + k BY Zenon, <2>2, ModIs
  <2>4. i = (p + k) % N BY <2>3, ShmAssumption DEF Offset, Pos
  <2> QED BY Zenon, <2>1, <2>4 DEF Span
<1> QED BY Zenon, <1>1, <1>2

\* Unread and free bytes make up all but one byte of the ring.
LEMMA Sizes == ASSUME NEW wp \in Pos, NEW rp \in Pos
               PROVE  /\ Unread(wp, rp) + Free(wp, rp) = N - 1
                      /\ Unread(wp, rp) \in Pos /\ Free(wp, rp) \in Pos
                      /\ Unread(wp, rp) \in Nat /\ Free(wp, rp) \in Nat
  BY ShmAssumption DEF Unread, Free, Pos

\* Unread bytes are out of the writer's reach.
LEMMA Apart == ASSUME NEW wp \in Pos, NEW rp \in Pos, NEW i \in Pos,
                      Offset(rp, i) < Unread(wp, rp)
               PROVE  Offset(wp, i) > Free(wp, rp)
  BY ShmAssumption DEF Offset, Unread, Free, Pos

LEMMA Offsets == ASSUME NEW p \in Pos, NEW i \in Pos PROVE Offset(p, i) \in Nat
  BY ShmAssumption DEF Offset, Pos

\* Advancing the write position adds bytes at the end.
LEMMA WriteMoves ==
  ASSUME NEW wp \in Pos, NEW rp \in Pos, NEW l \in Pos, l <= Free(wp, rp),
         NEW new, new = (wp + l) % N
  PROVE  /\ new \in Pos /\ Unread(new, rp) = Unread(wp, rp) + l
         /\ \A i \in Pos : (Offset(rp, i) < Unread(wp, rp) + l /\ Offset(rp, i) >= Unread(wp, rp))
              => Offset(wp, i) < l /\ Offset(rp, i) = Unread(wp, rp) + Offset(wp, i)
<1>1. new = IF wp + l >= N THEN wp + l - N ELSE wp + l BY ModIs, ShmAssumption DEF Pos
<1>2. new \in Pos BY <1>1, ShmAssumption DEF Pos
<1>3. Unread(new, rp) = Unread(wp, rp) + l BY <1>1, <1>2, ShmAssumption DEF Unread, Free, Pos
<1>4. \A i \in Pos : (Offset(rp, i) < Unread(wp, rp) + l /\ Offset(rp, i) >= Unread(wp, rp))
              => Offset(wp, i) < l /\ Offset(rp, i) = Unread(wp, rp) + Offset(wp, i)
  BY ShmAssumption DEF Unread, Free, Offset, Pos
<1> QED BY Zenon, <1>2, <1>3, <1>4

\* Advancing the read position takes bytes from the front.
LEMMA ReadMoves ==
  ASSUME NEW wp \in Pos, NEW rp \in Pos, NEW l \in Pos, l <= Unread(wp, rp),
         NEW new, new = (rp + l) % N
  PROVE  /\ new \in Pos /\ Unread(wp, new) = Unread(wp, rp) - l /\ Free(wp, new) = Free(wp, rp) + l
         /\ \A i \in Pos : Offset(new, i) < Unread(wp, rp) - l => Offset(rp, i) = Offset(new, i) + l
<1>1. new = IF rp + l >= N THEN rp + l - N ELSE rp + l BY ModIs, ShmAssumption DEF Pos
<1>2. new \in Pos BY <1>1, ShmAssumption DEF Pos
<1>3. Unread(wp, new) = Unread(wp, rp) - l /\ Free(wp, new) = Free(wp, rp) + l
  BY <1>1, <1>2, ShmAssumption DEF Unread, Free, Pos
<1>4. \A i \in Pos : Offset(new, i) < Unread(wp, rp) - l => Offset(rp, i) = Offset(new, i) + l
  BY <1>1, <1>2, ShmAssumption DEF Unread, Offset, Pos
<1> QED BY Zenon, <1>2, <1>3, <1>4

-----------------------------------------------------------------------------
\* A step that moves no position and no byte, and after which each side knows
\* no more than the lengths it has seen, keeps the invariant.
LEMMA QuietKeeps ==
  ASSUME ShmInv, DataSame, w' \in Party, r' \in Party, WriterKnows', ReaderKnows'
  PROVE  ShmInv'
  BY Zenon DEF ShmInv, DataSame, ShmTypes, RingExact, Unread, Offset

\* Writer steps that leave the header and the bytes alone
LEMMA WriterQuiet ==
  ASSUME ShmInv, DataSame, w' \in Party, UNCHANGED r,
         w'.pc \in Inside => w'.pos = wpos /\ w'.len >= 1,
         w'.pc = "copy" => Free(wpos, rpos) >= w'.len,
         w'.pc # "store"
  PROVE  ShmInv'
<1>1. WriterKnows' BY Zenon DEF WriterKnows, DataSame, Free
<1>2. ReaderKnows' BY Zenon DEF ShmInv, ReaderKnows, DataSame, Unread
<1>3. r' \in Party BY Zenon DEF ShmInv, ShmTypes
<1> QED BY Zenon, <1>1, <1>2, <1>3, QuietKeeps

\* Reader steps of the same kind
LEMMA ReaderQuiet ==
  ASSUME ShmInv, DataSame, r' \in Party, UNCHANGED w,
         r'.pc \in Inside => r'.pos = rpos /\ r'.len >= 1,
         r'.pc \in {"copy", "store"} => Unread(wpos, rpos) >= r'.len
  PROVE  ShmInv'
<1>1. ReaderKnows' BY Zenon DEF ReaderKnows, DataSame, Unread
<1>2. WriterKnows' BY Zenon DEF ShmInv, WriterKnows, DataSame, Free, Offset
<1>3. w' \in Party BY Zenon DEF ShmInv, ShmTypes
<1> QED BY Zenon, <1>1, <1>2, <1>3, QuietKeeps

LEMMA WriterSteps ==
  ASSUME ShmInv, \/ WLook \/ WWait \/ WSleep \/ WAwake \/ \E len \in Lens : WCall(len)
  PROVE  ShmInv'
<1> USE DEF ShmInv, ShmTypes, WriterKnows
<1>1. CASE WLook
  <2>1. w' \in Party BY Zenon, <1>1 DEF WLook, Writer, Party, Pcs
  <2> QED BY Zenon, <1>1, <2>1, WriterQuiet DEF WLook, Writer, Inside, Party
<1>2. CASE WWait
  <2>1. w' \in Party BY Zenon, <1>2 DEF WWait, Writer, Party, Pcs
  <2> QED BY Zenon, <1>2, <2>1, WriterQuiet DEF WWait, Writer, Inside, Party
<1>3. CASE WSleep
  <2>1. w' \in Party BY Zenon, <1>3 DEF WSleep, Writer, Party, Pcs
  <2> QED BY Zenon, <1>3, <2>1, WriterQuiet DEF WSleep, Writer, Inside, Party
<1>4. CASE WAwake
  <2>1. w' \in Party BY Zenon, <1>4 DEF WAwake, Writer, Party, Pcs
  <2> QED BY Zenon, <1>4, <2>1, WriterQuiet DEF WAwake, Writer, Inside, Party
<1>5. ASSUME NEW len \in Lens, WCall(len) PROVE ShmInv'
  <2>1. len \in Pos /\ len >= 1 BY ShmAssumption DEF Pos
  <2>2. w' \in Party BY Zenon, <1>5, <2>1 DEF WCall, Party, Pcs
  <2> QED BY Zenon, <1>5, <2>1, <2>2, WriterQuiet DEF WCall
<1> QED BY Zenon, <1>1, <1>2, <1>3, <1>4, <1>5

LEMMA ReaderSteps ==
  ASSUME ShmInv, \/ RLook \/ RCopy \/ RWait \/ RSleep \/ RAwake \/ AttachSize \/ AttachCheck
                 \/ \E len \in Lens : RCall(len)
  PROVE  ShmInv'
<1> USE DEF ShmInv, ShmTypes, ReaderKnows
<1>1. CASE RLook
  <2>1. r' \in Party BY Zenon, <1>1 DEF RLook, Reader, Party, Pcs
  <2> QED BY Zenon, <1>1, <2>1, ReaderQuiet DEF RLook, Reader, Inside, Party
<1>2. CASE RCopy
  <2>1. r' \in Party BY Zenon, <1>2 DEF RCopy, Reader, Party, Pcs
  <2> QED BY Zenon, <1>2, <2>1, ReaderQuiet DEF RCopy, Reader, Inside, Party
<1>3. CASE RWait
  <2>1. r' \in Party BY Zenon, <1>3 DEF RWait, Reader, Party, Pcs
  <2> QED BY Zenon, <1>3, <2>1, ReaderQuiet DEF RWait, Reader, Inside, Party
<1>4. CASE RSleep
  <2>1. r' \in Party BY Zenon, <1>4 DEF RSleep, Reader, Party, Pcs
  <2> QED BY Zenon, <1>4, <2>1, ReaderQuiet DEF RSleep, Reader, Inside, Party
<1>5. CASE RAwake
  <2>1. r' \in Party BY Zenon, <1>5 DEF RAwake, Reader, Party, Pcs
  <2> QED BY Zenon, <1>5, <2>1, ReaderQuiet DEF RAwake, Reader, Inside, Party
<1>6. CASE AttachSize
  <2>1. r' \in Party BY Zenon, <1>6 DEF AttachSize, Reader, Party, Pcs
  <2> QED BY Zenon, <1>6, <2>1, ReaderQuiet DEF AttachSize, Reader, Inside, Party
<1>7. CASE AttachCheck
  <2>1. r' \in Party BY Zenon, <1>7 DEF AttachCheck, Reader, Party, Pcs
  <2> QED BY Zenon, <1>7, <2>1, ReaderQuiet DEF AttachCheck, Reader, Inside, Party
<1>8. ASSUME NEW len \in Lens, RCall(len) PROVE ShmInv'
  <2>1. len \in Pos /\ len >= 1 BY ShmAssumption DEF Pos
  <2>2. r' \in Party BY Zenon, <1>8, <2>1 DEF RCall, Party, Pcs
  <2> QED BY Zenon, <1>8, <2>1, <2>2, ReaderQuiet DEF RCall
<1> QED BY Zenon, <1>1, <1>2, <1>3, <1>4, <1>5, <1>6, <1>7, <1>8

\* A wake-up moves the other side from "sleep" to "awake".
LEMMA WakeSteps == ASSUME ShmInv, WWake \/ RWake PROVE ShmInv'
<1> USE DEF ShmInv, ShmTypes
<1>1. CASE WWake
  <2>1. w' \in Party /\ r' \in Party BY Zenon, <1>1 DEF WWake, Writer, Reader, Party, Pcs
  <2>2. WriterKnows' BY Zenon, <1>1 DEF WWake, Writer, WriterKnows, Party, Inside
  <2>3. ReaderKnows' BY Zenon, <1>1 DEF WWake, Reader, ReaderKnows, Party, Inside, DataSame, Unread
  <2> QED BY Zenon, <1>1, <2>1, <2>2, <2>3, QuietKeeps DEF WWake
<1>2. CASE RWake
  <2>1. w' \in Party /\ r' \in Party BY Zenon, <1>2 DEF RWake, Writer, Reader, Party, Pcs
  <2>2. WriterKnows' BY Zenon, <1>2 DEF RWake, Writer, WriterKnows, Party, Inside, DataSame, Free, Offset
  <2>3. ReaderKnows' BY Zenon, <1>2 DEF RWake, Reader, ReaderKnows, Party, Inside
  <2> QED BY Zenon, <1>2, <2>1, <2>2, <2>3, QuietKeeps DEF RWake
<1> QED BY Zenon, <1>1, <1>2

-----------------------------------------------------------------------------

\* The copy goes to free bytes, and leaves the unread ones.
LEMMA CopyKeeps == ASSUME ShmInv, WCopy PROVE ShmInv'
<1> USE DEF ShmInv
<1>1. /\ w.pos = wpos /\ w.len >= 1 /\ w.len \in Pos /\ Free(wpos, rpos) >= w.len
      /\ wpos \in Pos /\ rpos \in Pos /\ written \in Nat /\ taken \in Nat
  BY Zenon DEF WCopy, WriterKnows, Inside, ShmTypes, Party
<1>2. \A i \in Pos : data'[i] = IF Offset(wpos, i) < w.len THEN written + Offset(wpos, i) + 1
                                ELSE data[i]
  BY Zenon, <1>1, SpanIs DEF WCopy, Pos
<1>3. w' \in Party /\ w'.pc = "store" /\ w'.len = w.len /\ w'.pos = w.pos
  BY Zenon DEF WCopy, Writer, ShmTypes, Party, Pcs
<1>4. \A i \in Pos : Offset(wpos, i) \in Nat BY <1>1, ShmAssumption DEF Offset, Pos
<1>5. data' \in [Pos -> Nat]
  <2>1. \A i \in Pos : data'[i] \in Nat BY <1>1, <1>2, <1>4 DEF ShmTypes
  <2>2. data' = [i \in Pos |-> data'[i]] BY Zenon DEF WCopy, Pos
  <2> QED BY Zenon, <2>1, <2>2
<1>6. ShmTypes' BY Zenon, <1>3, <1>5 DEF WCopy, ShmTypes
<1>7. WriterKnows'
  BY Zenon, <1>1, <1>2, <1>3 DEF WCopy, WriterKnows, Free, Offset
<1>8. ReaderKnows' BY Zenon DEF WCopy, ReaderKnows, Unread
<1>9. RingExact'
  <2>1. SUFFICES ASSUME NEW i \in Pos, Offset(rpos, i) < written - taken
                 PROVE  data'[i] = taken + Offset(rpos, i) + 1
    BY Zenon DEF RingExact, WCopy, Unread, Offset, Pos
  <2>2. Offset(wpos, i) > Free(wpos, rpos) BY Zenon, <1>1, <2>1, Apart DEF RingExact
  <2>3. ~(Offset(wpos, i) < w.len)
    <3>1. Free(wpos, rpos) \in Nat BY Zenon, <1>1, Sizes
    <3>2. w.len \in Nat BY <1>1, ShmAssumption DEF Pos
    <3>3. Offset(wpos, i) \in Nat BY Zenon, <1>4
    <3> QED BY <1>1, <2>2, <3>1, <3>2, <3>3
  <2>4. data[i] = taken + Offset(rpos, i) + 1 BY Zenon, <2>1 DEF RingExact, Pos
  <2> QED BY Zenon, <1>2, <2>3, <2>4
<1> QED BY Zenon, <1>6, <1>7, <1>8, <1>9

\* The store adds the bytes that were copied.
LEMMA WStoreKeeps == ASSUME ShmInv, WStore PROVE ShmInv'
<1> USE DEF ShmInv
<1>1. /\ w.pos = wpos /\ w.len \in Pos /\ w.len \in Nat /\ Free(wpos, rpos) >= w.len
      /\ wpos \in Pos /\ rpos \in Pos /\ written \in Nat /\ taken \in Nat
  BY ShmAssumption DEF WStore, WriterKnows, Inside, ShmTypes, Party, Pos
<1>a. w.len <= Free(wpos, rpos) /\ Unread(wpos, rpos) \in Nat /\ wpos' = (wpos + w.len) % N
  BY Zenon, <1>1, Sizes DEF WStore
<1>2. /\ wpos' \in Pos /\ Unread(wpos', rpos) = Unread(wpos, rpos) + w.len
      /\ \A i \in Pos : (Offset(rpos, i) < Unread(wpos, rpos) + w.len /\ Offset(rpos, i) >= Unread(wpos, rpos))
              => Offset(wpos, i) < w.len /\ Offset(rpos, i) = Unread(wpos, rpos) + Offset(wpos, i)
  BY <1>1, <1>a, WriteMoves
<1>3. written' = written + w.len /\ written' \in Nat BY <1>1, ShmAssumption DEF WStore, Pos
<1>4. w' \in Party /\ w'.pc = "wake" BY Zenon DEF WStore, Writer, ShmTypes, Party, Pcs
<1>5. ShmTypes' BY Zenon, <1>2, <1>3, <1>4 DEF WStore, ShmTypes
<1>6. WriterKnows' BY Zenon, <1>4 DEF WriterKnows, Inside
<1>7. ReaderKnows'
  <2>1. Unread(wpos', rpos) >= Unread(wpos, rpos) BY <1>1, <1>a, <1>2
  <2>2. r' = r /\ rpos' = rpos /\ r.len \in Pos BY Zenon DEF WStore, ShmTypes, Party
  <2>3. Unread(wpos', rpos) \in Pos /\ Unread(wpos, rpos) \in Pos BY Zenon, <1>1, <1>2, Sizes
  <2> DEFINE before == Unread(wpos, rpos)
             after == Unread(wpos', rpos)
  <2>4. Unread(wpos, rpos)' = after BY Zenon, <2>2 DEF Unread
  <2> HIDE DEF before, after
  <2> QED BY <2>1, <2>2, <2>3, <2>4, ShmAssumption DEF ReaderKnows, before, after, Pos
<1>8. RingExact'
  <2>1. written' - taken = Unread(wpos', rpos)
    BY <1>1, <1>a, <1>2, <1>3 DEF RingExact
  <2>2. ASSUME NEW i \in Pos, Offset(rpos, i) < written' - taken
        PROVE  data[i] = taken + Offset(rpos, i) + 1
    <3>0. Offset(rpos, i) \in Nat /\ Offset(wpos, i) \in Nat /\ Unread(wpos, rpos) \in Nat
      BY Zenon, <1>1, <1>a, Offsets
    <3>1. CASE Offset(rpos, i) < written - taken BY Zenon, <3>1 DEF RingExact, Pos
    <3>2. CASE ~(Offset(rpos, i) < written - taken)
      <4>1. written - taken = Unread(wpos, rpos) BY Zenon DEF RingExact
      <4>2. Offset(wpos, i) < w.len /\ Offset(rpos, i) = Unread(wpos, rpos) + Offset(wpos, i)
        BY <1>1, <1>2, <1>3, <2>1, <2>2, <3>0, <3>2, <4>1 DEF Pos
      <4>3. data[i] = written + Offset(wpos, i) + 1 BY Zenon, <4>2 DEF WStore, WriterKnows
      <4> QED BY <1>1, <3>0, <4>1, <4>2, <4>3
    <3> QED BY Zenon, <3>1, <3>2
  <2>3. data' = data /\ taken' = taken /\ rpos' = rpos BY Zenon DEF WStore
  <2> QED BY Zenon, <2>1, <2>2, <2>3 DEF RingExact, Unread, Offset, Pos
<1> QED BY Zenon, <1>5, <1>6, <1>7, <1>8

\* The reader's store gives up the bytes at the front.
LEMMA RStoreKeeps == ASSUME ShmInv, RStore PROVE ShmInv'
<1> USE DEF ShmInv
<1>1. /\ r.pos = rpos /\ r.len \in Pos /\ r.len \in Nat /\ Unread(wpos, rpos) >= r.len
      /\ wpos \in Pos /\ rpos \in Pos /\ written \in Nat /\ taken \in Nat
  BY ShmAssumption DEF RStore, ReaderKnows, Inside, ShmTypes, Party, Pos
<1>a. r.len <= Unread(wpos, rpos) /\ Unread(wpos, rpos) \in Nat /\ Free(wpos, rpos) \in Nat
      /\ rpos' = (rpos + r.len) % N
  BY Zenon, <1>1, Sizes DEF RStore
<1>2. /\ rpos' \in Pos /\ Unread(wpos, rpos') = Unread(wpos, rpos) - r.len
      /\ Free(wpos, rpos') = Free(wpos, rpos) + r.len
      /\ \A i \in Pos : Offset(rpos', i) < Unread(wpos, rpos) - r.len => Offset(rpos, i) = Offset(rpos', i) + r.len
  BY <1>1, <1>a, ReadMoves
<1>3. taken' = taken + r.len /\ taken' \in Nat BY <1>1, ShmAssumption DEF RStore, Pos
<1>4. r' \in Party /\ r'.pc = "wake" BY Zenon DEF RStore, Reader, ShmTypes, Party, Pcs
<1>5. ShmTypes' BY Zenon, <1>2, <1>3, <1>4 DEF RStore, ShmTypes
<1>6. ReaderKnows' BY Zenon, <1>4 DEF ReaderKnows, Inside
<1>7. WriterKnows'
  <2>1. Free(wpos, rpos') >= Free(wpos, rpos) BY <1>1, <1>a, <1>2
  <2>2. w' = w /\ wpos' = wpos /\ data' = data /\ written' = written /\ w.len \in Pos
    BY Zenon DEF RStore, ShmTypes, Party
  <2>3. Free(wpos, rpos') \in Pos /\ Free(wpos, rpos) \in Pos BY Zenon, <1>1, <1>2, Sizes
  <2>4. Free(wpos, rpos)' = Free(wpos, rpos') BY Zenon, <2>2 DEF Free
  <2>5. w.pc \in {"copy", "store"} => Free(wpos, rpos') >= w.len
    BY <2>1, <2>2, <2>3, ShmAssumption DEF WriterKnows, Pos
  <2> QED BY Zenon, <2>2, <2>4, <2>5 DEF WriterKnows, Offset
<1>8. RingExact'
  <2>1. written - taken' = Unread(wpos, rpos')
    BY <1>1, <1>a, <1>2, <1>3 DEF RingExact
  <2>2. ASSUME NEW i \in Pos, Offset(rpos', i) < written - taken'
        PROVE  data[i] = taken' + Offset(rpos', i) + 1
    <3>0. Offset(rpos, i) \in Nat /\ Offset(rpos', i) \in Nat /\ Unread(wpos, rpos) \in Nat
      BY Zenon, <1>1, <1>a, <1>2, Offsets
    <3>1. Offset(rpos, i) = Offset(rpos', i) + r.len BY Zenon, <1>2, <2>1, <2>2
    <3>2. Offset(rpos, i) < written - taken BY <1>1, <1>3, <2>2, <3>0, <3>1 DEF Pos
    <3>3. data[i] = taken + Offset(rpos, i) + 1 BY Zenon, <3>2 DEF RingExact, Pos
    <3> QED BY <1>1, <1>3, <3>0, <3>1, <3>3 DEF Pos
  <2>3. data' = data /\ written' = written /\ wpos' = wpos BY Zenon DEF RStore
  <2> QED BY Zenon, <2>1, <2>2, <2>3 DEF RingExact, Unread, Offset, Pos
<1> QED BY Zenon, <1>5, <1>6, <1>7, <1>8

\* The ring hands on the byte stream: what is between the positions is what
\* was written and not yet read, in order, copies never overlap, and two ends
\* that ask for no more than the size together never wait for one another.
THEOREM ShmStream == ShmSpec => []ShmExact
<1>1. ShmInit => ShmInv
  BY ShmAssumption DEF ShmInit, ShmInv, ShmTypes, WriterKnows, ReaderKnows, RingExact, Party, Pcs,
       Pos, Unread, Free, Offset, Inside
<1>2. ShmInv /\ [ShmNext]_shmVars => ShmInv'
  <2> SUFFICES ASSUME ShmInv, [ShmNext]_shmVars PROVE ShmInv' BY Zenon
  <2>1. CASE ShmCreate
    BY Zenon, <2>1 DEF ShmCreate, ShmInv, ShmTypes, WriterKnows, ReaderKnows, RingExact, Unread, Free, Offset
  <2>2. CASE UNCHANGED shmVars
    BY Zenon, <2>2 DEF shmVars, ShmInv, ShmTypes, WriterKnows, ReaderKnows, RingExact, Unread, Free, Offset
  <2> QED BY Zenon, <2>1, <2>2, WriterSteps, ReaderSteps, WakeSteps, CopyKeeps, WStoreKeeps, RStoreKeeps
           DEF ShmNext, ShmWriter, ShmReader
<1>3. ShmInv => RingExact /\ CopiesApart
  <2> SUFFICES ASSUME ShmInv, w.pc = "copy", r.pc \in {"copy", "store"},
                      NEW i \in Span(w.pos, w.len), i \in Span(r.pos, r.len)
               PROVE  FALSE
    BY Zenon DEF ShmInv, CopiesApart
  <2>1. /\ w.pos = wpos /\ r.pos = rpos /\ w.len \in Pos /\ r.len \in Pos /\ wpos \in Pos /\ rpos \in Pos
        /\ Free(wpos, rpos) >= w.len /\ Unread(wpos, rpos) >= r.len
    BY Zenon DEF ShmInv, ShmTypes, WriterKnows, ReaderKnows, Inside, Party
  <2>2. i \in Pos
    <3>1. PICK k \in 0 .. w.len - 1 : i = (w.pos + k) % N
      BY Zenon DEF Span
    <3> QED
      BY <2>1, <3>1, ShmAssumption DEF Pos
  <2>3. Offset(wpos, i) < w.len /\ Offset(rpos, i) < r.len BY Zenon, <2>1, <2>2, SpanIs
  <2>4. Offset(wpos, i) \in Nat /\ Offset(rpos, i) \in Nat BY <2>1, <2>2, ShmAssumption DEF Offset, Pos
  <2>5. Unread(wpos, rpos) \in Nat /\ Free(wpos, rpos) \in Nat /\ w.len \in Nat /\ r.len \in Nat
    BY <2>1, Sizes, ShmAssumption DEF Pos
  <2>6. Offset(rpos, i) < Unread(wpos, rpos) BY <2>1, <2>3, <2>4, <2>5
  <2>7. Offset(wpos, i) > Free(wpos, rpos) BY Zenon, <2>1, <2>2, <2>6, Apart
  <2> QED BY <2>1, <2>3, <2>4, <2>5, <2>7
<1>4. ShmInv => SomeoneCanGo
  <2> SUFFICES ASSUME ShmInv, w.len + r.len <= N
               PROVE  Free(wpos, rpos) >= w.len \/ Unread(wpos, rpos) >= r.len
    BY Zenon DEF SomeoneCanGo
  <2>1. wpos \in Pos /\ rpos \in Pos /\ w.len \in Nat /\ r.len \in Nat
    BY ShmAssumption DEF ShmInv, ShmTypes, Party, Pos
  <2>2. Unread(wpos, rpos) + Free(wpos, rpos) = N - 1
    BY Zenon, <2>1, Sizes
  <2>3. Unread(wpos, rpos) \in Nat /\ Free(wpos, rpos) \in Nat
    BY Zenon, <2>1, Sizes
  <2> QED BY <2>1, <2>2, <2>3, ShmAssumption
<1>5. ShmInv => ShmExact
  BY Zenon, <1>3, <1>4 DEF ShmExact
<1> QED BY <1>1, <1>2, <1>5, PTL DEF ShmSpec

-----------------------------------------------------------------------------
(* The rings in shared memory: distances.  Positions are compared by their *)
(* distance around the ring, which turns the modulus into linear           *)
(* arithmetic.                                                             *)

Ring == 0 .. SLOTS - 1
Dist(c, x) == IF x >= c THEN x - c ELSE x + SLOTS - c
Cells == [ready : BOOLEAN, a : Nat, b : Nat]

LEMMA Next1Is ==
  ASSUME NEW i \in Ring
  PROVE  Next1(i) = (IF i + 1 = SLOTS THEN 0 ELSE i + 1) /\ Next1(i) \in Ring
<1>1. (i + 1) % SLOTS = IF i + 1 = SLOTS THEN 0 ELSE i + 1
  BY BdeAssumption DEF Ring
<1> QED
  BY <1>1, BdeAssumption DEF Ring, Next1

LEMMA DistIs ==
  ASSUME NEW c \in Ring, NEW x \in Ring
  PROVE  /\ Dist(c, x) \in Ring /\ Dist(c, x) \in Int /\ (Dist(c, x) = 0 <=> x = c)
         /\ (c + Dist(c, x)) % SLOTS = x
<1>1. Dist(c, x) \in Ring /\ Dist(c, x) \in Int /\ (Dist(c, x) = 0 <=> x = c)
  BY BdeAssumption DEF Ring, Dist
<1>2. c + Dist(c, x) = IF x >= c THEN x ELSE x + SLOTS
  BY BdeAssumption DEF Ring, Dist
<1>3. x % SLOTS = x /\ (x + SLOTS) % SLOTS = x
  BY BdeAssumption DEF Ring
<1> QED
  BY <1>1, <1>2, <1>3

\* The start moves on by one.
LEMMA DistTail ==
  ASSUME NEW c \in Ring, NEW x \in Ring
  PROVE  Dist(Next1(c), x) = IF x = c THEN SLOTS - 1 ELSE Dist(c, x) - 1
BY Next1Is, BdeAssumption DEF Ring, Dist

\* The end moves on by one.
LEMMA DistHead ==
  ASSUME NEW c \in Ring, NEW x \in Ring
  PROVE  /\ Next1(x) = c <=> Dist(c, x) = SLOTS - 1
         /\ Next1(x) # c => Dist(c, Next1(x)) = Dist(c, x) + 1
BY Next1Is, BdeAssumption DEF Ring, Dist

LEMMA DistOne ==
  ASSUME NEW c \in Ring, NEW x \in Ring, NEW y \in Ring, Dist(c, x) = Dist(c, y)
  PROVE  x = y
BY BdeAssumption DEF Ring, Dist

LEMMA UsedIs ==
  ASSUME head \in Ring, tail \in Ring
  PROVE  Used = Dist(tail, head)
<1>1. \A k \in Ring : k % SLOTS = k /\ (k + SLOTS) % SLOTS = k
  BY BdeAssumption DEF Ring
<1>2. CASE head >= tail
  <2>1. head - tail \in Ring /\ head + SLOTS - tail = (head - tail) + SLOTS
    BY <1>2, BdeAssumption DEF Ring
  <2> QED
    BY <1>1, <1>2, <2>1 DEF Used, Dist
<1>3. CASE ~(head >= tail)
  <2>1. head + SLOTS - tail \in Ring
    BY <1>3, BdeAssumption DEF Ring
  <2> QED
    BY <1>1, <1>3, <2>1 DEF Used, Dist
<1> QED
  BY Zenon, <1>2, <1>3

\* The slot of the i-th message in the ring
LEMMA ContentIs ==
  ASSUME NEW c \in Ring, NEW i \in Nat, i >= 1, i <= SLOTS
  PROVE  (c + i - 1) % SLOTS \in Ring /\ Dist(c, (c + i - 1) % SLOTS) = i - 1
<1>1. \A k \in Ring : k % SLOTS = k /\ (k + SLOTS) % SLOTS = k
  BY BdeAssumption DEF Ring
<1>2. CASE c + i - 1 < SLOTS
  <2>1. c + i - 1 \in Ring
    BY <1>2, BdeAssumption DEF Ring
  <2>2. (c + i - 1) % SLOTS = c + i - 1
    BY <1>1, <2>1
  <2> QED
    BY <1>2, <2>1, <2>2, BdeAssumption DEF Ring, Dist
<1>3. CASE ~(c + i - 1 < SLOTS)
  <2>1. c + i - 1 - SLOTS \in Ring /\ c + i - 1 = (c + i - 1 - SLOTS) + SLOTS
    BY <1>3, BdeAssumption DEF Ring
  <2>2. (c + i - 1) % SLOTS = c + i - 1 - SLOTS
    BY <1>1, <2>1
  <2> QED
    BY <1>3, <2>1, <2>2, BdeAssumption DEF Ring, Dist
<1> QED
  BY Zenon, <1>2, <1>3

-----------------------------------------------------------------------------
(* The rings in shared memory: the inductive invariant.                    *)

BdTypes ==
  /\ side \in {"rx", "tx"} /\ head \in Ring /\ tail \in Ring /\ slots \in [Ring -> Cells]
  /\ issued \in Nat /\ handed \in Seq(Nat \X Nat) /\ moved \in Nat
  /\ kernel \in [at : {"rest", "drop", "header", "data", "publish"}, head : Ring]
  /\ user \in [at : {"rest", "first", "second", "clear", "advance"}, tail : Ring,
               a : Nat, b : Nat]
  /\ sender \in [Senders -> [at : {"rest", "fill", "publish", "notify", "process"},
                             head : Ring, m : Nat, tail : Ring, upto : Ring]]
  /\ overrun \in BOOLEAN /\ raced \in BOOLEAN /\ unsaid \in BOOLEAN

\* A behaviour is about one of the rings.
OneSide ==
  /\ side = "rx" => \A t \in Senders : sender[t].at = "rest"
  /\ side = "tx" => kernel.at = "rest" /\ user.at = "rest"
  /\ kernel.at # "rest" => kernel.head = head /\ issued >= 1

\* The n slots from c on hold the messages lo, lo + 1, ...; they are ready,
\* except the first where a reader is about to release it.
Copies(c, n, lo, sl) ==
  \A x \in Ring : Dist(c, x) < n => sl[x].a = lo + Dist(c, x) /\ sl[x].b = lo + Dist(c, x)
Ready(c, n, sl, released) ==
  \A x \in Ring : Dist(c, x) < n => sl[x].ready \/ (released /\ x = c)

\* Messages were handed over whole and in order, and none after hi.
GotOk(g, hi) ==
  /\ \A i \in 1 .. Len(g) : g[i][1] = g[i][2] /\ g[i][1] <= hi
  /\ \A i, j \in 1 .. Len(g) : i < j => g[i][1] < g[j][1]

\* The oldest message a reader has not been given
First == Newest - Dist(tail, head) + 1 - (IF user.at = "rest" THEN 0 ELSE moved)

\* bde_recv in progress, on that message
Receiving ==
  /\ \/ moved = 0 /\ tail = user.tail /\ head # tail
     \/ moved = 1 /\ tail = Next1(user.tail)
  /\ slots[user.tail].a = First /\ slots[user.tail].b = First
  /\ user.at \in {"second", "clear", "advance"} => user.a = First
  /\ user.at \in {"clear", "advance"} => user.b = First

\* qdhcp_bde_queue_rx in progress
Queueing ==
  /\ kernel.at \in {"header", "data", "publish"} => Dist(tail, head) <= SLOTS - 2
  /\ kernel.at \in {"data", "publish"} => slots[head].ready /\ slots[head].a = issued
  /\ kernel.at = "publish" => slots[head].b = issued

RxInv ==
  side = "rx" /\ ~overrun =>
    /\ Copies(tail, Dist(tail, head), Newest - Dist(tail, head) + 1, slots)
    /\ Ready(tail, Dist(tail, head), slots, user.at = "advance" /\ moved = 0)
    /\ Queueing
    /\ user.at # "rest" => Receiving
    /\ GotOk(handed, First - 1)

\* The messages after the ones handled are in the slots from c to the head.
Waiting(c) ==
  /\ Copies(c, Dist(c, head), Len(handed) + 1, slots)
  /\ Ready(c, Dist(c, head), slots, FALSE)

Sending(t) ==
  /\ sender[t].at \in {"fill", "publish"} =>
       /\ sender[t].head = head /\ sender[t].m = issued /\ Dist(tail, head) <= SLOTS - 2
       /\ issued = Len(handed) + Dist(tail, head) + 1
  /\ sender[t].at = "publish" => slots[head] = [ready |-> TRUE, a |-> issued, b |-> issued]
  /\ sender[t].at = "notify" => issued = Len(handed) + Dist(tail, head)
  /\ sender[t].at = "process" => /\ sender[t].upto = head /\ Waiting(sender[t].tail)
                                 /\ issued = Len(handed) + Dist(sender[t].tail, head)

TxInv ==
  side = "tx" /\ ~raced =>
    /\ \A i \in 1 .. Len(handed) : handed[i] = <<i, i>>
    /\ \A t, v \in Senders : t # v => sender[t].at = "rest" \/ sender[v].at = "rest"
    /\ \A t \in Senders : Sending(t)
    /\ (\A t \in Senders : sender[t].at # "process") => Waiting(tail)
    /\ (\A t \in Senders : sender[t].at = "rest") =>
          issued = Len(handed) + Dist(tail, head) /\ (~unsaid => head = tail)

BdInv == BdTypes /\ OneSide /\ RxInv /\ TxInv

-----------------------------------------------------------------------------
(* The rings in shared memory: every step keeps the invariant.             *)

LEMMA GotAppend ==
  ASSUME NEW g \in Seq(Nat \X Nat), NEW f \in Nat, GotOk(g, f - 1)
  PROVE  GotOk(Append(g, <<f, f>>), f) /\ Append(g, <<f, f>>) \in Seq(Nat \X Nat)
<1> DEFINE z == Append(g, <<f, f>>)
<1>1. <<f, f>> \in Nat \X Nat /\ <<f, f>>[1] = f /\ <<f, f>>[2] = f
  OBVIOUS
<1>2. /\ z \in Seq(Nat \X Nat) /\ Len(g) \in Nat /\ Len(z) = Len(g) + 1
      /\ z[Len(g) + 1] = <<f, f>> /\ \A i \in 1 .. Len(g) : z[i] = g[i] /\ g[i] \in Nat \X Nat
  BY <1>1
<1> HIDE DEF z
<1>3. \A i \in 1 .. Len(g) : z[i][1] \in Nat
  BY Zenon, <1>2
<1>4. \A i \in 1 .. Len(g) : z[i][1] = z[i][2] /\ z[i][1] <= f - 1
  BY Zenon, <1>2 DEF GotOk
<1>5. z[Len(g) + 1][1] = f /\ z[Len(g) + 1][2] = f
  BY Zenon, <1>1, <1>2
<1>6. \A i \in 1 .. Len(z) : i \in 1 .. Len(g) \/ i = Len(g) + 1
  BY <1>2
<1>7. \A i \in 1 .. Len(z) : z[i][1] = z[i][2] /\ z[i][1] <= f
  <2>1. \A y \in Nat : y <= f - 1 => y <= f
    OBVIOUS
  <2>2. f <= f
    OBVIOUS
  <2>3. \A i \in 1 .. Len(g) : z[i][1] <= f
    BY Zenon, <1>3, <1>4, <2>1
  <2> QED
    BY Zenon, <1>4, <1>5, <1>6, <2>2, <2>3
<1>8. ASSUME NEW i \in 1 .. Len(z), NEW j \in 1 .. Len(z), i < j PROVE z[i][1] < z[j][1]
  <2>1. i \in 1 .. Len(g)
    BY <1>2, <1>8
  <2>2. CASE j \in 1 .. Len(g)
    BY Zenon, <1>2, <1>8, <2>1, <2>2 DEF GotOk
  <2>3. CASE j = Len(g) + 1
    <3>1. z[i][1] \in Nat /\ z[i][1] <= f - 1 /\ z[j][1] = f
      BY Zenon, <1>3, <1>4, <1>5, <2>1, <2>3
    <3> QED
      BY <3>1
  <2> QED
    BY Zenon, <1>6, <2>2, <2>3
<1> QED
  BY Zenon, <1>2, <1>7, <1>8 DEF GotOk, z

LEMMA GotLater ==
  ASSUME NEW g \in Seq(Nat \X Nat), NEW h \in Int, NEW k \in Int, GotOk(g, h), h <= k
  PROVE  GotOk(g, k)
<1>1. \A i \in 1 .. Len(g) : g[i] \in Nat \X Nat
  OBVIOUS
<1>2. \A i \in 1 .. Len(g) : g[i][1] \in Nat
  BY <1>1
<1>3. \A i \in 1 .. Len(g) : g[i][1] <= h => g[i][1] <= k
  BY <1>2
<1> QED
  BY Zenon, <1>3 DEF GotOk

LEMMA BdInit == BDInit => BdInv
<1> SUFFICES ASSUME BDInit PROVE BdInv
  OBVIOUS
<1>1. /\ side \in {"rx", "tx"} /\ head = 0 /\ tail = 0 /\ slots = [i \in Ring |-> Empty]
      /\ kernel = KRest /\ user = URest /\ issued = 0 /\ handed = <<>> /\ moved = 0
      /\ overrun = FALSE /\ sender = [t \in Senders |-> SRest] /\ raced = FALSE
      /\ unsaid = FALSE
  BY Zenon DEF BDInit, Ring
<1>2. 0 \in Ring /\ Empty \in Cells
  BY BdeAssumption DEF Ring, Empty, Cells
<1>3. /\ KRest \in [at : {"rest", "drop", "header", "data", "publish"}, head : Ring]
      /\ URest \in [at : {"rest", "first", "second", "clear", "advance"}, tail : Ring,
                    a : Nat, b : Nat]
      /\ SRest \in [at : {"rest", "fill", "publish", "notify", "process"},
                    head : Ring, m : Nat, tail : Ring, upto : Ring]
      /\ KRest.at = "rest" /\ URest.at = "rest" /\ SRest.at = "rest"
  BY <1>2 DEF KRest, URest, SRest
<1>4. BdTypes
  <2>1. slots \in [Ring -> Cells]
    BY Zenon, <1>1, <1>2
  <2>2. sender \in [Senders -> [at : {"rest", "fill", "publish", "notify", "process"},
                                head : Ring, m : Nat, tail : Ring, upto : Ring]]
    BY Zenon, <1>1, <1>3
  <2>3. handed \in Seq(Nat \X Nat) /\ issued \in Nat /\ moved \in Nat
    BY <1>1
  <2> QED
    BY Zenon, <1>1, <1>2, <1>3, <2>1, <2>2, <2>3 DEF BdTypes
<1>5. /\ kernel.at = "rest" /\ user.at = "rest" /\ \A t \in Senders : sender[t].at = "rest"
  BY Zenon, <1>1, <1>3
<1>6. OneSide
  BY Zenon, <1>5 DEF OneSide
<1>7. Dist(tail, head) = 0 /\ Dist(0, 0) = 0 /\ Len(handed) = 0
  BY <1>1, BdeAssumption DEF Dist
<1>8. \A x \in Ring : ~(Dist(tail, x) < 0)
  BY <1>1, <1>2, DistIs DEF Ring
<1>9. \A lo, v : Copies(tail, 0, lo, slots) /\ Ready(tail, 0, slots, v)
  BY Zenon, <1>8 DEF Copies, Ready
<1>10. Queueing
  BY <1>5 DEF Queueing
<1>11. \A h : GotOk(handed, h)
  BY <1>7 DEF GotOk
<1>12. RxInv
  BY Zenon, <1>5, <1>7, <1>9, <1>10, <1>11 DEF RxInv
<1>13. \A t \in Senders : Sending(t)
  BY <1>5 DEF Sending
<1>14. TxInv
  <2>1. \A i \in 1 .. Len(handed) : FALSE
    BY <1>7
  <2>2. issued = Len(handed) + Dist(tail, head) /\ head = tail
    BY <1>1, <1>7
  <2> QED
    BY Zenon, <1>5, <1>7, <1>9, <1>13, <2>1, <2>2 DEF TxInv, Waiting
<1> QED
  BY Zenon, <1>4, <1>6, <1>12, <1>14 DEF BdInv

\* What the steps of the receive ring share
LEMMA RxParts ==
  ASSUME BdInv, ~overrun, side = "rx"
  PROVE  /\ Dist(tail, head) \in Ring /\ Newest \in Int /\ First \in Int
         /\ Copies(tail, Dist(tail, head), Newest - Dist(tail, head) + 1, slots)
         /\ Ready(tail, Dist(tail, head), slots, user.at = "advance" /\ moved = 0)
         /\ Queueing
         /\ user.at # "rest" => Receiving
         /\ GotOk(handed, First - 1)
<1>1. head \in Ring /\ tail \in Ring /\ issued \in Nat /\ moved \in Nat
  BY Zenon DEF BdInv, BdTypes
<1>2. Dist(tail, head) \in Ring /\ Dist(tail, head) \in Int
  BY Zenon, <1>1, DistIs
<1>3. Newest \in Int /\ First \in Int
  BY <1>1, <1>2 DEF Newest, First
<1> QED
  BY Zenon, <1>2, <1>3 DEF BdInv, RxInv

\* The slot bde_recv reads is not the one the kernel is filling.
LEMMA ReadNotHead ==
  ASSUME BdInv, ~overrun, side = "rx", user.at # "rest", Dist(tail, head) <= SLOTS - 2
  PROVE  user.tail # head
<1>1. head \in Ring /\ tail \in Ring
  BY Zenon DEF BdInv, BdTypes
<1>2. (tail = user.tail /\ head # tail) \/ tail = Next1(user.tail)
  BY Zenon, RxParts DEF Receiving
<1>3. CASE tail = user.tail /\ head # tail
  BY Zenon, <1>3
<1>4. CASE tail = Next1(user.tail)
  <2>1. Dist(tail, head) # SLOTS - 1
    BY <1>1, DistIs, BdeAssumption DEF Ring
  <2> QED
    BY Zenon, <1>1, <1>4, <2>1, DistHead
<1> QED
  BY Zenon, <1>2, <1>3, <1>4

\* The slots outside the ring may change.
LEMMA Outside ==
  ASSUME NEW c \in Ring, NEW n \in Int, NEW lo, NEW sl, NEW s2, NEW v,
         \A x \in Ring : Dist(c, x) < n => s2[x] = sl[x]
  PROVE  /\ Copies(c, n, lo, sl) => Copies(c, n, lo, s2)
         /\ Ready(c, n, sl, v) => Ready(c, n, s2, v)
BY Zenon DEF Copies, Ready

\* The first message leaves the ring.
LEMMA FirstLeaves ==
  ASSUME NEW c \in Ring, NEW n \in Ring, n >= 1, NEW lo \in Int, NEW sl, NEW v,
         Copies(c, n, lo, sl), Ready(c, n, sl, v)
  PROVE  Copies(Next1(c), n - 1, lo + 1, sl) /\ \A e : Ready(Next1(c), n - 1, sl, e)
<1>1. ASSUME NEW x \in Ring, Dist(Next1(c), x) < n - 1
      PROVE  x # c /\ Dist(c, x) < n /\ lo + 1 + Dist(Next1(c), x) = lo + Dist(c, x)
  <2>1. Dist(Next1(c), x) = IF x = c THEN SLOTS - 1 ELSE Dist(c, x) - 1
    BY Zenon, DistTail
  <2>2. Dist(c, x) \in Int
    BY Zenon, DistIs
  <2> QED
    BY <1>1, <2>1, <2>2, BdeAssumption DEF Ring
<1> QED
  BY Zenon, <1>1 DEF Copies, Ready

\* A message is added at the end.
LEMMA LastJoins ==
  ASSUME NEW c \in Ring, NEW h \in Ring, Dist(c, h) <= SLOTS - 2, NEW lo \in Int, NEW sl,
         NEW v, Copies(c, Dist(c, h), lo, sl), Ready(c, Dist(c, h), sl, v), sl[h].ready,
         sl[h].a = lo + Dist(c, h), sl[h].b = lo + Dist(c, h)
  PROVE  /\ Next1(h) # c /\ Dist(c, Next1(h)) = Dist(c, h) + 1
         /\ Copies(c, Dist(c, h) + 1, lo, sl) /\ Ready(c, Dist(c, h) + 1, sl, v)
<1>1. Dist(c, h) \in Int /\ Dist(c, h) # SLOTS - 1
  BY DistIs, BdeAssumption DEF Ring
<1>2. ASSUME NEW x \in Ring, Dist(c, x) < Dist(c, h) + 1
      PROVE  Dist(c, x) < Dist(c, h) \/ x = h
  <2>1. Dist(c, x) \in Int
    BY Zenon, DistIs
  <2>2. Dist(c, x) < Dist(c, h) \/ Dist(c, x) = Dist(c, h)
    BY <1>1, <1>2, <2>1
  <2> QED
    BY Zenon, <2>2, DistOne
<1>3. Next1(h) # c /\ Dist(c, Next1(h)) = Dist(c, h) + 1
  BY Zenon, <1>1, DistHead
<1> QED
  BY Zenon, <1>2, <1>3 DEF Copies, Ready

\* A side keeps the other's invariant.
LEMMA RxSide == ASSUME BdInv, kernel.at # "rest" \/ user.at # "rest" PROVE side = "rx"
BY Zenon DEF BdInv, BdTypes, OneSide

LEMMA TxSide ==
  ASSUME BdInv, NEW t \in Senders, sender[t].at # "rest"
  PROVE  side = "tx" /\ kernel.at = "rest" /\ user.at = "rest"
BY Zenon DEF BdInv, BdTypes, OneSide

LEMMA QueueBeginBd ==
  ASSUME BdInv, QueueBegin
  PROVE  BdInv'
<1>1. /\ side = "rx" /\ kernel.at = "rest" /\ issued' = issued + 1
      /\ kernel' = [at |-> IF RxFull THEN "drop" ELSE "header", head |-> head]
      /\ side' = side /\ sender' = sender /\ raced' = raced /\ unsaid' = unsaid
      /\ head' = head /\ tail' = tail /\ slots' = slots /\ user' = user /\ handed' = handed /\ moved' = moved /\ overrun' = overrun
  BY Zenon DEF QueueBegin, txVars
<1>2. side' # "tx"
  BY <1>1
<1>3. BdTypes'
  <2>1. issued' \in Nat /\ kernel' \in [at : {"rest", "drop", "header", "data", "publish"}, head : Ring]
    BY <1>1 DEF BdInv, BdTypes
  <2> QED
    BY Zenon, <1>1, <2>1 DEF BdInv, BdTypes
<1>4. OneSide'
  <2>1. kernel'.head = head /\ issued' >= 1
    BY <1>1 DEF BdInv, BdTypes
  <2> QED
    BY Zenon, <1>1, <1>2, <2>1 DEF BdInv, OneSide
<1>5. RxInv'
  <2> SUFFICES ASSUME ~overrun PROVE RxInv'
    BY Zenon, <1>1 DEF RxInv
  <2>1. kernel'.at # "rest" /\ kernel'.at \in {"drop", "header"}
        /\ (kernel'.at = "header" => ~RxFull)
    BY <1>1
  <2>2. Newest' = Newest /\ First' = First
    <3>1. issued' - 1 = issued
      BY <1>1 DEF BdInv, BdTypes
    <3>2. Newest' = Newest
      BY Zenon, <1>1, <2>1, <3>1 DEF Newest
    <3> QED
      BY Zenon, <1>1, <3>2 DEF First
  <2>3. Queueing'
    <3>1. head \in Ring /\ tail \in Ring
      BY Zenon DEF BdInv, BdTypes
    <3>2. ~RxFull => Dist(tail, head) # SLOTS - 1
      BY Zenon, <3>1, DistHead DEF RxFull
    <3>3. ~RxFull => Dist(tail, head) <= SLOTS - 2
      BY <3>1, <3>2, DistIs, BdeAssumption DEF Ring
    <3>4. "drop" \notin {"header", "data", "publish"} /\ "header" \notin {"data", "publish"}
          /\ "drop" # "publish" /\ "header" # "publish"
      OBVIOUS
    <3> QED
      BY <1>1, <2>1, <3>3 DEF Queueing
  <2>4. user.at # "rest" => Receiving'
    BY Zenon, <1>1, <2>2, RxParts DEF Receiving
  <2> QED
    BY Zenon, <1>1, <2>2, <2>3, <2>4, RxParts DEF RxInv
<1> QED
  BY Zenon, <1>1, <1>2, <1>3, <1>4, <1>5 DEF BdInv, TxInv

\* The oldest message makes room.
LEMMA DropOldestBd ==
  ASSUME BdInv, DropOldest
  PROVE  BdInv'
<1>1. /\ kernel.at = "drop" /\ kernel' = [kernel EXCEPT !.at = "header"] /\ tail' = Next1(tail)
      /\ moved' = (IF user.at # "rest" THEN moved + 1 ELSE moved)
      /\ overrun' = (overrun \/ moved' >= 2 \/ head = tail)
      /\ side' = side /\ sender' = sender /\ raced' = raced /\ unsaid' = unsaid
      /\ head' = head /\ slots' = slots /\ user' = user /\ handed' = handed /\ issued' = issued
  BY Zenon DEF DropOldest, txVars
<1>2. side = "rx" /\ side' # "tx"
  <2>1. kernel.at # "rest"
    BY <1>1
  <2> QED
    BY <1>1, <2>1, RxSide
<1>0. head \in Ring /\ tail \in Ring /\ moved \in Nat
  BY Zenon DEF BdInv, BdTypes
<1>a. kernel'.at = "header" /\ kernel'.head = kernel.head
  BY <1>1 DEF BdInv, BdTypes
<1>3. BdTypes'
  <2>1. tail' \in Ring
    BY Zenon, <1>0, <1>1, Next1Is
  <2>2. kernel' \in [at : {"rest", "drop", "header", "data", "publish"}, head : Ring]
    BY Zenon, <1>1 DEF BdInv, BdTypes
  <2>3. moved' \in Nat /\ overrun' \in BOOLEAN
    BY <1>0, <1>1
  <2> QED
    BY Zenon, <1>1, <2>1, <2>2, <2>3 DEF BdInv, BdTypes
<1>4. OneSide'
  <2>1. kernel.at # "rest"
    BY <1>1
  <2> QED
    BY Zenon, <1>1, <1>2, <1>a, <2>1 DEF BdInv, OneSide
<1>5. RxInv'
  <2> SUFFICES ASSUME ~overrun' PROVE RxInv'
    BY Zenon DEF RxInv
  <2>1. ~overrun /\ head # tail /\ ~(moved' >= 2)
    BY Zenon, <1>1
  <2> DEFINE n == Dist(tail, head)
  <2>2. /\ n \in Ring /\ Newest \in Int /\ First \in Int /\ Copies(tail, n, Newest - n + 1, slots)
        /\ Ready(tail, n, slots, user.at = "advance" /\ moved = 0)
        /\ user.at # "rest" => Receiving
        /\ GotOk(handed, First - 1)
    BY Zenon, <1>2, <2>1, RxParts
  <2>3. n >= 1 /\ Newest - n + 1 \in Int /\ n \in Int
    <3>1. n # 0 /\ n \in Ring /\ Newest \in Int
      BY Zenon, <1>0, <2>1, <2>2, DistIs
    <3> HIDE DEF n
    <3> QED
      BY <3>1, BdeAssumption DEF Ring
  <2>4. Dist(tail', head) = n - 1
    BY Zenon, <1>0, <1>1, <2>1, DistTail
  <2> HIDE DEF n
  <2>5. Copies(tail', n - 1, Newest - n + 1 + 1, slots) /\ \A e : Ready(tail', n - 1, slots, e)
    <3> DEFINE e == user.at = "advance" /\ moved = 0
               lo == Newest - n + 1
    <3>1. Ready(tail, n, slots, e) /\ Copies(tail, n, lo, slots) /\ lo \in Int
      BY Zenon, <2>2, <2>3
    <3> HIDE DEF e, lo
    <3>2. Copies(Next1(tail), n - 1, lo + 1, slots) /\ \A f : Ready(Next1(tail), n - 1, slots, f)
      BY Zenon, <1>0, <2>2, <2>3, <3>1, FirstLeaves
    <3> QED
      BY Zenon, <1>1, <3>2 DEF lo
  <2>6. Newest' = Newest
    BY <1>1, <1>a DEF Newest
  <2>7. Newest - n + 1 + 1 = Newest' - (n - 1) + 1
    <3>1. Newest \in Int
      BY Zenon, <2>2
    <3> QED
      BY <2>3, <2>6, <3>1
  <2>8. user.at # "rest" => moved = 0 /\ moved' = 1 /\ tail = user.tail
    <3>1. user.at # "rest" => moved' = moved + 1
      BY Zenon, <1>1
    <3> QED
      <4>1. user.at # "rest" => (moved = 0 /\ tail = user.tail) \/ moved = 1
        BY Zenon, <2>2 DEF Receiving
      <4> QED
        BY <1>0, <2>1, <3>1, <4>1
  <2>9. First' = (IF user.at = "rest" THEN First + 1 ELSE First)
    <3>1. First = Newest - n + 1 - (IF user.at = "rest" THEN 0 ELSE moved)
      BY Zenon DEF First, n
    <3>2. First' = Newest - (n - 1) + 1 - (IF user.at = "rest" THEN 0 ELSE moved')
      BY Zenon, <1>1, <2>4, <2>6 DEF First
    <3> QED
      BY <2>2, <2>3, <2>8, <3>1, <3>2 DEF Ring
  <2>10. GotOk(handed, First' - 1)
    <3>1. First - 1 <= First' - 1 /\ First - 1 \in Int /\ First' - 1 \in Int
      BY <2>2, <2>9
    <3>2. handed \in Seq(Nat \X Nat)
      BY Zenon DEF BdInv, BdTypes
    <3> QED
      BY Zenon, <2>2, <3>1, <3>2, GotLater
  <2>11. user.at # "rest" => Receiving'
    <3> SUFFICES ASSUME user.at # "rest" PROVE Receiving'
      OBVIOUS
    <3>1. First' = First /\ Receiving
      BY Zenon, <2>2, <2>9
    <3>2. moved' = 1 /\ tail' = Next1(user'.tail)
      BY Zenon, <1>1, <2>8
    <3> QED
      BY Zenon, <1>1, <3>1, <3>2 DEF Receiving
  <2>12. Queueing'
    <3>1. n - 1 <= SLOTS - 2 /\ kernel'.at # "publish" /\ kernel'.at \notin {"data", "publish"}
      BY <1>a, <2>2, BdeAssumption DEF Ring
    <3> QED
      BY Zenon, <1>1, <2>4, <3>1 DEF Queueing
  <2>13. Copies(tail', Dist(tail', head'), Newest' - Dist(tail', head') + 1, slots')
         /\ \A e : Ready(tail', Dist(tail', head'), slots', e)
    BY Zenon, <1>1, <2>4, <2>5, <2>7
  <2> QED
    BY Zenon, <1>1, <2>10, <2>11, <2>12, <2>13 DEF RxInv
<1> QED
  BY Zenon, <1>1, <1>2, <1>3, <1>4, <1>5 DEF BdInv, TxInv

\* While the kernel fills the slot at the head, the ring and a reader are safe.
LEMMA FillKeeps ==
  ASSUME BdInv, ~overrun, side = "rx", kernel.at \in {"header", "data"},
         \A x \in Ring : x # head => slots'[x] = slots[x], Newest' = Newest,
         head' = head, tail' = tail, user' = user, handed' = handed, moved' = moved
  PROVE  /\ Copies(tail', Dist(tail', head'), Newest' - Dist(tail', head') + 1, slots')
         /\ Ready(tail', Dist(tail', head'), slots', user'.at = "advance" /\ moved' = 0)
         /\ user'.at # "rest" => Receiving'
         /\ GotOk(handed', First' - 1)
<1>1. head \in Ring /\ tail \in Ring /\ user.tail \in Ring
  BY DEF BdInv, BdTypes
<1>2. First' = First
  BY Zenon DEF First
<1>3. Dist(tail, head) \in Int /\ \A x \in Ring : Dist(tail, x) < Dist(tail, head) => x # head
  BY <1>1, DistIs
<1>4. Dist(tail, head) <= SLOTS - 2
  BY RxParts DEF Queueing
<1>5. user.at # "rest" => slots'[user.tail] = slots[user.tail]
  BY Zenon, <1>1, <1>4, ReadNotHead
<1>6. user'.at # "rest" => Receiving'
  BY Zenon, <1>2, <1>5, RxParts DEF Receiving
<1> QED
  BY Zenon, <1>1, <1>2, <1>3, <1>6, RxParts, Outside

LEMMA QueueHeaderBd ==
  ASSUME BdInv, QueueHeader
  PROVE  BdInv'
<1>1. /\ kernel.at = "header" /\ kernel' = [kernel EXCEPT !.at = "data"]
      /\ slots' = [slots EXCEPT ![kernel.head].ready = TRUE, ![kernel.head].a = issued]
      /\ side' = side /\ sender' = sender /\ raced' = raced /\ unsaid' = unsaid
      /\ head' = head /\ tail' = tail /\ user' = user /\ handed' = handed /\ moved' = moved /\ overrun' = overrun /\ issued' = issued
  BY Zenon DEF QueueHeader, txVars
<1>2. side = "rx" /\ side' # "tx"
  <2>1. kernel.at # "rest"
    BY <1>1
  <2> QED
    BY <1>1, <2>1, RxSide
<1>0. head \in Ring /\ tail \in Ring /\ issued \in Nat /\ slots \in [Ring -> Cells]
      /\ kernel.head = head
  <2>1. kernel.at # "rest"
    BY <1>1
  <2> QED
    BY Zenon, <2>1 DEF BdInv, BdTypes, OneSide
<1>a. kernel'.at = "data" /\ kernel'.head = kernel.head
  BY <1>1 DEF BdInv, BdTypes
<1>b. slots[head] \in Cells
  BY Zenon, <1>0
<1>c. /\ slots' \in [Ring -> Cells] /\ \A x \in Ring : x # head => slots'[x] = slots[x]
      /\ slots'[head].ready = TRUE /\ slots'[head].a = issued
  BY Zenon, <1>0, <1>1, <1>b DEF Cells
<1>3. BdTypes'
  <2>1. kernel' \in [at : {"rest", "drop", "header", "data", "publish"}, head : Ring]
    BY Zenon, <1>1 DEF BdInv, BdTypes
  <2> QED
    BY Zenon, <1>1, <1>c, <2>1 DEF BdInv, BdTypes
<1>4. OneSide'
  <2>1. kernel.at # "rest"
    BY <1>1
  <2> QED
    BY Zenon, <1>1, <1>2, <1>a, <2>1 DEF BdInv, OneSide
<1>5. RxInv'
  <2> SUFFICES ASSUME ~overrun PROVE RxInv'
    BY Zenon, <1>1 DEF RxInv
  <2>1. Newest' = Newest
    BY <1>1, <1>a DEF Newest
  <2>2. kernel.at \in {"header", "data"} /\ kernel.at \in {"header", "data", "publish"}
    BY <1>1
  <2>3. Queueing'
    <3>1. Dist(tail, head) <= SLOTS - 2 /\ (kernel.at = "data" => slots[head].ready /\ slots[head].a = issued)
      BY <1>2, <2>2, RxParts DEF Queueing
    <3> QED
      BY <1>1, <1>a, <1>c, <3>1 DEF Queueing
  <2> QED
    BY Zenon, <1>1, <1>2, <1>c, <2>1, <2>2, <2>3, FillKeeps DEF RxInv
<1> QED
  BY Zenon, <1>1, <1>2, <1>3, <1>4, <1>5 DEF BdInv, TxInv

LEMMA QueueDataBd ==
  ASSUME BdInv, QueueData
  PROVE  BdInv'
<1>1. /\ kernel.at = "data" /\ kernel' = [kernel EXCEPT !.at = "publish"]
      /\ slots' = [slots EXCEPT ![kernel.head].b = issued]
      /\ side' = side /\ sender' = sender /\ raced' = raced /\ unsaid' = unsaid
      /\ head' = head /\ tail' = tail /\ user' = user /\ handed' = handed /\ moved' = moved /\ overrun' = overrun /\ issued' = issued
  BY Zenon DEF QueueData, txVars
<1>2. side = "rx" /\ side' # "tx"
  <2>1. kernel.at # "rest"
    BY <1>1
  <2> QED
    BY <1>1, <2>1, RxSide
<1>0. head \in Ring /\ tail \in Ring /\ issued \in Nat /\ slots \in [Ring -> Cells]
      /\ kernel.head = head
  <2>1. kernel.at # "rest"
    BY <1>1
  <2> QED
    BY Zenon, <2>1 DEF BdInv, BdTypes, OneSide
<1>a. kernel'.at = "publish" /\ kernel'.head = kernel.head
  BY <1>1 DEF BdInv, BdTypes
<1>b. slots[head] \in Cells
  BY Zenon, <1>0
<1>c. /\ slots' \in [Ring -> Cells] /\ \A x \in Ring : x # head => slots'[x] = slots[x]
      /\ slots'[head].ready = slots[head].ready /\ slots'[head].a = slots[head].a
      /\ slots'[head].b = issued
  BY <1>0, <1>1, <1>b DEF Cells
<1>3. BdTypes'
  <2>1. kernel' \in [at : {"rest", "drop", "header", "data", "publish"}, head : Ring]
    BY Zenon, <1>1 DEF BdInv, BdTypes
  <2> QED
    BY Zenon, <1>1, <1>c, <2>1 DEF BdInv, BdTypes
<1>4. OneSide'
  <2>1. kernel.at # "rest"
    BY <1>1
  <2> QED
    BY Zenon, <1>1, <1>2, <1>a, <2>1 DEF BdInv, OneSide
<1>5. RxInv'
  <2> SUFFICES ASSUME ~overrun PROVE RxInv'
    BY Zenon, <1>1 DEF RxInv
  <2>1. Newest' = Newest
    BY <1>1, <1>a DEF Newest
  <2>2. kernel.at \in {"header", "data"} /\ kernel.at \in {"header", "data", "publish"}
    BY <1>1
  <2>3. Queueing'
    <3>1. Dist(tail, head) <= SLOTS - 2 /\ (kernel.at = "data" => slots[head].ready /\ slots[head].a = issued)
      BY <1>2, <2>2, RxParts DEF Queueing
    <3> QED
      BY <1>1, <1>a, <1>c, <3>1 DEF Queueing
  <2> QED
    BY Zenon, <1>1, <1>2, <1>c, <2>1, <2>2, <2>3, FillKeeps DEF RxInv
<1> QED
  BY Zenon, <1>1, <1>2, <1>3, <1>4, <1>5 DEF BdInv, TxInv

LEMMA QueuePublishBd ==
  ASSUME BdInv, QueuePublish
  PROVE  BdInv'
<1>1. /\ kernel.at = "publish" /\ kernel' = KRest /\ head' = Next1(kernel.head)
      /\ side' = side /\ sender' = sender /\ raced' = raced /\ unsaid' = unsaid
      /\ tail' = tail /\ slots' = slots /\ user' = user /\ handed' = handed /\ moved' = moved /\ overrun' = overrun /\ issued' = issued
  BY Zenon DEF QueuePublish, txVars
<1>2. side = "rx" /\ side' # "tx"
  <2>1. kernel.at # "rest"
    BY <1>1
  <2> QED
    BY <1>1, <2>1, RxSide
<1>0. head \in Ring /\ tail \in Ring /\ issued \in Nat /\ moved \in Nat /\ kernel.head = head
  <2>1. kernel.at # "rest"
    BY <1>1
  <2> QED
    BY Zenon, <2>1 DEF BdInv, BdTypes, OneSide
<1>a. kernel'.at = "rest"
  BY <1>1 DEF KRest
<1>3. BdTypes'
  <2>1. kernel' \in [at : {"rest", "drop", "header", "data", "publish"}, head : Ring]
    BY <1>1, BdeAssumption DEF KRest, Ring
  <2>2. head' \in Ring
    BY Zenon, <1>0, <1>1, Next1Is
  <2> QED
    BY Zenon, <1>1, <2>1, <2>2 DEF BdInv, BdTypes
<1>4. OneSide'
  BY Zenon, <1>1, <1>2, <1>a DEF BdInv, OneSide
<1>5. RxInv'
  <2> SUFFICES ASSUME ~overrun PROVE RxInv'
    BY Zenon, <1>1 DEF RxInv
  <2> DEFINE n == Dist(tail, head)  lo == Newest - n + 1
  <2>1. /\ n \in Ring /\ n \in Int /\ Newest \in Int /\ Newest = issued - 1 /\ Newest' = issued
    <3>1. kernel.at # "rest"
      BY <1>1
    <3>2. n \in Ring /\ n \in Int /\ Newest \in Int
      BY Zenon, <1>0, <1>2, RxParts, DistIs
    <3> QED
      BY Zenon, <1>1, <1>a, <3>1, <3>2 DEF Newest
  <2>2. lo \in Int /\ lo + n = issued
    BY <1>0, <2>1
  <2>3. /\ Copies(tail, n, lo, slots) /\ Ready(tail, n, slots, user.at = "advance" /\ moved = 0)
        /\ user.at # "rest" => Receiving
        /\ GotOk(handed, First - 1)
    BY Zenon, <1>2, RxParts
  <2>4. n <= SLOTS - 2 /\ slots[head].ready /\ slots[head].a = issued /\ slots[head].b = issued
    BY <1>1, <1>2, RxParts DEF Queueing
  <2> HIDE DEF lo
  <2>5. /\ Dist(tail, head') = n + 1 /\ Copies(tail, n + 1, lo, slots) /\ head' # tail
        /\ Ready(tail, n + 1, slots, user.at = "advance" /\ moved = 0)
    <3>1. slots[head].a = lo + n /\ slots[head].b = lo + n
      BY Zenon, <2>2, <2>4
    <3> QED
      BY Zenon, <1>0, <1>1, <2>2, <2>3, <2>4, <3>1, LastJoins
  <2> HIDE DEF n
  <2>6. lo = Newest' - (n + 1) + 1 /\ First' = First
    <3>1. First = Newest - n + 1 - (IF user.at = "rest" THEN 0 ELSE moved)
      BY Zenon DEF First, n
    <3>2. First' = Newest' - (n + 1) + 1 - (IF user.at = "rest" THEN 0 ELSE moved)
      BY Zenon, <1>1, <2>5 DEF First
    <3> QED
      BY <1>0, <2>1, <3>1, <3>2 DEF lo
  <2>7. user'.at # "rest" => Receiving'
    BY Zenon, <1>1, <2>3, <2>5, <2>6 DEF Receiving
  <2>8. Queueing'
    BY <1>a DEF Queueing
  <2>9. /\ Copies(tail', Dist(tail', head'), Newest' - Dist(tail', head') + 1, slots')
        /\ Ready(tail', Dist(tail', head'), slots', user'.at = "advance" /\ moved' = 0)
    BY Zenon, <1>1, <2>5, <2>6
  <2> QED
    BY Zenon, <1>1, <2>3, <2>6, <2>7, <2>8, <2>9 DEF RxInv
<1> QED
  BY Zenon, <1>1, <1>2, <1>3, <1>4, <1>5 DEF BdInv, TxInv

LEMMA RecvBeginBd ==
  ASSUME BdInv, RecvBegin
  PROVE  BdInv'
<1>1. /\ side = "rx" /\ user.at = "rest" /\ head # tail /\ moved' = 0
      /\ user' = [at |-> "first", tail |-> tail, a |-> 0, b |-> 0]
      /\ side' = side /\ sender' = sender /\ raced' = raced /\ unsaid' = unsaid
      /\ head' = head /\ tail' = tail /\ slots' = slots /\ kernel' = kernel /\ handed' = handed /\ overrun' = overrun /\ issued' = issued
  BY Zenon DEF RecvBegin, txVars
<1>2. side' # "tx"
  BY <1>1
<1>0. head \in Ring /\ tail \in Ring
  BY Zenon DEF BdInv, BdTypes
<1>a. user'.at = "first" /\ user'.tail = tail
  BY <1>1
<1>3. BdTypes'
  <2>1. user' \in [at : {"rest", "first", "second", "clear", "advance"}, tail : Ring, a : Nat, b : Nat] /\ moved' \in Nat
    BY <1>0, <1>1
  <2> QED
    BY Zenon, <1>1, <2>1 DEF BdInv, BdTypes
<1>4. OneSide'
  BY Zenon, <1>1, <1>2 DEF BdInv, OneSide
<1>5. RxInv'
  <2> SUFFICES ASSUME ~overrun PROVE RxInv'
    BY Zenon, <1>1 DEF RxInv
  <2> DEFINE n == Dist(tail, head)
  <2>1. /\ n \in Ring /\ n \in Int /\ Newest \in Int /\ Newest' = Newest
        /\ Copies(tail, n, Newest - n + 1, slots)
        /\ Ready(tail, n, slots, user.at = "advance" /\ moved = 0)
        /\ Queueing /\ GotOk(handed, First - 1)
    BY Zenon, <1>0, <1>1, RxParts, DistIs DEF Newest
  <2>2. Dist(tail, tail) = 0 /\ 0 < n
    BY <1>0, <1>1, <2>1, DistIs DEF Ring
  <2>3. slots[tail].a = Newest - n + 1 + 0 /\ slots[tail].b = Newest - n + 1 + 0
    BY Zenon, <1>0, <2>1, <2>2 DEF Copies
  <2>4. First = Newest - n + 1 - 0
    BY Zenon, <1>1 DEF First
  <2>5. First' = Newest - n + 1 - 0
    <3>1. user'.at # "rest"
      BY <1>a
    <3> QED
      BY Zenon, <1>1, <2>1, <3>1 DEF First
  <2> HIDE DEF n
  <2>6. slots[tail].a = First' /\ slots[tail].b = First'
    BY <2>1, <2>3, <2>5
  <2>7. Receiving'
    <3>1. user'.at \notin {"second", "clear", "advance"} /\ user'.at \notin {"clear", "advance"}
      BY <1>a
    <3> QED
      BY Zenon, <1>1, <1>a, <2>6, <3>1 DEF Receiving
  <2>8. Queueing'
    BY Zenon, <1>1, <2>1 DEF Queueing
  <2>9. \A e : Ready(tail, n, slots, e)
    <3>1. user.at # "advance"
      BY <1>1
    <3> QED
      BY Zenon, <2>1, <3>1 DEF Ready
  <2> QED
    BY Zenon, <1>1, <2>1, <2>4, <2>5, <2>7, <2>8, <2>9 DEF RxInv, n
<1> QED
  BY Zenon, <1>1, <1>2, <1>3, <1>4, <1>5 DEF BdInv, TxInv

LEMMA RecvFirstBd ==
  ASSUME BdInv, RecvFirst
  PROVE  BdInv'
<1>1. /\ user.at = "first" /\ user' = [user EXCEPT !.at = "second", !.a = slots[user.tail].a]
      /\ side' = side /\ sender' = sender /\ raced' = raced /\ unsaid' = unsaid
      /\ head' = head /\ tail' = tail /\ slots' = slots /\ kernel' = kernel /\ handed' = handed /\ moved' = moved /\ overrun' = overrun /\ issued' = issued
  BY Zenon DEF RecvFirst, txVars
<1>2. side = "rx" /\ side' # "tx"
  <2>1. user.at # "rest"
    BY <1>1
  <2> QED
    BY <1>1, <2>1, RxSide
<1>0. user \in [at : {"rest", "first", "second", "clear", "advance"}, tail : Ring, a : Nat, b : Nat]
      /\ slots \in [Ring -> Cells]
  BY Zenon DEF BdInv, BdTypes
<1>a. /\ user'.at = "second" /\ user'.tail = user.tail /\ user'.a = slots[user.tail].a
      /\ user'.b = user.b
  BY <1>0, <1>1
<1>3. BdTypes'
  <2>1. user.tail \in Ring
    BY <1>0
  <2>2. slots[user.tail] \in Cells
    BY Zenon, <1>0, <2>1
  <2>3. user' \in [at : {"rest", "first", "second", "clear", "advance"}, tail : Ring, a : Nat, b : Nat]
    BY Zenon, <1>0, <1>1, <2>2 DEF Cells
  <2> QED
    BY Zenon, <1>1, <2>3 DEF BdInv, BdTypes
<1>4. OneSide'
  BY Zenon, <1>1, <1>2 DEF BdInv, OneSide
<1>5. RxInv'
  <2> SUFFICES ASSUME ~overrun PROVE RxInv'
    BY Zenon, <1>1 DEF RxInv
  <2>1. Newest' = Newest
    BY Zenon, <1>1 DEF Newest
  <2>2. user.at # "rest" /\ user'.at # "rest" /\ user.at # "advance" /\ user'.at # "advance"
    BY <1>1, <1>a
  <2>3. First' = First
    BY Zenon, <1>1, <2>1, <2>2 DEF First
  <2>4. Receiving
    BY Zenon, <1>2, <2>2, RxParts
  <2>5. Receiving'
    <3>1. user'.a = First' 
      BY <1>1, <1>a, <2>3, <2>4 DEF Receiving
    <3>2. user'.at \notin {"clear", "advance"}
      BY <1>a
    <3> QED
      BY Zenon, <1>1, <1>a, <2>3, <2>4, <3>1, <3>2 DEF Receiving
  <2>6. Queueing'
    BY Zenon, <1>1, <1>2, RxParts DEF Queueing
  <2>7. \A e : Ready(tail, Dist(tail, head), slots, e)
    BY Zenon, <1>2, <2>2, RxParts DEF Ready
  <2> QED
    BY Zenon, <1>1, <1>2, <2>1, <2>3, <2>5, <2>6, <2>7, RxParts DEF RxInv
<1> QED
  BY Zenon, <1>1, <1>2, <1>3, <1>4, <1>5 DEF BdInv, TxInv

LEMMA RecvSecondBd ==
  ASSUME BdInv, RecvSecond
  PROVE  BdInv'
<1>1. /\ user.at = "second" /\ user' = [user EXCEPT !.at = "clear", !.b = slots[user.tail].b]
      /\ side' = side /\ sender' = sender /\ raced' = raced /\ unsaid' = unsaid
      /\ head' = head /\ tail' = tail /\ slots' = slots /\ kernel' = kernel /\ handed' = handed /\ moved' = moved /\ overrun' = overrun /\ issued' = issued
  BY Zenon DEF RecvSecond, txVars
<1>2. side = "rx" /\ side' # "tx"
  <2>1. user.at # "rest"
    BY <1>1
  <2> QED
    BY <1>1, <2>1, RxSide
<1>0. user \in [at : {"rest", "first", "second", "clear", "advance"}, tail : Ring, a : Nat, b : Nat]
      /\ slots \in [Ring -> Cells]
  BY Zenon DEF BdInv, BdTypes
<1>a. /\ user'.at = "clear" /\ user'.tail = user.tail /\ user'.b = slots[user.tail].b
      /\ user'.a = user.a
  BY <1>0, <1>1
<1>3. BdTypes'
  <2>1. user.tail \in Ring
    BY <1>0
  <2>2. slots[user.tail] \in Cells
    BY Zenon, <1>0, <2>1
  <2>3. user' \in [at : {"rest", "first", "second", "clear", "advance"}, tail : Ring, a : Nat, b : Nat]
    BY Zenon, <1>0, <1>1, <2>2 DEF Cells
  <2> QED
    BY Zenon, <1>1, <2>3 DEF BdInv, BdTypes
<1>4. OneSide'
  BY Zenon, <1>1, <1>2 DEF BdInv, OneSide
<1>5. RxInv'
  <2> SUFFICES ASSUME ~overrun PROVE RxInv'
    BY Zenon, <1>1 DEF RxInv
  <2>1. Newest' = Newest
    BY Zenon, <1>1 DEF Newest
  <2>2. user.at # "rest" /\ user'.at # "rest" /\ user.at # "advance" /\ user'.at # "advance"
    BY <1>1, <1>a
  <2>3. First' = First
    BY Zenon, <1>1, <2>1, <2>2 DEF First
  <2>4. Receiving
    BY Zenon, <1>2, <2>2, RxParts
  <2>5. Receiving'
    <3>1. user'.b = First' /\ user.a = First
      BY <1>1, <1>a, <2>3, <2>4 DEF Receiving
    <3>2. user.at \in {"second", "clear", "advance"} \/ user'.at = "clear"
      BY <1>a
    <3> QED
      BY Zenon, <1>1, <1>a, <2>3, <2>4, <3>1, <3>2 DEF Receiving
  <2>6. Queueing'
    BY Zenon, <1>1, <1>2, RxParts DEF Queueing
  <2>7. \A e : Ready(tail, Dist(tail, head), slots, e)
    BY Zenon, <1>2, <2>2, RxParts DEF Ready
  <2> QED
    BY Zenon, <1>1, <1>2, <2>1, <2>3, <2>5, <2>6, <2>7, RxParts DEF RxInv
<1> QED
  BY Zenon, <1>1, <1>2, <1>3, <1>4, <1>5 DEF BdInv, TxInv

LEMMA RecvClearBd ==
  ASSUME BdInv, RecvClear
  PROVE  BdInv'
<1>1. /\ user.at = "clear" /\ user' = [user EXCEPT !.at = "advance"]
      /\ slots' = [slots EXCEPT ![user.tail].ready = FALSE]
      /\ side' = side /\ sender' = sender /\ raced' = raced /\ unsaid' = unsaid
      /\ head' = head /\ tail' = tail /\ kernel' = kernel /\ handed' = handed /\ moved' = moved /\ overrun' = overrun /\ issued' = issued
  BY Zenon DEF RecvClear, txVars
<1>2. side = "rx" /\ side' # "tx"
  <2>1. user.at # "rest"
    BY <1>1
  <2> QED
    BY <1>1, <2>1, RxSide
<1>0. user \in [at : {"rest", "first", "second", "clear", "advance"}, tail : Ring, a : Nat, b : Nat]
      /\ slots \in [Ring -> Cells] /\ head \in Ring /\ tail \in Ring
  BY Zenon DEF BdInv, BdTypes
<1>a. /\ user'.at = "advance" /\ user'.tail = user.tail /\ user'.a = user.a /\ user'.b = user.b
      /\ user.tail \in Ring
  BY <1>0, <1>1
<1>b. slots[user.tail] \in Cells
  BY Zenon, <1>0, <1>a
<1>c. /\ slots' \in [Ring -> Cells] /\ \A x \in Ring : x # user.tail => slots'[x] = slots[x]
      /\ \A x \in Ring : slots'[x].a = slots[x].a /\ slots'[x].b = slots[x].b
  BY Zenon, <1>0, <1>1, <1>a, <1>b DEF Cells
<1>3. BdTypes'
  <2>1. user' \in [at : {"rest", "first", "second", "clear", "advance"}, tail : Ring, a : Nat, b : Nat]
    BY <1>0, <1>1
  <2> QED
    BY Zenon, <1>1, <1>c, <2>1 DEF BdInv, BdTypes
<1>4. OneSide'
  BY Zenon, <1>1, <1>2 DEF BdInv, OneSide
<1>5. RxInv'
  <2> SUFFICES ASSUME ~overrun PROVE RxInv'
    BY Zenon, <1>1 DEF RxInv
  <2>1. Newest' = Newest
    BY Zenon, <1>1 DEF Newest
  <2>2. user.at # "rest" /\ user'.at # "rest" /\ user.at # "advance"
    BY <1>1, <1>a
  <2>3. First' = First
    BY Zenon, <1>1, <2>1, <2>2 DEF First
  <2>4. Receiving /\ user.at \in {"second", "clear", "advance"} /\ user.at \in {"clear", "advance"}
    BY <1>1, <1>2, <2>2, RxParts
  <2>5. Receiving'
    BY Zenon, <1>1, <1>a, <1>c, <2>3, <2>4 DEF Receiving
  <2>6. Queueing'
    <3>1. kernel.at \in {"data", "publish"} => user.tail # head
      <4>1. kernel.at \in {"data", "publish"} => Dist(tail, head) <= SLOTS - 2
        BY <1>2, RxParts DEF Queueing
      <4> QED
        BY Zenon, <1>2, <2>2, <4>1, ReadNotHead
    <3> QED
      BY Zenon, <1>0, <1>1, <1>2, <1>c, <3>1, RxParts DEF Queueing
  <2>7. Ready(tail, Dist(tail, head), slots', user'.at = "advance" /\ moved' = 0)
    <3> SUFFICES ASSUME NEW x \in Ring, Dist(tail, x) < Dist(tail, head)
                 PROVE  slots'[x].ready \/ ((user'.at = "advance" /\ moved' = 0) /\ x = tail)
      BY Zenon DEF Ready
    <3>1. slots[x].ready
      BY Zenon, <1>2, <2>2, RxParts DEF Ready
    <3>2. CASE x # user.tail
      BY Zenon, <1>c, <3>1, <3>2
    <3>3. CASE x = user.tail
      <4>1. tail # Next1(x)
        <5>1. Dist(tail, x) # SLOTS - 1
          <6>1. Dist(tail, x) \in Ring /\ Dist(tail, head) \in Ring
            BY Zenon, <1>0, DistIs
          <6> QED
            BY <6>1, BdeAssumption DEF Ring
        <5> QED
          BY Zenon, <1>0, <5>1, DistHead
      <4> QED
        BY Zenon, <1>1, <1>a, <2>4, <3>3, <4>1 DEF Receiving
    <3> QED
      BY Zenon, <3>2, <3>3
  <2>8. Copies(tail, Dist(tail, head), Newest - Dist(tail, head) + 1, slots')
    BY Zenon, <1>2, <1>c, RxParts DEF Copies
  <2> QED
    BY Zenon, <1>1, <1>2, <2>1, <2>3, <2>5, <2>6, <2>7, <2>8, RxParts DEF RxInv
<1> QED
  BY Zenon, <1>1, <1>2, <1>3, <1>4, <1>5 DEF BdInv, TxInv

\* The message is handed over, and the index stored.
LEMMA RecvAdvanceBd ==
  ASSUME BdInv, RecvAdvance
  PROVE  BdInv'
<1>1. /\ user.at = "advance" /\ user' = URest /\ tail' = Next1(user.tail)
      /\ handed' = Append(handed, <<user.a, user.b>>)
      /\ side' = side /\ sender' = sender /\ raced' = raced /\ unsaid' = unsaid
      /\ head' = head /\ slots' = slots /\ kernel' = kernel /\ moved' = moved /\ overrun' = overrun /\ issued' = issued
  BY Zenon DEF RecvAdvance, txVars
<1>2. side = "rx" /\ side' # "tx"
  <2>1. user.at # "rest"
    BY <1>1
  <2> QED
    BY <1>1, <2>1, RxSide
<1>0. /\ user.tail \in Ring /\ user.a \in Nat /\ user.b \in Nat /\ handed \in Seq(Nat \X Nat)
      /\ head \in Ring /\ tail \in Ring /\ moved \in Nat
  BY DEF BdInv, BdTypes
<1>a. user'.at = "rest"
  BY <1>1 DEF URest
<1>3. BdTypes'
  <2>1. user' \in [at : {"rest", "first", "second", "clear", "advance"}, tail : Ring, a : Nat, b : Nat]
    BY <1>1, BdeAssumption DEF URest, Ring
  <2>2. tail' \in Ring
    BY Zenon, <1>0, <1>1, Next1Is
  <2>3. handed' \in Seq(Nat \X Nat)
    BY <1>0, <1>1
  <2> QED
    BY Zenon, <1>1, <2>1, <2>2, <2>3 DEF BdInv, BdTypes
<1>4. OneSide'
  BY Zenon, <1>1, <1>2 DEF BdInv, OneSide
<1>5. RxInv'
  <2> SUFFICES ASSUME ~overrun PROVE RxInv'
    BY Zenon, <1>1 DEF RxInv
  <2> DEFINE n == Dist(tail, head)  k == Dist(tail', head)
  <2>1. Newest' = Newest
    BY Zenon, <1>1 DEF Newest
  <2>2. /\ n \in Ring /\ n \in Int /\ Newest \in Int /\ First \in Int
        /\ Copies(tail, n, Newest - n + 1, slots)
        /\ Ready(tail, n, slots, user.at = "advance" /\ moved = 0)
        /\ Queueing /\ GotOk(handed, First - 1)
    BY Zenon, <1>0, <1>2, RxParts, DistIs
  <2>3. user.at # "rest" /\ user.at \in {"second", "clear", "advance"} /\ user.at \in {"clear", "advance"}
    BY <1>1
  <2>4. Receiving /\ user.a = First /\ user.b = First
    BY Zenon, <1>2, <2>3, RxParts DEF Receiving
  <2>5. First = Newest - n + 1 - moved
    BY Zenon, <2>3 DEF First
  <2>6. GotOk(handed', First)
    BY Zenon, <1>0, <1>1, <2>2, <2>4, GotAppend
  <2> HIDE DEF n, k
  <2>7. /\ k \in Int /\ k <= n /\ Newest - k = First
        /\ Copies(tail', k, Newest - k + 1, slots) /\ \A e : Ready(tail', k, slots, e)
    <3>1. CASE moved = 0 /\ tail = user.tail /\ head # tail
      <4>1. k = n - 1
        BY Zenon, <1>0, <1>1, <3>1, DistTail DEF n, k
      <4>2. n >= 1 /\ Newest - n + 1 \in Int
        <5>1. n # 0
          BY Zenon, <1>0, <3>1, DistIs DEF n
        <5> QED
          BY <2>2, <5>1 DEF Ring
      <4>3. Copies(tail', n - 1, Newest - n + 1 + 1, slots) /\ \A e : Ready(tail', n - 1, slots, e)
        BY Zenon, <1>0, <1>1, <2>2, <3>1, <4>2, FirstLeaves
      <4>4. Newest - n + 1 + 1 = Newest - k + 1 /\ Newest - k = First /\ k <= n /\ k \in Int
        BY <2>2, <2>5, <3>1, <4>1
      <4> QED
        BY Zenon, <4>1, <4>3, <4>4
    <3>2. CASE moved = 1 /\ tail = Next1(user.tail)
      <4>1. tail' = tail /\ k = n /\ moved # 0
        BY <1>1, <3>2 DEF n, k
      <4>2. Newest - k = First /\ k <= n /\ k \in Int
        BY <2>2, <2>5, <3>2, <4>1
      <4>3. \A e : Ready(tail, n, slots, e)
        BY Zenon, <2>2, <4>1 DEF Ready
      <4> QED
        BY Zenon, <2>2, <4>1, <4>2, <4>3
    <3> QED
      BY Zenon, <2>4, <3>1, <3>2 DEF Receiving
  <2>8. First' - 1 = First
    <3>1. First' = Newest - k + 1 - 0
      BY Zenon, <1>1, <1>a, <2>1 DEF First, k
    <3> QED
      BY <2>2, <2>7, <3>1
  <2>9. Queueing'
    <3>1. n <= SLOTS - 2 => k <= SLOTS - 2
      BY <2>2, <2>7, BdeAssumption
    <3> QED
      BY Zenon, <1>1, <2>2, <3>1 DEF Queueing, n, k
  <2>10. /\ Copies(tail', Dist(tail', head'), Newest' - Dist(tail', head') + 1, slots')
         /\ \A e : Ready(tail', Dist(tail', head'), slots', e)
    BY Zenon, <1>1, <2>1, <2>7 DEF k
  <2> QED
    BY Zenon, <1>a, <2>6, <2>8, <2>9, <2>10 DEF RxInv
<1> QED
  BY Zenon, <1>1, <1>2, <1>3, <1>4, <1>5 DEF BdInv, TxInv

LEMMA ReopenBd ==
  ASSUME BdInv, Reopen
  PROVE  BdInv'
<1>1. /\ side = "rx" /\ user.at = "rest" /\ kernel.at = "rest" /\ head' = 0 /\ tail' = 0
      /\ slots' = [i \in Ring |-> Empty] /\ overrun' = FALSE /\ moved' = 0 /\ handed' = <<>>
      /\ side' = side /\ sender' = sender /\ raced' = raced /\ unsaid' = unsaid
      /\ kernel' = kernel /\ user' = user /\ issued' = issued
  BY Zenon DEF Reopen, txVars, Ring
<1>2. side' # "tx"
  BY <1>1
<1>0. 0 \in Ring /\ Empty \in Cells /\ handed' \in Seq(Nat \X Nat) /\ Len(handed') = 0 /\ 0 \in Nat
  BY <1>1, BdeAssumption DEF Ring, Empty, Cells
<1>3. BdTypes'
  <2>1. slots' \in [Ring -> Cells]
    BY Zenon, <1>0, <1>1
  <2> QED
    BY Zenon, <1>0, <1>1, <2>1 DEF BdInv, BdTypes
<1>4. OneSide'
  BY Zenon, <1>1, <1>2 DEF BdInv, OneSide
<1>5. RxInv'
  <2>1. Dist(tail', head') = 0 /\ \A x \in Ring : ~(Dist(tail', x) < 0)
    BY <1>0, <1>1, DistIs DEF Ring
  <2>2. \A lo, e : Copies(tail', 0, lo, slots') /\ Ready(tail', 0, slots', e)
    BY Zenon, <2>1 DEF Copies, Ready
  <2>3. \A h : GotOk(handed', h)
    BY <1>0 DEF GotOk
  <2>4. Queueing'
    BY <1>1 DEF Queueing
  <2> QED
    BY Zenon, <1>1, <2>1, <2>2, <2>3, <2>4 DEF RxInv
<1> QED
  BY Zenon, <1>1, <1>2, <1>3, <1>4, <1>5 DEF BdInv, TxInv

\* A step that changes nothing but the subscription
LEMMA SubscribeBd ==
  ASSUME BdInv, side' = side, head' = head, tail' = tail, slots' = slots, kernel' = kernel,
         user' = user, issued' = issued, handed' = handed, moved' = moved, overrun' = overrun,
         sender' = sender, raced' = raced, unsaid' = unsaid
  PROVE  BdInv'
<1>1. BdTypes' /\ OneSide'
  BY Zenon DEF BdInv, BdTypes, OneSide
<1>2. RxInv'
  BY Zenon DEF BdInv, RxInv, Copies, Ready, Queueing, Receiving, First, Newest, GotOk
<1>3. TxInv'
  BY Zenon DEF BdInv, TxInv, Copies, Ready, Sending, Waiting
<1> QED
  BY Zenon, <1>1, <1>2, <1>3 DEF BdInv

-----------------------------------------------------------------------------
(* The transmit ring.                                                      *)

\* What the steps of the transmit ring share: sender t moves, and as long as
\* there was no race the others are at rest.
LEMMA TxParts ==
  ASSUME BdInv, NEW t \in Senders, sender[t].at # "rest", ~raced
  PROVE  /\ \A i \in 1 .. Len(handed) : handed[i] = <<i, i>>
         /\ \A v \in Senders : v # t => sender[v].at = "rest"
         /\ Sending(t) /\ (sender[t].at # "process" => Waiting(tail))
<1>1. side = "tx"
  BY Zenon, TxSide
<1>2. \A v \in Senders : v # t => sender[v].at = "rest"
  BY Zenon, <1>1 DEF BdInv, TxInv
<1>3. "rest" # "process"
  OBVIOUS
<1>4. sender[t].at # "process" => \A v \in Senders : sender[v].at # "process"
  BY Zenon, <1>2, <1>3
<1> QED
  BY Zenon, <1>1, <1>2, <1>4 DEF BdInv, TxInv

\* A sender at rest is sending nothing.
LEMMA RestSends == ASSUME NEW t, sender[t].at = "rest" PROVE Sending(t)
BY DEF Sending

\* The invariant of the transmit ring from the one sender that may be active
LEMMA SendBeginBd ==
  ASSUME BdInv, NEW t \in Senders, SendBegin(t)
  PROVE  BdInv'
<1>1. /\ side = "tx" /\ sender[t].at = "rest" /\ ~TxFull(t) /\ issued' = issued + 1
      /\ sender' = [sender EXCEPT ![t] = [SRest EXCEPT !.at = "fill", !.head = head, !.m = issued + 1]]
      /\ raced' = (raced \/ \E v \in Senders \ {t} : sender[v].at # "rest")
      /\ head' = head /\ tail' = tail /\ slots' = slots /\ handed' = handed /\ unsaid' = unsaid
      /\ side' = side /\ kernel' = kernel /\ user' = user /\ moved' = moved
      /\ overrun' = overrun
  BY Zenon DEF SendBegin, rxVars
<1>0. /\ head \in Ring /\ tail \in Ring /\ issued \in Nat /\ slots \in [Ring -> Cells]
      /\ handed \in Seq(Nat \X Nat) /\ Len(handed) \in Nat /\ Dist(tail, head) \in Int
      /\ sender \in [Senders -> [at : {"rest", "fill", "publish", "notify", "process"},
                           head : Ring, m : Nat, tail : Ring, upto : Ring]]
  <2>1. /\ head \in Ring /\ tail \in Ring /\ issued \in Nat /\ slots \in [Ring -> Cells]
        /\ handed \in Seq(Nat \X Nat)
        /\ sender \in [Senders -> [at : {"rest", "fill", "publish", "notify", "process"},
                           head : Ring, m : Nat, tail : Ring, upto : Ring]]
    BY Zenon DEF BdInv, BdTypes
  <2>2. Len(handed) \in Nat
    BY <2>1
  <2> QED
    BY Zenon, <2>1, <2>2, DistIs
<1>s. /\ sender[t] \in [at : {"rest", "fill", "publish", "notify", "process"},
                           head : Ring, m : Nat, tail : Ring, upto : Ring]
  BY Zenon, <1>0
<1>2. side = "tx" /\ kernel.at = "rest" /\ user.at = "rest" /\ side # "rx"
  BY <1>1 DEF BdInv, OneSide
<1>3. /\ sender'[t].at = "fill" /\ sender'[t].head = head /\ sender'[t].m = issued'
      /\ \A v \in Senders : v # t => sender'[v] = sender[v]
      /\ sender' \in [Senders -> [at : {"rest", "fill", "publish", "notify", "process"},
                           head : Ring, m : Nat, tail : Ring, upto : Ring]]
  <2> DEFINE z == [SRest EXCEPT !.at = "fill", !.head = head, !.m = issued + 1]
  <2>1. /\ z \in [at : {"rest", "fill", "publish", "notify", "process"},
                           head : Ring, m : Nat, tail : Ring, upto : Ring]
        /\ z.at = "fill" /\ z.head = head /\ z.m = issued + 1
    <3>1. SRest \in [at : {"rest", "fill", "publish", "notify", "process"},
                           head : Ring, m : Nat, tail : Ring, upto : Ring]
      BY BdeAssumption DEF SRest, Ring
    <3>2. issued + 1 \in Nat
      BY <1>0
    <3> QED
      BY Zenon, <1>0, <3>1, <3>2
  <2> HIDE DEF z
  <2>2. sender' = [sender EXCEPT ![t] = z]
    BY Zenon, <1>1 DEF z
  <2>3. sender'[t] = z /\ \A v \in Senders : v # t => sender'[v] = sender[v]
    BY Zenon, <1>0, <2>2
  <2>4. sender' \in [Senders -> [at : {"rest", "fill", "publish", "notify", "process"},
                           head : Ring, m : Nat, tail : Ring, upto : Ring]]
    BY Zenon, <1>0, <2>1, <2>2
  <2> QED
    BY Zenon, <1>1, <2>1, <2>3, <2>4
<1>4. BdTypes'
  <2>1. issued' \in Nat /\ raced' \in BOOLEAN
    BY <1>0, <1>1 DEF BdInv, BdTypes
  <2> QED
    BY Zenon, <1>1, <1>3, <2>1 DEF BdInv, BdTypes
<1>5. TxInv'
  <2> SUFFICES ASSUME ~raced' PROVE TxInv'
    BY Zenon DEF TxInv
  <2>1. ~raced /\ \A v \in Senders : sender[v].at = "rest"
    BY Zenon, <1>1
  <2>2. "rest" # "process" /\ sender'[t].at \notin {"rest", "publish", "notify", "process"}
    BY <1>3
  <2>3. /\ \A i \in 1 .. Len(handed) : handed[i] = <<i, i>>
        /\ Waiting(tail) /\ issued = Len(handed) + Dist(tail, head)
    BY Zenon, <1>2, <2>1, <2>2 DEF BdInv, TxInv
  <2>4. Dist(tail, head) <= SLOTS - 2
    <3>1. Dist(tail, head) # SLOTS - 1
      BY Zenon, <1>0, <1>1, DistHead DEF TxFull
    <3> QED
      <4>1. Dist(tail, head) \in Ring
        BY Zenon, <1>0, DistIs
      <4> QED
        BY <3>1, <4>1, BdeAssumption DEF Ring
  <2>5. issued' = Len(handed) + Dist(tail, head) + 1
    BY <1>0, <1>1, <2>3
  <2>6. Sending(t)'
    BY <1>1, <1>3, <2>2, <2>4, <2>5 DEF Sending
  <2>7. Waiting(tail)'
    BY Zenon, <1>1, <2>3 DEF Waiting
  <2>8. sender'[t].at # "rest" /\ sender'[t].at # "process"
    BY <2>2
  <2>9. \A v \in Senders : v # t => sender'[v].at = "rest"
    BY Zenon, <1>3, <2>1
  <2>10. \A v \in Senders : Sending(v)'
    BY <2>6, <2>9 DEF Sending
  <2> QED
    BY Zenon, <1>1, <2>3, <2>7, <2>8, <2>9, <2>10 DEF TxInv
<1>6. OneSide'
  BY Zenon, <1>1, <1>2 DEF OneSide
<1>7. RxInv'
  BY Zenon, <1>1, <1>2 DEF RxInv
<1> QED
  BY Zenon, <1>4, <1>5, <1>6, <1>7 DEF BdInv

LEMMA SendFillBd ==
  ASSUME BdInv, NEW t \in Senders, SendFill(t)
  PROVE  BdInv'
<1>1. /\ sender[t].at = "fill" /\ sender' = [sender EXCEPT ![t].at = "publish"]
      /\ slots' = [slots EXCEPT ![sender[t].head] =
                     [ready |-> TRUE, a |-> sender[t].m, b |-> sender[t].m]]
      /\ head' = head /\ tail' = tail /\ issued' = issued /\ handed' = handed /\ raced' = raced /\ unsaid' = unsaid
      /\ side' = side /\ kernel' = kernel /\ user' = user /\ moved' = moved
      /\ overrun' = overrun
  BY Zenon DEF SendFill, rxVars
<1>0. /\ head \in Ring /\ tail \in Ring /\ issued \in Nat /\ slots \in [Ring -> Cells]
      /\ handed \in Seq(Nat \X Nat) /\ Len(handed) \in Nat /\ Dist(tail, head) \in Int
      /\ sender \in [Senders -> [at : {"rest", "fill", "publish", "notify", "process"},
                           head : Ring, m : Nat, tail : Ring, upto : Ring]]
  <2>1. /\ head \in Ring /\ tail \in Ring /\ issued \in Nat /\ slots \in [Ring -> Cells]
        /\ handed \in Seq(Nat \X Nat)
        /\ sender \in [Senders -> [at : {"rest", "fill", "publish", "notify", "process"},
                           head : Ring, m : Nat, tail : Ring, upto : Ring]]
    BY Zenon DEF BdInv, BdTypes
  <2>2. Len(handed) \in Nat
    BY <2>1
  <2> QED
    BY Zenon, <2>1, <2>2, DistIs
<1>s. /\ sender[t] \in [at : {"rest", "fill", "publish", "notify", "process"},
                           head : Ring, m : Nat, tail : Ring, upto : Ring]
  BY Zenon, <1>0
<1>2. side = "tx" /\ kernel.at = "rest" /\ user.at = "rest" /\ side # "rx"
  <2>1. sender[t].at # "rest"
    BY <1>1
  <2>2. side = "tx" /\ kernel.at = "rest" /\ user.at = "rest"
    BY Zenon, <2>1, TxSide
  <2> QED
    BY <2>2
<1>3. /\ sender'[t].at = "publish" /\ sender'[t].head = sender[t].head
      /\ sender'[t].m = sender[t].m
      /\ \A v \in Senders : v # t => sender'[v] = sender[v]
      /\ sender' \in [Senders -> [at : {"rest", "fill", "publish", "notify", "process"},
                           head : Ring, m : Nat, tail : Ring, upto : Ring]]
  BY Zenon, <1>0, <1>1, <1>s, BdeAssumption DEF SRest, Ring
<1>a. sender[t].head \in Ring /\ sender[t].m \in Nat
  BY <1>s
<1>4. BdTypes'
  <2>1. slots' \in [Ring -> Cells]
    BY <1>0, <1>1, <1>a DEF Cells
  <2> QED
    BY Zenon, <1>1, <1>3, <2>1 DEF BdInv, BdTypes
<1>5. TxInv'
  <2> SUFFICES ASSUME ~raced PROVE TxInv'
    BY Zenon, <1>1 DEF TxInv
  <2>1. /\ \A i \in 1 .. Len(handed) : handed[i] = <<i, i>>
        /\ \A v \in Senders : v # t => sender[v].at = "rest"
        /\ Sending(t) /\ (sender[t].at # "process" => Waiting(tail))
    <3>1. sender[t].at # "rest"
      BY <1>1
    <3> QED
      BY Zenon, <3>1, TxParts
  <2>2. /\ sender[t].head = head /\ sender[t].m = issued /\ Dist(tail, head) <= SLOTS - 2
        /\ issued = Len(handed) + Dist(tail, head) + 1 /\ Waiting(tail)
    BY <1>1, <2>1 DEF Sending
  <2>3. /\ slots'[head] = [ready |-> TRUE, a |-> issued, b |-> issued]
        /\ \A x \in Ring : x # head => slots'[x] = slots[x]
    BY Zenon, <1>0, <1>1, <2>2
  <2>4. \A x \in Ring : Dist(tail, x) < Dist(tail, head) => slots'[x] = slots[x]
    <3>1. \A x \in Ring : Dist(tail, x) < Dist(tail, head) => x # head
      BY <1>0
    <3> QED
      BY Zenon, <2>3, <3>1
  <2>5. Waiting(tail)'
    <3> DEFINE n == Dist(tail, head)  lo == Len(handed) + 1
    <3>1. Copies(tail, n, lo, slots) /\ Ready(tail, n, slots, FALSE) /\ n \in Int
      BY Zenon, <1>0, <2>2 DEF Waiting
    <3>2. \A x \in Ring : Dist(tail, x) < n => slots'[x] = slots[x]
      BY Zenon, <2>4
    <3> HIDE DEF n, lo
    <3>3. Copies(tail, n, lo, slots') /\ Ready(tail, n, slots', FALSE)
      BY Zenon, <1>0, <3>1, <3>2, Outside
    <3> QED
      BY Zenon, <1>1, <3>3 DEF Waiting, n, lo
  <2>6. Sending(t)'
    BY <1>1, <1>3, <2>2, <2>3 DEF Sending
  <2>7. sender'[t].at # "rest" /\ sender'[t].at # "process"
    BY <1>3
  <2>9. \A v \in Senders : v # t => sender'[v].at = "rest"
    BY Zenon, <1>3, <2>1
  <2>10. \A v \in Senders : Sending(v)'
    BY <2>6, <2>9 DEF Sending
  <2> QED
    BY Zenon, <1>1, <2>1, <2>5, <2>7, <2>9, <2>10 DEF TxInv
<1>6. OneSide'
  BY Zenon, <1>1, <1>2 DEF OneSide
<1>7. RxInv'
  BY Zenon, <1>1, <1>2 DEF RxInv
<1> QED
  BY Zenon, <1>4, <1>5, <1>6, <1>7 DEF BdInv

LEMMA SendPublishBd ==
  ASSUME BdInv, NEW t \in Senders, SendPublish(t)
  PROVE  BdInv'
<1>1. /\ sender[t].at = "publish" /\ sender' = [sender EXCEPT ![t].at = "notify"]
      /\ head' = Next1(sender[t].head)
      /\ tail' = tail /\ slots' = slots /\ issued' = issued /\ handed' = handed /\ raced' = raced /\ unsaid' = unsaid
      /\ side' = side /\ kernel' = kernel /\ user' = user /\ moved' = moved
      /\ overrun' = overrun
  BY Zenon DEF SendPublish, rxVars
<1>0. /\ head \in Ring /\ tail \in Ring /\ issued \in Nat /\ slots \in [Ring -> Cells]
      /\ handed \in Seq(Nat \X Nat) /\ Len(handed) \in Nat /\ Dist(tail, head) \in Int
      /\ sender \in [Senders -> [at : {"rest", "fill", "publish", "notify", "process"},
                           head : Ring, m : Nat, tail : Ring, upto : Ring]]
  <2>1. /\ head \in Ring /\ tail \in Ring /\ issued \in Nat /\ slots \in [Ring -> Cells]
        /\ handed \in Seq(Nat \X Nat)
        /\ sender \in [Senders -> [at : {"rest", "fill", "publish", "notify", "process"},
                           head : Ring, m : Nat, tail : Ring, upto : Ring]]
    BY Zenon DEF BdInv, BdTypes
  <2>2. Len(handed) \in Nat
    BY <2>1
  <2> QED
    BY Zenon, <2>1, <2>2, DistIs
<1>s. /\ sender[t] \in [at : {"rest", "fill", "publish", "notify", "process"},
                           head : Ring, m : Nat, tail : Ring, upto : Ring]
  BY Zenon, <1>0
<1>2. side = "tx" /\ kernel.at = "rest" /\ user.at = "rest" /\ side # "rx"
  <2>1. sender[t].at # "rest"
    BY <1>1
  <2>2. side = "tx" /\ kernel.at = "rest" /\ user.at = "rest"
    BY Zenon, <2>1, TxSide
  <2> QED
    BY <2>2
<1>3. /\ sender'[t].at = "notify"
      /\ \A v \in Senders : v # t => sender'[v] = sender[v]
      /\ sender' \in [Senders -> [at : {"rest", "fill", "publish", "notify", "process"},
                           head : Ring, m : Nat, tail : Ring, upto : Ring]]
  BY Zenon, <1>0, <1>1, <1>s, BdeAssumption DEF SRest, Ring
<1>a. sender[t].head \in Ring
  BY <1>s
<1>4. BdTypes'
  <2>1. head' \in Ring
    BY Zenon, <1>1, <1>a, Next1Is
  <2> QED
    BY Zenon, <1>1, <1>3, <2>1 DEF BdInv, BdTypes
<1>5. TxInv'
  <2> SUFFICES ASSUME ~raced PROVE TxInv'
    BY Zenon, <1>1 DEF TxInv
  <2>1. /\ \A i \in 1 .. Len(handed) : handed[i] = <<i, i>>
        /\ \A v \in Senders : v # t => sender[v].at = "rest"
        /\ Sending(t) /\ (sender[t].at # "process" => Waiting(tail))
    <3>1. sender[t].at # "rest"
      BY <1>1
    <3> QED
      BY Zenon, <3>1, TxParts
  <2>2. /\ sender[t].head = head /\ Dist(tail, head) <= SLOTS - 2 /\ Waiting(tail)
        /\ issued = Len(handed) + Dist(tail, head) + 1
        /\ slots[head] = [ready |-> TRUE, a |-> issued, b |-> issued]
    BY <1>1, <2>1 DEF Sending
  <2>3. /\ slots[head].ready /\ slots[head].a = issued /\ slots[head].b = issued
        /\ issued = Len(handed) + 1 + Dist(tail, head) /\ Len(handed) + 1 \in Int
    BY <1>0, <2>2
  <2>4. /\ Dist(tail, head') = Dist(tail, head) + 1
        /\ Copies(tail, Dist(tail, head) + 1, Len(handed) + 1, slots)
        /\ Ready(tail, Dist(tail, head) + 1, slots, FALSE)
    <3>1. /\ Copies(tail, Dist(tail, head), Len(handed) + 1, slots)
          /\ Ready(tail, Dist(tail, head), slots, FALSE) /\ head' = Next1(head)
      BY Zenon, <1>1, <2>2 DEF Waiting
    <3> QED
      BY Zenon, <1>0, <2>2, <2>3, <3>1, LastJoins
  <2>5. Waiting(tail)'
    BY Zenon, <1>1, <2>4 DEF Waiting
  <2>6. Sending(t)'
    <3>1. issued' = Len(handed') + Dist(tail', head')
      BY <1>0, <1>1, <2>2, <2>4
    <3>2. sender'[t].at \notin {"fill", "publish"} /\ sender'[t].at # "publish"
          /\ sender'[t].at # "process"
      BY <1>3
    <3> QED
      BY Zenon, <3>1, <3>2 DEF Sending
  <2>7. sender'[t].at # "rest" /\ sender'[t].at # "process"
    BY <1>3
  <2>9. \A v \in Senders : v # t => sender'[v].at = "rest"
    BY Zenon, <1>3, <2>1
  <2>10. \A v \in Senders : Sending(v)'
    BY <2>6, <2>9 DEF Sending
  <2> QED
    BY Zenon, <1>1, <2>1, <2>5, <2>7, <2>9, <2>10 DEF TxInv
<1>6. OneSide'
  BY Zenon, <1>1, <1>2 DEF OneSide
<1>7. RxInv'
  BY Zenon, <1>1, <1>2 DEF RxInv
<1> QED
  BY Zenon, <1>4, <1>5, <1>6, <1>7 DEF BdInv

LEMMA NotifyBd ==
  ASSUME BdInv, NEW t \in Senders, Notify(t)
  PROVE  BdInv'
<1>1. /\ sender[t].at = "notify"
      /\ \/ sender' = [sender EXCEPT ![t] = SRest] /\ unsaid' = TRUE
         \/ /\ sender' = [sender EXCEPT ![t].at = "process", ![t].tail = tail, ![t].upto = head]
            /\ unsaid' = unsaid
      /\ head' = head /\ tail' = tail /\ slots' = slots /\ issued' = issued /\ handed' = handed /\ raced' = raced
      /\ side' = side /\ kernel' = kernel /\ user' = user /\ moved' = moved
      /\ overrun' = overrun
  BY Zenon DEF Notify, rxVars
<1>0. /\ head \in Ring /\ tail \in Ring /\ issued \in Nat /\ slots \in [Ring -> Cells]
      /\ handed \in Seq(Nat \X Nat) /\ Len(handed) \in Nat /\ Dist(tail, head) \in Int
      /\ sender \in [Senders -> [at : {"rest", "fill", "publish", "notify", "process"},
                           head : Ring, m : Nat, tail : Ring, upto : Ring]]
  <2>1. /\ head \in Ring /\ tail \in Ring /\ issued \in Nat /\ slots \in [Ring -> Cells]
        /\ handed \in Seq(Nat \X Nat)
        /\ sender \in [Senders -> [at : {"rest", "fill", "publish", "notify", "process"},
                           head : Ring, m : Nat, tail : Ring, upto : Ring]]
    BY Zenon DEF BdInv, BdTypes
  <2>2. Len(handed) \in Nat
    BY <2>1
  <2> QED
    BY Zenon, <2>1, <2>2, DistIs
<1>s. /\ sender[t] \in [at : {"rest", "fill", "publish", "notify", "process"},
                           head : Ring, m : Nat, tail : Ring, upto : Ring]
  BY Zenon, <1>0
<1>2. side = "tx" /\ kernel.at = "rest" /\ user.at = "rest" /\ side # "rx"
  <2>1. sender[t].at # "rest"
    BY <1>1
  <2>2. side = "tx" /\ kernel.at = "rest" /\ user.at = "rest"
    BY Zenon, <2>1, TxSide
  <2> QED
    BY <2>2
<1>3. /\ \/ sender'[t].at = "rest" /\ unsaid' = TRUE
         \/ /\ sender'[t].at = "process" /\ sender'[t].tail = tail /\ sender'[t].upto = head
            /\ unsaid' = unsaid
      /\ \A v \in Senders : v # t => sender'[v] = sender[v]
      /\ sender' \in [Senders -> [at : {"rest", "fill", "publish", "notify", "process"},
                           head : Ring, m : Nat, tail : Ring, upto : Ring]]
  <2> DEFINE z == [sender[t] EXCEPT !.at = "process", !.tail = tail, !.upto = head]
  <2>1. /\ z \in [at : {"rest", "fill", "publish", "notify", "process"},
                           head : Ring, m : Nat, tail : Ring, upto : Ring]
        /\ z.at = "process" /\ z.tail = tail /\ z.upto = head
    BY Zenon, <1>0, <1>s
  <2>2. /\ SRest \in [at : {"rest", "fill", "publish", "notify", "process"},
                           head : Ring, m : Nat, tail : Ring, upto : Ring]
        /\ SRest.at = "rest"
    BY BdeAssumption DEF SRest, Ring
  <2>3. \/ sender' = [sender EXCEPT ![t] = SRest] /\ unsaid' = TRUE
        \/ sender' = [sender EXCEPT ![t] = z] /\ unsaid' = unsaid
    <3>1. [sender EXCEPT ![t].at = "process", ![t].tail = tail, ![t].upto = head]
             = [sender EXCEPT ![t] = z]
      BY Zenon, <1>0, <1>s
    <3> QED
      BY Zenon, <1>1, <3>1
  <2> HIDE DEF z
  <2>4. /\ \/ sender'[t] = SRest /\ unsaid' = TRUE
           \/ sender'[t] = z /\ unsaid' = unsaid
        /\ \A v \in Senders : v # t => sender'[v] = sender[v]
    BY Zenon, <1>0, <2>3
  <2>5. sender' \in [Senders -> [at : {"rest", "fill", "publish", "notify", "process"},
                           head : Ring, m : Nat, tail : Ring, upto : Ring]]
    BY Zenon, <1>0, <2>1, <2>2, <2>3
  <2> QED
    BY Zenon, <2>1, <2>2, <2>4, <2>5
<1>4. BdTypes'
  <2>1. unsaid' \in BOOLEAN
    BY Zenon, <1>1 DEF BdInv, BdTypes
  <2> QED
    BY Zenon, <1>1, <1>3, <2>1 DEF BdInv, BdTypes
<1>5. TxInv'
  <2> SUFFICES ASSUME ~raced PROVE TxInv'
    BY Zenon, <1>1 DEF TxInv
  <2>1. /\ \A i \in 1 .. Len(handed) : handed[i] = <<i, i>>
        /\ \A v \in Senders : v # t => sender[v].at = "rest"
        /\ Sending(t) /\ (sender[t].at # "process" => Waiting(tail))
    <3>1. sender[t].at # "rest"
      BY <1>1
    <3> QED
      BY Zenon, <3>1, TxParts
  <2>2. issued = Len(handed) + Dist(tail, head) /\ Waiting(tail)
    BY <1>1, <2>1 DEF Sending
  <2>3. Waiting(tail)'
    BY Zenon, <1>1, <2>2 DEF Waiting
  <2>4. \A v \in Senders : v # t => sender'[v].at = "rest"
    BY Zenon, <1>3, <2>1
  <2>5. Sending(t)'
    <3>1. CASE sender'[t].at = "rest"
      BY <3>1 DEF Sending
    <3>2. CASE sender'[t].at = "process" /\ sender'[t].tail = tail /\ sender'[t].upto = head
      <4>1. Waiting(sender[t].tail)'
        BY Zenon, <1>1, <2>2, <3>2 DEF Waiting
      <4>2. sender'[t].at \notin {"fill", "publish"} /\ sender'[t].at # "publish"
            /\ sender'[t].at # "notify"
        BY <3>2
      <4> QED
        BY Zenon, <1>1, <2>2, <3>2, <4>1, <4>2 DEF Sending
    <3> QED
      BY Zenon, <1>3, <3>1, <3>2
  <2>6. \A v \in Senders : Sending(v)'
    BY <2>4, <2>5 DEF Sending
  <2>7. sender'[t].at = "rest" => unsaid'
    BY <1>3
  <2> QED
    BY Zenon, <1>1, <2>1, <2>2, <2>3, <2>4, <2>6, <2>7 DEF TxInv
<1>6. OneSide'
  BY Zenon, <1>1, <1>2 DEF OneSide
<1>7. RxInv'
  BY Zenon, <1>1, <1>2 DEF RxInv
<1> QED
  BY Zenon, <1>4, <1>5, <1>6, <1>7 DEF BdInv

LEMMA qdhcp_bde_process_txBd ==
  ASSUME BdInv, NEW t \in Senders, qdhcp_bde_process_tx(t)
  PROVE  BdInv'
<1>1. /\ sender[t].at = "process" /\ sender[t].tail # sender[t].upto
      /\ handed' = (IF slots[sender[t].tail].ready
                 THEN Append(handed, <<slots[sender[t].tail].a, slots[sender[t].tail].b>>) ELSE handed)
      /\ slots' = [slots EXCEPT ![sender[t].tail].ready = FALSE]
      /\ sender' = [sender EXCEPT ![t].tail = Next1(sender[t].tail)]
      /\ head' = head /\ tail' = tail /\ issued' = issued /\ raced' = raced /\ unsaid' = unsaid
      /\ side' = side /\ kernel' = kernel /\ user' = user /\ moved' = moved
      /\ overrun' = overrun
  BY Zenon DEF qdhcp_bde_process_tx, rxVars
<1>0. /\ head \in Ring /\ tail \in Ring /\ issued \in Nat /\ slots \in [Ring -> Cells]
      /\ handed \in Seq(Nat \X Nat) /\ Len(handed) \in Nat /\ Dist(tail, head) \in Int
      /\ sender \in [Senders -> [at : {"rest", "fill", "publish", "notify", "process"},
                           head : Ring, m : Nat, tail : Ring, upto : Ring]]
  <2>1. /\ head \in Ring /\ tail \in Ring /\ issued \in Nat /\ slots \in [Ring -> Cells]
        /\ handed \in Seq(Nat \X Nat)
        /\ sender \in [Senders -> [at : {"rest", "fill", "publish", "notify", "process"},
                           head : Ring, m : Nat, tail : Ring, upto : Ring]]
    BY Zenon DEF BdInv, BdTypes
  <2>2. Len(handed) \in Nat
    BY <2>1
  <2> QED
    BY Zenon, <2>1, <2>2, DistIs
<1>s. /\ sender[t] \in [at : {"rest", "fill", "publish", "notify", "process"},
                           head : Ring, m : Nat, tail : Ring, upto : Ring]
  BY Zenon, <1>0
<1>2. side = "tx" /\ kernel.at = "rest" /\ user.at = "rest" /\ side # "rx"
  <2>1. sender[t].at # "rest"
    BY <1>1
  <2>2. side = "tx" /\ kernel.at = "rest" /\ user.at = "rest"
    BY Zenon, <2>1, TxSide
  <2> QED
    BY <2>2
<1>a. sender[t].tail \in Ring /\ Next1(sender[t].tail) \in Ring
  BY <1>s, Next1Is
<1>3. /\ sender'[t].at = "process" /\ sender'[t].tail = Next1(sender[t].tail)
      /\ sender'[t].upto = sender[t].upto
      /\ \A v \in Senders : v # t => sender'[v] = sender[v]
      /\ sender' \in [Senders -> [at : {"rest", "fill", "publish", "notify", "process"},
                           head : Ring, m : Nat, tail : Ring, upto : Ring]]
  BY Zenon, <1>0, <1>1, <1>a, <1>s, BdeAssumption DEF SRest, Ring
<1>b. slots[sender[t].tail] \in Cells
  BY Zenon, <1>0, <1>a
<1>c. /\ slots' \in [Ring -> Cells]
      /\ \A x \in Ring : x # sender[t].tail => slots'[x] = slots[x]
  BY Zenon, <1>0, <1>1, <1>a, <1>b DEF Cells
<1>4. BdTypes'
  <2>1. handed' \in Seq(Nat \X Nat)
    BY <1>0, <1>1, <1>b DEF Cells
  <2> QED
    BY Zenon, <1>1, <1>3, <1>c, <2>1 DEF BdInv, BdTypes
<1>5. TxInv'
  <2> SUFFICES ASSUME ~raced PROVE TxInv'
    BY Zenon, <1>1 DEF TxInv
  <2>1. /\ \A i \in 1 .. Len(handed) : handed[i] = <<i, i>>
        /\ \A v \in Senders : v # t => sender[v].at = "rest"
        /\ Sending(t) /\ (sender[t].at # "process" => Waiting(tail))
    <3>1. sender[t].at # "rest"
      BY <1>1
    <3> QED
      BY Zenon, <3>1, TxParts
  <2> DEFINE i == sender[t].tail  n == Dist(i, head)
  <2>2. sender[t].upto = head /\ Waiting(i) /\ issued = Len(handed) + n
    BY <1>1, <2>1 DEF Sending
  <2>3. n \in Ring /\ n \in Int /\ n >= 1 /\ Dist(i, i) = 0
    <3>1. n \in Ring /\ n # 0 /\ Dist(i, i) = 0
      BY <1>0, <1>1, <1>a, <2>2, DistIs
    <3> QED
      BY <3>1, BdeAssumption DEF Ring
  <2>4. slots[i].ready /\ slots[i].a = Len(handed) + 1 /\ slots[i].b = Len(handed) + 1
    <3>1. Dist(i, i) < n
      BY <2>3
    <3>2. slots[i].ready /\ slots[i].a = Len(handed) + 1 + Dist(i, i)
          /\ slots[i].b = Len(handed) + 1 + Dist(i, i)
      BY Zenon, <1>a, <2>2, <3>1 DEF Waiting, Copies, Ready
    <3> QED
      BY <1>0, <2>3, <3>2
  <2>5. handed' = Append(handed, <<Len(handed) + 1, Len(handed) + 1>>)
    BY Zenon, <1>1, <2>4
  <2>6. Len(handed') = Len(handed) + 1 /\ \A j \in 1 .. Len(handed') : handed'[j] = <<j, j>>
    <3>1. /\ Len(handed') = Len(handed) + 1 /\ handed'[Len(handed) + 1] = <<Len(handed) + 1, Len(handed) + 1>>
          /\ \A j \in 1 .. Len(handed) : handed'[j] = handed[j]
          /\ \A j \in 1 .. Len(handed) + 1 : j \in 1 .. Len(handed) \/ j = Len(handed) + 1
      BY <1>0, <2>5
    <3> QED
      BY Zenon, <2>1, <3>1
  <2> HIDE DEF n, i
  <2>7. /\ Copies(Next1(i), n - 1, Len(handed) + 1 + 1, slots)
        /\ Ready(Next1(i), n - 1, slots, FALSE)
    <3>1. Len(handed) + 1 \in Int
      BY <1>0
    <3> QED
      BY Zenon, <1>a, <2>2, <2>3, <3>1, FirstLeaves DEF Waiting, i, n
  <2>8. \A x \in Ring : Dist(Next1(i), x) < n - 1 => slots'[x] = slots[x]
    <3>1. Dist(Next1(i), i) = SLOTS - 1
      BY Zenon, <1>a, DistTail DEF i
    <3>2. ~(Dist(Next1(i), i) < n - 1)
      BY <2>3, <3>1, BdeAssumption DEF Ring
    <3> QED
      BY Zenon, <1>c, <3>2 DEF i
  <2>9. Dist(Next1(i), head) = n - 1 /\ n - 1 \in Int
    <3>1. head # i
      BY Zenon, <1>1, <2>2 DEF i
    <3>2. Dist(Next1(i), head) = n - 1
      BY Zenon, <1>0, <1>a, <3>1, DistTail DEF i, n
    <3> QED
      BY <2>3, <3>2
  <2>10. Waiting(sender[t].tail)'
    <3>1. /\ Copies(Next1(i), n - 1, Len(handed) + 1 + 1, slots')
          /\ Ready(Next1(i), n - 1, slots', FALSE)
      BY Zenon, <1>a, <2>7, <2>8, <2>9, Outside DEF i
    <3> QED
      BY Zenon, <1>1, <1>3, <2>6, <2>9, <3>1 DEF Waiting, i
  <2>11. Sending(t)'
    <3>1. issued' = Len(handed') + Dist(sender'[t].tail, head')
      <4>1. Dist(sender'[t].tail, head') = n - 1
        BY Zenon, <1>1, <1>3, <2>9 DEF i
      <4>2. issued = Len(handed) + n
        BY Zenon, <2>2 DEF i, n
      <4> QED
        BY <1>0, <1>1, <2>3, <2>6, <4>1, <4>2
    <3>2. sender'[t].at \notin {"fill", "publish"} /\ sender'[t].at # "publish"
          /\ sender'[t].at # "notify"
      BY <1>3
    <3> QED
      BY Zenon, <1>1, <1>3, <2>2, <2>10, <3>1, <3>2 DEF Sending
  <2>12. \A v \in Senders : v # t => sender'[v].at = "rest"
    BY Zenon, <1>3, <2>1
  <2>13. \A v \in Senders : Sending(v)'
    BY <2>11, <2>12 DEF Sending
  <2>14. sender'[t].at # "rest" /\ ~(sender'[t].at # "process")
    BY <1>3
  <2> QED
    BY Zenon, <1>1, <2>6, <2>12, <2>13, <2>14 DEF TxInv
<1>6. OneSide'
  BY Zenon, <1>1, <1>2 DEF OneSide
<1>7. RxInv'
  BY Zenon, <1>1, <1>2 DEF RxInv
<1> QED
  BY Zenon, <1>4, <1>5, <1>6, <1>7 DEF BdInv

LEMMA ProcessEndBd ==
  ASSUME BdInv, NEW t \in Senders, ProcessEnd(t)
  PROVE  BdInv'
<1>1. /\ sender[t].at = "process" /\ sender[t].tail = sender[t].upto
      /\ tail' = sender[t].tail /\ sender' = [sender EXCEPT ![t] = SRest] /\ unsaid' = FALSE
      /\ head' = head /\ slots' = slots /\ issued' = issued /\ handed' = handed /\ raced' = raced
      /\ side' = side /\ kernel' = kernel /\ user' = user /\ moved' = moved
      /\ overrun' = overrun
  BY Zenon DEF ProcessEnd, rxVars
<1>0. /\ head \in Ring /\ tail \in Ring /\ issued \in Nat /\ slots \in [Ring -> Cells]
      /\ handed \in Seq(Nat \X Nat) /\ Len(handed) \in Nat /\ Dist(tail, head) \in Int
      /\ sender \in [Senders -> [at : {"rest", "fill", "publish", "notify", "process"},
                           head : Ring, m : Nat, tail : Ring, upto : Ring]]
  <2>1. /\ head \in Ring /\ tail \in Ring /\ issued \in Nat /\ slots \in [Ring -> Cells]
        /\ handed \in Seq(Nat \X Nat)
        /\ sender \in [Senders -> [at : {"rest", "fill", "publish", "notify", "process"},
                           head : Ring, m : Nat, tail : Ring, upto : Ring]]
    BY Zenon DEF BdInv, BdTypes
  <2>2. Len(handed) \in Nat
    BY <2>1
  <2> QED
    BY Zenon, <2>1, <2>2, DistIs
<1>s. /\ sender[t] \in [at : {"rest", "fill", "publish", "notify", "process"},
                           head : Ring, m : Nat, tail : Ring, upto : Ring]
  BY Zenon, <1>0
<1>2. side = "tx" /\ kernel.at = "rest" /\ user.at = "rest" /\ side # "rx"
  <2>1. sender[t].at # "rest"
    BY <1>1
  <2>2. side = "tx" /\ kernel.at = "rest" /\ user.at = "rest"
    BY Zenon, <2>1, TxSide
  <2> QED
    BY <2>2
<1>3. /\ sender'[t].at = "rest"
      /\ \A v \in Senders : v # t => sender'[v] = sender[v]
      /\ sender' \in [Senders -> [at : {"rest", "fill", "publish", "notify", "process"},
                           head : Ring, m : Nat, tail : Ring, upto : Ring]]
  BY <1>0, <1>1, <1>s, BdeAssumption DEF SRest, Ring
<1>a. sender[t].tail \in Ring
  BY <1>s
<1>4. BdTypes'
  BY Zenon, <1>1, <1>3, <1>a DEF BdInv, BdTypes
<1>5. TxInv'
  <2> SUFFICES ASSUME ~raced PROVE TxInv'
    BY Zenon, <1>1 DEF TxInv
  <2>1. /\ \A i \in 1 .. Len(handed) : handed[i] = <<i, i>>
        /\ \A v \in Senders : v # t => sender[v].at = "rest"
        /\ Sending(t) /\ (sender[t].at # "process" => Waiting(tail))
    <3>1. sender[t].at # "rest"
      BY <1>1
    <3> QED
      BY Zenon, <3>1, TxParts
  <2>2. /\ sender[t].upto = head /\ Waiting(sender[t].tail)
        /\ issued = Len(handed) + Dist(sender[t].tail, head)
    BY <1>1, <2>1 DEF Sending
  <2>3. tail' = head
    BY Zenon, <1>1, <2>2
  <2>4. Waiting(tail)'
    BY Zenon, <1>1, <2>2 DEF Waiting
  <2>5. issued' = Len(handed') + Dist(tail', head') /\ head' = tail'
    BY Zenon, <1>1, <2>2, <2>3
  <2>6. \A v \in Senders : sender'[v].at = "rest"
    BY Zenon, <1>3, <2>1
  <2>7. \A v \in Senders : Sending(v)'
    BY <2>6 DEF Sending
  <2> QED
    BY Zenon, <1>1, <2>1, <2>4, <2>5, <2>6, <2>7 DEF TxInv
<1>6. OneSide'
  BY Zenon, <1>1, <1>2 DEF OneSide
<1>7. RxInv'
  BY Zenon, <1>1, <1>2 DEF RxInv
<1> QED
  BY Zenon, <1>4, <1>5, <1>6, <1>7 DEF BdInv

LEMMA BdNext ==
  ASSUME BdInv, [BDNext]_bdVars
  PROVE  BdInv'
<1>1. ASSUME NEW on \in BOOLEAN, qdhcp_bde_ioctl_subscribe(on) PROVE BdInv'
  BY Zenon, <1>1, SubscribeBd DEF qdhcp_bde_ioctl_subscribe, txVars
<1>2. CASE QueueBegin \/ DropOldest \/ QueueHeader \/ QueueData \/ QueuePublish
  BY Zenon, <1>2, QueueBeginBd, DropOldestBd, QueueHeaderBd, QueueDataBd, QueuePublishBd
<1>3. CASE RecvBegin \/ RecvFirst \/ RecvSecond \/ RecvClear \/ RecvAdvance \/ Reopen
  BY Zenon, <1>3, RecvBeginBd, RecvFirstBd, RecvSecondBd, RecvClearBd, RecvAdvanceBd, ReopenBd
<1>4. ASSUME NEW t \in Senders,
             \/ SendBegin(t) \/ SendFill(t) \/ SendPublish(t) \/ Notify(t)
             \/ qdhcp_bde_process_tx(t) \/ ProcessEnd(t)
      PROVE  BdInv'
  BY Zenon, <1>4, SendBeginBd, SendFillBd, SendPublishBd, NotifyBd, qdhcp_bde_process_txBd,
     ProcessEndBd
<1>5. CASE UNCHANGED bdVars
  BY Zenon, <1>5, SubscribeBd DEF bdVars, rxVars, txVars
<1> QED
  BY Zenon, <1>1, <1>2, <1>3, <1>4, <1>5 DEF BDNext

LEMMA BdRx == BdInv => RxKeepsNewest
<1> SUFFICES ASSUME BdInv, side = "rx", ~overrun
             PROVE  /\ \A i \in DOMAIN handed : handed[i][1] = handed[i][2]
                    /\ \A i, j \in DOMAIN handed : i < j => handed[i][1] < handed[j][1]
                    /\ user.at = "rest" =>
                         /\ \A i \in 1 .. Used : Content[i] =
                               [ready |-> TRUE, a |-> Newest - Used + i, b |-> Newest - Used + i]
                         /\ handed # <<>> => handed[Len(handed)][1] <= Newest - Used
  BY Zenon DEF RxKeepsNewest
<1> DEFINE n == Dist(tail, head)
<1>1. /\ head \in Ring /\ tail \in Ring /\ handed \in Seq(Nat \X Nat) /\ slots \in [Ring -> Cells]
  BY Zenon DEF BdInv, BdTypes
<1>2. DOMAIN handed = 1 .. Len(handed) /\ (handed # <<>> => Len(handed) \in 1 .. Len(handed))
  BY <1>1
<1>3. Used = n
  BY Zenon, <1>1, UsedIs
<1>4. /\ n \in Ring /\ n \in Int /\ Newest \in Int /\ GotOk(handed, First - 1)
      /\ Copies(tail, n, Newest - n + 1, slots)
      /\ Ready(tail, n, slots, user.at = "advance" /\ moved = 0)
  BY Zenon, <1>1, RxParts, DistIs
<1>5. user.at = "rest" => First - 1 = Newest - n
  <2>1. user.at = "rest" => First = Newest - n + 1 - 0
    BY Zenon DEF First
  <2> QED
    BY <1>4, <2>1
<1>6. ASSUME user.at = "rest", NEW i \in 1 .. Used
      PROVE  Content[i] = [ready |-> TRUE, a |-> Newest - Used + i, b |-> Newest - Used + i]
  <2> DEFINE x == (tail + i - 1) % SLOTS
  <2>1. Content[i] = slots[x]
    BY Zenon DEF Content
  <2>2. i \in Nat /\ i >= 1 /\ i <= SLOTS /\ i <= n
    BY <1>3, <1>4, BdeAssumption DEF Ring
  <2>3. x \in Ring /\ Dist(tail, x) = i - 1
    BY Zenon, <1>1, <2>2, ContentIs
  <2> HIDE DEF x, n
  <2>4. Dist(tail, x) < n /\ Newest - n + 1 + Dist(tail, x) = Newest - Used + i
    BY <1>3, <1>4, <2>2, <2>3
  <2>5. slots[x].ready /\ slots[x].a = Newest - Used + i /\ slots[x].b = Newest - Used + i
    <3>1. user.at # "advance"
      BY <1>6
    <3> QED
      BY Zenon, <1>4, <2>3, <2>4, <3>1 DEF Copies, Ready
  <2>6. slots[x] \in Cells
    BY Zenon, <1>1, <2>3
  <2>7. slots[x] = [ready |-> TRUE, a |-> Newest - Used + i, b |-> Newest - Used + i]
    BY Zenon, <2>5, <2>6 DEF Cells
  <2> QED
    BY Zenon, <2>1, <2>7
<1> QED
  BY Zenon, <1>2, <1>3, <1>4, <1>5, <1>6 DEF GotOk

LEMMA BdTx == BdInv => TxOnce
<1> SUFFICES ASSUME BdInv, side = "tx", ~raced
             PROVE  /\ \A i \in DOMAIN handed : handed[i] = <<i, i>>
                    /\ (\A t \in Senders : sender[t].at = "rest") /\ ~unsaid => Len(handed) = issued
  BY Zenon DEF TxOnce
<1>1. head \in Ring /\ tail \in Ring /\ handed \in Seq(Nat \X Nat)
  BY Zenon DEF BdInv, BdTypes
<1>2. DOMAIN handed = 1 .. Len(handed) /\ Len(handed) \in Nat
  BY <1>1
<1>3. /\ \A i \in 1 .. Len(handed) : handed[i] = <<i, i>>
      /\ (\A t \in Senders : sender[t].at = "rest") =>
            issued = Len(handed) + Dist(tail, head) /\ (~unsaid => head = tail)
  BY Zenon DEF BdInv, TxInv
<1>4. Dist(head, head) = 0
  BY Zenon, <1>1, DistIs
<1>5. head = tail /\ issued = Len(handed) + Dist(tail, head) => Len(handed) = issued
  BY <1>2, <1>4
<1> QED
  BY Zenon, <1>2, <1>3, <1>5

(***************************************************************************)
(* Both rings of qd_dhcp_bde.c keep their messages whole, in order and     *)
(* once, for any number of slots and threads: the receive ring although    *)
(* the kernel moves the reader's own index past the oldest slot while      *)
(* bde_recv copies it without a lock (at most once per bde_recv, and not   *)
(* in a ring just emptied), the transmit ring with one thread at a time in *)
(* bde_send, those messages included whose own TX_NOTIFY failed.           *)
(***************************************************************************)
THEOREM BdeCorrect == BDSpec => []BdeExact
<1>1. BdInv => BdeExact
  BY Zenon, BdRx, BdTx DEF BdeExact
<1>2. BdInv /\ [BDNext]_bdVars => BdInv'
  BY Zenon, BdNext
<1> QED
  BY <1>1, <1>2, BdInit, PTL DEF BDSpec
=============================================================================
