------------------------------ MODULE WsDeque -------------------------------
(***************************************************************************)
(* qd_wsdeque_push, pop and steal of src/core/qd_threadpool.c: the         *)
(* work-stealing deque of one worker.  The owner pushes and pops at        *)
(* bottom, other workers steal at top; only the last task is fought for,   *)
(* with a CAS on top.  A step is one access to a word another thread may   *)
(* change (only the owner writes bottom and buffer, so it reads them for   *)
(* free); the full barriers of the code make the accesses sequentially     *)
(* consistent.                                                             *)
(***************************************************************************)
EXTENDS Integers, Sequences

CONSTANTS
  Owner, Thieves,
  DequeCapacity,   \* deque->capacity, a power of two
  MaxTasks    \* bound: tasks pushed; a task is the number of its push

ASSUME WsDequeAssumption ==
  DequeCapacity \in Nat \ {0} /\ MaxTasks \in Nat /\ Owner \notin Thieves

VARIABLES
  top, bottom, dbuffer,  \* struct qd_wsdeque
  dpc, ltop,    \* control and locals of every thread
  dtask,                 \* argument of push; task read by pop and steal
  pushed,                \* push calls so far
  given                  \* history: tasks returned by pop and steal

wsVars == <<top, bottom, dbuffer, dpc, ltop, dtask, pushed, given>>

DequeThreads == {Owner} \cup Thieves
Tasks == 1 .. MaxTasks
Slot(i) == i % DequeCapacity
DequeGoto(t, l) == dpc' = [dpc EXCEPT ![t] = l]

\* The call returns: the thread's locals are gone.
DequeReturn(t) ==
  /\ DequeGoto(t, "idle")
  /\ ltop' = [ltop EXCEPT ![t] = 0] /\ dtask' = [dtask EXCEPT ![t] = 0]

\* qd_wsdeque_init
WSInit ==
  /\ top = 0 /\ bottom = 0
  /\ dbuffer = [s \in 0 .. DequeCapacity - 1 |-> 0]
  /\ dpc = [t \in DequeThreads |-> "idle"]
  /\ ltop = [t \in DequeThreads |-> 0]
  /\ dtask = [t \in DequeThreads |-> 0]
  /\ pushed = 0 /\ given = <<>>

-----------------------------------------------------------------------------
(* qd_wsdeque_push, by the owner                                           *)

\* Load top: a deque with capacity - 1 tasks is full.
PushTop ==
  /\ dpc[Owner] = "idle" /\ pushed < MaxTasks
  /\ pushed' = pushed + 1
  /\ \/ bottom - top >= DequeCapacity - 1 /\ UNCHANGED <<dpc, dtask>>
     \/ /\ bottom - top < DequeCapacity - 1
        /\ dtask' = [dtask EXCEPT ![Owner] = pushed'] /\ DequeGoto(Owner, "push")
  /\ UNCHANGED <<top, bottom, dbuffer, ltop, given>>

PushWrite ==
  /\ dpc[Owner] = "push"
  /\ dbuffer' = [dbuffer EXCEPT ![Slot(bottom)] = dtask[Owner]]
  /\ DequeGoto(Owner, "publish")
  /\ UNCHANGED <<top, bottom, ltop, dtask, pushed, given>>

PushPublish ==
  /\ dpc[Owner] = "publish"
  /\ bottom' = bottom + 1
  /\ DequeReturn(Owner)
  /\ UNCHANGED <<top, dbuffer, pushed, given>>

-----------------------------------------------------------------------------
(* qd_wsdeque_pop, by the owner                                            *)

PopBottom ==
  /\ dpc[Owner] = "idle" /\ bottom # 0
  /\ bottom' = bottom - 1
  /\ DequeGoto(Owner, "pop_top")
  /\ UNCHANGED <<top, dbuffer, ltop, dtask, pushed, given>>

\* Load top: more than one task, the last one, or none.
PopTop ==
  /\ dpc[Owner] = "pop_top"
  /\ \/ /\ top < bottom
        /\ given' = Append(given, dbuffer[Slot(bottom)]) /\ DequeReturn(Owner)
     \/ /\ top = bottom
        /\ ltop' = [ltop EXCEPT ![Owner] = top]
        /\ dtask' = [dtask EXCEPT ![Owner] = dbuffer[Slot(bottom)]]
        /\ DequeGoto(Owner, "pop_cas") /\ UNCHANGED given
     \/ top > bottom /\ DequeGoto(Owner, "restore") /\ UNCHANGED <<ltop, dtask, given>>
  /\ UNCHANGED <<top, bottom, dbuffer, pushed>>

PopCas ==
  /\ dpc[Owner] = "pop_cas"
  /\ IF top = ltop[Owner]
     THEN top' = top + 1 /\ given' = Append(given, dtask[Owner])
     ELSE UNCHANGED <<top, given>>
  /\ DequeGoto(Owner, "restore")
  /\ UNCHANGED <<bottom, dbuffer, ltop, dtask, pushed>>

PopRestore ==
  /\ dpc[Owner] = "restore"
  /\ bottom' = bottom + 1
  /\ DequeReturn(Owner)
  /\ UNCHANGED <<top, dbuffer, pushed, given>>

-----------------------------------------------------------------------------
(* qd_wsdeque_steal, by the other workers                                  *)

StealTop(t) ==
  /\ dpc[t] = "idle"
  /\ ltop' = [ltop EXCEPT ![t] = top]
  /\ DequeGoto(t, "bottom")
  /\ UNCHANGED <<top, bottom, dbuffer, dtask, pushed, given>>

StealBottom(t) ==
  /\ dpc[t] = "bottom"
  /\ \/ ltop[t] >= bottom /\ DequeReturn(t)
     \/ ltop[t] < bottom /\ DequeGoto(t, "read") /\ UNCHANGED <<ltop, dtask>>
  /\ UNCHANGED <<top, bottom, dbuffer, pushed, given>>

StealRead(t) ==
  /\ dpc[t] = "read"
  /\ dtask' = [dtask EXCEPT ![t] = dbuffer[Slot(ltop[t])]]
  /\ DequeGoto(t, "cas")
  /\ UNCHANGED <<top, bottom, dbuffer, ltop, pushed, given>>

\* Mutant: top is stored, not compared and exchanged.
StealStore(t) ==
  /\ dpc[t] = "cas"
  /\ top' = ltop[t] + 1 /\ given' = Append(given, dtask[t])
  /\ DequeReturn(t)
  /\ UNCHANGED <<bottom, dbuffer, pushed>>

StealCas(t) ==
  /\ dpc[t] = "cas"
  /\ IF top = ltop[t]
     THEN top' = top + 1 /\ given' = Append(given, dtask[t])
     ELSE UNCHANGED <<top, given>>
  /\ DequeReturn(t)
  /\ UNCHANGED <<bottom, dbuffer, pushed>>

-----------------------------------------------------------------------------
OwnerStep == \/ PushTop \/ PushWrite \/ PushPublish
             \/ PopBottom \/ PopTop \/ PopCas \/ PopRestore

StealStep(t) == StealTop(t) \/ StealBottom(t) \/ StealRead(t) \/ StealCas(t)

WSNext == OwnerStep \/ \E t \in Thieves : StealStep(t)

WSSpec == WSInit /\ [][WSNext]_wsVars

-----------------------------------------------------------------------------
(* Properties.                                                             *)

\* Every field of the deque and every local holds a value of its C type; in
\* particular bottom is never decremented below zero.
WSTypeOK ==
  /\ top \in Nat /\ bottom \in Nat
  /\ dbuffer \in [0 .. DequeCapacity - 1 -> 0 .. MaxTasks]
  /\ dpc \in [DequeThreads -> {"idle", "push", "publish", "pop_top", "pop_cas",
                         "restore", "bottom", "read", "cas"}]
  /\ ltop \in [DequeThreads -> Nat]
  /\ dtask \in [DequeThreads -> 0 .. MaxTasks]
  /\ pushed \in 0 .. MaxTasks /\ given \in Seq(0 .. MaxTasks)

\* bottom as it would be if the owner were not in the middle of a pop.
LogicalBottom == IF dpc[Owner] \in {"pop_top", "pop_cas", "restore"}
                 THEN bottom + 1 ELSE bottom

\* Between calls top never passes bottom, and a task always has its slot.
TopBelowBottom ==
  top <= LogicalBottom /\ LogicalBottom - top < DequeCapacity

DequeContents ==
  [k \in 1 .. LogicalBottom - top |-> dbuffer[Slot(top + k - 1)]]

Abstract == INSTANCE WorkDeque WITH deque <- DequeContents, Bound <- DequeCapacity - 1

\* However pops and steals race, the deque gives out each task once, to the
\* owner from the back and to thieves from the front.
ImplementsDeque == [](WSTypeOK /\ TopBelowBottom) /\ Abstract!Spec
=============================================================================
