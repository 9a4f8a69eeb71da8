------------------------------ MODULE MpmcRing ------------------------------
(***************************************************************************)
(* The bounded MPMC ring of src/core/qd_threadpool.c, through which tasks  *)
(* submitted from outside the pool reach the workers.  Each cell carries a *)
(* sequence number that says whose turn it is; threads take positions with *)
(* a CAS on tail (push) or head (pop).  A step is one access to shared     *)
(* memory.  Positions are size_t counters that do not wrap within 2^64     *)
(* operations, so they are naturals and dif is an ordinary difference.     *)
(***************************************************************************)
EXTENDS Integers, Sequences

CONSTANTS
  Pushers,   \* threads inside qd_mpmc_ring_push
  Poppers,   \* threads inside qd_mpmc_ring_pop
  RingCapacity,  \* ring->capacity
  MaxTasks   \* bound: tasks pushed; a task is the number of its push call

ASSUME MpmcAssumption ==
  /\ RingCapacity \in Nat \ {0} /\ MaxTasks \in Nat
  /\ Pushers \cap Poppers = {}

VARIABLES
  mhead, mtail,      \* ring->head, ring->tail
  seq, cell,       \* cells[i].seq, cells[i].task
  mpc, pos,         \* control and local pos of every thread
  mtask,            \* argument of push, result of pop
  calls,           \* push calls made so far
  accepted         \* history: the task pushed at each position, in order

mring == <<mhead, mtail, seq, cell>>
mrVars == <<mring, mpc, pos, mtask, calls, accepted>>

RingThreads == Pushers \cup Poppers
NoTask == 0
Cells == 0 .. RingCapacity - 1
Cell(i) == i % RingCapacity

RingGoto(t, l) == mpc' = [mpc EXCEPT ![t] = l]

\* The call returns: the thread's locals are gone.
RingReturn(t) ==
  /\ RingGoto(t, "idle")
  /\ pos' = [pos EXCEPT ![t] = 0] /\ mtask' = [mtask EXCEPT ![t] = NoTask]

\* qd_mpmc_ring_init
MRInit ==
  /\ mhead = 0 /\ mtail = 0
  /\ seq = [i \in Cells |-> i]
  /\ cell = [i \in Cells |-> NoTask]
  /\ mpc = [t \in RingThreads |-> "idle"]
  /\ pos = [t \in RingThreads |-> 0]
  /\ mtask = [t \in RingThreads |-> NoTask]
  /\ calls = 0 /\ accepted = <<>>

-----------------------------------------------------------------------------
(* qd_mpmc_ring_push                                                       *)

PushCall(t) ==
  /\ mpc[t] = "idle" /\ calls < MaxTasks
  /\ calls' = calls + 1
  /\ mtask' = [mtask EXCEPT ![t] = calls']
  /\ pos' = [pos EXCEPT ![t] = mtail]
  /\ RingGoto(t, "seq")
  /\ UNCHANGED <<mring, accepted>>

\* Load cell->seq: our turn, the cell is still full, or pos is old.
PushSeq(t) ==
  /\ mpc[t] = "seq"
  /\ LET dif == seq[Cell(pos[t])] - pos[t] IN
     \/ dif = 0 /\ RingGoto(t, "cas") /\ UNCHANGED <<pos, mtask>>
     \/ dif < 0 /\ RingReturn(t)
     \/ dif > 0 /\ RingGoto(t, "reload") /\ UNCHANGED <<pos, mtask>>
  /\ UNCHANGED <<mring, calls, accepted>>

PushReload(t) ==
  /\ mpc[t] = "reload"
  /\ pos' = [pos EXCEPT ![t] = mtail]
  /\ RingGoto(t, "seq")
  /\ UNCHANGED <<mring, mtask, calls, accepted>>

\* The weak compare-exchange loads tail into pos when it fails.
PushCas(t) ==
  /\ mpc[t] = "cas"
  /\ \/ /\ mtail = pos[t]
        /\ mtail' = mtail + 1 /\ RingGoto(t, "store") /\ UNCHANGED pos
        /\ accepted' = Append(accepted, mtask[t])
     \/ /\ pos' = [pos EXCEPT ![t] = mtail]
        /\ RingGoto(t, "seq") /\ UNCHANGED <<mtail, accepted>>
  /\ UNCHANGED <<mhead, seq, cell, mtask, calls>>

PushStore(t) ==
  /\ mpc[t] = "store"
  /\ cell' = [cell EXCEPT ![Cell(pos[t])] = mtask[t]]
  /\ RingGoto(t, "release")
  /\ UNCHANGED <<mhead, mtail, seq, pos, mtask, calls, accepted>>

\* Mutant: the sequence number is not advanced.
PushReleaseSame(t) ==
  /\ mpc[t] = "release"
  /\ RingReturn(t)
  /\ UNCHANGED <<mring, calls, accepted>>

PushRelease(t) ==
  /\ mpc[t] = "release"
  /\ seq' = [seq EXCEPT ![Cell(pos[t])] = pos[t] + 1]
  /\ RingReturn(t)
  /\ UNCHANGED <<mhead, mtail, cell, calls, accepted>>

-----------------------------------------------------------------------------
(* qd_mpmc_ring_pop                                                        *)

PopCall(t) ==
  /\ mpc[t] = "idle"
  /\ pos' = [pos EXCEPT ![t] = mhead]
  /\ RingGoto(t, "seq")
  /\ UNCHANGED <<mring, mtask, calls, accepted>>

PopSeq(t) ==
  /\ mpc[t] = "seq"
  /\ LET dif == seq[Cell(pos[t])] - (pos[t] + 1) IN
     \/ dif = 0 /\ RingGoto(t, "cas") /\ UNCHANGED <<pos, mtask>>
     \/ dif < 0 /\ RingReturn(t)
     \/ dif > 0 /\ RingGoto(t, "reload") /\ UNCHANGED <<pos, mtask>>
  /\ UNCHANGED <<mring, calls, accepted>>

PopReload(t) ==
  /\ mpc[t] = "reload"
  /\ pos' = [pos EXCEPT ![t] = mhead]
  /\ RingGoto(t, "seq")
  /\ UNCHANGED <<mring, mtask, calls, accepted>>

PopCas(t) ==
  /\ mpc[t] = "cas"
  /\ \/ mhead = pos[t] /\ mhead' = mhead + 1 /\ RingGoto(t, "take") /\ UNCHANGED pos
     \/ pos' = [pos EXCEPT ![t] = mhead] /\ RingGoto(t, "seq") /\ UNCHANGED mhead
  /\ UNCHANGED <<mtail, seq, cell, mtask, calls, accepted>>

PopTake(t) ==
  /\ mpc[t] = "take"
  /\ mtask' = [mtask EXCEPT ![t] = cell[Cell(pos[t])]]
  /\ RingGoto(t, "release")
  /\ UNCHANGED <<mring, pos, calls, accepted>>

PopRelease(t) ==
  /\ mpc[t] = "release"
  /\ seq' = [seq EXCEPT ![Cell(pos[t])] = pos[t] + RingCapacity]
  /\ RingReturn(t)
  /\ UNCHANGED <<mhead, mtail, cell, calls, accepted>>

-----------------------------------------------------------------------------
PushStep(t) == \/ PushSeq(t) \/ PushReload(t) \/ PushCas(t)
               \/ PushStore(t) \/ PushRelease(t)

PopStep(t) == \/ PopSeq(t) \/ PopReload(t) \/ PopCas(t)
              \/ PopTake(t) \/ PopRelease(t)

MRNext ==
  \/ \E t \in Pushers : PushCall(t) \/ PushStep(t)
  \/ \E t \in Poppers : PopCall(t) \/ PopStep(t)

MRSpec == MRInit /\ [][MRNext]_mrVars

-----------------------------------------------------------------------------
(* Properties.                                                             *)

\* Every field of the ring and every local holds a value of its C type.
MRTypeOK ==
  /\ mhead \in Nat /\ mtail \in Nat
  /\ seq \in [Cells -> Nat] /\ cell \in [Cells -> Nat]
  /\ mpc \in [RingThreads -> {"idle", "seq", "reload", "cas", "store", "take",
                         "release"}]
  /\ pos \in [RingThreads -> Nat] /\ mtask \in [RingThreads -> Nat]
  /\ calls \in Nat /\ accepted \in Seq(Nat)

\* The ring holds at most capacity tasks ("Max tasks per queue").
QueueBounded == mhead <= mtail /\ mtail - mhead <= RingCapacity

\* A pop returns the task that was pushed at its position: nothing is lost,
\* overwritten, returned twice or returned out of order.
PopReturnsPushed ==
  \A t \in Poppers :
    mpc[t] = "release" => mtask[t] = accepted[pos[t] + 1]

\* t is between its CAS and its release of the cell.
Owns(t) == mpc[t] \in {"store", "take", "release"}

\* Between its CAS on head or tail and its release of the cell through seq, a
\* thread has the cell to itself.
CellExclusive ==
  \A t, u \in RingThreads :
    Owns(t) /\ Owns(u) /\ Cell(pos[t]) = Cell(pos[u]) => t = u

\* Every pushed task is popped in the end.
AllPopped == mtail > mhead ~> mhead >= mtail
=============================================================================
