-------------------------------- MODULE Locks -------------------------------
(***************************************************************************)
(* src/util/qd_atomic.h: the spinlock, the read-write spinlock and the     *)
(* sequence lock.  Each atomic access is a step; the sequence lock guards  *)
(* two words, written and read one at a time.                              *)
(***************************************************************************)
EXTENDS Integers, FiniteSets

CONSTANTS
  LockThreads,
  Writer,     \* the one writer of the sequence lock
  SeqModulus, \* 2^width of the sequence counter
  MaxWrites   \* bound: updates during the run

ASSUME LocksAssumption ==
  /\ IsFiniteSet(LockThreads) /\ Writer \in LockThreads
  /\ SeqModulus \in Nat \ {0} /\ SeqModulus % 2 = 0

VARIABLES
  locked, spc,            \* spinlock, and each thread at it
  readers, writer, rwpc,  \* read-write spinlock
  sequence, words, seqpc, \* sequence lock, the two words, each thread at it
  seen, copy,             \* per reader: the number it began with, its copies
  writes, began           \* history: updates begun; how many when a reader began

spinVars == <<locked, spc>>
rwVars   == <<readers, writer, rwpc>>
readVars == <<seen, copy, began>>
seqVars  == <<sequence, words, seqpc, writes, readVars>>

-----------------------------------------------------------------------------
(* Spinlock *)

SpinInit == locked = 0 /\ spc = [t \in LockThreads |-> "idle"]

SpinCall(t) ==
  /\ spc[t] = "idle" /\ \E to \in {"test", "try"} : spc' = [spc EXCEPT ![t] = to]
  /\ UNCHANGED locked

\* The load before the exchange
SpinTest(t) ==
  /\ spc[t] = "test" /\ locked = 0 /\ spc' = [spc EXCEPT ![t] = "cas"]
  /\ UNCHANGED locked

\* compare_exchange_weak, which may fail for no reason
SpinCas(t) ==
  /\ spc[t] = "cas"
  /\ \/ locked = 0 /\ locked' = 1 /\ spc' = [spc EXCEPT ![t] = "cs"]
     \/ spc' = [spc EXCEPT ![t] = "test"] /\ UNCHANGED locked

SpinTry(t) ==
  /\ spc[t] = "try"
  /\ \/ locked = 0 /\ locked' = 1 /\ spc' = [spc EXCEPT ![t] = "cs"]
     \/ locked # 0 /\ UNCHANGED locked /\ spc' = [spc EXCEPT ![t] = "idle"]

SpinUnlock(t) ==
  /\ spc[t] = "cs" /\ spc' = [spc EXCEPT ![t] = "idle"] /\ locked' = 0

SpinNext == \E t \in LockThreads : \/ SpinCall(t) \/ SpinTest(t) \/ SpinCas(t)
                                   \/ SpinTry(t) \/ SpinUnlock(t)
SpinSpec == SpinInit /\ [][SpinNext]_spinVars

-----------------------------------------------------------------------------
(* Read-write spinlock *)

RWInit == readers = 0 /\ writer = 0 /\ rwpc = [t \in LockThreads |-> "idle"]

RWCall(t) ==
  /\ rwpc[t] = "idle" /\ \E to \in {"rtest", "wcas"} : rwpc' = [rwpc EXCEPT ![t] = to]
  /\ UNCHANGED <<readers, writer>>

ReadTest(t) ==
  /\ rwpc[t] = "rtest" /\ writer = 0 /\ rwpc' = [rwpc EXCEPT ![t] = "rinc"]
  /\ UNCHANGED <<readers, writer>>

\* Defect: the writer is not looked at again after the increment.
ReadIncEnter(t) ==
  /\ rwpc[t] = "rinc" /\ rwpc' = [rwpc EXCEPT ![t] = "rcs"]
  /\ readers' = readers + 1 /\ UNCHANGED writer

ReadInc(t) ==
  /\ rwpc[t] = "rinc" /\ rwpc' = [rwpc EXCEPT ![t] = "rcheck"]
  /\ readers' = readers + 1 /\ UNCHANGED writer

ReadCheck(t) ==
  /\ rwpc[t] = "rcheck"
  /\ rwpc' = [rwpc EXCEPT ![t] = IF writer = 0 THEN "rcs" ELSE "rback"]
  /\ UNCHANGED <<readers, writer>>

ReadBack(t) ==
  /\ rwpc[t] = "rback" /\ rwpc' = [rwpc EXCEPT ![t] = "rtest"]
  /\ readers' = readers - 1 /\ UNCHANGED writer

ReadUnlock(t) ==
  /\ rwpc[t] = "rcs" /\ rwpc' = [rwpc EXCEPT ![t] = "idle"]
  /\ readers' = readers - 1 /\ UNCHANGED writer

WriteCas(t) ==
  /\ rwpc[t] = "wcas" /\ writer = 0 /\ writer' = 1
  /\ rwpc' = [rwpc EXCEPT ![t] = "wwait"] /\ UNCHANGED readers

WriteWait(t) ==
  /\ rwpc[t] = "wwait" /\ ~(readers > 0) /\ rwpc' = [rwpc EXCEPT ![t] = "wcs"]
  /\ UNCHANGED <<readers, writer>>

WriteUnlock(t) ==
  /\ rwpc[t] = "wcs" /\ rwpc' = [rwpc EXCEPT ![t] = "idle"]
  /\ writer' = 0 /\ UNCHANGED readers

RWNext == \E t \in LockThreads : \/ RWCall(t) \/ ReadTest(t) \/ ReadInc(t)
                                 \/ ReadCheck(t) \/ ReadBack(t) \/ ReadUnlock(t)
                                 \/ WriteCas(t) \/ WriteWait(t) \/ WriteUnlock(t)
RWSpec == RWInit /\ [][RWNext]_rwVars

-----------------------------------------------------------------------------
(* Sequence lock: one writer, as its users have to see to *)

SeqInit == /\ sequence = 0 /\ words = [i \in {1, 2} |-> 0] /\ writes = 0
           /\ seqpc = [t \in LockThreads |-> "idle"]
           /\ seen = [t \in LockThreads |-> 0] /\ began = [t \in LockThreads |-> 0]
           /\ copy = [t \in LockThreads |-> [i \in {1, 2} |-> 0]]

At(t, from, to) == seqpc[t] = from /\ seqpc' = [seqpc EXCEPT ![t] = to]

Reading(t) == seqpc[t] \in {"r1", "r2", "r3"}

\* The counter is an unsigned int.  While one reader is between its two looks
\* at it, the writer does not get through half of the counter's values.
WriteSeqLock ==
  /\ At(Writer, "idle", "w1") /\ writes < MaxWrites
  /\ \A t \in LockThreads : Reading(t) => 2 * (writes + 1 - began[t]) < SeqModulus
  /\ writes' = writes + 1 /\ sequence' = (sequence + 1) % SeqModulus
  /\ UNCHANGED <<words, readVars>>

WriteWord(i) ==
  /\ At(Writer, IF i = 1 THEN "w1" ELSE "w2", IF i = 1 THEN "w2" ELSE "w3")
  /\ words' = [words EXCEPT ![i] = writes]
  /\ UNCHANGED <<sequence, writes, readVars>>

WriteSeqUnlock ==
  /\ At(Writer, "w3", "idle") /\ sequence' = (sequence + 1) % SeqModulus
  /\ UNCHANGED <<words, writes, readVars>>

\* qd_read_seqbegin waits for an even number.
SeqBegin(t) ==
  /\ t # Writer /\ At(t, "idle", "r1") /\ sequence % 2 = 0
  /\ seen' = [seen EXCEPT ![t] = sequence] /\ began' = [began EXCEPT ![t] = writes]
  /\ UNCHANGED <<sequence, words, writes, copy>>

ReadWord(t, i) ==
  /\ At(t, IF i = 1 THEN "r1" ELSE "r2", IF i = 1 THEN "r2" ELSE "r3")
  /\ copy' = [copy EXCEPT ![t][i] = words[i]]
  /\ UNCHANGED <<sequence, words, writes, seen, began>>

\* The reader's locals are gone.
SeqForget(t) ==
  /\ seen' = [seen EXCEPT ![t] = 0] /\ began' = [began EXCEPT ![t] = 0]
  /\ copy' = [copy EXCEPT ![t] = [i \in {1, 2} |-> 0]]

\* qd_read_seqretry: what was copied is used, or the reader starts again.
SeqRetry(t) ==
  /\ \/ At(t, "r3", "got") /\ sequence = seen[t] /\ UNCHANGED readVars
     \/ At(t, "r3", "idle") /\ sequence # seen[t] /\ SeqForget(t)
  /\ UNCHANGED <<sequence, words, writes>>

SeqDone(t) == At(t, "got", "idle") /\ SeqForget(t) /\ UNCHANGED <<sequence, words, writes>>

SeqNext == \/ WriteSeqLock \/ WriteWord(1) \/ WriteWord(2) \/ WriteSeqUnlock
           \/ \E t \in LockThreads : \/ SeqBegin(t) \/ ReadWord(t, 1) \/ ReadWord(t, 2)
                                     \/ SeqRetry(t) \/ SeqDone(t)
SeqSpec == SeqInit /\ [][SeqNext]_seqVars

-----------------------------------------------------------------------------

\* At most one thread is between lock (or a successful trylock) and unlock.
SpinExclusive == \A t, u \in LockThreads : (spc[t] = "cs" /\ spc[u] = "cs") => t = u

\* A writer is alone: no other writer and no reader is inside, also when a
\* reader increments between the writer's exchange and its wait.
RWExclusive ==
  \A t, u \in LockThreads :
    (rwpc[t] = "wcs" /\ rwpc[u] \in {"rcs", "wcs"}) => t = u

\* A reader that is not told to retry has read both words of one update, also
\* when the sequence number wraps around between its two looks at it.
SnapshotConsistent ==
  \A t \in LockThreads : seqpc[t] = "got" => copy[t][1] = copy[t][2]

\* The three locks do what they are for.
LocksExclude == SpinExclusive /\ RWExclusive /\ SnapshotConsistent
=============================================================================
