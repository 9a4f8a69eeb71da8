--------------------------- MODULE LockfreeProofs ---------------------------
(***************************************************************************)
(* The lock-free parts of the core.  The three locks of qd_atomic.h, for   *)
(* any finite set of threads: mutual exclusion of the spinlock and of the  *)
(* read-write spinlock, and the consistency of what a reader of the        *)
(* sequence lock gets.  The work-stealing deque of qd_threadpool.c, for    *)
(* any number of thieves, any capacity and any number of tasks: it         *)
(* implements the abstract deque.                                          *)
(***************************************************************************)
EXTENDS Locks, WsDeque, FiniteSetTheorems, SequenceTheorems, TLAPS

-----------------------------------------------------------------------------
(* Spinlock *)

\* The lock word is 1 exactly while a thread is inside.
SpinInv ==
  /\ spc \in [LockThreads -> {"idle", "test", "cas", "try", "cs"}]
  /\ locked \in {0, 1}
  /\ locked = 0 => \A t \in LockThreads : spc[t] # "cs"
  /\ SpinExclusive

\* qd_spin_lock and qd_spin_trylock never let two threads in.
THEOREM SpinMutex == SpinSpec => []SpinExclusive
<1>1. SpinInit => SpinInv
  BY Zenon DEF SpinInit, SpinInv, SpinExclusive
<1>2. SpinInv /\ [SpinNext]_spinVars => SpinInv'
  <2> SUFFICES ASSUME SpinInv, [SpinNext]_spinVars PROVE SpinInv'
    BY Zenon
  <2>1. CASE UNCHANGED spinVars
    BY Zenon, <2>1 DEF SpinInv, SpinExclusive, spinVars
  <2>2. ASSUME NEW t \in LockThreads, SpinCall(t) PROVE SpinInv'
    BY <2>2 DEF SpinInv, SpinExclusive, SpinCall
  <2>3. ASSUME NEW t \in LockThreads, SpinTest(t) PROVE SpinInv'
    BY Zenon, <2>3 DEF SpinInv, SpinExclusive, SpinTest
  <2>4. ASSUME NEW t \in LockThreads, SpinCas(t) PROVE SpinInv'
    BY <2>4 DEF SpinInv, SpinExclusive, SpinCas
  <2>5. ASSUME NEW t \in LockThreads, SpinTry(t) PROVE SpinInv'
    BY <2>5 DEF SpinInv, SpinExclusive, SpinTry
  <2>6. ASSUME NEW t \in LockThreads, SpinUnlock(t) PROVE SpinInv'
    BY Zenon, <2>6 DEF SpinInv, SpinExclusive, SpinUnlock
  <2> QED
    BY Zenon, <2>1, <2>2, <2>3, <2>4, <2>5, <2>6 DEF SpinNext
<1>3. SpinInv => SpinExclusive
  BY Zenon DEF SpinInv
<1> QED
  BY <1>1, <1>2, <1>3, PTL DEF SpinSpec

-----------------------------------------------------------------------------
(* Read-write spinlock *)

\* The threads that are counted in readers
Counted == {t \in LockThreads : rwpc[t] \in {"rcheck", "rback", "rcs"}}

RWPc == {"idle", "rtest", "rinc", "rcheck", "rback", "rcs", "wcas", "wwait", "wcs"}

Writing(t) == rwpc[t] \in {"wwait", "wcs"}

\* The counter is the number of threads between increment and decrement; the
\* writer word is 1 exactly while one thread has it; once that thread has seen
\* a counter of 0, readers that come later find the word set and go back.
RWInv ==
  /\ rwpc \in [LockThreads -> RWPc]
  /\ readers = Cardinality(Counted)
  /\ writer \in {0, 1}
  /\ writer = 0 => \A t \in LockThreads : ~Writing(t)
  /\ \A t, u \in LockThreads : (Writing(t) /\ Writing(u)) => t = u
  /\ RWExclusive

\* A thread that is not counted joins: one more.
LEMMA CountJoins ==
  ASSUME NEW t \in LockThreads, t \notin Counted, Counted' = Counted \cup {t}
  PROVE  Cardinality(Counted') = Cardinality(Counted) + 1
<1>1. IsFiniteSet(Counted)
  BY Zenon, LocksAssumption, FS_Subset DEF Counted
<1> QED
  BY Zenon, <1>1, FS_AddElement

\* A counted thread leaves: one less.
LEMMA CountLeaves ==
  ASSUME NEW t \in LockThreads, t \in Counted, Counted' = Counted \ {t}
  PROVE  Cardinality(Counted') = Cardinality(Counted) - 1
<1>1. IsFiniteSet(Counted)
  BY Zenon, LocksAssumption, FS_Subset DEF Counted
<1> QED
  BY Zenon, <1>1, FS_RemoveElement

\* A counter of 0 or less means that nobody is counted.
LEMMA NobodyCounted ==
  ASSUME ~(Cardinality(Counted) > 0)
  PROVE  Counted = {}
<1>1. IsFiniteSet(Counted)
  BY Zenon, LocksAssumption, FS_Subset DEF Counted
<1>2. Cardinality(Counted) \in Nat
  BY Zenon, <1>1, FS_CardinalityType
<1>3. Cardinality(Counted) = 0
  BY <1>2
<1> QED
  BY Zenon, <1>1, <1>3, FS_EmptySet

\* qd_read_lock and qd_write_lock: a writer is alone, for any number of threads.
THEOREM RWMutex == RWSpec => []RWExclusive
<1>1. RWInit => RWInv
  <2> SUFFICES ASSUME RWInit PROVE RWInv
    BY Zenon
  <2>1. Counted = {}
    BY Zenon DEF RWInit, Counted
  <2>2. Cardinality(Counted) = 0
    BY Zenon, <2>1, FS_EmptySet
  <2> QED
    BY Zenon, <2>2 DEF RWInit, RWInv, RWPc, Writing, RWExclusive
<1>2. RWInv /\ [RWNext]_rwVars => RWInv'
  <2> SUFFICES ASSUME RWInv, [RWNext]_rwVars PROVE RWInv'
    BY Zenon
  <2>1. CASE UNCHANGED rwVars
    <3>1. Counted' = Counted
      BY Zenon, <2>1 DEF Counted, rwVars
    <3> QED
      BY Zenon, <2>1, <3>1 DEF RWInv, RWExclusive, Writing, rwVars
  <2>2. ASSUME NEW t \in LockThreads, RWCall(t) PROVE RWInv'
    <3>1. Counted' = Counted
      BY Zenon, <2>2 DEF Counted, RWCall, RWInv, RWPc
    <3> QED
      BY <2>2, <3>1 DEF RWInv, RWPc, RWExclusive, Writing, RWCall
  <2>3. ASSUME NEW t \in LockThreads, ReadTest(t) PROVE RWInv'
    <3>1. Counted' = Counted
      BY Zenon, <2>3 DEF Counted, ReadTest, RWInv, RWPc
    <3> QED
      BY Zenon, <2>3, <3>1 DEF RWInv, RWPc, RWExclusive, Writing, ReadTest
  <2>4. ASSUME NEW t \in LockThreads, ReadInc(t) PROVE RWInv'
    <3>1. t \notin Counted /\ Counted' = Counted \cup {t}
      BY Zenon, <2>4 DEF Counted, ReadInc, RWInv, RWPc
    <3>2. readers' = Cardinality(Counted')
      BY Zenon, <2>4, <3>1, CountJoins DEF RWInv, ReadInc
    <3> QED
      BY Zenon, <2>4, <3>2 DEF RWInv, RWPc, RWExclusive, Writing, ReadInc
  <2>5. ASSUME NEW t \in LockThreads, ReadCheck(t) PROVE RWInv'
    <3>1. Counted' = Counted
      BY Zenon, <2>5 DEF Counted, ReadCheck, RWInv, RWPc
    <3> QED
      BY <2>5, <3>1 DEF RWInv, RWPc, RWExclusive, Writing, ReadCheck
  <2>6. ASSUME NEW t \in LockThreads, ReadBack(t) PROVE RWInv'
    <3>1. t \in Counted /\ Counted' = Counted \ {t}
      BY Zenon, <2>6 DEF Counted, ReadBack, RWInv, RWPc
    <3>2. readers' = Cardinality(Counted')
      BY Zenon, <2>6, <3>1, CountLeaves DEF RWInv, ReadBack
    <3> QED
      BY Zenon, <2>6, <3>2 DEF RWInv, RWPc, RWExclusive, Writing, ReadBack
  <2>7. ASSUME NEW t \in LockThreads, ReadUnlock(t) PROVE RWInv'
    <3>1. t \in Counted /\ Counted' = Counted \ {t}
      BY Zenon, <2>7 DEF Counted, ReadUnlock, RWInv, RWPc
    <3>2. readers' = Cardinality(Counted')
      BY Zenon, <2>7, <3>1, CountLeaves DEF RWInv, ReadUnlock
    <3> QED
      BY Zenon, <2>7, <3>2 DEF RWInv, RWPc, RWExclusive, Writing, ReadUnlock
  <2>8. ASSUME NEW t \in LockThreads, WriteCas(t) PROVE RWInv'
    <3>1. Counted' = Counted
      BY Zenon, <2>8 DEF Counted, WriteCas, RWInv, RWPc
    <3> QED
      BY <2>8, <3>1 DEF RWInv, RWPc, RWExclusive, Writing, WriteCas
  <2>9. ASSUME NEW t \in LockThreads, WriteWait(t) PROVE RWInv'
    <3>1. Counted' = Counted
      BY Zenon, <2>9 DEF Counted, WriteWait, RWInv, RWPc
    <3>2. Counted = {}
      BY Zenon, <2>9, NobodyCounted DEF WriteWait, RWInv
    <3>3. \A u \in LockThreads : rwpc[u] # "rcs"
      BY Zenon, <3>2 DEF Counted
    <3> QED
      BY <2>9, <3>1, <3>3 DEF RWInv, RWPc, RWExclusive, Writing, WriteWait
  <2>10. ASSUME NEW t \in LockThreads, WriteUnlock(t) PROVE RWInv'
    <3>1. Counted' = Counted
      BY Zenon, <2>10 DEF Counted, WriteUnlock, RWInv, RWPc
    <3> QED
      BY Zenon, <2>10, <3>1 DEF RWInv, RWPc, RWExclusive, Writing, WriteUnlock
  <2> QED
    BY Zenon, <2>1, <2>2, <2>3, <2>4, <2>5, <2>6, <2>7, <2>8, <2>9, <2>10 DEF RWNext
<1>3. RWInv => RWExclusive
  BY Zenon DEF RWInv
<1> QED
  BY <1>1, <1>2, <1>3, PTL DEF RWSpec

-----------------------------------------------------------------------------
(* Sequence lock *)

SeqPc == {"idle", "w1", "w2", "w3", "r1", "r2", "r3", "got"}

SeqTypeOK ==
  /\ sequence \in 0 .. SeqModulus - 1 /\ writes \in Nat
  /\ words \in [{1, 2} -> Nat]
  /\ seqpc \in [LockThreads -> SeqPc]
  /\ seen \in [LockThreads -> 0 .. SeqModulus - 1] /\ began \in [LockThreads -> Nat]
  /\ copy \in [LockThreads -> [{1, 2} -> Nat]]

Updating == seqpc[Writer] \in {"w1", "w2", "w3"}

\* How often the counter was stepped since t began
Steps(t) == 2 * (writes - began[t]) - (IF Updating THEN 1 ELSE 0)

\* The words hold the last update but for those still to be written.
WordsInv ==
  /\ \A t \in LockThreads : seqpc[t] \in {"w1", "w2", "w3"} => t = Writer
  /\ seqpc[Writer] \in {"idle", "w1", "w2", "w3"}
  /\ words[1] = IF seqpc[Writer] = "w1" THEN writes - 1 ELSE writes
  /\ words[2] = IF seqpc[Writer] \in {"w1", "w2"} THEN writes - 1 ELSE writes
  /\ sequence % 2 = 0 <=> ~Updating
  /\ Updating => writes > 0

\* A reader's number, the counter and the steps between them agree, the counter
\* having wrapped at most once; and as long as no update has begun, what the
\* reader has copied is the last one.
ReaderInv(t) ==
  /\ began[t] <= writes /\ (Updating => began[t] < writes)
  /\ 2 * (writes - began[t]) < SeqModulus
  /\ sequence = seen[t] + Steps(t) \/ sequence = seen[t] + Steps(t) - SeqModulus
  /\ began[t] = writes =>
       /\ seqpc[t] \in {"r2", "r3"} => copy[t][1] = writes
       /\ seqpc[t] = "r3" => copy[t][2] = writes

SeqInv ==
  /\ SeqTypeOK /\ WordsInv /\ SnapshotConsistent
  /\ \A t \in LockThreads : Reading(t) => ReaderInv(t)

\* The unsigned counter steps by one or wraps to zero, and its parity changes.
LEMMA SeqStep ==
  ASSUME NEW s \in 0 .. SeqModulus - 1
  PROVE  LET n == (s + 1) % SeqModulus IN
         /\ n \in 0 .. SeqModulus - 1
         /\ n = s + 1 \/ n = s + 1 - SeqModulus
         /\ n % 2 = 0 <=> s % 2 # 0
<1> DEFINE n == (s + 1) % SeqModulus
<1>1. CASE s + 1 < SeqModulus
  <2>1. n = s + 1
    BY <1>1, LocksAssumption
  <2> QED
    BY <1>1, <2>1, LocksAssumption
<1>2. CASE s + 1 = SeqModulus
  <2>1. n = 0
    BY <1>2, LocksAssumption
  <2> QED
    BY <1>2, <2>1, LocksAssumption
<1> QED
  BY <1>1, <1>2, LocksAssumption

\* What a step of the counter does to a reader that is under way.
LEMMA ReaderStep ==
  ASSUME SeqInv, NEW t \in LockThreads, Reading(t), t # Writer,
         UNCHANGED readVars, seqpc'[t] = seqpc[t],
         sequence' = (sequence + 1) % SeqModulus,
         \/ /\ ~Updating /\ Updating' /\ writes' = writes + 1
            /\ 2 * (writes + 1 - began[t]) < SeqModulus
         \/ Updating /\ ~Updating' /\ writes' = writes
  PROVE  ReaderInv(t)'
<1>1. /\ sequence \in 0 .. SeqModulus - 1 /\ writes \in Nat /\ began[t] \in Nat
      /\ seen[t] \in 0 .. SeqModulus - 1 /\ SeqModulus \in Nat /\ ReaderInv(t)
  BY Zenon, LocksAssumption DEF SeqInv, SeqTypeOK
<1>2. sequence' = sequence + 1 \/ sequence' = sequence + 1 - SeqModulus
  BY Zenon, <1>1, SeqStep
<1>3. sequence' \in 0 .. SeqModulus - 1
  BY Zenon, <1>1, SeqStep
<1>4. Steps(t)' = Steps(t) + 1
  BY <1>1 DEF Steps, readVars
<1>5. began'[t] = began[t] /\ seen'[t] = seen[t] /\ copy'[t] = copy[t]
  BY Zenon DEF readVars
<1>6. /\ began[t] <= writes' /\ (Updating' => began[t] < writes')
      /\ 2 * (writes' - began[t]) < SeqModulus
  BY <1>1 DEF ReaderInv
<1>7. \/ sequence' = seen[t] + Steps(t)' \/ sequence' = seen[t] + Steps(t)' - SeqModulus
  <2>1. Steps(t) \in Nat /\ Steps(t) < SeqModulus
    BY <1>1 DEF Steps, ReaderInv
  <2> QED
    <3>1. \/ sequence = seen[t] + Steps(t) \/ sequence = seen[t] + Steps(t) - SeqModulus
      BY Zenon, <1>1 DEF ReaderInv
    <3>2. CASE sequence = seen[t] + Steps(t) - SeqModulus
      <4>1. sequence + 1 < SeqModulus
        BY <1>1, <2>1, <3>2
      <4>2. sequence' = sequence + 1
        BY <1>1, <1>2, <1>3, <4>1
      <4> QED
        BY <1>1, <1>4, <2>1, <3>2, <4>2
    <3>3. CASE sequence = seen[t] + Steps(t)
      BY <1>1, <1>2, <1>4, <2>1, <3>3
    <3> QED
      BY Zenon, <3>1, <3>2, <3>3
<1>8. began[t] = writes' => began[t] = writes /\ writes' = writes
  BY <1>1 DEF ReaderInv
<1> QED
  BY Zenon, <1>1, <1>5, <1>6, <1>7, <1>8 DEF ReaderInv

\* A step that leaves the counter, the words and the reader alone.
LEMMA ReaderKept ==
  ASSUME SeqInv, NEW t \in LockThreads, Reading(t),
         seqpc'[t] = seqpc[t], seen'[t] = seen[t], began'[t] = began[t],
         copy'[t] = copy[t], UNCHANGED <<sequence, writes>>, Updating' <=> Updating
  PROVE  ReaderInv(t)'
BY Zenon DEF SeqInv, ReaderInv, Steps, Reading

LEMMA SeqInvInit == SeqInit => SeqInv
BY LocksAssumption DEF SeqInit, SeqInv, SeqTypeOK, SeqPc, WordsInv, Updating, Reading,
   SnapshotConsistent

LEMMA SeqLockKeeps == SeqInv /\ WriteSeqLock => SeqInv'
<1> SUFFICES ASSUME SeqInv, WriteSeqLock PROVE SeqInv'
  BY Zenon
<1>1. /\ seqpc[Writer] = "idle" /\ seqpc' = [seqpc EXCEPT ![Writer] = "w1"]
      /\ writes' = writes + 1 /\ sequence' = (sequence + 1) % SeqModulus
      /\ UNCHANGED words /\ UNCHANGED readVars
  BY Zenon DEF WriteSeqLock, At
<1>2. SeqTypeOK /\ WordsInv /\ Writer \in LockThreads
  BY Zenon, LocksAssumption DEF SeqInv
<1>3. /\ sequence' \in 0 .. SeqModulus - 1
      /\ sequence' % 2 = 0 <=> sequence % 2 # 0
  BY Zenon, <1>1, <1>2, SeqStep DEF SeqTypeOK
<1>4. SeqTypeOK'
  BY <1>1, <1>2, <1>3 DEF SeqTypeOK, SeqPc, readVars
<1>5. ~Updating /\ Updating'
  BY Zenon, <1>1, <1>2 DEF Updating, SeqTypeOK
<1>6. WordsInv'
  BY <1>1, <1>2, <1>3, <1>5 DEF WordsInv, SeqTypeOK
<1>7. SnapshotConsistent'
  BY Zenon, <1>1, <1>2 DEF SnapshotConsistent, SeqInv, SeqTypeOK, readVars
<1>8. ASSUME NEW t \in LockThreads, Reading(t)' PROVE ReaderInv(t)'
  <2>1. t # Writer /\ seqpc'[t] = seqpc[t] /\ Reading(t)
    BY Zenon, <1>1, <1>2, <1>8 DEF Reading, SeqTypeOK
  <2>2. 2 * (writes + 1 - began[t]) < SeqModulus
    BY Zenon, <2>1 DEF WriteSeqLock
  <2> QED
    BY Zenon, <1>1, <1>5, <2>1, <2>2, ReaderStep
<1> QED
  BY Zenon, <1>4, <1>6, <1>7, <1>8 DEF SeqInv

LEMMA SeqUnlockKeeps == SeqInv /\ WriteSeqUnlock => SeqInv'
<1> SUFFICES ASSUME SeqInv, WriteSeqUnlock PROVE SeqInv'
  BY Zenon
<1>1. /\ seqpc[Writer] = "w3" /\ seqpc' = [seqpc EXCEPT ![Writer] = "idle"]
      /\ sequence' = (sequence + 1) % SeqModulus
      /\ UNCHANGED words /\ UNCHANGED writes /\ UNCHANGED readVars
  BY Zenon DEF WriteSeqUnlock, At
<1>2. SeqTypeOK /\ WordsInv /\ Writer \in LockThreads
  BY Zenon, LocksAssumption DEF SeqInv
<1>3. /\ sequence' \in 0 .. SeqModulus - 1
      /\ sequence' % 2 = 0 <=> sequence % 2 # 0
  BY Zenon, <1>1, <1>2, SeqStep DEF SeqTypeOK
<1>4. SeqTypeOK'
  BY Zenon, <1>1, <1>2, <1>3 DEF SeqTypeOK, SeqPc, readVars
<1>5. Updating /\ ~Updating'
  BY Zenon, <1>1, <1>2 DEF Updating, SeqTypeOK
<1>6. WordsInv'
  BY Zenon, <1>1, <1>2, <1>3, <1>5 DEF WordsInv, SeqTypeOK
<1>7. SnapshotConsistent'
  BY Zenon, <1>1, <1>2 DEF SnapshotConsistent, SeqInv, SeqTypeOK, readVars
<1>8. ASSUME NEW t \in LockThreads, Reading(t)' PROVE ReaderInv(t)'
  <2>1. t # Writer /\ seqpc'[t] = seqpc[t] /\ Reading(t)
    BY Zenon, <1>1, <1>2, <1>8 DEF Reading, SeqTypeOK
  <2> QED
    BY Zenon, <1>1, <1>5, <2>1, ReaderStep
<1> QED
  BY Zenon, <1>4, <1>6, <1>7, <1>8 DEF SeqInv

LEMMA WordKeeps == ASSUME SeqInv, NEW i \in {1, 2}, WriteWord(i) PROVE SeqInv'
<1>1. /\ seqpc[Writer] = IF i = 1 THEN "w1" ELSE "w2"
      /\ seqpc' = [seqpc EXCEPT ![Writer] = IF i = 1 THEN "w2" ELSE "w3"]
      /\ words' = [words EXCEPT ![i] = writes]
      /\ UNCHANGED sequence /\ UNCHANGED writes /\ UNCHANGED readVars
  BY Zenon DEF WriteWord, At
<1>2. SeqTypeOK /\ WordsInv /\ Writer \in LockThreads
  BY Zenon, LocksAssumption DEF SeqInv
<1>3. SeqTypeOK'
  BY Zenon, <1>1, <1>2 DEF SeqTypeOK, SeqPc, readVars
<1>4. Updating /\ Updating'
  BY Zenon, <1>1, <1>2 DEF Updating, SeqTypeOK
<1>5. WordsInv'
  BY <1>1, <1>2, <1>4 DEF WordsInv, SeqTypeOK
<1>6. SnapshotConsistent'
  BY Zenon, <1>1, <1>2 DEF SnapshotConsistent, SeqInv, SeqTypeOK, readVars
<1>7. ASSUME NEW t \in LockThreads, Reading(t)' PROVE ReaderInv(t)'
  <2>1. seqpc'[t] = seqpc[t] /\ Reading(t)
    BY Zenon, <1>1, <1>2, <1>7 DEF Reading, SeqTypeOK
  <2> QED
    BY Zenon, <1>1, <1>4, <2>1, ReaderKept DEF readVars
<1> QED
  BY Zenon, <1>3, <1>5, <1>6, <1>7 DEF SeqInv

\* A step of reader t changes nothing that the writer or another reader uses.
LEMMA ReaderMoves ==
  ASSUME SeqInv, NEW t \in LockThreads, t # Writer, NEW to \in {"idle", "r1", "r2", "r3", "got"},
         seqpc' = [seqpc EXCEPT ![t] = to],
         UNCHANGED <<sequence, words, writes>>,
         \A u \in LockThreads \ {t} :
           seen'[u] = seen[u] /\ began'[u] = began[u] /\ copy'[u] = copy[u],
         seen' \in [LockThreads -> 0 .. SeqModulus - 1],
         began' \in [LockThreads -> Nat], copy' \in [LockThreads -> [{1, 2} -> Nat]],
         to = "got" => copy'[t][1] = copy'[t][2],
         to \in {"r1", "r2", "r3"} => ReaderInv(t)'
  PROVE  SeqInv'
<1>1. SeqTypeOK /\ WordsInv /\ Writer \in LockThreads
  BY Zenon, LocksAssumption DEF SeqInv
<1>2. SeqTypeOK'
  BY Zenon, <1>1 DEF SeqTypeOK, SeqPc
<1>3. seqpc'[Writer] = seqpc[Writer] /\ (Updating' <=> Updating)
  BY Zenon, <1>1 DEF SeqTypeOK, Updating
<1>4. WordsInv'
  BY Zenon, <1>1, <1>3 DEF WordsInv, SeqTypeOK
<1>5. SnapshotConsistent'
  BY <1>1 DEF SnapshotConsistent, SeqInv, SeqTypeOK
<1>6. ASSUME NEW u \in LockThreads, Reading(u)' PROVE ReaderInv(u)'
  <2>1. CASE u = t
    BY Zenon, <1>1, <1>6, <2>1 DEF Reading, SeqTypeOK
  <2>2. CASE u # t
    <3>1. seqpc'[u] = seqpc[u] /\ Reading(u)
      BY Zenon, <1>1, <1>6, <2>2 DEF Reading, SeqTypeOK
    <3> QED
      BY Zenon, <1>3, <2>2, <3>1, ReaderKept
  <2> QED
    BY Zenon, <2>1, <2>2
<1> QED
  BY Zenon, <1>2, <1>4, <1>5, <1>6 DEF SeqInv

LEMMA BeginKeeps == ASSUME SeqInv, NEW t \in LockThreads, SeqBegin(t) PROVE SeqInv'
<1>1. SeqTypeOK /\ WordsInv
  BY Zenon DEF SeqInv
<1>2. /\ t # Writer /\ seqpc' = [seqpc EXCEPT ![t] = "r1"] /\ sequence % 2 = 0
      /\ seen' = [seen EXCEPT ![t] = sequence] /\ began' = [began EXCEPT ![t] = writes]
      /\ UNCHANGED sequence /\ UNCHANGED words /\ UNCHANGED writes /\ UNCHANGED copy
  BY Zenon DEF SeqBegin, At
<1>3. ~Updating'
  BY Zenon, <1>1, <1>2, LocksAssumption DEF WordsInv, Updating, SeqTypeOK
<1>4. ReaderInv(t)'
  <2>1. /\ seen'[t] = sequence /\ began'[t] = writes /\ seqpc'[t] = "r1"
        /\ writes \in Nat /\ sequence \in Nat /\ SeqModulus \in Nat \ {0}
    BY <1>1, <1>2, LocksAssumption DEF SeqTypeOK
  <2>2. Steps(t)' = 0
    BY <1>2, <1>3, <2>1 DEF Steps
  <2> QED
    BY <1>2, <1>3, <2>1, <2>2 DEF ReaderInv
<1> QED
  BY Zenon, <1>1, <1>2, <1>4, ReaderMoves DEF SeqTypeOK

LEMMA CopyKeeps ==
  ASSUME SeqInv, NEW t \in LockThreads, NEW i \in {1, 2}, ReadWord(t, i)
  PROVE  SeqInv'
<1>1. SeqTypeOK /\ WordsInv
  BY Zenon DEF SeqInv
<1> DEFINE from == IF i = 1 THEN "r1" ELSE "r2"
           to == IF i = 1 THEN "r2" ELSE "r3"
<1>2. /\ seqpc[t] = from /\ seqpc' = [seqpc EXCEPT ![t] = to]
      /\ copy' = [copy EXCEPT ![t][i] = words[i]]
      /\ UNCHANGED sequence /\ UNCHANGED words /\ UNCHANGED writes
      /\ UNCHANGED seen /\ UNCHANGED began
  BY Zenon DEF ReadWord, At
<1>3. t # Writer /\ ReaderInv(t) /\ (Updating' <=> Updating)
  BY <1>1, <1>2 DEF WordsInv, SeqInv, Reading, Updating, SeqTypeOK
<1>4. copy' \in [LockThreads -> [{1, 2} -> Nat]] /\ copy'[t][i] = words[i]
      /\ \A j \in {1, 2} \ {i} : copy'[t][j] = copy[t][j]
  BY Zenon, <1>1, <1>2 DEF SeqTypeOK
<1>5. ReaderInv(t)'
  <2>1. began[t] = writes => words[i] = writes
    BY <1>1, <1>3 DEF ReaderInv, WordsInv, Updating, SeqTypeOK
  <2>2. Steps(t)' = Steps(t)
    BY Zenon, <1>2, <1>3 DEF Steps
  <2>3. seqpc'[t] = to
    BY Zenon, <1>1, <1>2 DEF SeqTypeOK
  <2>4. began[t] = writes =>
          /\ seqpc'[t] \in {"r2", "r3"} => copy'[t][1] = writes
          /\ seqpc'[t] = "r3" => copy'[t][2] = writes
    BY <1>2, <1>3, <1>4, <2>1, <2>3 DEF ReaderInv
  <2> QED
    BY Zenon, <1>2, <1>3, <2>2, <2>4 DEF ReaderInv
<1>6. to \in {"r2", "r3"}
  BY Zenon
<1> HIDE DEF from, to
<1> QED
  BY Zenon, <1>1, <1>2, <1>3, <1>4, <1>5, <1>6, ReaderMoves DEF SeqTypeOK

LEMMA ForgetKeeps ==
  ASSUME SeqInv, NEW t \in LockThreads, t # Writer, SeqForget(t),
         seqpc' = [seqpc EXCEPT ![t] = "idle"], UNCHANGED <<sequence, words, writes>>
  PROVE  SeqInv'
<1>1. SeqTypeOK /\ 0 \in 0 .. SeqModulus - 1
  BY LocksAssumption DEF SeqInv
<1>2. /\ seen' \in [LockThreads -> 0 .. SeqModulus - 1] /\ began' \in [LockThreads -> Nat]
      /\ copy' \in [LockThreads -> [{1, 2} -> Nat]]
  BY Zenon, <1>1 DEF SeqForget, SeqTypeOK
<1>3. \A u \in LockThreads \ {t} :
        seen'[u] = seen[u] /\ began'[u] = began[u] /\ copy'[u] = copy[u]
  BY Zenon, <1>1 DEF SeqForget, SeqTypeOK
<1> QED
  BY Zenon, <1>2, <1>3, ReaderMoves

\* The second look finds the number of the first only if no update has begun.
LEMMA RetryKeeps == ASSUME SeqInv, NEW t \in LockThreads, SeqRetry(t) PROVE SeqInv'
<1>1. SeqTypeOK /\ WordsInv /\ seqpc[t] = "r3"
  BY Zenon DEF SeqInv, SeqRetry, At
<1>2. t # Writer /\ ReaderInv(t)
  BY Zenon, <1>1 DEF WordsInv, SeqInv, Reading
<1>3. CASE At(t, "r3", "got") /\ sequence = seen[t] /\ UNCHANGED readVars
  <2>1. /\ sequence \in Nat /\ writes \in Nat /\ began[t] \in Nat
        /\ SeqModulus \in Nat /\ seen[t] \in Nat
    BY <1>1, LocksAssumption DEF SeqTypeOK
  <2>2. Steps(t) = 0
    BY <1>2, <1>3, <2>1 DEF ReaderInv, Steps
  <2>3. began[t] = writes
    BY <1>2, <2>1, <2>2 DEF ReaderInv, Steps
  <2>4. copy[t][1] = copy[t][2]
    BY Zenon, <1>1, <1>2, <2>3 DEF ReaderInv
  <2> QED
    BY Zenon, <1>1, <1>2, <1>3, <2>4, ReaderMoves DEF SeqRetry, At, readVars, SeqTypeOK
<1>4. CASE At(t, "r3", "idle") /\ SeqForget(t)
  BY Zenon, <1>2, <1>4, ForgetKeeps DEF SeqRetry, At
<1> QED
  BY Zenon, <1>3, <1>4 DEF SeqRetry

LEMMA SeqInvNext == SeqInv /\ [SeqNext]_seqVars => SeqInv'
<1> SUFFICES ASSUME SeqInv, [SeqNext]_seqVars PROVE SeqInv'
  BY Zenon
<1>1. CASE UNCHANGED seqVars
  BY Zenon, <1>1 DEF seqVars, readVars, SeqInv, SeqTypeOK, WordsInv, Updating, Reading, ReaderInv,
     Steps, SnapshotConsistent
<1>2. ASSUME NEW t \in LockThreads, SeqDone(t) PROVE SeqInv'
  <2>1. t # Writer
    BY Zenon, <1>2 DEF SeqDone, At, SeqInv, WordsInv
  <2> QED
    BY Zenon, <1>2, <2>1, ForgetKeeps DEF SeqDone, At
<1> QED
  BY Zenon, <1>1, <1>2, SeqLockKeeps, SeqUnlockKeeps, WordKeeps, BeginKeeps, CopyKeeps, RetryKeeps
     DEF SeqNext

\* A reader that qd_read_seqretry lets go has both words of one update, for any
\* number of readers and any width of the counter.
THEOREM SeqConsistent == SeqSpec => []SnapshotConsistent
<1>1. SeqInv => SnapshotConsistent
  BY Zenon DEF SeqInv
<1> QED
  BY <1>1, SeqInvInit, SeqInvNext, PTL DEF SeqSpec

\* All three locks of qd_atomic.h, side by side.
THEOREM LocksCorrect == SpinSpec /\ RWSpec /\ SeqSpec => []LocksExclude
<1>1. SpinExclusive /\ RWExclusive /\ SnapshotConsistent => LocksExclude
  BY Zenon DEF LocksExclude
<1> QED
  BY <1>1, SpinMutex, RWMutex, SeqConsistent, PTL

-----------------------------------------------------------------------------
(* Arithmetic of positions *)

\* A multiple of n between 0 and n (both excluded) does not exist.
LEMMA NoMultipleBetween ==
  ASSUME NEW n \in Nat, NEW k \in Int, 0 < n * k, n * k < n
  PROVE FALSE
<1>1. CASE k <= 0
  BY <1>1, SMT
<1>2. CASE k >= 1
  BY <1>2, SMT
<1> QED
  BY <1>1, <1>2

\* Positions less than n apart have different remainders.
LEMMA ModDistinct ==
  ASSUME NEW n \in Nat \ {0}, NEW i \in Nat, NEW j \in Nat, i < j, j - i < n
  PROVE i % n # j % n
<1> SUFFICES ASSUME i % n = j % n PROVE FALSE
  BY Zenon
<1> DEFINE k == (j \div n) - (i \div n)
<1>1. i = n * (i \div n) + (i % n) /\ i \div n \in Int /\ i % n \in Int
  BY SMT
<1>2. j = n * (j \div n) + (j % n) /\ j \div n \in Int /\ j % n \in Int
  BY SMT
<1>3. k \in Int /\ j - i = n * k
  BY <1>1, <1>2, SMT
<1> HIDE DEF k
<1> QED
  BY <1>3, NoMultipleBetween

LEMMA ModType == ASSUME NEW n \in Nat \ {0}, NEW i \in Nat PROVE i % n \in 0 .. n - 1
BY SMT

-----------------------------------------------------------------------------
(* The work-stealing deque *)

Stealing(t) == dpc[t] \in {"bottom", "read", "cas"}

\* What the owner knows: a push has room and fills the slot at bottom; a pop
\* that fights for the last task has read it; one that has lost it, or found
\* nothing, leaves an empty deque.
OwnerInv ==
  /\ dpc[Owner] \in {"idle", "push", "publish", "pop_top", "pop_cas", "restore"}
  /\ dpc[Owner] \in {"push", "publish"} =>
       bottom - top < DequeCapacity - 1 /\ dtask[Owner] \in Tasks
  /\ dpc[Owner] = "publish" => dbuffer[Slot(bottom)] = dtask[Owner]
  /\ dpc[Owner] = "pop_cas" =>
       /\ ltop[Owner] = bottom /\ bottom <= top
       /\ dtask[Owner] = dbuffer[Slot(bottom)]
  /\ dpc[Owner] = "restore" => top = bottom + 1

\* What a thief knows: top only grows, and if it has not grown, the task the
\* thief has read is the first of the deque.
ThiefInv(t) ==
  /\ dpc[t] \in {"idle", "bottom", "read", "cas"}
  /\ Stealing(t) => ltop[t] <= top
  /\ dpc[t] \in {"read", "cas"} /\ ltop[t] = top => top < LogicalBottom
  /\ dpc[t] = "cas" /\ ltop[t] = top => dtask[t] = dbuffer[Slot(top)]

DequeInv ==
  /\ WSTypeOK /\ TopBelowBottom /\ OwnerInv
  /\ \A t \in Thieves : ThiefInv(t)

LEMMA DequeFacts ==
  ASSUME DequeInv
  PROVE  /\ top \in Nat /\ bottom \in Nat /\ LogicalBottom \in Nat
         /\ DequeCapacity \in Nat \ {0} /\ top <= LogicalBottom
         /\ LogicalBottom - top < DequeCapacity
         /\ Owner \in DequeThreads /\ Owner \notin Thieves
         /\ \A i \in Nat : Slot(i) \in 0 .. DequeCapacity - 1
<1>1. /\ top \in Nat /\ bottom \in Nat /\ DequeCapacity \in Nat \ {0}
      /\ Owner \in DequeThreads /\ Owner \notin Thieves
  BY Zenon, WsDequeAssumption DEF DequeInv, WSTypeOK, DequeThreads
<1>2. LogicalBottom \in Nat
  BY <1>1 DEF LogicalBottom
<1>3. \A i \in Nat : Slot(i) \in 0 .. DequeCapacity - 1
  BY Zenon, <1>1, ModType DEF Slot
<1> QED
  BY Zenon, <1>1, <1>2, <1>3 DEF DequeInv, TopBelowBottom

LEMMA DequeInvInit == WSInit => DequeInv
<1> SUFFICES ASSUME WSInit PROVE DequeInv
  BY Zenon
<1>1. WSTypeOK
  BY WsDequeAssumption DEF WSInit, WSTypeOK
<1>2. TopBelowBottom
  BY WsDequeAssumption DEF WSInit, TopBelowBottom, LogicalBottom, DequeThreads
<1>3. OwnerInv
  BY Zenon DEF WSInit, OwnerInv, DequeThreads
<1>4. \A t \in Thieves : ThiefInv(t)
  BY Zenon DEF WSInit, ThiefInv, Stealing, DequeThreads
<1> QED
  BY Zenon, <1>1, <1>2, <1>3, <1>4 DEF DequeInv

\* Steps that move the owner, and change neither top nor what a thief has read.
LEMMA ThievesKept ==
  ASSUME DequeInv, NEW l, dpc' = [dpc EXCEPT ![Owner] = l], UNCHANGED top,
         \A t \in Thieves : ltop'[t] = ltop[t] /\ dtask'[t] = dtask[t],
         LogicalBottom' >= LogicalBottom \/ top < LogicalBottom',
         top < LogicalBottom => dbuffer'[Slot(top)] = dbuffer[Slot(top)],
         LogicalBottom' \in Nat
  PROVE  \A t \in Thieves : ThiefInv(t)'
<1> SUFFICES ASSUME NEW t \in Thieves PROVE ThiefInv(t)'
  BY Zenon
<1>1. dpc'[t] = dpc[t]
  BY Zenon, DequeFacts DEF DequeInv, WSTypeOK, DequeThreads
<1> QED
  BY <1>1, DequeFacts DEF DequeInv, ThiefInv, Stealing

LEMMA PushTopKeeps == DequeInv /\ PushTop => DequeInv'
<1> SUFFICES ASSUME DequeInv, PushTop PROVE DequeInv'
  BY Zenon
<1>0. /\ dpc[Owner] = "idle" /\ pushed' = pushed + 1 /\ pushed < MaxTasks
      /\ UNCHANGED <<top, bottom, dbuffer, ltop, given>>
  BY Zenon DEF PushTop
<1>1. WSTypeOK /\ Owner \in DequeThreads /\ pushed' \in 0 .. MaxTasks /\ MaxTasks \in Nat
      /\ pushed' \in Tasks
  BY <1>0, WsDequeAssumption DEF DequeInv, WSTypeOK, DequeThreads, Tasks
<1>2. CASE UNCHANGED <<dpc, dtask>>
  BY Zenon, <1>0, <1>1, <1>2 DEF DequeInv, WSTypeOK, TopBelowBottom, LogicalBottom, OwnerInv,
     ThiefInv, Stealing
<1>3. CASE /\ bottom - top < DequeCapacity - 1
           /\ dtask' = [dtask EXCEPT ![Owner] = pushed'] /\ DequeGoto(Owner, "push")
  <2>1. WSTypeOK'
    BY Zenon, <1>0, <1>1, <1>3 DEF WSTypeOK, DequeGoto
  <2>2. dpc'[Owner] = "push" /\ dtask'[Owner] = pushed'
    BY Zenon, <1>1, <1>3 DEF WSTypeOK, DequeGoto
  <2>3. LogicalBottom' = LogicalBottom /\ LogicalBottom = bottom
    BY Zenon, <1>0, <2>2 DEF LogicalBottom
  <2>4. TopBelowBottom'
    BY Zenon, <1>0, <2>3 DEF DequeInv, TopBelowBottom
  <2>5. OwnerInv'
    BY Zenon, <1>0, <1>1, <1>3, <2>2 DEF OwnerInv
  <2>6. \A t \in Thieves : ltop'[t] = ltop[t] /\ dtask'[t] = dtask[t]
    BY Zenon, <1>0, <1>1, <1>3, WsDequeAssumption DEF WSTypeOK, DequeThreads
  <2>7. \A t \in Thieves : ThiefInv(t)'
    <3>1. /\ LogicalBottom' >= LogicalBottom /\ LogicalBottom' \in Nat
          /\ dbuffer' = dbuffer /\ top' = top /\ dpc' = [dpc EXCEPT ![Owner] = "push"]
      BY <1>0, <1>3, <2>3, DequeFacts DEF DequeGoto
    <3> QED
      BY Zenon, <2>6, <3>1, ThievesKept
  <2> QED
    BY Zenon, <2>1, <2>4, <2>5, <2>7 DEF DequeInv
<1> QED
  BY Zenon, <1>2, <1>3 DEF PushTop

LEMMA PushWriteKeeps == DequeInv /\ PushWrite => DequeInv'
<1> SUFFICES ASSUME DequeInv, PushWrite PROVE DequeInv'
  BY Zenon
<1>0. /\ dpc[Owner] = "push" /\ dbuffer' = [dbuffer EXCEPT ![Slot(bottom)] = dtask[Owner]]
      /\ dpc' = [dpc EXCEPT ![Owner] = "publish"]
      /\ UNCHANGED <<top, bottom, ltop, dtask, pushed, given>>
  BY Zenon DEF PushWrite, DequeGoto
<1>1. WSTypeOK /\ Owner \in DequeThreads /\ OwnerInv /\ Slot(bottom) \in 0 .. DequeCapacity - 1
  BY Zenon, DequeFacts DEF DequeInv
<1>2. WSTypeOK' /\ dpc'[Owner] = "publish" /\ dbuffer'[Slot(bottom)] = dtask[Owner]
  BY Zenon, <1>0, <1>1 DEF WSTypeOK
<1>3. LogicalBottom' = LogicalBottom /\ LogicalBottom = bottom
  BY Zenon, <1>0, <1>2 DEF LogicalBottom
<1>4. TopBelowBottom' /\ OwnerInv'
  BY Zenon, <1>0, <1>1, <1>2, <1>3 DEF DequeInv, TopBelowBottom, OwnerInv
<1>5. top < bottom => dbuffer'[Slot(top)] = dbuffer[Slot(top)]
  <2> SUFFICES ASSUME top < bottom PROVE Slot(top) # Slot(bottom)
    BY Zenon, <1>0, <1>1, DequeFacts DEF WSTypeOK
  <2> QED
    BY Zenon, <1>3, DequeFacts, ModDistinct DEF Slot
<1>6. \A t \in Thieves : ThiefInv(t)'
  <2>1. LogicalBottom' >= LogicalBottom /\ LogicalBottom' \in Nat
    BY <1>3, DequeFacts
  <2>2. top < LogicalBottom => dbuffer'[Slot(top)] = dbuffer[Slot(top)]
    BY Zenon, <1>3, <1>5
  <2> QED
    BY Zenon, <1>0, <2>1, <2>2, ThievesKept
<1> QED
  BY Zenon, <1>2, <1>4, <1>6 DEF DequeInv

LEMMA PushPublishKeeps == DequeInv /\ PushPublish => DequeInv'
<1> SUFFICES ASSUME DequeInv, PushPublish PROVE DequeInv'
  BY Zenon
<1>0. /\ dpc[Owner] = "publish" /\ bottom' = bottom + 1
      /\ dpc' = [dpc EXCEPT ![Owner] = "idle"]
      /\ ltop' = [ltop EXCEPT ![Owner] = 0] /\ dtask' = [dtask EXCEPT ![Owner] = 0]
      /\ UNCHANGED <<top, dbuffer, pushed, given>>
  BY Zenon DEF PushPublish, DequeReturn, DequeGoto
<1>1. WSTypeOK /\ Owner \in DequeThreads /\ OwnerInv /\ MaxTasks \in Nat
  BY Zenon, DequeFacts, WsDequeAssumption DEF DequeInv
<1>2. WSTypeOK' /\ dpc'[Owner] = "idle"
  BY <1>0, <1>1 DEF WSTypeOK
<1>3. LogicalBottom' = LogicalBottom + 1 /\ LogicalBottom = bottom
  BY Zenon, <1>0, <1>2 DEF LogicalBottom
<1>4. TopBelowBottom' /\ OwnerInv'
  BY <1>0, <1>1, <1>2, <1>3, DequeFacts DEF TopBelowBottom, OwnerInv
<1>5. \A t \in Thieves : ltop'[t] = ltop[t] /\ dtask'[t] = dtask[t]
  BY Zenon, <1>0, <1>1, WsDequeAssumption DEF WSTypeOK, DequeThreads
<1>6. \A t \in Thieves : ThiefInv(t)'
  <2>1. LogicalBottom' >= LogicalBottom /\ LogicalBottom' \in Nat
    BY <1>3, DequeFacts
  <2> QED
    BY Zenon, <1>0, <1>5, <2>1, ThievesKept
<1> QED
  BY Zenon, <1>2, <1>4, <1>6 DEF DequeInv

LEMMA PopBottomKeeps == DequeInv /\ PopBottom => DequeInv'
<1> SUFFICES ASSUME DequeInv, PopBottom PROVE DequeInv'
  BY Zenon
<1>0. /\ dpc[Owner] = "idle" /\ bottom # 0 /\ bottom' = bottom - 1
      /\ dpc' = [dpc EXCEPT ![Owner] = "pop_top"]
      /\ UNCHANGED <<top, dbuffer, ltop, dtask, pushed, given>>
  BY Zenon DEF PopBottom, DequeGoto
<1>1. WSTypeOK /\ Owner \in DequeThreads /\ OwnerInv
  BY Zenon, DequeFacts DEF DequeInv
<1>2. WSTypeOK' /\ dpc'[Owner] = "pop_top"
  BY <1>0, <1>1 DEF WSTypeOK
<1>3. LogicalBottom' = LogicalBottom
  BY <1>0, <1>1, <1>2 DEF LogicalBottom, WSTypeOK
<1>4. TopBelowBottom' /\ OwnerInv'
  BY Zenon, <1>0, <1>2, <1>3 DEF DequeInv, TopBelowBottom, OwnerInv
<1>5. \A t \in Thieves : ThiefInv(t)'
  <2>1. LogicalBottom' >= LogicalBottom /\ LogicalBottom' \in Nat
    BY <1>3, DequeFacts
  <2> QED
    BY Zenon, <1>0, <2>1, ThievesKept
<1> QED
  BY Zenon, <1>2, <1>4, <1>5 DEF DequeInv

LEMMA PopTopKeeps == DequeInv /\ PopTop => DequeInv'
<1> SUFFICES ASSUME DequeInv, PopTop PROVE DequeInv'
  BY Zenon
<1>0. dpc[Owner] = "pop_top" /\ UNCHANGED <<top, bottom, dbuffer, pushed>>
  BY Zenon DEF PopTop
<1>1. /\ WSTypeOK /\ Owner \in DequeThreads /\ OwnerInv /\ MaxTasks \in Nat
      /\ Slot(bottom) \in 0 .. DequeCapacity - 1 /\ LogicalBottom = bottom + 1
      /\ dbuffer[Slot(bottom)] \in 0 .. MaxTasks
  BY Zenon, <1>0, DequeFacts, WsDequeAssumption DEF DequeInv, LogicalBottom, WSTypeOK
<1>2. CASE top < bottom /\ given' = Append(given, dbuffer[Slot(bottom)]) /\ DequeReturn(Owner)
  <2>1. /\ dpc' = [dpc EXCEPT ![Owner] = "idle"]
        /\ ltop' = [ltop EXCEPT ![Owner] = 0] /\ dtask' = [dtask EXCEPT ![Owner] = 0]
    BY Zenon, <1>2 DEF DequeReturn, DequeGoto
  <2>2. WSTypeOK' /\ dpc'[Owner] = "idle"
    BY <1>0, <1>1, <1>2, <2>1 DEF WSTypeOK
  <2>3. LogicalBottom' = bottom /\ LogicalBottom' \in Nat /\ top < LogicalBottom'
    BY Zenon, <1>0, <1>1, <1>2, <2>2 DEF LogicalBottom, WSTypeOK
  <2>4. TopBelowBottom' /\ OwnerInv'
    <3>1. bottom - top < DequeCapacity /\ top' = top
      BY <1>0, <1>1, DequeFacts
    <3>2. TopBelowBottom'
      BY <1>1, <2>3, <3>1, DequeFacts DEF TopBelowBottom
    <3> QED
      BY Zenon, <2>2, <3>2 DEF OwnerInv
  <2>5. \A t \in Thieves : ltop'[t] = ltop[t] /\ dtask'[t] = dtask[t]
    BY Zenon, <1>1, <2>1, WsDequeAssumption DEF WSTypeOK, DequeThreads
  <2>6. \A t \in Thieves : ThiefInv(t)'
    BY Zenon, <1>0, <2>1, <2>3, <2>5, ThievesKept
  <2> QED
    BY Zenon, <2>2, <2>4, <2>6 DEF DequeInv
<1>3. CASE /\ top = bottom /\ ltop' = [ltop EXCEPT ![Owner] = top]
           /\ dtask' = [dtask EXCEPT ![Owner] = dbuffer[Slot(bottom)]]
           /\ DequeGoto(Owner, "pop_cas") /\ UNCHANGED given
  <2>1. dpc' = [dpc EXCEPT ![Owner] = "pop_cas"]
    BY Zenon, <1>3 DEF DequeGoto
  <2>2. WSTypeOK' /\ dpc'[Owner] = "pop_cas"
    BY Zenon, <1>0, <1>1, <1>3, <2>1 DEF WSTypeOK
  <2>3. LogicalBottom' = LogicalBottom
    BY Zenon, <1>0, <1>1, <2>2 DEF LogicalBottom
  <2>4. TopBelowBottom'
    BY Zenon, <1>0, <2>3 DEF DequeInv, TopBelowBottom
  <2>5. ltop'[Owner] = bottom /\ dtask'[Owner] = dbuffer[Slot(bottom)] /\ bottom <= top
    BY <1>1, <1>3 DEF WSTypeOK
  <2>6. OwnerInv'
    BY Zenon, <1>0, <2>2, <2>5 DEF OwnerInv
  <2>7. \A t \in Thieves : ltop'[t] = ltop[t] /\ dtask'[t] = dtask[t]
    BY Zenon, <1>1, <1>3, WsDequeAssumption DEF WSTypeOK, DequeThreads
  <2>8. LogicalBottom' >= LogicalBottom /\ LogicalBottom' \in Nat
    BY <2>3, DequeFacts
  <2>9. \A t \in Thieves : ThiefInv(t)'
    BY Zenon, <1>0, <2>1, <2>7, <2>8, ThievesKept
  <2> QED
    BY Zenon, <2>2, <2>4, <2>6, <2>9 DEF DequeInv
<1>4. CASE top > bottom /\ DequeGoto(Owner, "restore") /\ UNCHANGED <<ltop, dtask, given>>
  <2>1. dpc' = [dpc EXCEPT ![Owner] = "restore"]
    BY Zenon, <1>4 DEF DequeGoto
  <2>2. WSTypeOK' /\ dpc'[Owner] = "restore"
    BY Zenon, <1>0, <1>1, <1>4, <2>1 DEF WSTypeOK
  <2>3. LogicalBottom' = LogicalBottom
    BY Zenon, <1>0, <1>1, <2>2 DEF LogicalBottom
  <2>4. TopBelowBottom'
    BY Zenon, <1>0, <2>3 DEF DequeInv, TopBelowBottom
  <2>5. top = bottom + 1
    BY <1>1, <1>4, DequeFacts
  <2>6. OwnerInv'
    BY Zenon, <1>0, <2>2, <2>5 DEF OwnerInv
  <2>7. LogicalBottom' >= LogicalBottom /\ LogicalBottom' \in Nat
    BY <2>3, DequeFacts
  <2>8. \A t \in Thieves : ThiefInv(t)'
    BY Zenon, <1>0, <1>4, <2>1, <2>7, ThievesKept
  <2> QED
    BY Zenon, <2>2, <2>4, <2>6, <2>8 DEF DequeInv
<1> QED
  BY Zenon, <1>2, <1>3, <1>4 DEF PopTop

\* A step of top: whoever read an older top will fail.
LEMMA TopGrows ==
  ASSUME DequeInv, top' = top + 1, NEW u \in DequeThreads,
         \A t \in Thieves \ {u} : /\ dpc'[t] = dpc[t] /\ ltop'[t] = ltop[t]
                                  /\ dtask'[t] = dtask[t],
         u \in Thieves => dpc'[u] = "idle"
  PROVE  \A t \in Thieves : ThiefInv(t)'
<1> SUFFICES ASSUME NEW t \in Thieves PROVE ThiefInv(t)'
  BY Zenon
<1>1. top \in Nat /\ ltop[t] \in Nat
  BY Zenon DEF DequeInv, WSTypeOK, DequeThreads
<1> QED
  BY <1>1 DEF DequeInv, ThiefInv, Stealing

LEMMA PopCasKeeps == DequeInv /\ PopCas => DequeInv'
<1> SUFFICES ASSUME DequeInv, PopCas PROVE DequeInv'
  BY Zenon
<1>0. /\ dpc[Owner] = "pop_cas" /\ dpc' = [dpc EXCEPT ![Owner] = "restore"]
      /\ UNCHANGED <<bottom, dbuffer, ltop, dtask, pushed>>
  BY Zenon DEF PopCas, DequeGoto
<1>1. /\ WSTypeOK /\ Owner \in DequeThreads /\ OwnerInv /\ LogicalBottom = bottom + 1
      /\ dtask[Owner] \in 0 .. MaxTasks
  BY Zenon, <1>0, DequeFacts DEF DequeInv, LogicalBottom, WSTypeOK
<1>2. dpc'[Owner] = "restore" /\ LogicalBottom' = LogicalBottom
  BY Zenon, <1>0, <1>1 DEF LogicalBottom, WSTypeOK
<1>3. CASE top = ltop[Owner] /\ top' = top + 1 /\ given' = Append(given, dtask[Owner])
  <2>1. WSTypeOK'
    BY <1>0, <1>1, <1>3 DEF WSTypeOK
  <2>2. TopBelowBottom' /\ OwnerInv'
    <3>1. top = bottom /\ top' = bottom + 1 /\ bottom' = bottom
      BY Zenon, <1>0, <1>1, <1>3 DEF OwnerInv
    <3>2. TopBelowBottom'
      BY <1>1, <1>2, <3>1, DequeFacts DEF TopBelowBottom
    <3> QED
      BY Zenon, <1>2, <3>1, <3>2 DEF OwnerInv
  <2>3. \A t \in Thieves \ {Owner} : dpc'[t] = dpc[t]
    BY Zenon, <1>0, <1>1 DEF WSTypeOK, DequeThreads
  <2>4. \A t \in Thieves : ThiefInv(t)'
    BY Zenon, <1>0, <1>1, <1>3, <2>3, TopGrows, WsDequeAssumption
  <2> QED
    BY Zenon, <2>1, <2>2, <2>4 DEF DequeInv
<1>4. CASE top # ltop[Owner] /\ UNCHANGED <<top, given>>
  <2>1. WSTypeOK'
    BY Zenon, <1>0, <1>1, <1>4 DEF WSTypeOK
  <2>2. TopBelowBottom' /\ OwnerInv'
    BY <1>0, <1>1, <1>2, <1>4, DequeFacts DEF TopBelowBottom, OwnerInv
  <2>3. LogicalBottom' >= LogicalBottom /\ LogicalBottom' \in Nat
    BY <1>2, DequeFacts
  <2>4. \A t \in Thieves : ThiefInv(t)'
    BY Zenon, <1>0, <1>4, <2>3, ThievesKept
  <2> QED
    BY Zenon, <2>1, <2>2, <2>4 DEF DequeInv
<1> QED
  BY Zenon, <1>3, <1>4 DEF PopCas

LEMMA PopRestoreKeeps == DequeInv /\ PopRestore => DequeInv'
<1> SUFFICES ASSUME DequeInv, PopRestore PROVE DequeInv'
  BY Zenon
<1>0. /\ dpc[Owner] = "restore" /\ bottom' = bottom + 1
      /\ dpc' = [dpc EXCEPT ![Owner] = "idle"]
      /\ ltop' = [ltop EXCEPT ![Owner] = 0] /\ dtask' = [dtask EXCEPT ![Owner] = 0]
      /\ UNCHANGED <<top, dbuffer, pushed, given>>
  BY Zenon DEF PopRestore, DequeReturn, DequeGoto
<1>1. WSTypeOK /\ Owner \in DequeThreads /\ MaxTasks \in Nat
  BY Zenon, DequeFacts, WsDequeAssumption DEF DequeInv
<1>2. WSTypeOK' /\ dpc'[Owner] = "idle"
  BY <1>0, <1>1 DEF WSTypeOK
<1>3. LogicalBottom' = LogicalBottom
  BY Zenon, <1>0, <1>2 DEF LogicalBottom
<1>4. TopBelowBottom' /\ OwnerInv'
  BY Zenon, <1>0, <1>2, <1>3 DEF DequeInv, TopBelowBottom, OwnerInv
<1>5. \A t \in Thieves : ltop'[t] = ltop[t] /\ dtask'[t] = dtask[t]
  BY Zenon, <1>0, <1>1, WsDequeAssumption DEF WSTypeOK, DequeThreads
<1>6. \A t \in Thieves : ThiefInv(t)'
  <2>1. LogicalBottom' >= LogicalBottom /\ LogicalBottom' \in Nat
    BY <1>3, DequeFacts
  <2> QED
    BY Zenon, <1>0, <1>5, <2>1, ThievesKept
<1> QED
  BY Zenon, <1>2, <1>4, <1>6 DEF DequeInv

\* A thief's step that leaves the deque alone.
LEMMA ThiefMoves ==
  ASSUME DequeInv, NEW t \in Thieves, UNCHANGED <<top, bottom, dbuffer, pushed, given>>,
         NEW l \in {"idle", "bottom", "read", "cas"},
         dpc' = [dpc EXCEPT ![t] = l],
         ltop' \in [DequeThreads -> Nat], dtask' \in [DequeThreads -> 0 .. MaxTasks],
         \A u \in DequeThreads \ {t} : ltop'[u] = ltop[u] /\ dtask'[u] = dtask[u],
         l # "idle" => ltop'[t] <= top,
         l \in {"read", "cas"} /\ ltop'[t] = top => top < LogicalBottom,
         l = "cas" /\ ltop'[t] = top => dtask'[t] = dbuffer[Slot(top)]
  PROVE  DequeInv'
<1>1. /\ WSTypeOK /\ t \in DequeThreads /\ t # Owner /\ Owner \in DequeThreads
  BY Zenon, WsDequeAssumption DEF DequeInv, DequeThreads
<1>2. WSTypeOK'
  BY Zenon, <1>1 DEF WSTypeOK
<1>3. \A u \in DequeThreads \ {t} : dpc'[u] = dpc[u]
  BY Zenon, <1>1 DEF WSTypeOK
<1>4. LogicalBottom' = LogicalBottom
  BY Zenon, <1>1, <1>3 DEF LogicalBottom
<1>5. TopBelowBottom' /\ OwnerInv'
  BY Zenon, <1>1, <1>3, <1>4 DEF DequeInv, TopBelowBottom, OwnerInv
<1>6. ASSUME NEW u \in Thieves PROVE ThiefInv(u)'
  <2>1. CASE u = t
    <3>1. dpc'[t] = l
      BY Zenon, <1>1 DEF WSTypeOK
    <3> QED
      BY Zenon, <1>4, <2>1, <3>1 DEF ThiefInv, Stealing
  <2>2. CASE u # t
    <3>1. u \in DequeThreads /\ dpc'[u] = dpc[u] /\ ThiefInv(u)
      BY Zenon, <1>3, <2>2 DEF DequeInv, DequeThreads
    <3>2. ltop'[u] = ltop[u] /\ dtask'[u] = dtask[u]
      BY Zenon, <1>1, <2>2, <3>1 DEF WSTypeOK
    <3> QED
      BY Zenon, <1>4, <3>1, <3>2 DEF ThiefInv, Stealing
  <2> QED
    BY Zenon, <2>1, <2>2
<1> QED
  BY Zenon, <1>2, <1>5, <1>6 DEF DequeInv

LEMMA StealKeeps ==
  ASSUME DequeInv, NEW t \in Thieves, StealStep(t)
  PROVE  DequeInv'
<1>0. /\ WSTypeOK /\ t \in DequeThreads /\ t # Owner /\ ThiefInv(t) /\ MaxTasks \in Nat
      /\ 0 \in 0 .. MaxTasks /\ top \in Nat
      /\ ltop \in [DequeThreads -> Nat] /\ dtask \in [DequeThreads -> 0 .. MaxTasks]
  BY WsDequeAssumption DEF DequeInv, DequeThreads, WSTypeOK
<1>1. CASE StealTop(t)
  <2>1. /\ dpc' = [dpc EXCEPT ![t] = "bottom"] /\ ltop' = [ltop EXCEPT ![t] = top]
        /\ UNCHANGED dtask /\ UNCHANGED <<top, bottom, dbuffer, pushed, given>>
    BY Zenon, <1>1 DEF StealTop, DequeGoto
  <2>2. /\ ltop' \in [DequeThreads -> Nat] /\ ltop'[t] = top
        /\ \A u \in DequeThreads \ {t} : ltop'[u] = ltop[u]
    BY Zenon, <1>0, <2>1
  <2>3. "bottom" \in {"idle", "bottom", "read", "cas"} /\ ltop'[t] <= top
    BY <1>0, <2>2
  <2> QED
    BY Zenon, <1>0, <2>1, <2>2, <2>3, ThiefMoves
<1>2. CASE StealBottom(t)
  <2>1. CASE ltop[t] >= bottom /\ DequeReturn(t)
    <3>1. /\ dpc' = [dpc EXCEPT ![t] = "idle"] /\ ltop' = [ltop EXCEPT ![t] = 0]
          /\ dtask' = [dtask EXCEPT ![t] = 0]
          /\ UNCHANGED <<top, bottom, dbuffer, pushed, given>>
      BY Zenon, <1>2, <2>1 DEF StealBottom, DequeReturn, DequeGoto
    <3>2. /\ ltop' \in [DequeThreads -> Nat] /\ dtask' \in [DequeThreads -> 0 .. MaxTasks]
          /\ \A u \in DequeThreads \ {t} : ltop'[u] = ltop[u] /\ dtask'[u] = dtask[u]
      BY Zenon, <1>0, <3>1
    <3> QED
      BY Zenon, <3>1, <3>2, ThiefMoves
  <2>2. CASE ltop[t] < bottom /\ DequeGoto(t, "read") /\ UNCHANGED <<ltop, dtask>>
    <3>1. /\ dpc' = [dpc EXCEPT ![t] = "read"] /\ ltop' = ltop /\ dtask' = dtask
          /\ UNCHANGED <<top, bottom, dbuffer, pushed, given>>
      BY Zenon, <1>2, <2>2 DEF StealBottom, DequeGoto
    <3>2. ltop[t] <= top /\ (ltop[t] = top => top < LogicalBottom)
      BY <1>0, <1>2, <2>2, DequeFacts DEF StealBottom, ThiefInv, Stealing, LogicalBottom
    <3> QED
      BY Zenon, <1>0, <3>1, <3>2, ThiefMoves
  <2> QED
    BY Zenon, <1>2, <2>1, <2>2 DEF StealBottom
<1>3. CASE StealRead(t)
  <2>1. /\ dpc[t] = "read" /\ dpc' = [dpc EXCEPT ![t] = "cas"] /\ ltop' = ltop
        /\ dtask' = [dtask EXCEPT ![t] = dbuffer[Slot(ltop[t])]]
        /\ UNCHANGED <<top, bottom, dbuffer, pushed, given>>
    BY Zenon, <1>3 DEF StealRead, DequeGoto
  <2>2. ltop[t] \in Nat /\ dbuffer[Slot(ltop[t])] \in 0 .. MaxTasks
    BY Zenon, <1>0, DequeFacts DEF WSTypeOK
  <2>3. /\ dtask' \in [DequeThreads -> 0 .. MaxTasks] /\ dtask'[t] = dbuffer[Slot(ltop[t])]
        /\ \A u \in DequeThreads \ {t} : dtask'[u] = dtask[u]
    BY Zenon, <1>0, <2>1, <2>2
  <2>4. ltop[t] <= top /\ (ltop[t] = top => top < LogicalBottom)
    BY Zenon, <1>0, <2>1 DEF ThiefInv, Stealing
  <2> QED
    BY Zenon, <1>0, <2>1, <2>3, <2>4, ThiefMoves
<1>4. CASE StealCas(t)
  <2>0. /\ dpc[t] = "cas" /\ dpc' = [dpc EXCEPT ![t] = "idle"]
        /\ ltop' = [ltop EXCEPT ![t] = 0] /\ dtask' = [dtask EXCEPT ![t] = 0]
        /\ UNCHANGED <<bottom, dbuffer, pushed>>
    BY Zenon, <1>4 DEF StealCas, DequeReturn, DequeGoto
  <2>1. /\ ltop' \in [DequeThreads -> Nat] /\ dtask' \in [DequeThreads -> 0 .. MaxTasks]
        /\ \A u \in DequeThreads \ {t} : ltop'[u] = ltop[u] /\ dtask'[u] = dtask[u]
    BY Zenon, <1>0, <2>0
  <2>2. CASE UNCHANGED <<top, given>>
    BY Zenon, <2>0, <2>1, <2>2, ThiefMoves
  <2>3. CASE top = ltop[t] /\ top' = top + 1 /\ given' = Append(given, dtask[t])
    <3>1. WSTypeOK' /\ dpc'[t] = "idle" /\ \A u \in DequeThreads \ {t} : dpc'[u] = dpc[u]
      BY <1>0, <2>0, <2>1, <2>3 DEF WSTypeOK
    <3>2. LogicalBottom' = LogicalBottom /\ top < LogicalBottom /\ dpc'[Owner] = dpc[Owner]
      <4>1. dpc'[Owner] = dpc[Owner] /\ bottom' = bottom
        BY Zenon, <1>0, <2>0, <3>1, DequeFacts
      <4>2. top < LogicalBottom
        BY Zenon, <1>0, <2>0, <2>3 DEF ThiefInv
      <4> QED
        BY Zenon, <4>1, <4>2 DEF LogicalBottom
    <3>3. TopBelowBottom'
      <4>1. /\ top \in Nat /\ LogicalBottom \in Nat /\ DequeCapacity \in Nat
            /\ LogicalBottom - top < DequeCapacity
        BY Zenon, DequeFacts
      <4> QED
        BY <2>3, <3>2, <4>1 DEF TopBelowBottom
    <3>4. OwnerInv'
      <4>1. ltop'[Owner] = ltop[Owner] /\ dtask'[Owner] = dtask[Owner]
        BY Zenon, <1>0, <2>1, DequeFacts
      <4>2. dpc[Owner] # "restore"
        BY <3>2, DequeFacts DEF DequeInv, OwnerInv, LogicalBottom
      <4> QED
        <5>1. /\ top \in Nat /\ bottom \in Nat /\ DequeCapacity \in Nat
              /\ top' = top + 1 /\ bottom' = bottom /\ dbuffer' = dbuffer
          BY Zenon, <2>0, <2>3, DequeFacts
        <5> QED
          BY <3>2, <4>1, <4>2, <5>1 DEF DequeInv, OwnerInv
    <3>5. \A u \in Thieves : ThiefInv(u)'
      BY Zenon, <1>0, <2>1, <2>3, <3>1, TopGrows DEF DequeThreads
    <3> QED
      BY Zenon, <3>1, <3>3, <3>4, <3>5 DEF DequeInv
  <2> QED
    BY Zenon, <1>4, <2>2, <2>3 DEF StealCas
<1> QED
  BY Zenon, <1>1, <1>2, <1>3, <1>4 DEF StealStep

LEMMA DequeInvNext == DequeInv /\ [WSNext]_wsVars => DequeInv'
<1> SUFFICES ASSUME DequeInv, [WSNext]_wsVars PROVE DequeInv'
  BY Zenon
<1>1. CASE UNCHANGED wsVars
  BY Zenon, <1>1 DEF wsVars, DequeInv, WSTypeOK, TopBelowBottom, LogicalBottom, OwnerInv, ThiefInv,
     Stealing
<1> QED
  BY Zenon, <1>1, PushTopKeeps, PushWriteKeeps, PushPublishKeeps, PopBottomKeeps, PopTopKeeps,
     PopCasKeeps, PopRestoreKeeps, StealKeeps DEF WSNext, OwnerStep

-----------------------------------------------------------------------------
(* Refinement: the contents change only at PushPublish, when a pop or a     *)
(* steal succeeds, and then as the abstract deque says.                     *)

\* The n tasks from position t of buffer b on
Buffers == [0 .. DequeCapacity - 1 -> 0 .. MaxTasks]
From(b, t, n) == [k \in 1 .. n |-> b[Slot(t + k - 1)]]

LEMMA FromType ==
  ASSUME NEW b \in Buffers, NEW t \in Nat, NEW n \in Nat
  PROVE  /\ From(b, t, n) \in Seq(0 .. MaxTasks) /\ Len(From(b, t, n)) = n
         /\ \A k \in 1 .. n : From(b, t, n)[k] = b[Slot(t + k - 1)]
<1>1. ASSUME NEW k \in 1 .. n PROVE b[Slot(t + k - 1)] \in 0 .. MaxTasks
  BY ModType, WsDequeAssumption DEF Slot, Buffers
<1> QED
  BY <1>1 DEF From

LEMMA FromAppend ==
  ASSUME NEW b \in Buffers, NEW t \in Nat, NEW n \in Nat
  PROVE  From(b, t, n + 1) = Append(From(b, t, n), b[Slot(t + n)])
<1> DEFINE f == From(b, t, n)
           g == From(b, t, n + 1)
           e == b[Slot(t + n)]
<1>1. /\ f \in Seq(0 .. MaxTasks) /\ Len(f) = n
      /\ \A k \in 1 .. n : f[k] = b[Slot(t + k - 1)]
  BY Zenon, FromType
<1>0. n + 1 \in Nat
  OBVIOUS
<1>2. /\ g \in Seq(0 .. MaxTasks) /\ Len(g) = n + 1
      /\ \A k \in 1 .. n + 1 : g[k] = b[Slot(t + k - 1)]
  BY Zenon, <1>0, FromType
<1>3. e \in 0 .. MaxTasks
  BY ModType, WsDequeAssumption DEF Slot, Buffers
<1> HIDE DEF f, g
<1>4. /\ Append(f, e) \in Seq(0 .. MaxTasks) /\ Len(Append(f, e)) = n + 1
      /\ \A k \in 1 .. n : Append(f, e)[k] = f[k]
      /\ Append(f, e)[n + 1] = e
  BY <1>1, <1>3
<1>5. \A k \in 1 .. n + 1 : g[k] = Append(f, e)[k]
  <2> SUFFICES ASSUME NEW k \in 1 .. n + 1 PROVE g[k] = Append(f, e)[k]
    BY Zenon
  <2>1. CASE k \in 1 .. n
    BY Zenon, <1>1, <1>2, <1>4, <2>1
  <2>2. CASE k = n + 1
    <3>1. t + k - 1 = t + n
      BY <2>2
    <3> QED
      BY Zenon, <1>2, <1>4, <2>2, <3>1
  <2>3. k \in 1 .. n \/ k = n + 1
    OBVIOUS
  <2> QED
    BY Zenon, <2>1, <2>2, <2>3
<1> QED
  BY Zenon, <1>2, <1>4, <1>5, SeqEqual DEF f, g

LEMMA FromFront ==
  ASSUME NEW b \in Buffers, NEW t \in Nat, NEW n \in Nat \ {0}
  PROVE  From(b, t, n - 1) = SubSeq(From(b, t, n), 1, n - 1)
<1> DEFINE f == From(b, t, n)
           g == From(b, t, n - 1)
<1>1. /\ f \in Seq(0 .. MaxTasks) /\ Len(f) = n
      /\ \A k \in 1 .. n : f[k] = b[Slot(t + k - 1)]
  BY Zenon, FromType
<1>0. n - 1 \in Nat /\ t + 1 \in Nat
  OBVIOUS
<1>2. /\ g \in Seq(0 .. MaxTasks) /\ Len(g) = n - 1
      /\ \A k \in 1 .. n - 1 : g[k] = b[Slot(t + k - 1)]
  BY <1>0, FromType
<1> HIDE DEF f, g
<1> DEFINE h == SubSeq(f, 1, n - 1)
<1>3. ASSUME NEW k \in 1 .. n - 1 PROVE f[k] \in 0 .. MaxTasks
  <2>1. k \in 1 .. Len(f)
    BY <1>0, <1>1
  <2> QED
    BY Zenon, <1>1, <2>1, ElementOfSeq
<1>4. /\ h \in Seq(0 .. MaxTasks)
      /\ Len(h) = IF 1 <= n - 1 THEN n - 1 - 1 + 1 ELSE 0
      /\ \A k \in 1 .. n - 1 - 1 + 1 : h[k] = f[1 + k - 1]
  BY <1>0, <1>3, SubSeqProperties
<1> HIDE DEF h
<1>5. h \in Seq(0 .. MaxTasks) /\ Len(h) = n - 1
  BY <1>4
<1>6. ASSUME NEW k \in 1 .. n - 1 PROVE h[k] = f[k]
  <2>1. 1 + k - 1 = k /\ k \in 1 .. n - 1 - 1 + 1
    OBVIOUS
  <2> QED
    BY Zenon, <1>4, <2>1
<1>7. \A k \in 1 .. n - 1 : g[k] = h[k]
  <2> TAKE k \in 1 .. n - 1
  <2>1. k \in 1 .. n
    OBVIOUS
  <2> QED
    BY Zenon, <1>1, <1>2, <1>6, <2>1
<1> QED
  BY Zenon, <1>2, <1>5, <1>7, SeqEqual DEF f, g, h

LEMMA FromTail ==
  ASSUME NEW b \in Buffers, NEW t \in Nat, NEW n \in Nat \ {0}
  PROVE  From(b, t + 1, n - 1) = Tail(From(b, t, n))
<1> DEFINE f == From(b, t, n)
           g == From(b, t + 1, n - 1)
<1>1. /\ f \in Seq(0 .. MaxTasks) /\ Len(f) = n
      /\ \A k \in 1 .. n : f[k] = b[Slot(t + k - 1)]
  BY Zenon, FromType
<1>0. n - 1 \in Nat /\ t + 1 \in Nat
  OBVIOUS
<1>2. /\ g \in Seq(0 .. MaxTasks) /\ Len(g) = n - 1
      /\ \A k \in 1 .. n - 1 : g[k] = b[Slot(t + 1 + k - 1)]
  BY Zenon, <1>0, FromType
<1> HIDE DEF f, g
<1>3. /\ Tail(f) \in Seq(0 .. MaxTasks) /\ Len(Tail(f)) = n - 1
      /\ \A k \in 1 .. n - 1 : Tail(f)[k] = f[k + 1]
  BY <1>1
<1>4. \A k \in 1 .. n - 1 : g[k] = Tail(f)[k]
  <2> SUFFICES ASSUME NEW k \in 1 .. n - 1 PROVE g[k] = Tail(f)[k]
    BY Zenon
  <2>1. t + 1 + k - 1 = t + (k + 1) - 1 /\ k + 1 \in 1 .. n
    OBVIOUS
  <2> QED
    BY Zenon, <1>1, <1>2, <1>3, <2>1
<1> QED
  BY Zenon, <1>2, <1>3, <1>4, SeqEqual DEF f, g

\* A step of the abstract deque
AbstractNext == (\E t \in Tasks : Abstract!Push(t)) \/ Abstract!Pop \/ Abstract!Steal

AbstractStep == AbstractNext \/ UNCHANGED <<DequeContents, given>>

\* Steps that touch neither the tasks held nor the bounds of the deque
LEMMA ContentsKept ==
  ASSUME UNCHANGED <<top, dbuffer, given>>, LogicalBottom' = LogicalBottom
  PROVE  AbstractStep
BY Zenon DEF AbstractStep, DequeContents

LEMMA PushTopRefines == DequeInv /\ PushTop => AbstractStep
<1> SUFFICES ASSUME DequeInv, PushTop PROVE AbstractStep
  BY Zenon
<1>1. LogicalBottom' = LogicalBottom
  BY Zenon, DequeFacts DEF PushTop, DequeGoto, LogicalBottom, DequeInv, WSTypeOK
<1> QED
  BY Zenon, <1>1, ContentsKept DEF PushTop

LEMMA PopBottomRefines == DequeInv /\ PopBottom => AbstractStep
<1> SUFFICES ASSUME DequeInv, PopBottom PROVE AbstractStep
  BY Zenon
<1>1. LogicalBottom' = LogicalBottom
  BY DequeFacts DEF PopBottom, DequeGoto, LogicalBottom, DequeInv, WSTypeOK
<1> QED
  BY Zenon, <1>1, ContentsKept DEF PopBottom

LEMMA PopRestoreRefines == DequeInv /\ PopRestore => AbstractStep
<1> SUFFICES ASSUME DequeInv, PopRestore PROVE AbstractStep
  BY Zenon
<1>1. LogicalBottom' = LogicalBottom
  BY Zenon, DequeFacts DEF PopRestore, DequeReturn, DequeGoto, LogicalBottom, DequeInv, WSTypeOK
<1> QED
  BY Zenon, <1>1, ContentsKept DEF PopRestore

\* The slot at bottom is not yet part of the deque.
LEMMA PushWriteRefines == DequeInv /\ PushWrite => AbstractStep
<1> SUFFICES ASSUME DequeInv, PushWrite PROVE AbstractStep
  BY Zenon
<1> DEFINE n == LogicalBottom - top
<1>1. /\ LogicalBottom = bottom /\ LogicalBottom' = bottom /\ n \in Nat
      /\ bottom - top < DequeCapacity - 1 /\ UNCHANGED <<top, bottom, given>>
  BY DequeFacts DEF PushWrite, DequeGoto, LogicalBottom, DequeInv, WSTypeOK, OwnerInv
<1>2. ASSUME NEW k \in 1 .. n PROVE dbuffer'[Slot(top + k - 1)] = dbuffer[Slot(top + k - 1)]
  <2>1. /\ top + k - 1 \in Nat /\ bottom \in Nat /\ DequeCapacity \in Nat \ {0}
        /\ top + k - 1 < bottom /\ bottom - (top + k - 1) < DequeCapacity
    BY <1>1, DequeFacts
  <2>2. Slot(top + k - 1) # Slot(bottom)
    BY Zenon, <2>1, ModDistinct DEF Slot
  <2>3. Slot(top + k - 1) \in 0 .. DequeCapacity - 1 /\ dbuffer \in Buffers
    BY Zenon, <2>1, ModType DEF Slot, DequeInv, WSTypeOK, Buffers
  <2> QED
    BY Zenon, <2>2, <2>3 DEF PushWrite, Buffers
<1>3. From(dbuffer', top, n) = From(dbuffer, top, n)
  BY Zenon, <1>2 DEF From
<1>4. DequeContents' = DequeContents
  BY Zenon, <1>1, <1>3 DEF DequeContents, From
<1> QED
  BY Zenon, <1>1, <1>4 DEF AbstractStep

LEMMA PushPublishRefines == DequeInv /\ PushPublish => AbstractStep
<1> SUFFICES ASSUME DequeInv, PushPublish PROVE AbstractStep
  BY Zenon
<1> DEFINE n == bottom - top
<1>1. /\ LogicalBottom = bottom /\ n \in Nat /\ dtask[Owner] \in Tasks /\ bottom = top + n
      /\ n < DequeCapacity - 1 /\ dbuffer[Slot(bottom)] = dtask[Owner]
  BY DequeFacts DEF PushPublish, LogicalBottom, DequeInv, OwnerInv
<1>2. LogicalBottom' = bottom + 1 /\ UNCHANGED <<top, dbuffer, given>>
  BY Zenon, DequeFacts DEF PushPublish, DequeReturn, DequeGoto, LogicalBottom, DequeInv, WSTypeOK
<1>3. /\ dbuffer \in Buffers /\ top \in Nat /\ bottom + 1 - top = n + 1
  BY DequeFacts DEF DequeInv, WSTypeOK, Buffers
<1>4. DequeContents = From(dbuffer, top, n)
  BY Zenon, <1>1 DEF DequeContents, From
<1>5. DequeContents' = From(dbuffer, top, n + 1)
  <2>1. DequeContents' = From(dbuffer', top', LogicalBottom' - top')
    BY Zenon DEF DequeContents, From
  <2>2. top \in Nat /\ bottom \in Nat /\ top' = top /\ dbuffer' = dbuffer
    BY Zenon, <1>2, DequeFacts
  <2>3. LogicalBottom' - top' = n + 1
    BY <1>2, <2>2
  <2> QED
    BY Zenon, <2>1, <2>2, <2>3
<1> HIDE DEF n
<1>6. DequeContents' = Append(DequeContents, dtask[Owner])
  BY Zenon, <1>1, <1>3, <1>4, <1>5, FromAppend
<1>7. Len(DequeContents) < DequeCapacity - 1
  BY Zenon, <1>1, <1>3, <1>4, FromType
<1>8. Abstract!Push(dtask[Owner])
  BY Zenon, <1>2, <1>6, <1>7 DEF Abstract!Push
<1> QED
  BY Zenon, <1>1, <1>8 DEF AbstractStep, AbstractNext

\* The owner takes the last of several tasks.
LEMMA PopTopRefines == DequeInv /\ PopTop => AbstractStep
<1> SUFFICES ASSUME DequeInv, PopTop PROVE AbstractStep
  BY Zenon
<1>1. CASE ~(top < bottom)
  <2>1. LogicalBottom' = LogicalBottom /\ UNCHANGED <<top, dbuffer, given>>
    BY Zenon, <1>1, DequeFacts DEF PopTop, DequeGoto, LogicalBottom, DequeInv, WSTypeOK
  <2> QED
    BY Zenon, <2>1, ContentsKept
<1>2. CASE top < bottom
  <2> DEFINE n == bottom + 1 - top
  <2>0. top \in Nat /\ bottom \in Nat /\ Owner \in DequeThreads
    BY Zenon, DequeFacts
  <2>a. /\ dpc[Owner] = "pop_top" /\ UNCHANGED <<top, bottom, dbuffer>>
        /\ given' = Append(given, dbuffer[Slot(bottom)])
        /\ dpc' = [dpc EXCEPT ![Owner] = "idle"]
    BY <1>2, <2>0 DEF PopTop, DequeReturn, DequeGoto
  <2>b. dpc'[Owner] = "idle"
    BY Zenon, <2>0, <2>a DEF DequeInv, WSTypeOK
  <2>1. /\ LogicalBottom = bottom + 1 /\ LogicalBottom' = bottom
        /\ UNCHANGED <<top, dbuffer>> /\ given' = Append(given, dbuffer[Slot(bottom)])
    BY Zenon, <2>a, <2>b DEF LogicalBottom
  <2>2. /\ dbuffer \in Buffers /\ top \in Nat /\ bottom - top = n - 1
        /\ n \in Nat \ {0} /\ top + n - 1 = bottom /\ n \in 1 .. n
    BY <1>2, DequeFacts DEF DequeInv, WSTypeOK, Buffers
  <2>3. DequeContents = From(dbuffer, top, n)
    <3>1. DequeContents = From(dbuffer, top, LogicalBottom - top)
      BY Zenon DEF DequeContents, From
    <3>2. LogicalBottom - top = n
      BY <2>0, <2>1
    <3> QED
      BY Zenon, <3>1, <3>2
  <2>4. DequeContents' = From(dbuffer, top, n - 1)
    <3>1. DequeContents' = From(dbuffer', top', LogicalBottom' - top')
      BY Zenon DEF DequeContents, From
    <3> QED
      BY Zenon, <2>1, <2>2, <3>1
  <2> HIDE DEF n
  <2>5. Len(DequeContents) = n /\ DequeContents[n] = dbuffer[Slot(bottom)]
    <3>1. /\ Len(From(dbuffer, top, n)) = n
          /\ \A k \in 1 .. n : From(dbuffer, top, n)[k] = dbuffer[Slot(top + k - 1)]
      BY Zenon, <2>2, FromType
    <3> QED
      BY Zenon, <2>2, <2>3, <3>1
  <2>6. DequeContents # <<>>
    BY Zenon, <2>2, <2>5
  <2>7. DequeContents' = SubSeq(DequeContents, 1, Len(DequeContents) - 1)
    BY Zenon, <2>2, <2>3, <2>4, <2>5, FromFront
  <2>8. Abstract!Pop
    BY Zenon, <2>1, <2>5, <2>6, <2>7 DEF Abstract!Pop
  <2> QED
    BY Zenon, <2>8 DEF AbstractStep, AbstractNext
<1> QED
  BY Zenon, <1>1, <1>2

\* A CAS on top that succeeds takes the first task.
LEMMA FirstTaken ==
  ASSUME DequeInv, top < LogicalBottom, top' = top + 1, UNCHANGED dbuffer,
         LogicalBottom' = LogicalBottom, given' = Append(given, dbuffer[Slot(top)])
  PROVE  AbstractStep
<1> DEFINE n == LogicalBottom - top
<1>0. dbuffer \in Buffers /\ top \in Nat /\ LogicalBottom \in Nat
  BY Zenon, DequeFacts DEF DequeInv, WSTypeOK, Buffers
<1>1. /\ dbuffer \in Buffers /\ top \in Nat /\ LogicalBottom - (top + 1) = n - 1
      /\ n \in Nat \ {0} /\ top + 1 - 1 = top /\ 1 \in 1 .. n
  BY <1>0
<1>2. DequeContents = From(dbuffer, top, n)
  BY Zenon DEF DequeContents, From
<1>3. DequeContents' = From(dbuffer, top + 1, n - 1)
  <2>1. DequeContents' = From(dbuffer', top', LogicalBottom' - top')
    BY Zenon DEF DequeContents, From
  <2> QED
    BY Zenon, <1>1, <2>1
<1> HIDE DEF n
<1>4. DequeContents \in Seq(0 .. MaxTasks) /\ Len(DequeContents) = n
      /\ DequeContents[1] = dbuffer[Slot(top)]
  <2>1. /\ From(dbuffer, top, n) \in Seq(0 .. MaxTasks)
        /\ Len(From(dbuffer, top, n)) = n
        /\ \A k \in 1 .. n : From(dbuffer, top, n)[k] = dbuffer[Slot(top + k - 1)]
    BY Zenon, <1>1, FromType
  <2> QED
    BY Zenon, <1>1, <1>2, <2>1
<1>5. DequeContents # <<>> /\ Head(DequeContents) = dbuffer[Slot(top)]
  BY <1>1, <1>4
<1>6. DequeContents' = Tail(DequeContents)
  BY Zenon, <1>1, <1>2, <1>3, FromTail
<1>7. Abstract!Steal
  BY Zenon, <1>5, <1>6 DEF Abstract!Steal
<1> QED
  BY Zenon, <1>7 DEF AbstractStep, AbstractNext

\* The owner wins, or loses, the last task to a thief.
LEMMA PopCasRefines == DequeInv /\ PopCas => AbstractStep
<1> SUFFICES ASSUME DequeInv, PopCas PROVE AbstractStep
  BY Zenon
<1>1. /\ LogicalBottom' = LogicalBottom /\ UNCHANGED dbuffer /\ LogicalBottom = bottom + 1
      /\ ltop[Owner] = bottom /\ dtask[Owner] = dbuffer[Slot(bottom)]
  BY Zenon, DequeFacts DEF PopCas, DequeGoto, LogicalBottom, DequeInv, WSTypeOK, OwnerInv
<1>2. CASE top = ltop[Owner]
  <2>1. top' = top + 1 /\ given' = Append(given, dbuffer[Slot(top)])
    BY Zenon, <1>1, <1>2 DEF PopCas
  <2>2. top \in Nat /\ top = bottom
    BY Zenon, <1>1, <1>2, DequeFacts
  <2>3. top < LogicalBottom
    BY <1>1, <2>2
  <2> QED
    BY Zenon, <1>1, <2>1, <2>3, FirstTaken
<1>3. CASE top # ltop[Owner]
  BY Zenon, <1>1, <1>3, ContentsKept DEF PopCas
<1> QED
  BY Zenon, <1>2, <1>3

LEMMA StealRefines == ASSUME DequeInv, NEW t \in Thieves, StealStep(t) PROVE AbstractStep
<1>1. LogicalBottom' = LogicalBottom /\ UNCHANGED dbuffer
  BY Zenon, DequeFacts DEF StealStep, StealTop, StealBottom, StealRead, StealCas, DequeReturn,
     DequeGoto, LogicalBottom, DequeInv, WSTypeOK
<1>2. CASE UNCHANGED <<top, given>>
  BY Zenon, <1>1, <1>2, ContentsKept
<1>3. CASE StealCas(t) /\ top = ltop[t]
  <2>1. top < LogicalBottom /\ dtask[t] = dbuffer[Slot(top)]
    BY Zenon, <1>3 DEF StealCas, DequeInv, ThiefInv
  <2>2. top' = top + 1 /\ given' = Append(given, dbuffer[Slot(top)])
    BY Zenon, <1>3, <2>1 DEF StealCas
  <2> QED
    BY Zenon, <1>1, <2>1, <2>2, FirstTaken
<1>4. UNCHANGED <<top, given>> \/ (StealCas(t) /\ top = ltop[t])
  BY Zenon DEF StealStep, StealTop, StealBottom, StealRead, StealCas
<1> QED
  BY Zenon, <1>2, <1>3, <1>4

LEMMA DequeStepRefines == DequeInv /\ [WSNext]_wsVars => AbstractStep
<1> SUFFICES ASSUME DequeInv, [WSNext]_wsVars PROVE AbstractStep
  BY Zenon
<1>1. CASE UNCHANGED wsVars
  <2>1. LogicalBottom' = LogicalBottom /\ UNCHANGED <<top, dbuffer, given>>
    BY Zenon, <1>1 DEF wsVars, LogicalBottom
  <2> QED
    BY Zenon, <2>1, ContentsKept
<1>2. CASE OwnerStep
  BY Zenon, <1>2, PushTopRefines, PushWriteRefines, PushPublishRefines, PopBottomRefines,
     PopTopRefines, PopCasRefines, PopRestoreRefines DEF OwnerStep
<1>3. CASE \E t \in Thieves : StealStep(t)
  BY Zenon, <1>3, StealRefines
<1> QED
  BY Zenon, <1>1, <1>2, <1>3 DEF WSNext

\* However pushes, pops and steals of one deque interleave, it gives out the
\* tasks pushed once each, to its owner from the back and to thieves from the
\* front, and top never passes bottom by more than a pop in progress.
THEOREM DequeCorrect == WSSpec => ImplementsDeque
<1>1. WSInit => DequeContents = <<>> /\ given = <<>>
  <2> SUFFICES ASSUME WSInit PROVE DequeContents = <<>> /\ given = <<>>
    BY Zenon
  <2>1. LogicalBottom = 0 /\ top = 0
    BY Zenon DEF WSInit, LogicalBottom, DequeThreads
  <2> QED
    BY <2>1 DEF WSInit, DequeContents
<1>2. DequeInv => WSTypeOK /\ TopBelowBottom
  BY Zenon DEF DequeInv
<1>3. AbstractStep => [(\E t \in Tasks : Abstract!Push(t)) \/ Abstract!Pop
                          \/ Abstract!Steal]_<<DequeContents, given>>
  BY Zenon DEF AbstractStep, AbstractNext
<1> QED
  BY <1>1, <1>2, <1>3, DequeInvInit, DequeInvNext, DequeStepRefines, PTL
     DEF WSSpec, ImplementsDeque, Abstract!Spec
=============================================================================
