---------------------------- MODULE ChannelProofs ----------------------------
(***************************************************************************)
(* Proofs about qd_channel.c for any producers, capacity and items: every  *)
(* variable keeps its type, and without QD_CHAN_OVERFLOW the ring never    *)
(* holds more than its capacity, no slot is touched by two threads, and    *)
(* the channel implements the bounded FIFO queue of BoundedFifo.           *)
(***************************************************************************)
EXTENDS Channel, SequenceTheorems, TLAPS

-----------------------------------------------------------------------------
(* Type correctness.                                                       *)

LEMMA PosType == \A i \in Nat : Pos(i) \in Slots
BY ChannelAssumption DEF Pos, Slots

LEMMA InitTypeOK == Init => TypeOK
BY ChannelAssumption DEF Init, TypeOK, Labels, CLabels, Sends, Recvs, Slots

\* What follows a return of try_send keeps the types.
LEMMA ReturnTypeOK ==
  ASSUME TypeOK, NEW p \in Producers, NEW r \in {"OK", "BUSY", "IO"},
         Return(p, r)
  PROVE /\ pc' \in [Producers -> Labels]
        /\ ret' \in [Producers -> {"none", "OK", "BUSY", "IO"}]
        /\ lock' \in Producers \cup {Consumer, Nobody}
        /\ ptail' \in [Producers -> Nat] /\ phead' \in [Producers -> Nat]
        /\ mode' \in [Producers -> Sends \cup {"send_locked"}]
        /\ item' \in [Producers -> Items \cup {Nobody}]
<1>1. /\ ret' = [ret EXCEPT ![p] = r]
      /\ ptail' = [ptail EXCEPT ![p] = 0] /\ phead' = [phead EXCEPT ![p] = 0]
  BY Zenon DEF Return
<1>2. pc' \in [Producers -> Labels]
  BY Zenon DEF Return, Goto, TypeOK, Labels
<1>3. /\ lock' = lock \/ lock' = Nobody
      /\ mode' = mode \/ mode' = [mode EXCEPT ![p] = "try_send"]
      /\ item' = item \/ item' = [item EXCEPT ![p] = Nobody]
  BY Zenon DEF Return
<1> QED
  BY Zenon, <1>1, <1>2, <1>3 DEF TypeOK, Sends

\* Each step of a producer keeps the types.
LEMMA ProducerTypeOK ==
  ASSUME TypeOK, NEW p \in Producers, ProducerStep(p)
  PROVE TypeOK'
<1> USE ChannelAssumption, PosType
    DEF TypeOK, Labels, Sends, Goto, ring, condVars, syncVars,
        callVars, consVars
<1>1. CASE TrySendClosed(p)
  <2>1. CASE closed = 1
    BY Zenon, <1>1, <2>1, ReturnTypeOK DEF TrySendClosed
  <2>2. CASE closed # 1
    <3>1. Goto(p, "load_tail") /\ UNCHANGED <<ptail, phead, ret, lock, mode, item>>
      BY Zenon, <1>1, <2>2 DEF TrySendClosed
    <3> QED
      BY <1>1, <3>1 DEF TrySendClosed
  <2> QED
    BY Zenon, <2>1, <2>2
<1>2. CASE TrySendLoadTail(p)
  BY <1>2 DEF TrySendLoadTail
<1>3. CASE TrySendLoadHead(p)
  <2>1. CASE ~Full(ptail[p], head) \/ Overflow
    <3>1. /\ Goto(p, "cas") \/ Goto(p, "ovf_lock")
          /\ phead' = [phead EXCEPT ![p] = head]
          /\ UNCHANGED <<ptail, ret, lock, mode, item>>
      BY Zenon, <1>3, <2>1 DEF TrySendLoadHead
    <3>2. pc' \in [Producers -> Labels]
      <4>1. CASE Goto(p, "cas")
        BY Zenon, <4>1
      <4>2. CASE Goto(p, "ovf_lock")
        BY Zenon, <4>2
      <4> QED
        BY Zenon, <3>1, <4>1, <4>2
    <3> QED
      BY <1>3, <3>1, <3>2 DEF TrySendLoadHead
  <2>2. CASE Full(ptail[p], head) /\ ~Overflow
    BY <1>3, <2>2, ReturnTypeOK DEF TrySendLoadHead
  <2> QED
    BY Zenon, <2>1, <2>2
<1>4. CASE TrySendCas(p)
  <2>1. CASE tail' = tail + 1 /\ Goto(p, "write")
    BY <1>4, <2>1 DEF TrySendCas
  <2>2. CASE tail' = tail /\ Goto(p, "load_tail")
    BY Zenon, <1>4, <2>2 DEF TrySendCas
  <2> QED
    BY Zenon, <1>4, <2>1, <2>2 DEF TrySendCas
<1>5. CASE TrySendWrite(p)
  BY <1>5 DEF TrySendWrite
<1>6. CASE TrySendCommit(p)
  BY Zenon, <1>6 DEF TrySendCommit
<1>7. CASE TrySendSignal(p)
  BY Zenon, <1>7, ReturnTypeOK DEF TrySendSignal
<1>8. CASE OvfLock(p)
  BY Zenon, <1>8 DEF OvfLock
<1>9. CASE OvfLoadTail(p)
  BY Zenon, <1>9 DEF OvfLoadTail
<1>10. CASE OvfLoadHead(p)
  BY Zenon, <1>10 DEF OvfLoadHead
<1>11. CASE OvfClear(p)
  BY <1>11 DEF OvfClear
<1>12. CASE OvfDrop(p)
  BY <1>12 DEF OvfDrop
<1>13. CASE OvfWrite(p)
  BY Zenon, <1>13 DEF OvfWrite
<1>14. CASE OvfCommit(p)
  BY Zenon, <1>14 DEF OvfCommit
<1>15. CASE OvfPublish(p)
  BY <1>15 DEF OvfPublish
<1>16. CASE OvfUnlock(p)
  BY Zenon, <1>16 DEF OvfUnlock
<1>17. CASE SendLock(p)
  BY Zenon, <1>17 DEF SendLock
<1>18. CASE SendWait(p)
  BY <1>18 DEF SendWait
<1> QED
  BY Zenon, <1>1, <1>2, <1>3, <1>4, <1>5, <1>6, <1>7, <1>8, <1>9, <1>10, <1>11, <1>12,
     <1>13, <1>14, <1>15, <1>16, <1>17, <1>18 DEF ProducerStep

\* Each step of the consumer keeps the types.
LEMMA RecvTypeOK ==
  ASSUME TypeOK, RecvStep
  PROVE TypeOK'
<1> USE ChannelAssumption, PosType
    DEF TypeOK, CLabels, Recvs, RecvNothing, ring, condVars, syncVars,
        callVars, prodVars
<1>1. CASE RecvClosed
  BY <1>1 DEF RecvClosed
<1>2. CASE RecvLoadHead
  BY <1>2 DEF RecvLoadHead
<1>3. CASE RecvLoadTail
  BY <1>3 DEF RecvLoadTail
<1>4. CASE RecvCopy
  BY <1>4 DEF RecvCopy, CPos
<1>5. CASE RecvGiveUp
  BY Zenon, <1>5 DEF RecvGiveUp
<1>6. CASE RecvClear
  BY Zenon, <1>6 DEF RecvClear
<1>7. CASE RecvAdvance
  BY <1>7 DEF RecvAdvance
<1>8. CASE RecvLock
  BY Zenon, <1>8 DEF RecvLock
<1>9. CASE RecvWait
  BY Zenon, <1>9 DEF RecvWait
<1> QED
  BY Zenon, <1>1, <1>2, <1>3, <1>4, <1>5, <1>6, <1>7, <1>8, <1>9 DEF RecvStep

LEMMA NextTypeOK == TypeOK /\ [Next]_vars => TypeOK'
<1> SUFFICES ASSUME TypeOK, [Next]_vars PROVE TypeOK'
  BY Zenon
<1> USE ChannelAssumption DEF ring, condVars, syncVars, callVars, prodVars,
        consVars
<1>1. ASSUME NEW p \in Producers, NEW v \in unsent, NEW m \in Sends,
             CallSend(p, v, m)
      PROVE TypeOK'
  BY <1>1 DEF CallSend, Goto, TypeOK, Labels, Sends
<1>2. ASSUME NEW m \in Recvs, NEW n \in 1 .. MaxItems, CallRecv(m, n)
      PROVE TypeOK'
  BY <1>2 DEF CallRecv, TypeOK, CLabels, Recvs
<1>3. CASE Ack
  BY Zenon, <1>3 DEF Ack, TypeOK
<1>4. CASE CloseFlag
  BY Zenon, <1>4 DEF CloseFlag, TypeOK
<1>5. CASE CloseBroadcast
  BY Zenon, <1>5 DEF CloseBroadcast, TypeOK
<1>6. CASE UNCHANGED vars
  BY Zenon, <1>6 DEF vars, TypeOK
<1> QED
  BY Zenon, <1>1, <1>2, <1>3, <1>4, <1>5, <1>6, ProducerTypeOK, RecvTypeOK
     DEF Next, Step

\* In every reachable state every field and local of the channel has its type,
\* in particular head and tail never go below zero and an index computed from
\* them is a slot.
THEOREM TypeCorrect == Spec => []TypeOK
BY InitTypeOK, NextTypeOK, PTL DEF Spec

-----------------------------------------------------------------------------
(* Arithmetic of positions.                                                *)

\* A multiple of n between 0 and n (both excluded) does not exist.
LEMMA NoMultipleBetween ==
  ASSUME NEW n \in Nat, NEW k \in Int, 0 < n * k, n * k < n
  PROVE FALSE
<1>1. CASE k <= 0
  BY <1>1, SMT
<1>2. CASE k >= 1
  BY <1>2, SMT
<1> QED
  BY <1>1, <1>2

\* Positions less than one capacity apart are in different slots.
LEMMA PosDistinct ==
  ASSUME NEW i \in Nat, NEW j \in Nat, i < j, j - i < Capacity
  PROVE Pos(i) # Pos(j)
<1> SUFFICES ASSUME i % Capacity = j % Capacity PROVE FALSE
  BY Zenon DEF Pos
<1> DEFINE k == (j \div Capacity) - (i \div Capacity)
<1>0. Capacity \in Nat /\ Capacity > 0
  BY ChannelAssumption
<1>1. /\ i = Capacity * (i \div Capacity) + (i % Capacity)
      /\ i \div Capacity \in Int /\ i % Capacity \in Int
  BY <1>0, SMT
<1>2. /\ j = Capacity * (j \div Capacity) + (j % Capacity)
      /\ j \div Capacity \in Int /\ j % Capacity \in Int
  BY <1>0, SMT
<1>3. k \in Int /\ j - i = Capacity * k
  BY <1>0, <1>1, <1>2, SMT
<1> HIDE DEF k
<1> QED
  BY <1>0, <1>3, NoMultipleBetween

\* A position one capacity further on is in the same slot.
LEMMA PosShift ==
  ASSUME NEW i \in Nat
  PROVE Pos(i + Capacity) = Pos(i)
<1> DEFINE j == i + Capacity
           k == (i \div Capacity) + 1 - (j \div Capacity)
           m == (j \div Capacity) - 1 - (i \div Capacity)
<1>0. Capacity \in Nat /\ Capacity > 0 /\ j \in Nat
  BY ChannelAssumption
<1>1. /\ i = Capacity * (i \div Capacity) + (i % Capacity)
      /\ i \div Capacity \in Int /\ i % Capacity \in 0 .. Capacity - 1
  BY <1>0, SMT
<1> HIDE DEF j
<1>2. /\ j = Capacity * (j \div Capacity) + (j % Capacity)
      /\ j \div Capacity \in Int /\ j % Capacity \in 0 .. Capacity - 1
  BY <1>0, SMT
<1>3. /\ k \in Int /\ (j % Capacity) - (i % Capacity) = Capacity * k
      /\ m \in Int /\ (i % Capacity) - (j % Capacity) = Capacity * m
  BY <1>0, <1>1, <1>2, SMT DEF j
<1> HIDE DEF k, m
<1>4. ~(i % Capacity < j % Capacity)
  BY <1>0, <1>1, <1>2, <1>3, NoMultipleBetween
<1>5. ~(j % Capacity < i % Capacity)
  BY <1>0, <1>1, <1>2, <1>3, NoMultipleBetween
<1> QED
  BY <1>1, <1>2, <1>4, <1>5 DEF Pos, j

-----------------------------------------------------------------------------
(* The ring invariant.                                                     *)

LEMMA LoType == TypeOK /\ RingInv => Lo \in Nat /\ Lo >= head /\ Lo <= tail
<1> SUFFICES ASSUME TypeOK, RingInv PROVE Lo \in Nat /\ Lo >= head /\ Lo <= tail
  BY Zenon
<1>1. Len(got) \in Nat /\ head \in Nat /\ tail \in Nat /\ climit \in Nat
  BY DEF TypeOK
<1> QED
  BY <1>1 DEF Lo, Cleared, RingInv, ReaderInv, WindowBounded

\* The ring part of the invariant depends on head, tail, the flags, the
\* reservations and on how far the consumer is, and on nothing else.
LEMMA RingFrame ==
  ASSUME RingInv, UNCHANGED <<head, tail, committed>>, Lo' = Lo,
         \A p \in Producers : Writing(p)' <=> Writing(p),
         \A p \in Producers : Writing(p) => ptail'[p] = ptail[p]
  PROVE WindowBounded' /\ WritersInv' /\ FlagsInv'
<1> USE DEF RingInv
<1>1. WindowBounded'
  BY Zenon DEF WindowBounded
<1>2. WritersInv'
  BY Zenon DEF WritersInv
<1>3. \A i : Reserved(i)' <=> Reserved(i)
  BY Zenon DEF Reserved
<1>4. FlagsInv'
  BY Zenon, <1>3 DEF FlagsInv
<1> QED
  BY Zenon, <1>1, <1>2, <1>4

LEMMA InitRingInv == Init => RingInv
<1> SUFFICES ASSUME Init PROVE RingInv
  BY Zenon
<1> USE ChannelAssumption, PosType DEF Init
<1>1. Lo = 0
  BY DEF Lo, Cleared
<1>2. \A p \in Producers : ~Writing(p)
  BY Zenon DEF Writing
<1>3. WindowBounded /\ SnapshotInv /\ WritersInv /\ ReaderInv
  BY <1>2 DEF WindowBounded, SnapshotInv, WritersInv, ReaderInv
<1>4. FlagsInv
  BY <1>1 DEF FlagsInv
<1> QED
  BY Zenon, <1>3, <1>4 DEF RingInv

\* A producer step that leaves the ring alone keeps the invariant, if it only
\* learns what SnapshotInv says.
LEMMA QuietProducer ==
  ASSUME TypeOK, RingInv, NEW p \in Producers,
         UNCHANGED <<head, tail, committed, consVars>>,
         pc' = [pc EXCEPT ![p] = pc'[p]],
         \A q \in Producers \ {p} : ptail'[q] = ptail[q] /\ phead'[q] = phead[q],
         Writing(p)' <=> Writing(p), Writing(p) => ptail'[p] = ptail[p],
         pc'[p] \in {"idle", "closed", "load_tail", "load_head", "cas", "commit",
                     "lock", "wait", "asleep"},
         pc'[p] = "load_head" => ptail'[p] <= tail,
         pc'[p] = "cas" => /\ phead'[p] <= head /\ ptail'[p] <= tail
                           /\ ptail'[p] - phead'[p] < Capacity
  PROVE RingInv'
<1>1. \A q \in Producers \ {p} : pc'[q] = pc[q]
  BY Zenon DEF TypeOK
<1>2. Lo' = Lo
  BY Zenon DEF Lo, Cleared, consVars
<1>3. \A q \in Producers : Writing(q)' <=> Writing(q)
  BY Zenon, <1>1 DEF Writing
<1>4. \A q \in Producers : Writing(q) => ptail'[q] = ptail[q]
  BY Zenon
<1>5. WindowBounded' /\ WritersInv' /\ FlagsInv'
  BY Zenon, <1>2, <1>3, <1>4, RingFrame
<1>6. SnapshotInv'
  <2> SUFFICES ASSUME NEW q \in Producers PROVE SnapshotInv!(q)'
    BY Zenon DEF SnapshotInv
  <2>1. CASE q = p
    BY Zenon, <2>1
  <2>2. CASE q # p
    BY Zenon, <2>2, <1>1 DEF RingInv, SnapshotInv
  <2> QED
    BY Zenon, <2>1, <2>2
<1>7. ReaderInv'
  BY Zenon, <1>2 DEF RingInv, ReaderInv, consVars
<1> QED
  BY Zenon, <1>5, <1>6, <1>7 DEF RingInv

\* The compare-exchange reserves the position at tail: the head it was compared
\* with may be old but is no larger than head, so the position is free.
LEMMA CasKeepsRing ==
  ASSUME TypeOK, RingInv, NEW p \in Producers, pc[p] = "cas", tail = ptail[p],
         tail' = tail + 1, Goto(p, "write"),
         UNCHANGED <<head, committed, ptail, phead, consVars>>
  PROVE RingInv'
<1>0. /\ Capacity \in Nat /\ head \in Nat /\ tail \in Nat /\ climit \in Nat
      /\ \A q \in Producers : ptail[q] \in Nat /\ phead[q] \in Nat
  BY Zenon, ChannelAssumption DEF TypeOK
<1>1. /\ pc'[p] = "write"
      /\ \A q \in Producers \ {p} : pc'[q] = pc[q]
  BY Zenon DEF TypeOK, Goto
<1>2. Lo' = Lo /\ Lo \in Nat /\ Lo >= head /\ Lo <= tail
  BY Zenon, LoType DEF Lo, Cleared, consVars
<1>3. /\ Writing(p)' /\ ~Writing(p)
      /\ \A q \in Producers \ {p} : Writing(q)' <=> Writing(q)
  BY Zenon, <1>1 DEF Writing
<1>4. tail - head < Capacity
  BY <1>0 DEF RingInv, SnapshotInv
<1>5. WindowBounded'
  BY <1>0, <1>4 DEF RingInv, WindowBounded
<1>6. SnapshotInv'
  BY <1>0, <1>1 DEF RingInv, SnapshotInv
<1>7. WritersInv'
  <2> SUFFICES ASSUME NEW q \in Producers, Writing(q)'
               PROVE /\ Lo <= ptail[q] /\ ptail[q] < tail + 1
                     /\ \A r \in Producers :
                          Writing(r)' /\ ptail[r] = ptail[q] => r = q
    BY Zenon, <1>2 DEF WritersInv
  <2>1. \A r \in Producers \ {p} : Writing(r) => Lo <= ptail[r] /\ ptail[r] < tail
    BY Zenon DEF RingInv, WritersInv
  <2> QED
    BY <1>0, <1>2, <1>3, <2>1 DEF RingInv, WritersInv
<1>8. FlagsInv'
  <2>1. \A i \in Nat : i = tail => Reserved(i)'
    BY Zenon, <1>3 DEF Reserved
  <2>2. \A i \in Lo .. tail - 1 : Reserved(i)' <=> Reserved(i)
    BY <1>0, <1>2, <1>3 DEF Reserved
  <2>3. committed[Pos(tail)] = 0
    BY <1>0, <1>2, <1>4 DEF RingInv, FlagsInv
  <2>4. \A i \in Lo .. tail : committed[Pos(i)] = 1 <=> ~Reserved(i)'
    <3> SUFFICES ASSUME NEW i \in Lo .. tail
                 PROVE committed[Pos(i)] = 1 <=> ~Reserved(i)'
      BY Zenon
    <3>1. CASE i = tail
      BY <1>0, <2>1, <2>3, <3>1
    <3>2. CASE i \in Lo .. tail - 1
      BY Zenon, <2>2, <3>2 DEF RingInv, FlagsInv
    <3> QED
      BY <1>0, <1>2, <3>1, <3>2
  <2>5. \A i \in tail + 1 .. Lo + Capacity - 1 : committed[Pos(i)] = 0
    BY <1>0, <1>2 DEF RingInv, FlagsInv
  <2> QED
    BY <1>0, <1>2, <2>4, <2>5 DEF FlagsInv
<1>9. ReaderInv'
  BY <1>0, <1>2 DEF RingInv, ReaderInv, consVars
<1> QED
  BY Zenon, <1>5, <1>6, <1>7, <1>8, <1>9 DEF RingInv

\* Raising the committed flag turns a reserved position into one the consumer
\* may read, and touches no other position of the window.
LEMMA CommitKeepsRing ==
  ASSUME TypeOK, RingInv, NEW p \in Producers, TrySendCommit(p)
  PROVE RingInv'
<1> DEFINE t == ptail[p]
<1>0. /\ Capacity \in Nat /\ head \in Nat /\ tail \in Nat /\ climit \in Nat
      /\ \A q \in Producers : ptail[q] \in Nat
      /\ committed \in [Slots -> {0, 1}]
  BY Zenon, ChannelAssumption DEF TypeOK
<1>1. /\ pc[p] = "commit" /\ pc'[p] = "signal"
      /\ \A q \in Producers \ {p} : pc'[q] = pc[q]
      /\ committed' = [committed EXCEPT ![Pos(t)] = 1]
      /\ UNCHANGED <<head, tail, ptail, phead, consVars>>
  BY Zenon DEF TypeOK, Goto, TrySendCommit
<1>2. Lo' = Lo /\ Lo \in Nat /\ Lo >= head /\ Lo <= tail
  BY Zenon, <1>1, LoType DEF Lo, Cleared, consVars
<1>3. /\ Writing(p) /\ ~Writing(p)'
      /\ \A q \in Producers \ {p} : Writing(q)' <=> Writing(q)
  BY Zenon, <1>1 DEF Writing
<1>4. /\ t \in Nat /\ Lo <= t /\ t < tail /\ tail <= head + Capacity
      /\ \A q \in Producers : Writing(q) /\ ptail[q] = t => q = p
  BY <1>0, <1>3 DEF RingInv, WritersInv, WindowBounded
<1>5. /\ committed'[Pos(t)] = 1
      /\ \A i \in Lo .. Lo + Capacity - 1 :
           i # t => committed'[Pos(i)] = committed[Pos(i)]
  <2>1. Pos(t) \in Slots
    BY Zenon, <1>4, PosType
  <2>2. ASSUME NEW i \in Lo .. Lo + Capacity - 1, i # t
        PROVE Pos(i) # Pos(t)
    <3>1. i \in Nat
      BY <1>0, <1>2
    <3>2. CASE i < t
      BY <1>0, <1>2, <1>4, <3>1, <3>2, PosDistinct
    <3>3. CASE t < i
      BY <1>0, <1>2, <1>4, <3>1, <3>3, PosDistinct
    <3> QED
      BY <1>4, <2>2, <3>1, <3>2, <3>3
  <2>3. \A i \in Lo .. Lo + Capacity - 1 : Pos(i) \in Slots
    BY <1>0, <1>2, PosType
  <2> QED
    BY Zenon, <1>0, <1>1, <2>1, <2>2, <2>3
<1> HIDE DEF t
<1>6. SnapshotInv'
  BY Zenon, <1>0, <1>1 DEF RingInv, SnapshotInv
<1>7. WritersInv'
  BY Zenon, <1>1, <1>2, <1>3 DEF RingInv, WritersInv
<1>8. FlagsInv'
  <2>1. \A i \in Nat : i = t => ~Reserved(i)'
    BY Zenon, <1>1, <1>3, <1>4 DEF Reserved
  <2>2. \A i \in Lo .. tail - 1 : i # t => (Reserved(i)' <=> Reserved(i))
    BY Zenon, <1>1, <1>3 DEF Reserved, t
  <2>3. \A i \in Lo .. tail - 1 : committed'[Pos(i)] = 1 <=> ~Reserved(i)'
    <3> SUFFICES ASSUME NEW i \in Lo .. tail - 1
                 PROVE committed'[Pos(i)] = 1 <=> ~Reserved(i)'
      BY Zenon
    <3>1. CASE i = t
      BY Zenon, <1>4, <1>5, <2>1, <3>1
    <3>2. CASE i # t
      <4>1. i \in Lo .. Lo + Capacity - 1
        BY <1>0, <1>2, <1>4
      <4>2. committed'[Pos(i)] = committed[Pos(i)]
        BY Zenon, <1>5, <3>2, <4>1
      <4> QED
        BY Zenon, <2>2, <3>2, <4>2 DEF RingInv, FlagsInv
    <3> QED
      BY Zenon, <3>1, <3>2
  <2>4. \A i \in tail .. Lo + Capacity - 1 : committed'[Pos(i)] = 0
    BY <1>0, <1>2, <1>4, <1>5 DEF RingInv, FlagsInv
  <2> QED
    BY Zenon, <1>1, <1>2, <2>3, <2>4 DEF FlagsInv
<1>9. ReaderInv'
  <2>1. cpc = "clear" => committed'[Pos(Lo)] = 1
    BY <1>0, <1>2, <1>4, <1>5 DEF RingInv, ReaderInv
  <2> QED
    BY Zenon, <1>1, <1>2, <2>1 DEF RingInv, ReaderInv, consVars
<1> QED
  BY Zenon, <1>1, <1>6, <1>7, <1>8, <1>9 DEF RingInv, WindowBounded

\* Clearing the flag releases the oldest unreleased slot: the position one
\* capacity further on becomes free.
LEMMA ClearKeepsRing ==
  ASSUME TypeOK, RingInv, RecvClear
  PROVE RingInv'
<1>0. /\ Capacity \in Nat /\ Capacity > 0 /\ head \in Nat /\ tail \in Nat
      /\ climit \in Nat /\ Len(got) \in Nat
      /\ \A q \in Producers : ptail[q] \in Nat
      /\ committed \in [Slots -> {0, 1}]
  BY ChannelAssumption DEF TypeOK
<1>1. /\ cpc = "clear" /\ cpc' \in {"copy", "advance"}
      /\ cpc' = "copy" => Len(got) # climit
      /\ committed' = [committed EXCEPT ![Pos(chead + Len(got) - 1)] = 0]
      /\ UNCHANGED <<head, tail, pc, ptail, phead, chead, climit, got>>
  BY Zenon DEF RecvClear, prodVars
<1>2. /\ chead = head /\ Len(got) > 0 /\ Len(got) <= climit
      /\ head + climit <= tail /\ tail <= head + Capacity
      /\ committed[Pos(Lo)] = 1
  BY <1>0, <1>1 DEF RingInv, ReaderInv, WindowBounded
<1>3. /\ Lo = head + Len(got) - 1 /\ Lo' = Lo + 1 /\ Lo \in Nat
      /\ Lo < tail /\ Lo >= head /\ chead + Len(got) - 1 = Lo
  BY <1>0, <1>1, <1>2 DEF Lo, Cleared
<1>4. \A q \in Producers : Writing(q)' <=> Writing(q)
  BY Zenon, <1>1 DEF Writing
<1>5. ~Reserved(Lo)
  BY <1>0, <1>2, <1>3 DEF RingInv, FlagsInv
<1>6. WritersInv'
  <2> SUFFICES ASSUME NEW q \in Producers, Writing(q)
               PROVE Lo + 1 <= ptail[q]
    BY Zenon, <1>1, <1>3, <1>4 DEF RingInv, WritersInv
  <2>1. Lo <= ptail[q] /\ ptail[q] # Lo
    BY Zenon, <1>5 DEF RingInv, WritersInv, Reserved
  <2> QED
    BY <1>0, <1>3, <2>1
<1>7. /\ committed'[Pos(Lo)] = 0
      /\ \A i \in Lo + 1 .. Lo + Capacity - 1 :
           committed'[Pos(i)] = committed[Pos(i)]
  <2>1. Pos(Lo) \in Slots
    BY Zenon, <1>3, PosType
  <2>2. ASSUME NEW i \in Lo + 1 .. Lo + Capacity - 1
        PROVE Pos(i) # Pos(Lo) /\ Pos(i) \in Slots
    BY <1>0, <1>3, PosDistinct, PosType
  <2> QED
    BY Zenon, <1>0, <1>1, <1>3, <2>1, <2>2
<1>8. FlagsInv'
  <2>1. \A i \in Lo + 1 .. tail - 1 : committed'[Pos(i)] = 1 <=> ~Reserved(i)'
    <3> SUFFICES ASSUME NEW i \in Lo + 1 .. tail - 1
                 PROVE committed'[Pos(i)] = 1 <=> ~Reserved(i)'
      BY Zenon
    <3>1. i \in Lo + 1 .. Lo + Capacity - 1 /\ i \in Lo .. tail - 1
      BY <1>0, <1>2, <1>3
    <3>2. Reserved(i)' <=> Reserved(i)
      BY Zenon, <1>1, <1>4 DEF Reserved
    <3> QED
      BY Zenon, <1>7, <3>1, <3>2 DEF RingInv, FlagsInv
  <2>2. \A i \in tail .. Lo + Capacity : committed'[Pos(i)] = 0
    <3> SUFFICES ASSUME NEW i \in tail .. Lo + Capacity
                 PROVE committed'[Pos(i)] = 0
      BY Zenon
    <3>1. CASE i = Lo + Capacity
      BY Zenon, <1>3, <1>7, <3>1, PosShift
    <3>2. CASE i # Lo + Capacity
      <4>1. i \in Lo + 1 .. Lo + Capacity - 1 /\ i \in tail .. Lo + Capacity - 1
        BY <1>0, <1>3, <3>2
      <4> QED
        BY Zenon, <1>7, <4>1 DEF RingInv, FlagsInv
    <3> QED
      BY Zenon, <3>1, <3>2
  <2>3. Lo' + Capacity - 1 = Lo + Capacity
    BY <1>0, <1>3
  <2> QED
    BY Zenon, <1>1, <1>3, <2>1, <2>2, <2>3 DEF FlagsInv
<1>9. ReaderInv'
  BY <1>0, <1>1, <1>2 DEF ReaderInv
<1>10. SnapshotInv' /\ WindowBounded'
  BY Zenon, <1>1 DEF RingInv, SnapshotInv, WindowBounded
<1> QED
  BY Zenon, <1>6, <1>8, <1>9, <1>10 DEF RingInv

\* Storing head gives up exactly the positions already released.
LEMMA AdvanceKeepsRing ==
  ASSUME TypeOK, RingInv, RecvAdvance
  PROVE RingInv'
<1>0. /\ Capacity \in Nat /\ head \in Nat /\ tail \in Nat /\ climit \in Nat
      /\ Len(got) \in Nat
      /\ \A q \in Producers : ptail[q] \in Nat /\ phead[q] \in Nat
  BY ChannelAssumption DEF TypeOK
<1>1. /\ cpc = "advance" /\ cpc' = "idle" /\ head' = chead + Len(got)
      /\ UNCHANGED <<tail, committed, pc, ptail, phead>>
  BY Zenon DEF RecvAdvance, prodVars
<1>2. /\ chead = head /\ Len(got) <= climit
      /\ head + climit <= tail /\ tail <= head + Capacity
  BY <1>0, <1>1 DEF RingInv, ReaderInv, WindowBounded
<1>3. Lo' = Lo /\ head' = Lo /\ Lo >= head /\ Lo <= tail
  BY <1>0, <1>1, <1>2 DEF Lo, Cleared
<1>4. \A q \in Producers : Writing(q)' <=> Writing(q)
  BY Zenon, <1>1 DEF Writing
<1>5. WritersInv'
  BY Zenon, <1>1, <1>3, <1>4 DEF RingInv, WritersInv
<1>6. \A i : Reserved(i)' <=> Reserved(i)
  BY Zenon, <1>1, <1>4 DEF Reserved
<1>7. FlagsInv'
  BY Zenon, <1>1, <1>3, <1>6 DEF RingInv, FlagsInv
<1>8. SnapshotInv'
  <2>1. SnapshotInv /\ head <= head'
    BY <1>0, <1>1, <1>2 DEF RingInv
  <2>2. \A q \in Producers : phead[q] <= head => phead[q] <= head'
    BY <1>0, <1>1, <2>1
  <2> QED
    BY Zenon, <1>1, <2>1, <2>2 DEF SnapshotInv
<1>9. WindowBounded' /\ ReaderInv'
  BY <1>0, <1>1, <1>2 DEF WindowBounded, ReaderInv
<1> QED
  BY Zenon, <1>5, <1>7, <1>8, <1>9 DEF RingInv

\* A consumer step that leaves the ring alone keeps the invariant, if it keeps
\* what ReaderInv says.
LEMMA QuietConsumer ==
  ASSUME RingInv, UNCHANGED <<ring, pc, ptail, phead>>, Lo' = Lo, ReaderInv'
  PROVE RingInv'
<1>1. \A q \in Producers : Writing(q)' <=> Writing(q)
  BY Zenon DEF Writing
<1>2. WindowBounded' /\ WritersInv' /\ FlagsInv'
  BY Zenon, <1>1, RingFrame DEF ring
<1>3. SnapshotInv'
  BY Zenon DEF RingInv, SnapshotInv, ring
<1> QED
  BY Zenon, <1>2, <1>3 DEF RingInv

LEMMA RecvKeepsRing ==
  ASSUME TypeOK, RingInv, RecvStep
  PROVE RingInv'
<1>0. /\ head \in Nat /\ tail \in Nat /\ climit \in Nat /\ chead \in Nat
      /\ Len(got) \in Nat /\ got \in Seq(Items \cup {Nobody})
  BY DEF TypeOK
<1>a. ReaderInv /\ WindowBounded
  BY Zenon DEF RingInv
<1>1. CASE RecvClosed
  <2>1. Lo' = Lo /\ ReaderInv' /\ UNCHANGED <<ring, pc, ptail, phead>>
    BY Zenon, <1>0, <1>1, <1>a
       DEF RecvClosed, RecvNothing, ReaderInv, Lo, Cleared, ring, prodVars
  <2> QED
    BY Zenon, <2>1, QuietConsumer
<1>2. CASE RecvLoadHead
  <2>1. Lo' = Lo /\ ReaderInv' /\ UNCHANGED <<ring, pc, ptail, phead>>
    BY Zenon, <1>0, <1>2, <1>a DEF RecvLoadHead, ReaderInv, Lo, Cleared, ring, prodVars
  <2> QED
    BY Zenon, <2>1, QuietConsumer
<1>3. CASE RecvLoadTail
  <2>0. got = <<>> /\ Len(got) = 0 /\ climit > 0 /\ chead = head /\ got' = got
    BY Zenon, <1>3, <1>a DEF RecvLoadTail, ReaderInv
  <2>1. CASE chead >= tail
    <3>1. Lo' = Lo /\ ReaderInv' /\ UNCHANGED <<ring, pc, ptail, phead>>
      BY Zenon, <1>0, <1>3, <1>a, <2>0, <2>1
         DEF RecvLoadTail, RecvNothing, ReaderInv, Lo, Cleared, ring, prodVars
    <3> QED
      BY Zenon, <3>1, QuietConsumer
  <2>2. CASE chead < tail
    <3>1. /\ cpc = "load_tail" /\ cpc' = "copy" /\ chead' = chead
          /\ UNCHANGED <<ring, pc, ptail, phead>>
          /\ climit' = IF tail - chead < climit THEN tail - chead ELSE climit
      <4>1. ~(chead >= tail)
        BY <1>0, <2>2
      <4> QED
        BY Zenon, <1>3, <4>1 DEF RecvLoadTail, prodVars
    <3>2. climit' > 0 /\ head + climit' <= tail
      BY <1>0, <2>0, <2>2, <3>1
    <3>3. Lo' = Lo /\ ReaderInv'
      BY <1>0, <2>0, <3>1, <3>2 DEF ReaderInv, Lo, Cleared, ring
    <3> QED
      BY Zenon, <3>1, <3>3, QuietConsumer
  <2> QED
    BY <1>0, <2>1, <2>2
<1>4. CASE RecvCopy
  <2>1. /\ cpc = "copy" /\ cpc' = "clear" /\ got' = Append(got, buffer[CPos])
        /\ committed[CPos] = 1 /\ UNCHANGED <<ring, pc, ptail, phead>>
        /\ UNCHANGED <<chead, climit>>
    BY Zenon, <1>4 DEF RecvCopy, prodVars
  <2>2. Len(got') = Len(got) + 1
    BY <1>0, <2>1
  <2>3. /\ chead = head /\ head + climit <= tail /\ Len(got) < climit
        /\ CPos = Pos(head + Len(got))
    BY Zenon, <1>a, <2>1 DEF ReaderInv, CPos
  <2>4. Lo' = Lo /\ Lo = head + Len(got)
    BY <1>0, <2>1, <2>2 DEF Lo, Cleared, ring
  <2>5. ReaderInv'
    BY <1>0, <2>1, <2>2, <2>3, <2>4 DEF ReaderInv, ring
  <2> QED
    BY Zenon, <2>1, <2>4, <2>5, QuietConsumer
<1>5. CASE RecvGiveUp
  <2>1. Lo' = Lo /\ ReaderInv' /\ UNCHANGED <<ring, pc, ptail, phead>>
    BY Zenon, <1>0, <1>5, <1>a DEF RecvGiveUp, ReaderInv, Lo, Cleared, ring, prodVars
  <2> QED
    BY Zenon, <2>1, QuietConsumer
<1>6. CASE RecvLock
  <2>1. Lo' = Lo /\ ReaderInv' /\ UNCHANGED <<ring, pc, ptail, phead>>
    BY Zenon, <1>0, <1>6, <1>a DEF RecvLock, ReaderInv, Lo, Cleared, ring, prodVars
  <2> QED
    BY Zenon, <2>1, QuietConsumer
<1>7. CASE RecvWait
  <2>1. Lo' = Lo /\ ReaderInv' /\ UNCHANGED <<ring, pc, ptail, phead>>
    BY Zenon, <1>0, <1>7, <1>a DEF RecvWait, ReaderInv, Lo, Cleared, ring, prodVars
  <2> QED
    BY Zenon, <2>1, QuietConsumer
<1> QED
  BY Zenon, <1>1, <1>2, <1>3, <1>4, <1>5, <1>6, <1>7, ClearKeepsRing, AdvanceKeepsRing
     DEF RecvStep

LEMMA ProducerKeepsRing ==
  ASSUME ~Overflow, TypeOK, RingInv, NEW p \in Producers, ProducerStep(p)
  PROVE RingInv'
<1>0. /\ Capacity \in Nat /\ head \in Nat /\ tail \in Nat
      /\ \A q \in Producers : ptail[q] \in Nat /\ phead[q] \in Nat
      /\ pc \in [Producers -> Labels]
      /\ ptail \in [Producers -> Nat] /\ phead \in [Producers -> Nat]
  BY Zenon, ChannelAssumption DEF TypeOK
<1>a. SnapshotInv
  BY Zenon DEF RingInv
<1>b. ASSUME NEW r, Return(p, r)
      PROVE /\ pc' = [pc EXCEPT ![p] = pc'[p]]
            /\ pc'[p] \in {"idle", "lock", "wait"}
            /\ \A q \in Producers \ {p} : ptail'[q] = ptail[q] /\ phead'[q] = phead[q]
  BY Zenon, <1>0, <1>b DEF Return, Goto
<1> USE DEF ring, callVars, condVars, syncVars
<1>1. CASE TrySendClosed(p)
  <2>1. CASE closed = 1
    BY Zenon, <1>0, <1>1, <1>b, <2>1, QuietProducer DEF TrySendClosed, Writing
  <2>2. CASE closed # 1
    BY Zenon, <1>0, <1>1, <2>2, QuietProducer DEF TrySendClosed, Goto, Writing
  <2> QED
    BY Zenon, <2>1, <2>2
<1>2. CASE TrySendLoadTail(p)
  <2>1. /\ pc[p] = "load_tail" /\ pc'[p] = "load_head" /\ ptail'[p] = tail
        /\ pc' = [pc EXCEPT ![p] = pc'[p]]
        /\ \A q \in Producers \ {p} : ptail'[q] = ptail[q] /\ phead'[q] = phead[q]
        /\ UNCHANGED <<head, tail, committed, consVars>>
    BY Zenon, <1>0, <1>2 DEF TrySendLoadTail, Goto
  <2>2. ~Writing(p) /\ ~Writing(p)'
    BY Zenon, <2>1 DEF Writing
  <2>3. ptail'[p] <= tail
    <3>1. tail \in Nat /\ ptail'[p] = tail
      BY Zenon, <1>0, <2>1
    <3> QED
      BY <3>1
  <2> QED
    BY Zenon, <2>1, <2>2, <2>3, QuietProducer
<1>3. CASE TrySendLoadHead(p)
  <2>1. CASE Full(ptail[p], head)
    BY Zenon, <1>0, <1>3, <1>b, <2>1, QuietProducer DEF TrySendLoadHead, Writing
  <2>2. CASE ~Full(ptail[p], head)
    <3>1. /\ pc[p] = "load_head" /\ pc' = [pc EXCEPT ![p] = "cas"]
          /\ UNCHANGED ptail /\ phead' = [phead EXCEPT ![p] = head]
          /\ UNCHANGED <<head, tail, committed, consVars>>
      BY Zenon, <1>3, <2>2 DEF TrySendLoadHead, Goto
    <3>2. /\ pc'[p] = "cas" /\ pc' = [pc EXCEPT ![p] = pc'[p]]
          /\ phead'[p] = head /\ ptail'[p] = ptail[p]
          /\ \A q \in Producers \ {p} : ptail'[q] = ptail[q] /\ phead'[q] = phead[q]
      BY Zenon, <1>0, <3>1
    <3>3. ~Writing(p) /\ ~Writing(p)'
      BY Zenon, <3>1, <3>2 DEF Writing
    <3>4. ptail[p] <= tail
      BY Zenon, <1>a, <3>1 DEF SnapshotInv
    <3>5. /\ ptail[p] \in Nat /\ head \in Nat /\ tail \in Nat /\ Capacity \in Nat
          /\ head <= head
      BY <1>0
    <3>6. ptail[p] - head < Capacity
      BY <2>2, <3>5 DEF Full
    <3>7. "cas" \in {"idle", "closed", "load_tail", "load_head", "cas", "commit",
                    "lock", "wait", "asleep"}
      BY Zenon
    <3> QED
      BY Zenon, <3>1, <3>2, <3>3, <3>4, <3>5, <3>6, <3>7, QuietProducer
  <2> QED
    BY Zenon, <2>1, <2>2
<1>4. CASE TrySendCas(p)
  <2>1. CASE tail = ptail[p] /\ tail' = tail + 1 /\ Goto(p, "write")
    BY Zenon, <1>4, <2>1, CasKeepsRing DEF TrySendCas
  <2>2. CASE tail' = tail /\ Goto(p, "load_tail")
    BY Zenon, <1>0, <1>4, <2>2, QuietProducer DEF TrySendCas, Goto, Writing
  <2> QED
    BY Zenon, <1>4, <2>1, <2>2 DEF TrySendCas
<1>5. CASE TrySendWrite(p)
  BY Zenon, <1>0, <1>5, QuietProducer DEF TrySendWrite, Goto, Writing
<1>6. CASE TrySendSignal(p)
  BY Zenon, <1>0, <1>6, <1>b, QuietProducer DEF TrySendSignal, Writing
<1>7. CASE SendLock(p)
  BY Zenon, <1>0, <1>7, QuietProducer DEF SendLock, Goto, Writing
<1>8. CASE SendWait(p)
  BY Zenon, <1>0, <1>8, QuietProducer DEF SendWait, Goto, Writing
<1> QED
  BY Zenon, <1>1, <1>2, <1>3, <1>4, <1>5, <1>6, <1>7, <1>8, <1>a, CommitKeepsRing
     DEF ProducerStep, SnapshotInv, OvfLock, OvfLoadTail, OvfLoadHead, OvfClear,
         OvfDrop, OvfWrite, OvfCommit, OvfPublish, OvfUnlock

LEMMA NextKeepsRing ==
  ASSUME ~Overflow, TypeOK, RingInv, [Next]_vars
  PROVE RingInv'
<1> USE DEF ring, callVars, condVars, syncVars, prodVars
<1>0. /\ pc \in [Producers -> Labels]
      /\ ptail \in [Producers -> Nat] /\ phead \in [Producers -> Nat]
  BY Zenon DEF TypeOK
<1>1. ASSUME NEW p \in Producers, NEW v \in unsent, NEW m \in Sends,
             CallSend(p, v, m)
      PROVE RingInv'
  BY Zenon, <1>0, <1>1, QuietProducer DEF CallSend, Goto, Writing
<1>2. ASSUME NEW m \in Recvs, NEW n \in 1 .. MaxItems, CallRecv(m, n)
      PROVE RingInv'
  <2>1. Lo' = Lo /\ ReaderInv'
    BY <1>2, ChannelAssumption DEF CallRecv, Lo, Cleared, ReaderInv
  <2> QED
    BY Zenon, <1>2, <2>1, QuietConsumer DEF CallRecv
<1>3. CASE UNCHANGED <<ring, pc, ptail, phead, consVars>>
  <2>1. Lo' = Lo /\ ReaderInv'
    BY Zenon, <1>3 DEF Lo, Cleared, RingInv, ReaderInv, consVars
  <2> QED
    BY Zenon, <1>3, <2>1, QuietConsumer
<1> QED
  BY Zenon, <1>1, <1>2, <1>3, ProducerKeepsRing, RecvKeepsRing
     DEF Next, Step, vars, Ack, CloseFlag, CloseBroadcast

\* Without QD_CHAN_OVERFLOW the ring invariant holds for any number of
\* producers, any capacity and any items.
THEOREM RingCorrect == Spec => [](~Overflow => RingInv)
<1> DEFINE Inv == TypeOK /\ (~Overflow => RingInv)
<1>1. Init => Inv
  BY Zenon, InitTypeOK, InitRingInv
<1>2. Inv /\ [Next]_vars => Inv'
  <2>1. [Next]_vars => (Overflow' <=> Overflow)
    BY Zenon DEF Next, vars, Overflow
  <2> QED
    BY Zenon, <2>1, NextTypeOK, NextKeepsRing
<1> QED
  BY <1>1, <1>2, PTL DEF Spec

\* try_send never lets more than capacity positions lie between head and tail.
THEOREM WindowCorrect == Spec => [](~Overflow => WindowBounded)
<1>1. RingInv => WindowBounded
  BY Zenon DEF RingInv
<1> QED
  BY <1>1, RingCorrect, PTL

\* No slot of the ring is touched by two threads at once.
THEOREM SlotCorrect == Spec => [](~Overflow => SlotExclusive)
<1>1. TypeOK /\ RingInv => SlotExclusive
  <2> SUFFICES ASSUME TypeOK, RingInv, NEW p \in Producers, Writing(p)
               PROVE /\ \A q \in Producers \ {p} :
                          Writing(q) => Pos(ptail[q]) # Pos(ptail[p])
                     /\ cpc = "clear" => Pos(chead + Len(got) - 1) # Pos(ptail[p])
    BY Zenon DEF SlotExclusive
  <2>0. /\ Capacity \in Nat /\ head \in Nat /\ tail \in Nat /\ Len(got) \in Nat
        /\ \A q \in Producers : ptail[q] \in Nat
        /\ Lo \in Nat /\ Lo >= head /\ Lo <= tail /\ tail <= head + Capacity
    <3>1. /\ Capacity \in Nat /\ head \in Nat /\ tail \in Nat /\ Len(got) \in Nat
          /\ \A q \in Producers : ptail[q] \in Nat
      BY ChannelAssumption DEF TypeOK
    <3>2. head <= tail /\ tail - head <= Capacity
      BY Zenon DEF RingInv, WindowBounded
    <3> QED
      BY <3>1, <3>2, LoType
  <2>1. ASSUME NEW q \in Producers, q # p, Writing(q)
        PROVE Pos(ptail[q]) # Pos(ptail[p])
    <3>1. ptail[q] # ptail[p]
      BY Zenon, <2>1 DEF RingInv, WritersInv
    <3>2. /\ Lo <= ptail[q] /\ ptail[q] < tail
          /\ Lo <= ptail[p] /\ ptail[p] < tail
      BY Zenon, <2>1 DEF RingInv, WritersInv
    <3>3. CASE ptail[q] < ptail[p]
      BY <2>0, <3>2, <3>3, PosDistinct
    <3>4. CASE ptail[p] < ptail[q]
      BY <2>0, <3>2, <3>4, PosDistinct
    <3> QED
      BY <2>0, <3>1, <3>3, <3>4
  <2>2. ASSUME cpc = "clear"
        PROVE Pos(chead + Len(got) - 1) # Pos(ptail[p])
    <3>1. chead + Len(got) - 1 = Lo /\ Lo < tail /\ committed[Pos(Lo)] = 1
      <4>1. /\ chead = head /\ head + climit <= tail /\ Len(got) <= climit
            /\ Len(got) > 0 /\ committed[Pos(Lo)] = 1
        BY Zenon, <2>2 DEF RingInv, ReaderInv
      <4>2. climit \in Nat
        BY Zenon DEF TypeOK
      <4>3. Lo = head + (Len(got) - 1)
        BY Zenon, <2>2 DEF Lo, Cleared
      <4> QED
        BY <2>0, <4>1, <4>2, <4>3
    <3>2. ~Reserved(Lo)
      BY <2>0, <3>1 DEF RingInv, FlagsInv
    <3>3. Lo <= ptail[p] /\ ptail[p] < tail /\ ptail[p] # Lo
      BY Zenon, <3>2 DEF RingInv, WritersInv, Reserved
    <3> QED
      BY <2>0, <3>1, <3>3, PosDistinct
  <2> QED
    BY Zenon, <2>1, <2>2
<1> QED
  BY <1>1, RingCorrect, TypeCorrect, PTL

-----------------------------------------------------------------------------
(* The channel is a bounded FIFO queue.                                    *)

\* ItemAt as a function of the variables it reads
AtPos(pcs, tails, items, buf, i) ==
  IF \E p \in Producers : pcs[p] = "write" /\ tails[p] = i
  THEN items[CHOOSE p \in Producers : pcs[p] = "write" /\ tails[p] = i]
  ELSE buf[Pos(i)]

\* A call in progress has its item; a call that stores head has read something;
\* what the consumer has copied are the oldest items.
FifoInv ==
  /\ \A p \in Producers : pc[p] # "idle" => item[p] \in Items
  /\ cpc = "advance" => Len(got) > 0
  /\ cpc \in {"copy", "clear", "advance"} =>
       \A j \in 1 .. Len(got) : got[j] = AtPos(pc, ptail, item, buffer, head + j - 1)

Values == Items \cup {Nobody}

Kept(i) == AtPos(pc', ptail', item', buffer', i) = AtPos(pc, ptail, item, buffer, i)

LEMMA AtWriter ==
  ASSUME NEW pcs \in [Producers -> Labels], NEW tails \in [Producers -> Nat],
         NEW items \in [Producers -> Values], NEW buf \in [Slots -> Values],
         NEW p \in Producers, pcs[p] = "write",
         \A q \in Producers : pcs[q] = "write" /\ tails[q] = tails[p] => q = p
  PROVE  AtPos(pcs, tails, items, buf, tails[p]) = items[p]
<1> DEFINE c == CHOOSE q \in Producers : pcs[q] = "write" /\ tails[q] = tails[p]
<1>1. c \in Producers /\ pcs[c] = "write" /\ tails[c] = tails[p]
  BY Zenon
<1>2. c = p
  BY Zenon, <1>1
<1> QED
  BY Zenon, <1>2 DEF AtPos

\* A position keeps its item if its writer stays, or if it has none and its
\* slot is not written.
LEMMA SameItem ==
  ASSUME TypeOK, TypeOK', RingInv, NEW i \in Nat,
         \A p \in Producers : (pc'[p] = "write" /\ ptail'[p] = i)
                                <=> (pc[p] = "write" /\ ptail[p] = i),
         \A p \in Producers : pc[p] = "write" /\ ptail[p] = i => item'[p] = item[p],
         buffer'[Pos(i)] = buffer[Pos(i)]
  PROVE  Kept(i)
<1>1. /\ pc \in [Producers -> Labels] /\ ptail \in [Producers -> Nat]
      /\ item \in [Producers -> Values] /\ buffer \in [Slots -> Values]
      /\ pc' \in [Producers -> Labels] /\ ptail' \in [Producers -> Nat]
      /\ item' \in [Producers -> Values] /\ buffer' \in [Slots -> Values]
  BY Zenon DEF TypeOK, Values
<1>3. \A p, q \in Producers : pc[p] = "write" /\ pc[q] = "write" /\ ptail[q] = ptail[p] => q = p
  BY Zenon DEF RingInv, WritersInv, Writing
<1>4. CASE \E p \in Producers : pc[p] = "write" /\ ptail[p] = i
  <2>1. PICK p \in Producers : pc[p] = "write" /\ ptail[p] = i
    BY Zenon, <1>4
  <2>2. pc'[p] = "write" /\ ptail'[p] = i /\ item'[p] = item[p]
    BY Zenon, <2>1
  <2>3. \A q \in Producers : pc'[q] = "write" /\ ptail'[q] = ptail'[p] => q = p
    BY Zenon, <1>3, <2>1, <2>2
  <2>4. AtPos(pc, ptail, item, buffer, i) = item[p]
    BY <1>1, <1>3, <2>1, AtWriter
  <2>5. AtPos(pc', ptail', item', buffer', i) = item'[p]
    BY <1>1, <2>2, <2>3, AtWriter
  <2> QED
    BY Zenon, <2>2, <2>4, <2>5 DEF Kept
<1>5. CASE ~ \E p \in Producers : pc[p] = "write" /\ ptail[p] = i
  BY Zenon, <1>5 DEF AtPos, Kept
<1> QED
  BY Zenon, <1>4, <1>5

\* Steps of a producer that is not writing, and steps of nobody
LEMMA QuietItems ==
  ASSUME TypeOK, TypeOK', RingInv, UNCHANGED buffer,
         \A p \in Producers : \/ pc'[p] = pc[p] /\ ptail'[p] = ptail[p] /\ item'[p] = item[p]
                              \/ pc[p] # "write" /\ pc'[p] # "write"
  PROVE  \A i \in Nat : Kept(i)
<1> SUFFICES ASSUME NEW i \in Nat PROVE Kept(i)
  BY Zenon
<1>1. \A p \in Producers : (pc'[p] = "write" /\ ptail'[p] = i)
                             <=> (pc[p] = "write" /\ ptail[p] = i)
  BY Zenon
<1>2. \A p \in Producers : pc[p] = "write" /\ ptail[p] = i => item'[p] = item[p]
  BY Zenon
<1> QED
  BY Zenon, <1>1, <1>2, SameItem

LEMMA WindowFacts ==
  ASSUME TypeOK, RingInv
  PROVE  /\ head \in Nat /\ tail \in Nat /\ tail - head \in Nat /\ Capacity \in Nat
         /\ pc \in [Producers -> Labels] /\ ptail \in [Producers -> Nat]
         /\ item \in [Producers -> Values] /\ buffer \in [Slots -> Values]
         /\ tail - head <= Capacity /\ tail <= head + Capacity
<1>1. head \in Nat /\ tail \in Nat /\ Capacity \in Nat
  BY Zenon, ChannelAssumption DEF TypeOK
<1>2. head <= tail /\ tail - head <= Capacity
  BY Zenon DEF RingInv, WindowBounded
<1>3. tail - head \in Nat /\ tail <= head + Capacity
  BY <1>1, <1>2
<1>4. /\ pc \in [Producers -> Labels] /\ ptail \in [Producers -> Nat]
      /\ item \in [Producers -> Values] /\ buffer \in [Slots -> Values]
  BY Zenon DEF TypeOK, Values
<1> QED
  BY Zenon, <1>1, <1>2, <1>3, <1>4

\* The producer's copy into its slot: until then AtPos looked at its item.
LEMMA WriteItems ==
  ASSUME TypeOK, TypeOK', RingInv, NEW p \in Producers, TrySendWrite(p)
  PROVE  \A i \in head .. tail - 1 : Kept(i)
<1> DEFINE t == ptail[p]
<1>0. /\ Capacity \in Nat /\ head \in Nat /\ tail \in Nat /\ t \in Nat
      /\ pc \in [Producers -> Labels] /\ ptail \in [Producers -> Nat]
      /\ item \in [Producers -> Values] /\ buffer \in [Slots -> Values]
      /\ tail <= head + Capacity
  <2>1. t \in Nat
    BY Zenon DEF TypeOK
  <2> QED
    BY Zenon, <2>1, WindowFacts
<1>1. /\ pc[p] = "write" /\ pc' = [pc EXCEPT ![p] = "commit"]
      /\ buffer' = [buffer EXCEPT ![Pos(t)] = item[p]] /\ UNCHANGED <<ptail, item>>
  BY Zenon DEF TrySendWrite, Goto, callVars
<1>2. Writing(p)
  BY Zenon, <1>1 DEF Writing
<1>3. /\ Lo <= t /\ t < tail /\ head <= Lo
      /\ \A q \in Producers : pc[q] = "write" /\ ptail[q] = t => q = p
  BY Zenon, <1>2, LoType DEF RingInv, WritersInv, Writing
<1>4. head <= t
  BY <1>0, <1>3, LoType
<1>5. pc'[p] = "commit" /\ \A q \in Producers \ {p} : pc'[q] = pc[q]
  BY Zenon, <1>0, <1>1
<1>6. Pos(t) \in Slots /\ buffer'[Pos(t)] = item[p]
  BY Zenon, <1>0, <1>1, PosType
<1> SUFFICES ASSUME NEW i \in head .. tail - 1 PROVE Kept(i)
  BY Zenon
<1>7. i \in Nat
  BY <1>0
<1>8. CASE i = t
  <2>1. ~ \E q \in Producers : pc'[q] = "write" /\ ptail'[q] = i
    BY Zenon, <1>1, <1>3, <1>5, <1>8
  <2>2. AtPos(pc', ptail', item', buffer', i) = buffer'[Pos(t)]
    BY Zenon, <1>8, <2>1 DEF AtPos
  <2>3. AtPos(pc, ptail, item, buffer, t) = item[p]
    BY Zenon, <1>0, <1>1, <1>3, AtWriter
  <2> QED
    BY Zenon, <1>6, <1>8, <2>2, <2>3 DEF Kept
<1>9. CASE i # t
  <2>1. Pos(i) # Pos(t)
    <3>1. CASE i < t
      BY <1>0, <1>3, <1>4, <1>7, <3>1, PosDistinct
    <3>2. CASE t < i
      BY <1>0, <1>3, <1>4, <1>7, <3>2, PosDistinct
    <3> QED
      BY <1>0, <1>7, <1>9, <3>1, <3>2
  <2>2. buffer'[Pos(i)] = buffer[Pos(i)]
    BY Zenon, <1>0, <1>1, <1>6, <1>7, <2>1, PosType
  <2>3. \A q \in Producers : (pc'[q] = "write" /\ ptail'[q] = i)
                               <=> (pc[q] = "write" /\ ptail[q] = i)
    BY Zenon, <1>1, <1>5, <1>9
  <2> QED
    BY Zenon, <1>1, <1>7, <2>2, <2>3, SameItem
<1> QED
  BY Zenon, <1>8, <1>9

\* The position at tail was not in the window before the compare-exchange.
LEMMA CasItems ==
  ASSUME TypeOK, TypeOK', RingInv, NEW p \in Producers, TrySendCas(p), tail' # tail
  PROVE  /\ \A i \in head .. tail - 1 : Kept(i)
         /\ tail' = tail + 1 /\ UNCHANGED <<head, out>>
         /\ AtPos(pc', ptail', item', buffer', tail) = item[p]
         /\ tail - head < Capacity
<1>0. /\ Capacity \in Nat /\ head \in Nat /\ tail \in Nat /\ ptail[p] \in Nat /\ phead[p] \in Nat
      /\ pc \in [Producers -> Labels] /\ ptail \in [Producers -> Nat]
      /\ item \in [Producers -> Values] /\ buffer \in [Slots -> Values]
      /\ pc' \in [Producers -> Labels]
  BY Zenon, ChannelAssumption DEF TypeOK, Values
<1>1. /\ pc[p] = "cas" /\ tail = ptail[p] /\ tail' = tail + 1 /\ pc' = [pc EXCEPT ![p] = "write"]
      /\ UNCHANGED <<head, buffer, ptail, item, out>>
  BY Zenon DEF TrySendCas, Goto, callVars, consVars
<1>2. pc'[p] = "write" /\ \A q \in Producers \ {p} : pc'[q] = pc[q]
  BY Zenon, <1>0, <1>1
<1>3. \A q \in Producers : pc[q] = "write" => ptail[q] < tail
  BY Zenon DEF RingInv, WritersInv, Writing
<1>4. phead[p] <= head /\ tail - phead[p] < Capacity
  BY Zenon, <1>1 DEF RingInv, SnapshotInv
<1>5. tail - head < Capacity
  BY <1>0, <1>4
<1>6. \A q \in Producers : pc'[q] = "write" /\ ptail[q] = ptail[p] => q = p
  BY <1>0, <1>1, <1>2, <1>3
<1>7. AtPos(pc', ptail, item, buffer, ptail[p]) = item[p]
  BY Zenon, <1>0, <1>2, <1>6, AtWriter
<1>8. AtPos(pc', ptail', item', buffer', tail) = item[p]
  BY Zenon, <1>1, <1>7
<1>9. ASSUME NEW i \in head .. tail - 1 PROVE Kept(i)
  <2>1. i \in Nat /\ i # ptail[p]
    BY <1>0, <1>1
  <2>2. \A q \in Producers : (pc'[q] = "write" /\ ptail'[q] = i)
                               <=> (pc[q] = "write" /\ ptail[q] = i)
    BY Zenon, <1>1, <1>2, <2>1
  <2> QED
    BY Zenon, <1>1, <2>1, <2>2, SameItem
<1> QED
  BY Zenon, <1>1, <1>5, <1>8, <1>9

\* No step changes the items that are in the channel; only the compare-exchange
\* and the store of head move the ends of the window.
LEMMA ItemsKept ==
  ASSUME ~Overflow, TypeOK, TypeOK', RingInv, [Next]_vars
  PROVE  \A i \in head .. tail - 1 : Kept(i)
<1>0. /\ head \in Nat /\ tail \in Nat /\ pc \in [Producers -> Labels]
      /\ ptail \in [Producers -> Nat] /\ item \in [Producers -> Items \cup {Nobody}]
  BY Zenon DEF TypeOK
<1>1. \A i \in head .. tail - 1 : i \in Nat
  BY <1>0
<1>2. CASE UNCHANGED <<buffer, pc, ptail, item>>
  BY Zenon, <1>1, <1>2, QuietItems
<1>3. ASSUME NEW p \in Producers,
             ProducerStep(p) \/ \E v \in unsent, m \in Sends : CallSend(p, v, m)
      PROVE  \A i \in head .. tail - 1 : Kept(i)
  <2>1. CASE TrySendWrite(p)
    BY Zenon, <2>1, WriteItems
  <2>2. CASE TrySendCas(p) /\ tail' # tail
    BY Zenon, <2>2, CasItems
  <2>3. CASE ~TrySendWrite(p) /\ ~(TrySendCas(p) /\ tail' # tail)
    <3> USE DEF Goto, ring, callVars, syncVars, condVars
    <3> DEFINE Quiet == /\ UNCHANGED buffer /\ pc[p] # "write" /\ pc'[p] # "write"
                        /\ \A q \in Producers \ {p} :
                             pc'[q] = pc[q] /\ ptail'[q] = ptail[q] /\ item'[q] = item[q]
    <3>1. Quiet
      <4>1. ASSUME NEW v, NEW m, CallSend(p, v, m) PROVE Quiet
        BY Zenon, <1>0, <4>1 DEF CallSend
      <4>2. ASSUME NEW r, Return(p, r), UNCHANGED buffer, pc[p] # "write" PROVE Quiet
        BY Zenon, <1>0, <4>2 DEF Return
      <4>3. CASE TrySendClosed(p) \/ TrySendLoadHead(p) \/ TrySendSignal(p)
        BY Zenon, <1>0, <4>2, <4>3 DEF TrySendClosed, TrySendLoadHead, TrySendSignal
      <4>4. CASE TrySendLoadTail(p)
        BY Zenon, <1>0, <4>4 DEF TrySendLoadTail
      <4>5. CASE TrySendCas(p)
        BY <1>0, <2>3, <4>5 DEF TrySendCas
      <4>6. CASE TrySendCommit(p)
        BY Zenon, <1>0, <4>6 DEF TrySendCommit
      <4>7. CASE SendLock(p) \/ SendWait(p)
        BY Zenon, <1>0, <4>7 DEF SendLock, SendWait
      <4>8. pc[p] \notin {"ovf_lock", "ovf_tail", "ovf_head", "ovf_clear", "ovf_drop",
                          "ovf_write", "ovf_commit", "ovf_publish", "ovf_unlock"}
        BY Zenon DEF RingInv, SnapshotInv
      <4> QED
        BY Zenon, <1>3, <2>3, <4>1, <4>3, <4>4, <4>5, <4>6, <4>7, <4>8
           DEF ProducerStep, OvfLock, OvfLoadTail, OvfLoadHead, OvfClear, OvfDrop, OvfWrite,
               OvfCommit, OvfPublish, OvfUnlock
    <3> QED
      BY Zenon, <1>1, <3>1, QuietItems
  <2> QED
    BY Zenon, <2>1, <2>2, <2>3
<1>4. \/ UNCHANGED <<buffer, pc, ptail, item>>
      \/ \E p \in Producers :
           ProducerStep(p) \/ \E v \in unsent, m \in Sends : CallSend(p, v, m)
  BY Zenon DEF Next, Step, vars, ring, prodVars, callVars, CallRecv, RecvStep, RecvClosed,
         RecvLoadHead, RecvLoadTail, RecvCopy, RecvGiveUp, RecvClear, RecvAdvance, RecvLock,
         RecvWait, Ack, CloseFlag, CloseBroadcast
<1> QED
  BY Zenon, <1>2, <1>3, <1>4

LEMMA FifoInvInit == Init => FifoInv
BY Zenon DEF Init, FifoInv

\* Only the overflow path of a producer moves head; no producer touches the
\* consumer's variables.
LEMMA OnlyOverflowDrops ==
  ASSUME RingInv, NEW p \in Producers, ProducerStep(p)
  PROVE  UNCHANGED <<head, consVars>>
<1>1. pc[p] # "ovf_drop"
  BY Zenon DEF RingInv, SnapshotInv
<1> USE DEF ring
<1>2. CASE \/ TrySendClosed(p) \/ TrySendLoadTail(p) \/ TrySendLoadHead(p)
           \/ TrySendCas(p) \/ TrySendWrite(p) \/ TrySendCommit(p) \/ TrySendSignal(p)
  BY Zenon, <1>2 DEF TrySendClosed, TrySendLoadTail, TrySendLoadHead, TrySendCas, TrySendWrite,
     TrySendCommit, TrySendSignal
<1>3. CASE \/ OvfLock(p) \/ OvfLoadTail(p) \/ OvfLoadHead(p) \/ OvfClear(p)
           \/ OvfWrite(p) \/ OvfCommit(p) \/ OvfPublish(p) \/ OvfUnlock(p)
  BY Zenon, <1>3 DEF OvfLock, OvfLoadTail, OvfLoadHead, OvfClear, OvfWrite, OvfCommit, OvfPublish,
     OvfUnlock
<1>4. CASE SendLock(p) \/ SendWait(p)
  BY Zenon, <1>4 DEF SendLock, SendWait
<1> QED
  BY Zenon, <1>1, <1>2, <1>3, <1>4 DEF ProducerStep, OvfDrop

\* A producer that is in a call has its item until the call returns.
LEMMA ItemHeld ==
  ASSUME TypeOK, FifoInv, [Next]_vars
  PROVE  \A p \in Producers : pc'[p] # "idle" => item'[p] \in Items
<1>0. /\ pc \in [Producers -> Labels] /\ item \in [Producers -> Items \cup {Nobody}]
      /\ unsent \subseteq Items /\ \A p \in Producers : pc[p] # "idle" => item[p] \in Items
  BY Zenon DEF TypeOK, FifoInv
<1>1. ASSUME NEW p \in Producers, NEW v \in unsent, NEW m, CallSend(p, v, m)
      PROVE  \A q \in Producers : pc'[q] # "idle" => item'[q] \in Items
  BY Zenon, <1>0, <1>1 DEF CallSend, Goto
<1>2. ASSUME NEW p \in Producers, ProducerStep(p)
      PROVE  \A q \in Producers : pc'[q] # "idle" => item'[q] \in Items
  <2>1. /\ pc[p] # "idle" /\ \A q \in Producers \ {p} : pc'[q] = pc[q]
        /\ UNCHANGED item \/ (item' = [item EXCEPT ![p] = Nobody] /\ pc'[p] = "idle")
    <3> USE DEF Goto, callVars
    <3>1. ASSUME NEW r, Return(p, r)
          PROVE  /\ \A q \in Producers \ {p} : pc'[q] = pc[q]
                 /\ UNCHANGED item \/ (item' = [item EXCEPT ![p] = Nobody] /\ pc'[p] = "idle")
      BY Zenon, <1>0, <3>1 DEF Return
    <3>2. CASE TrySendClosed(p) \/ TrySendLoadHead(p) \/ TrySendSignal(p)
      BY Zenon, <1>0, <3>1, <3>2 DEF TrySendClosed, TrySendLoadHead, TrySendSignal
    <3>3. CASE TrySendLoadTail(p) \/ TrySendCas(p) \/ TrySendWrite(p) \/ TrySendCommit(p)
      BY Zenon, <1>0, <3>3 DEF TrySendLoadTail, TrySendCas, TrySendWrite, TrySendCommit
    <3>4. CASE OvfLock(p) \/ OvfLoadTail(p) \/ OvfLoadHead(p) \/ OvfClear(p) \/ OvfDrop(p)
      BY Zenon, <1>0, <3>4 DEF OvfLock, OvfLoadTail, OvfLoadHead, OvfClear, OvfDrop
    <3>5. CASE OvfWrite(p) \/ OvfCommit(p) \/ OvfPublish(p) \/ OvfUnlock(p)
      BY Zenon, <1>0, <3>5 DEF OvfWrite, OvfCommit, OvfPublish, OvfUnlock
    <3>6. CASE SendLock(p) \/ SendWait(p)
      BY Zenon, <1>0, <3>6 DEF SendLock, SendWait
    <3> QED
      BY Zenon, <1>2, <3>2, <3>3, <3>4, <3>5, <3>6 DEF ProducerStep
  <2> QED
    BY Zenon, <1>0, <2>1
<1>3. CASE UNCHANGED <<pc, item>>
  BY Zenon, <1>0, <1>3
<1>4. \/ UNCHANGED <<pc, item>>
      \/ \E p \in Producers : ProducerStep(p) \/ \E v \in unsent, m \in Sends : CallSend(p, v, m)
  BY Zenon DEF Next, Step, vars, prodVars, callVars, CallRecv, RecvStep, RecvClosed,
         RecvLoadHead, RecvLoadTail, RecvCopy, RecvGiveUp, RecvClear, RecvAdvance, RecvLock,
         RecvWait, Ack, CloseFlag, CloseBroadcast
<1> QED
  BY Zenon, <1>1, <1>2, <1>3, <1>4

\* The item copied is that of the position, since its slot is committed and so
\* no producer is about to write it.
LEMMA CopyReads ==
  ASSUME TypeOK, RingInv, RecvCopy
  PROVE  /\ head + Len(got) \in head .. tail - 1
         /\ buffer[CPos] = AtPos(pc, ptail, item, buffer, head + Len(got))
<1>0. /\ head \in Nat /\ tail \in Nat /\ climit \in Nat /\ Len(got) \in Nat
  BY DEF TypeOK
<1>1. /\ cpc = "copy" /\ committed[CPos] = 1
  BY Zenon DEF RecvCopy
<1>2. chead = head /\ head + climit <= tail /\ Len(got) < climit
  BY Zenon, <1>1 DEF RingInv, ReaderInv
<1>3. Lo = head + Len(got) /\ CPos = Pos(Lo)
  BY Zenon, <1>1, <1>2 DEF Lo, Cleared, CPos
<1>4. Lo \in Lo .. tail - 1 /\ Lo \in head .. tail - 1
  BY <1>0, <1>2, <1>3
<1>5. ~Reserved(Lo)
  BY Zenon, <1>1, <1>3, <1>4 DEF RingInv, FlagsInv
<1>6. ~ \E p \in Producers : pc[p] = "write" /\ ptail[p] = Lo
  BY Zenon, <1>5 DEF Reserved, Writing
<1>7. AtPos(pc, ptail, item, buffer, Lo) = buffer[Pos(Lo)]
  BY Zenon, <1>6 DEF AtPos
<1> QED
  BY Zenon, <1>3, <1>4, <1>7

\* What the consumer has copied stays what is in the channel, whatever producers do.
LEMMA FifoInvNext ==
  ASSUME ~Overflow, TypeOK, TypeOK', RingInv, FifoInv, [Next]_vars
  PROVE  FifoInv'
<1>0. /\ head \in Nat /\ tail \in Nat /\ climit \in Nat /\ Len(got) \in Nat
      /\ got \in Seq(Items \cup {Nobody})
      /\ cpc \in {"copy", "clear", "advance"} => head + climit <= tail /\ Len(got) <= climit
  BY DEF TypeOK, RingInv, ReaderInv
<1>1. \A p \in Producers : pc'[p] # "idle" => item'[p] \in Items
  BY Zenon, ItemHeld
<1>2. \A i \in head .. tail - 1 : Kept(i)
  BY Zenon, ItemsKept
<1>3. ASSUME cpc \in {"copy", "clear", "advance"}, NEW j \in 1 .. Len(got)
      PROVE  got[j] = AtPos(pc', ptail', item', buffer', head + j - 1)
  <2>1. head + j - 1 \in head .. tail - 1
    BY <1>0, <1>3
  <2>2. got[j] = AtPos(pc, ptail, item, buffer, head + j - 1)
    BY Zenon, <1>3 DEF FifoInv
  <2> QED
    BY Zenon, <1>2, <2>1, <2>2 DEF Kept
<1>4. CASE /\ UNCHANGED <<got, head>> /\ (cpc' = "advance" => Len(got) > 0)
           /\ cpc' \in {"copy", "clear", "advance"} => cpc \in {"copy", "clear", "advance"}
  BY Zenon, <1>1, <1>3, <1>4 DEF FifoInv
<1>5. CASE cpc' \notin {"copy", "clear", "advance"} \/ (got' = <<>> /\ cpc' # "advance")
  BY <1>1, <1>5 DEF FifoInv
<1>6. CASE RecvCopy
  <2> DEFINE n == Len(got)
             v == buffer[CPos]
  <2>1. /\ cpc = "copy" /\ cpc' = "clear" /\ got' = Append(got, v) /\ UNCHANGED head
    BY Zenon, <1>6 DEF RecvCopy, ring
  <2>2. head + n \in head .. tail - 1 /\ v = AtPos(pc, ptail, item, buffer, head + n)
    BY Zenon, <1>6, CopyReads
  <2>3. v = AtPos(pc', ptail', item', buffer', head + n)
    BY Zenon, <1>2, <2>2 DEF Kept
  <2>4. v \in Items \cup {Nobody}
    <3>1. got' \in Seq(Items \cup {Nobody})
      BY Zenon DEF TypeOK
    <3>2. buffer \in [Slots -> Items \cup {Nobody}] /\ chead + n \in Nat
      <4>1. n \in Nat /\ chead \in Nat
        BY DEF TypeOK
      <4> QED
        BY <4>1 DEF TypeOK
    <3> QED
      BY Zenon, <3>2, PosType DEF CPos
  <2> HIDE DEF v
  <2>5. Len(got') = n + 1 /\ got'[n + 1] = v /\ \A j \in 1 .. n : got'[j] = got[j]
    BY <1>0, <2>1, <2>4
  <2>6. ASSUME NEW j \in 1 .. Len(got')
        PROVE  got'[j] = AtPos(pc', ptail', item', buffer', head + j - 1)
    <3>1. CASE j \in 1 .. n
      BY Zenon, <1>3, <2>1, <2>5, <3>1
    <3>2. CASE j = n + 1
      <4>1. head + j - 1 = head + n
        BY <1>0, <3>2
      <4> QED
        BY Zenon, <2>3, <2>5, <3>2, <4>1
    <3>3. j \in 1 .. n \/ j = n + 1
      BY <1>0, <2>5
    <3> QED
      BY Zenon, <3>1, <3>2, <3>3
  <2> QED
    BY Zenon, <1>1, <2>1, <2>6 DEF FifoInv
<1>7. \/ /\ UNCHANGED <<got, head>> /\ (cpc' = "advance" => Len(got) > 0)
         /\ cpc' \in {"copy", "clear", "advance"} => cpc \in {"copy", "clear", "advance"}
      \/ cpc' \notin {"copy", "clear", "advance"} \/ (got' = <<>> /\ cpc' # "advance")
      \/ RecvCopy
  <2>1. cpc = "clear" => Len(got) > 0
    BY Zenon DEF RingInv, ReaderInv
  <2>2. cpc = "load_tail" => got = <<>>
    BY Zenon DEF RingInv, ReaderInv
  <2>3. cpc = "advance" => Len(got) > 0
    BY Zenon DEF FifoInv
  <2>4. CASE RecvStep
    <3>1. CASE RecvClosed \/ RecvLoadHead \/ RecvLoadTail
      BY Zenon, <2>2, <3>1 DEF RecvClosed, RecvLoadHead, RecvLoadTail, RecvNothing
    <3>2. CASE RecvGiveUp
      <4>1. got # <<>> => Len(got) > 0
        BY <1>0
      <4> QED
        BY Zenon, <3>2, <4>1 DEF RecvGiveUp, ring
    <3>3. CASE RecvClear
      BY Zenon, <2>1, <3>3 DEF RecvClear
    <3>4. CASE RecvAdvance \/ RecvLock \/ RecvWait
      BY Zenon, <3>4 DEF RecvAdvance, RecvLock, RecvWait
    <3> QED
      BY Zenon, <2>4, <3>1, <3>2, <3>3, <3>4 DEF RecvStep
  <2>5. CASE UNCHANGED <<got, head, cpc>>
    BY Zenon, <2>3, <2>5
  <2>6. ASSUME NEW p \in Producers, ProducerStep(p) PROVE UNCHANGED <<got, head, cpc>>
    <3> QED
      BY Zenon, <2>6, OnlyOverflowDrops DEF consVars
  <2> QED
    BY Zenon, <2>4, <2>5, <2>6 DEF Next, Step, vars, ring, consVars, CallSend, CallRecv, Ack,
       CloseFlag, CloseBroadcast
<1> QED
  BY Zenon, <1>4, <1>5, <1>6, <1>7

Row(pcs, tails, items, buf, h, n) ==
  [k \in 1 .. n |-> AtPos(pcs, tails, items, buf, h + k - 1)]

RowTypes(pcs, tails, items, buf, h, n) ==
  /\ pcs \in [Producers -> Labels] /\ tails \in [Producers -> Nat]
  /\ items \in [Producers -> Values] /\ buf \in [Slots -> Values]
  /\ h \in Nat /\ n \in Nat

\* s is the row, as a sequence
IsRow(s, pcs, tails, items, buf, h, n) ==
  /\ s \in Seq(Values) /\ Len(s) = n
  /\ \A k \in 1 .. n : s[k] = AtPos(pcs, tails, items, buf, h + k - 1)

LEMMA RowType ==
  ASSUME NEW pcs, NEW tails, NEW items, NEW buf, NEW h, NEW n,
         RowTypes(pcs, tails, items, buf, h, n)
  PROVE  IsRow(Row(pcs, tails, items, buf, h, n), pcs, tails, items, buf, h, n)
<1> USE DEF RowTypes
<1>1. ASSUME NEW i \in Nat PROVE AtPos(pcs, tails, items, buf, i) \in Values
  <2>1. CASE \E p \in Producers : pcs[p] = "write" /\ tails[p] = i
    <3> DEFINE c == CHOOSE p \in Producers : pcs[p] = "write" /\ tails[p] = i
    <3>1. c \in Producers
      BY Zenon, <2>1
    <3>2. AtPos(pcs, tails, items, buf, i) = items[c]
      BY Zenon, <2>1 DEF AtPos
    <3> HIDE DEF c
    <3> QED
      BY Zenon, <3>1, <3>2
  <2>2. CASE ~ \E p \in Producers : pcs[p] = "write" /\ tails[p] = i
    BY Zenon, <2>2, PosType DEF AtPos
  <2> QED
    BY Zenon, <2>1, <2>2
<1>2. \A k \in 1 .. n : h + k - 1 \in Nat
  OBVIOUS
<1>3. \A k \in 1 .. n : AtPos(pcs, tails, items, buf, h + k - 1) \in Values
  BY Zenon, <1>1, <1>2
<1> QED
  BY <1>3 DEF Row, IsRow

LEMMA ContentsRow ==
  /\ Contents = Row(pc, ptail, item, buffer, head, tail - head)
  /\ Contents' = Row(pc', ptail', item', buffer', head', tail' - head')
BY Zenon DEF Contents, ItemAt, AtPos, Row

\* A step of the abstract queue
FifoStep == \/ \E v \in Items : Fifo!Put(v)
            \/ \E n \in 1 .. Capacity : Fifo!Take(n)
            \/ UNCHANGED <<Contents, out>>

LEMMA CasRefines ==
  ASSUME TypeOK, TypeOK', RingInv, FifoInv, NEW p \in Producers, TrySendCas(p), tail' # tail
  PROVE  FifoStep
<1> DEFINE n == tail - head
           v == item[p]
           s == Row(pc, ptail, item, buffer, head, n)
           t == Row(pc', ptail', item', buffer', head, n + 1)
<1>0. /\ head \in Nat /\ tail \in Nat /\ n \in Nat /\ Capacity \in Nat /\ n + 1 \in Nat
      /\ pc \in [Producers -> Labels] /\ ptail \in [Producers -> Nat]
      /\ item \in [Producers -> Values] /\ buffer \in [Slots -> Values]
      /\ pc' \in [Producers -> Labels] /\ ptail' \in [Producers -> Nat]
      /\ item' \in [Producers -> Values] /\ buffer' \in [Slots -> Values]
  <2>1. n \in Nat /\ n + 1 \in Nat
    BY WindowFacts
  <2>2. /\ pc' \in [Producers -> Labels] /\ ptail' \in [Producers -> Nat]
        /\ item' \in [Producers -> Values] /\ buffer' \in [Slots -> Values]
    BY Zenon DEF TypeOK, Values
  <2> QED
    BY Zenon, <2>1, <2>2, WindowFacts
<1>1. /\ \A i \in head .. tail - 1 : Kept(i)
      /\ tail' = tail + 1 /\ UNCHANGED <<head, out>>
      /\ AtPos(pc', ptail', item', buffer', tail) = v
      /\ n < Capacity
  BY Zenon, CasItems
<1>2. v \in Items /\ v \in Values
  BY Zenon DEF FifoInv, TrySendCas, Values
<1>a. s = Row(pc, ptail, item, buffer, head, n) /\ t = Row(pc', ptail', item', buffer', head, n + 1)
  BY Zenon
<1>5. Contents = s /\ Contents' = t
  <2>1. tail' - head' = n + 1 /\ head' = head
    BY <1>0, <1>1
  <2> QED
    BY Zenon, <2>1, ContentsRow
<1> HIDE DEF s, t, v
<1>3. /\ s \in Seq(Values) /\ Len(s) = n
      /\ \A k \in 1 .. n : s[k] = AtPos(pc, ptail, item, buffer, head + k - 1)
  <2>1. RowTypes(pc, ptail, item, buffer, head, n)
    BY Zenon, <1>0 DEF RowTypes
  <2> HIDE DEF n
  <2>2. IsRow(s, pc, ptail, item, buffer, head, n)
    BY Zenon, <1>a, <2>1, RowType
  <2> QED
    BY Zenon, <2>2 DEF IsRow
<1>4. /\ t \in Seq(Values) /\ Len(t) = n + 1
      /\ \A k \in 1 .. n + 1 : t[k] = AtPos(pc', ptail', item', buffer', head + k - 1)
  <2>1. RowTypes(pc', ptail', item', buffer', head, n + 1)
    BY Zenon, <1>0 DEF RowTypes
  <2> HIDE DEF n
  <2>2. IsRow(t, pc', ptail', item', buffer', head, n + 1)
    BY Zenon, <1>a, <2>1, RowType
  <2> QED
    BY Zenon, <2>2 DEF IsRow
<1>6. /\ Append(s, v) \in Seq(Values) /\ Len(Append(s, v)) = n + 1
      /\ \A k \in 1 .. n : Append(s, v)[k] = s[k]
      /\ Append(s, v)[n + 1] = v
  BY <1>0, <1>2, <1>3
<1>7. ASSUME NEW k \in 1 .. n + 1 PROVE t[k] = Append(s, v)[k]
  <2>1. CASE k \in 1 .. n
    <3>1. head + k - 1 \in head .. tail - 1
      BY <1>0, <2>1
    <3> QED
      BY Zenon, <1>1, <1>3, <1>4, <1>6, <2>1, <3>1 DEF Kept
  <2>2. CASE k = n + 1
    <3>1. head + k - 1 = tail
      BY <1>0, <2>2
    <3> QED
      BY Zenon, <1>1, <1>4, <1>6, <2>2, <3>1
  <2>3. k \in 1 .. n \/ k = n + 1
    BY <1>0
  <2> QED
    BY Zenon, <2>1, <2>2, <2>3
<1>8. t = Append(s, v)
  BY Zenon, <1>0, <1>4, <1>6, <1>7, SeqEqual
<1>9. Fifo!Put(v)
  BY Zenon, <1>1, <1>3, <1>5, <1>8 DEF Fifo!Put
<1> QED
  BY Zenon, <1>2, <1>9 DEF FifoStep

LEMMA AdvanceRefines ==
  ASSUME ~Overflow, TypeOK, TypeOK', RingInv, FifoInv, RecvAdvance
  PROVE  FifoStep
<1> DEFINE N == tail - head
           n == Len(got)
           s == Row(pc, ptail, item, buffer, head, N)
           t == Row(pc, ptail, item, buffer, head + n, N - n)
           u == SubSeq(s, 1, n)
           w == SubSeq(s, n + 1, N)
<1>0. /\ head \in Nat /\ tail \in Nat /\ N \in Nat /\ Capacity \in Nat /\ n \in Nat
      /\ got \in Seq(Values) /\ N <= Capacity
      /\ pc \in [Producers -> Labels] /\ ptail \in [Producers -> Nat]
      /\ item \in [Producers -> Values] /\ buffer \in [Slots -> Values]
  <2>1. n \in Nat /\ got \in Seq(Values)
    BY DEF TypeOK, Values
  <2> QED
    BY Zenon, <2>1, WindowFacts
<1>1. /\ cpc = "advance" /\ head' = chead + n /\ out' = out \o got
      /\ UNCHANGED <<tail, buffer, pc, ptail, item>>
  BY Zenon DEF RecvAdvance, prodVars, callVars
<1>2. chead = head /\ head + climit <= tail /\ n <= climit /\ climit \in Nat /\ n > 0
  BY Zenon, <1>1 DEF RingInv, ReaderInv, TypeOK, FifoInv
<1>3. n <= N /\ n \in 1 .. Capacity /\ N - n \in Nat /\ head' = head + n /\ head + n \in Nat
      /\ tail' - head' = N - n
  BY <1>0, <1>1, <1>2
<1>4. \A j \in 1 .. n : got[j] = AtPos(pc, ptail, item, buffer, head + j - 1)
  BY Zenon, <1>1 DEF FifoInv
<1>a. /\ s = Row(pc, ptail, item, buffer, head, N)
      /\ t = Row(pc, ptail, item, buffer, head + n, N - n)
  BY Zenon
<1>7. Contents = s /\ Contents' = t
  BY Zenon, <1>1, <1>3, ContentsRow
<1> HIDE DEF s, t
<1>5. /\ s \in Seq(Values) /\ Len(s) = N
      /\ \A k \in 1 .. N : s[k] = AtPos(pc, ptail, item, buffer, head + k - 1)
  <2>1. RowTypes(pc, ptail, item, buffer, head, N)
    BY Zenon, <1>0 DEF RowTypes
  <2> HIDE DEF N
  <2>2. IsRow(s, pc, ptail, item, buffer, head, N)
    BY Zenon, <1>a, <2>1, RowType
  <2> QED
    BY Zenon, <2>2 DEF IsRow
<1>6. /\ t \in Seq(Values) /\ Len(t) = N - n
      /\ \A k \in 1 .. N - n : t[k] = AtPos(pc, ptail, item, buffer, head + n + k - 1)
  <2>1. RowTypes(pc, ptail, item, buffer, head + n, N - n)
    BY Zenon, <1>0, <1>3 DEF RowTypes
  <2> HIDE DEF N, n
  <2>2. IsRow(t, pc, ptail, item, buffer, head + n, N - n)
    BY Zenon, <1>a, <2>1, RowType
  <2> QED
    BY Zenon, <2>2 DEF IsRow
<1>8. \A k \in 1 .. N : s[k] \in Values
  <2> SUFFICES ASSUME NEW k \in 1 .. N PROVE s[k] \in Values
    BY Zenon
  <2>1. k \in 1 .. Len(s)
    BY Zenon, <1>5
  <2> QED
    BY Zenon, <1>5, <2>1, ElementOfSeq
<1>9. got = u
  <2>1. \A k \in 1 .. n : s[k] \in Values
    BY <1>0, <1>3, <1>8
  <2>2. /\ u \in Seq(Values) /\ Len(u) = IF 1 <= n THEN n - 1 + 1 ELSE 0
        /\ \A k \in 1 .. n - 1 + 1 : u[k] = s[1 + k - 1]
    BY <1>0, <2>1, SubSeqProperties
  <2> HIDE DEF u
  <2>3. Len(u) = n
    BY <1>0, <1>2, <2>2
  <2>4. ASSUME NEW k \in 1 .. n PROVE got[k] = u[k]
    <3>1. k \in 1 .. n - 1 + 1 /\ 1 + k - 1 = k /\ k \in 1 .. N
      BY <1>0, <1>3
    <3> QED
      BY Zenon, <1>4, <1>5, <2>2, <3>1
  <2> QED
    BY Zenon, <1>0, <2>2, <2>3, <2>4, SeqEqual
<1>10. t = w
  <2>1. \A k \in n + 1 .. N : s[k] \in Values
    BY <1>0, <1>3, <1>8
  <2>2. /\ w \in Seq(Values) /\ Len(w) = IF n + 1 <= N THEN N - (n + 1) + 1 ELSE 0
        /\ \A k \in 1 .. N - (n + 1) + 1 : w[k] = s[n + 1 + k - 1]
    BY <1>0, <2>1, SubSeqProperties
  <2> HIDE DEF w
  <2>3. Len(w) = N - n
    BY <1>0, <1>3, <2>2
  <2>4. ASSUME NEW k \in 1 .. N - n PROVE t[k] = w[k]
    <3>1. /\ k \in 1 .. N - (n + 1) + 1 /\ n + 1 + k - 1 = n + k /\ n + k \in 1 .. N
          /\ head + n + k - 1 = head + (n + k) - 1
      BY <1>0, <1>3
    <3> QED
      BY Zenon, <1>5, <1>6, <2>2, <3>1
  <2> QED
    BY Zenon, <1>6, <2>2, <2>3, <2>4, SeqEqual
<1>11. Fifo!Take(n)
  BY Zenon, <1>1, <1>3, <1>5, <1>7, <1>9, <1>10 DEF Fifo!Take
<1> QED
  BY Zenon, <1>3, <1>11 DEF FifoStep

LEMMA ChannelRefines ==
  ASSUME ~Overflow, TypeOK, TypeOK', RingInv, FifoInv, [Next]_vars
  PROVE  FifoStep
<1>1. ASSUME UNCHANGED <<head, tail, out>> PROVE FifoStep
  <2>1. \A i \in head .. tail - 1 : Kept(i)
    BY Zenon, ItemsKept
  <2>2. head \in Nat /\ tail \in Nat
    BY Zenon DEF TypeOK
  <2>3. ASSUME NEW k \in 1 .. tail - head
        PROVE  AtPos(pc', ptail', item', buffer', head + k - 1)
                 = AtPos(pc, ptail, item, buffer, head + k - 1)
    <3>1. head + k - 1 \in head .. tail - 1
      BY <2>2
    <3> QED
      BY Zenon, <2>1, <3>1 DEF Kept
  <2>4. Row(pc', ptail', item', buffer', head, tail - head)
          = Row(pc, ptail, item, buffer, head, tail - head)
    BY Zenon, <2>3 DEF Row
  <2>5. Contents' = Contents
    BY Zenon, <1>1, <2>4, ContentsRow
  <2> QED
    BY Zenon, <1>1, <2>5 DEF FifoStep
<1>2. ASSUME NEW p \in Producers, ProducerStep(p)
      PROVE  UNCHANGED <<head, tail, out>> \/ (TrySendCas(p) /\ tail' # tail)
  <2>1. UNCHANGED <<head, out>>
    BY Zenon, <1>2, OnlyOverflowDrops DEF consVars
  <2>2. pc[p] # "ovf_publish"
    BY Zenon DEF RingInv, SnapshotInv
  <2> USE DEF ring
  <2>3. CASE \/ TrySendClosed(p) \/ TrySendLoadTail(p) \/ TrySendLoadHead(p)
             \/ TrySendWrite(p) \/ TrySendCommit(p) \/ TrySendSignal(p)
    BY Zenon, <2>1, <2>3 DEF TrySendClosed, TrySendLoadTail, TrySendLoadHead, TrySendWrite,
       TrySendCommit, TrySendSignal
  <2>4. CASE \/ OvfLock(p) \/ OvfLoadTail(p) \/ OvfLoadHead(p) \/ OvfClear(p) \/ OvfDrop(p)
             \/ OvfWrite(p) \/ OvfCommit(p) \/ OvfUnlock(p)
    BY Zenon, <2>1, <2>4 DEF OvfLock, OvfLoadTail, OvfLoadHead, OvfClear, OvfDrop, OvfWrite,
       OvfCommit, OvfUnlock
  <2>5. CASE SendLock(p) \/ SendWait(p)
    BY Zenon, <2>1, <2>5 DEF SendLock, SendWait
  <2> QED
    BY Zenon, <1>2, <2>1, <2>2, <2>3, <2>4, <2>5 DEF ProducerStep, OvfPublish
<1>3. CASE RecvStep
  <2>1. RecvAdvance \/ UNCHANGED <<head, tail, out>>
    BY Zenon, <1>3 DEF RecvStep, RecvClosed, RecvLoadHead, RecvLoadTail, RecvCopy, RecvGiveUp,
       RecvClear, RecvLock, RecvWait, ring
  <2> QED
    BY Zenon, <1>1, <2>1, AdvanceRefines
<1>4. CASE \E p \in Producers : ProducerStep(p)
  BY Zenon, <1>1, <1>2, <1>4, CasRefines
<1>5. RecvStep \/ (\E p \in Producers : ProducerStep(p)) \/ UNCHANGED <<head, tail, out>>
  BY Zenon DEF Next, Step, vars, ring, consVars, CallSend, CallRecv, Ack, CloseFlag, CloseBroadcast
<1> QED
  BY Zenon, <1>1, <1>3, <1>4, <1>5

\* Without QD_CHAN_OVERFLOW the channel is a bounded FIFO queue for any
\* producers, capacity and items: a successful compare-exchange accepts an item
\* at the end, a store to head delivers the oldest ones in order, and no other
\* step changes what is in it.
THEOREM FifoCorrect == Spec /\ ~Overflow => ImplementsFifo
<1> DEFINE Inv == ~Overflow /\ TypeOK /\ RingInv /\ FifoInv
<1>1. Init /\ ~Overflow => Inv
  BY Zenon, InitTypeOK, InitRingInv, FifoInvInit
<1>2. Inv /\ [Next]_vars => Inv' /\ FifoStep
  <2> SUFFICES ASSUME Inv, [Next]_vars PROVE Inv' /\ FifoStep
    BY Zenon
  <2>1. ~Overflow'
    BY Zenon DEF Next, vars, Overflow
  <2>2. TypeOK'
    BY Zenon, NextTypeOK
  <2> QED
    BY Zenon, <2>1, <2>2, NextKeepsRing, FifoInvNext, ChannelRefines
<1>3. Init => Contents = <<>> /\ out = <<>>
  <2> SUFFICES ASSUME Init PROVE Contents = <<>> /\ out = <<>>
    BY Zenon
  <2>1. tail - head = 0
    BY DEF Init
  <2> QED
    BY <2>1 DEF Init, Contents
<1>4. FifoStep => [Fifo!Next]_<<Contents, out>>
  BY Zenon DEF FifoStep, Fifo!Next
<1> HIDE DEF Inv
<1> QED
  BY <1>1, <1>2, <1>3, <1>4, PTL DEF Spec, ImplementsFifo, Fifo!Spec, Fifo!Init, Fifo!fifoVars
=============================================================================
