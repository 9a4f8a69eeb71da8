------------------------------- MODULE Channel -------------------------------
(***************************************************************************)
(* src/core/qd_channel.c: the MPSC bounded channel.  Producers reserve a   *)
(* slot by a CAS on tail, fill it, then raise its committed flag; the one  *)
(* consumer reads committed slots in order and advances head.  A thread's  *)
(* step is one access to shared memory, under sequential consistency (the  *)
(* acquire/release pairs on committed, head and tail order every access to *)
(* a slot).  head and tail are size_t counters that do not wrap within     *)
(* 2^64 operations, so they are naturals; their difference is a size_t     *)
(* that wraps when a stale tail meets a newer head: see Full.              *)
(***************************************************************************)
EXTENDS Integers, Sequences

CONSTANTS
  Producers,  \* threads that send
  Consumer,   \* the one thread that receives
  Nobody,     \* owner of the mutex when it is free; content of an unused slot
  Capacity,   \* chan->capacity, a power of two
  Flags,      \* values of chan->flags: subsets of {"OVERFLOW", "NONBLOCK"}
  Items,      \* what is sent, each item once
  MaxItems,   \* bound on max_items of try_recv_batch
  Calls       \* the calls of the API that the application makes

ASSUME ChannelAssumption ==
  /\ Capacity \in Nat \ {0}
  /\ MaxItems \in Nat \ {0}
  /\ Flags \subseteq SUBSET {"OVERFLOW", "NONBLOCK"}
  /\ Consumer \notin Producers
  /\ Nobody \notin Producers \cup {Consumer} \cup Items
  /\ Calls \subseteq {"try_send", "send", "try_recv", "try_recv_batch", "recv",
                      "close"}

VARIABLES
  flags,                   \* chan->flags, fixed by qd_channel_create
  head, tail, buffer, committed,  \* the ring of struct qd_channel
  eventfd,                 \* 1 while the eventfd is readable
  lock,                    \* owner of chan->lock
  closed, closing,         \* chan->closed; progress of the closing thread
  not_full, not_empty,     \* threads asleep on the condition variables
  pc, ptail, phead, ret,   \* producers: control, locals tail and head, result
  item, mode, unsent,      \* producers: *item, which call, items left to send
  cpc, chead, climit, got, \* consumer: control, locals head, to_read, items
  cmode, out               \* consumer: which call, all that calls returned

ring     == <<head, tail, buffer, committed>>
condVars == <<closed, closing, not_full, not_empty>>
syncVars == <<lock, condVars>>
callVars == <<item, mode, unsent>>
prodVars == <<pc, ptail, phead, ret, callVars>>
consVars == <<cpc, chead, climit, got, cmode, out>>
vars == <<ring, eventfd, syncVars, prodVars, consVars, flags>>

Overflow == "OVERFLOW" \in flags
NonBlock == "NONBLOCK" \in flags

Slots == 0 .. Capacity - 1

\* i & mask, the capacity being a power of two.
Pos(i) == i % Capacity

\* count >= capacity, where count = tail - head in size_t: a head read later
\* than tail may exceed it, and the difference is then a huge count.
Full(t, h) == h > t \/ t - h >= Capacity

Init ==
  /\ flags \in Flags
  /\ head = 0 /\ tail = 0
  /\ buffer = [s \in Slots |-> Nobody]
  /\ committed = [s \in Slots |-> 0]
  /\ eventfd = 0 /\ lock = Nobody
  /\ closed = 0 /\ closing = "no" /\ not_full = {} /\ not_empty = {}
  /\ pc = [p \in Producers |-> "idle"]
  /\ ptail = [p \in Producers |-> 0]
  /\ phead = [p \in Producers |-> 0]
  /\ ret = [p \in Producers |-> "none"]
  /\ item = [p \in Producers |-> Nobody]
  /\ mode = [p \in Producers |-> "try_send"]
  /\ unsent = Items
  /\ cpc = "idle" /\ chead = 0 /\ climit = 0 /\ got = <<>>
  /\ cmode = "try_recv" /\ out = <<>>

-----------------------------------------------------------------------------
(* Producers: qd_channel_try_send and qd_channel_send.                     *)

Sends == {"try_send", "send"}

Goto(p, l) == pc' = [pc EXCEPT ![p] = l]

CallSend(p, v, m) ==
  /\ pc[p] = "idle" /\ v \in unsent
  /\ unsent' = unsent \ {v}
  /\ item' = [item EXCEPT ![p] = v]
  /\ mode' = [mode EXCEPT ![p] = m]
  /\ Goto(p, "closed")
  /\ UNCHANGED <<ring, eventfd, syncVars, ptail, phead, ret, consVars>>

\* What follows a return of try_send with r: the slow path of send, the wait
\* inside it, or the end of the call (which unlocks if the slow path locked and
\* leaves no local behind).
Return(p, r) ==
  /\ ret' = [ret EXCEPT ![p] = r]
  /\ ptail' = [ptail EXCEPT ![p] = 0] /\ phead' = [phead EXCEPT ![p] = 0]
  /\ \/ /\ r = "BUSY" /\ mode[p] = "send" /\ ~NonBlock
        /\ Goto(p, "lock") /\ UNCHANGED <<lock, mode, item>>
     \/ /\ r = "BUSY" /\ mode[p] = "send_locked"
        /\ Goto(p, "wait") /\ UNCHANGED <<lock, mode, item>>
     \/ /\ ~(r = "BUSY" /\ (mode[p] = "send_locked" \/ (mode[p] = "send" /\ ~NonBlock)))
        /\ Goto(p, "idle")
        /\ lock' = IF mode[p] = "send_locked" THEN Nobody ELSE lock
        /\ mode' = [mode EXCEPT ![p] = "try_send"]
        /\ item' = [item EXCEPT ![p] = Nobody]

TrySendClosed(p) ==
  /\ pc[p] = "closed"
  /\ IF closed = 1
     THEN Return(p, "IO")
     ELSE Goto(p, "load_tail") /\ UNCHANGED <<ptail, phead, ret, lock, mode, item>>
  /\ UNCHANGED <<ring, eventfd, condVars, unsent, consVars>>

TrySendLoadTail(p) ==
  /\ pc[p] = "load_tail"
  /\ ptail' = [ptail EXCEPT ![p] = tail]
  /\ Goto(p, "load_head")
  /\ UNCHANGED <<ring, eventfd, syncVars, phead, ret, callVars, consVars>>

TrySendLoadHead(p) ==
  /\ pc[p] = "load_head"
  /\ \/ /\ ~Full(ptail[p], head) \/ Overflow
        /\ Goto(p, IF Full(ptail[p], head) THEN "ovf_lock" ELSE "cas")
        /\ phead' = [phead EXCEPT ![p] = head]
        /\ UNCHANGED <<ptail, ret, lock, mode, item>>
     \/ /\ Full(ptail[p], head) /\ ~Overflow
        /\ Return(p, "BUSY")
  /\ UNCHANGED <<ring, eventfd, condVars, unsent, consVars>>

\* The compare-exchange is a weak one: it may fail for no reason.
TrySendCas(p) ==
  /\ pc[p] = "cas"
  /\ \/ tail = ptail[p] /\ tail' = tail + 1 /\ Goto(p, "write")
     \/ Goto(p, "load_tail") /\ UNCHANGED tail
  /\ UNCHANGED <<head, buffer, committed, eventfd, syncVars, ptail, phead, ret,
                 callVars, consVars>>

TrySendWrite(p) ==
  /\ pc[p] = "write"
  /\ buffer' = [buffer EXCEPT ![Pos(ptail[p])] = item[p]]
  /\ Goto(p, "commit")
  /\ UNCHANGED <<head, tail, committed, eventfd, syncVars, ptail, phead, ret,
                 callVars, consVars>>

TrySendCommit(p) ==
  /\ pc[p] = "commit"
  /\ committed' = [committed EXCEPT ![Pos(ptail[p])] = 1]
  /\ Goto(p, "signal")
  /\ UNCHANGED <<head, tail, buffer, eventfd, syncVars, ptail, phead, ret,
                 callVars, consVars>>

TrySendSignal(p) ==
  /\ pc[p] = "signal"
  /\ eventfd' = IF ptail[p] = phead[p] THEN 1 ELSE eventfd
  /\ Return(p, "OK")
  /\ UNCHANGED <<ring, condVars, unsent, consVars>>

(* The QD_CHAN_OVERFLOW path of try_send, under chan->lock. *)

OvfLock(p) ==
  /\ pc[p] = "ovf_lock" /\ lock = Nobody
  /\ lock' = p
  /\ Goto(p, "ovf_tail")
  /\ UNCHANGED <<ring, eventfd, condVars, ptail, phead, ret, callVars, consVars>>

OvfLoadTail(p) ==
  /\ pc[p] = "ovf_tail"
  /\ ptail' = [ptail EXCEPT ![p] = tail]
  /\ Goto(p, "ovf_head")
  /\ UNCHANGED <<ring, eventfd, syncVars, phead, ret, callVars, consVars>>

OvfLoadHead(p) ==
  /\ pc[p] = "ovf_head"
  /\ phead' = [phead EXCEPT ![p] = head]
  /\ Goto(p, IF Full(ptail[p], head) THEN "ovf_clear" ELSE "ovf_write")
  /\ UNCHANGED <<ring, eventfd, syncVars, ptail, ret, callVars, consVars>>

OvfClear(p) ==
  /\ pc[p] = "ovf_clear"
  /\ committed' = [committed EXCEPT ![Pos(phead[p])] = 0]
  /\ Goto(p, "ovf_drop")
  /\ UNCHANGED <<head, tail, buffer, eventfd, syncVars, ptail, phead, ret,
                 callVars, consVars>>

OvfDrop(p) ==
  /\ pc[p] = "ovf_drop"
  /\ head' = head + 1
  /\ Goto(p, "ovf_write")
  /\ UNCHANGED <<tail, buffer, committed, eventfd, syncVars, ptail, phead, ret,
                 callVars, consVars>>

OvfWrite(p) ==
  /\ pc[p] = "ovf_write"
  /\ buffer' = [buffer EXCEPT ![Pos(ptail[p])] = item[p]]
  /\ Goto(p, "ovf_commit")
  /\ UNCHANGED <<head, tail, committed, eventfd, syncVars, ptail, phead, ret,
                 callVars, consVars>>

OvfCommit(p) ==
  /\ pc[p] = "ovf_commit"
  /\ committed' = [committed EXCEPT ![Pos(ptail[p])] = 1]
  /\ Goto(p, "ovf_publish")
  /\ UNCHANGED <<head, tail, buffer, eventfd, syncVars, ptail, phead, ret,
                 callVars, consVars>>

OvfPublish(p) ==
  /\ pc[p] = "ovf_publish"
  /\ tail' = ptail[p] + 1
  /\ Goto(p, "ovf_unlock")
  /\ UNCHANGED <<head, buffer, committed, eventfd, syncVars, ptail, phead, ret,
                 callVars, consVars>>

OvfUnlock(p) ==
  /\ pc[p] = "ovf_unlock"
  /\ lock' = Nobody
  /\ Goto(p, "signal")
  /\ UNCHANGED <<ring, eventfd, condVars, ptail, phead, ret, callVars, consVars>>

(* The slow path of send: lock, check closed and try again, wait.  The     *)
(* check of closed at the loop head and the one in try_send are one step.  *)

SendLock(p) ==
  /\ lock = Nobody
  /\ \/ pc[p] = "lock"
     \/ pc[p] = "asleep" /\ p \notin not_full
  /\ lock' = p
  /\ mode' = [mode EXCEPT ![p] = "send_locked"]
  /\ Goto(p, "closed")
  /\ UNCHANGED <<ring, eventfd, condVars, ptail, phead, ret, item, unsent,
                 consVars>>

\* (A spurious wakeup would only repeat the loop, and is left out.)
SendWait(p) ==
  /\ pc[p] = "wait"
  /\ not_full' = not_full \cup {p}
  /\ lock' = Nobody
  /\ Goto(p, "asleep")
  /\ UNCHANGED <<ring, eventfd, closed, closing, not_empty, ptail, phead, ret,
                 callVars, consVars>>

ProducerStep(p) ==
  \/ TrySendClosed(p) \/ TrySendLoadTail(p) \/ TrySendLoadHead(p)
  \/ TrySendCas(p) \/ TrySendWrite(p) \/ TrySendCommit(p) \/ TrySendSignal(p)
  \/ OvfLock(p) \/ OvfLoadTail(p) \/ OvfLoadHead(p) \/ OvfClear(p)
  \/ OvfDrop(p) \/ OvfWrite(p) \/ OvfCommit(p) \/ OvfPublish(p)
  \/ OvfUnlock(p) \/ SendLock(p) \/ SendWait(p)

-----------------------------------------------------------------------------
(* The consumer: qd_channel_try_recv, try_recv_batch, recv, ack.           *)

Recvs == {"try_recv", "try_recv_batch", "recv"}

\* A call that may take n items; try_recv and recv take one.
CallRecv(m, n) ==
  /\ cpc = "idle" /\ (m # "try_recv_batch" => n = 1)
  /\ cmode' = m /\ climit' = n /\ got' = <<>> /\ cpc' = "closed"
  /\ UNCHANGED <<ring, eventfd, syncVars, prodVars, chead, out>>

\* What follows when no item can be had: the slow path of recv, the wait inside
\* it, or the end of the call (which unlocks if the slow path locked).
RecvNothing(isClosed) ==
  /\ cpc' = IF ~isClosed /\ cmode = "recv" /\ ~NonBlock THEN "lock"
            ELSE IF ~isClosed /\ cmode = "recv_locked" THEN "wait"
            ELSE "idle"
  /\ lock' = IF cpc' = "idle" /\ cmode = "recv_locked" THEN Nobody ELSE lock
  /\ chead' = 0

RecvClosed ==
  /\ cpc = "closed"
  /\ IF closed = 1 THEN RecvNothing(TRUE)
                   ELSE cpc' = "load_head" /\ UNCHANGED <<lock, chead>>
  /\ UNCHANGED <<ring, eventfd, condVars, prodVars, climit, got, cmode, out>>

RecvLoadHead ==
  /\ cpc = "load_head"
  /\ chead' = head /\ cpc' = "load_tail"
  /\ UNCHANGED <<ring, eventfd, syncVars, prodVars, climit, got, cmode, out>>

RecvLoadTail ==
  /\ cpc = "load_tail"
  /\ IF chead >= tail
     THEN RecvNothing(FALSE) /\ UNCHANGED climit
     ELSE /\ climit' = IF tail - chead < climit THEN tail - chead ELSE climit
          /\ cpc' = "copy" /\ UNCHANGED <<lock, chead>>
  /\ UNCHANGED <<ring, eventfd, condVars, prodVars, got, cmode, out>>

\* The slot the consumer is at.
CPos == Pos(chead + Len(got))

\* Mutant: the item is copied without waiting for committed.
RecvCopyEarly ==
  /\ cpc = "copy"
  /\ got' = Append(got, buffer[CPos]) /\ cpc' = "clear"
  /\ UNCHANGED <<ring, eventfd, syncVars, prodVars, chead, climit, cmode, out>>

\* The spin on committed ends, and the item is copied out.
RecvCopy ==
  /\ cpc = "copy" /\ committed[CPos] = 1
  /\ got' = Append(got, buffer[CPos]) /\ cpc' = "clear"
  /\ UNCHANGED <<ring, eventfd, syncVars, prodVars, chead, climit, cmode, out>>

\* Only try_recv_batch bounds its spin: it stops at an uncommitted slot.
RecvGiveUp ==
  /\ cpc = "copy" /\ cmode = "try_recv_batch" /\ committed[CPos] = 0
  /\ cpc' = IF got = <<>> THEN "idle" ELSE "advance"
  /\ UNCHANGED <<ring, eventfd, syncVars, prodVars, chead, climit, got, cmode,
                 out>>

\* Mutant: the committed flag stays up after the item was copied.
RecvClearNot ==
  /\ cpc = "clear"
  /\ cpc' = IF Len(got) = climit THEN "advance" ELSE "copy"
  /\ UNCHANGED <<ring, eventfd, syncVars, prodVars, chead, climit, got, cmode,
                 out>>

RecvClear ==
  /\ cpc = "clear"
  /\ committed' = [committed EXCEPT ![Pos(chead + Len(got) - 1)] = 0]
  /\ cpc' = IF Len(got) = climit THEN "advance" ELSE "copy"
  /\ UNCHANGED <<head, tail, buffer, eventfd, syncVars, prodVars, chead, climit,
                 got, cmode, out>>

RecvAdvance ==
  /\ cpc = "advance"
  /\ head' = chead + Len(got) /\ out' = out \o got
  /\ cpc' = "idle"
  /\ lock' = IF cmode = "recv_locked" THEN Nobody ELSE lock
  /\ UNCHANGED <<tail, buffer, committed, eventfd, condVars, prodVars, chead,
                 climit, got, cmode>>

RecvLock ==
  /\ lock = Nobody
  /\ \/ cpc = "lock"
     \/ cpc = "asleep" /\ Consumer \notin not_empty
  /\ lock' = Consumer /\ cmode' = "recv_locked" /\ cpc' = "closed"
  /\ UNCHANGED <<ring, eventfd, condVars, prodVars, chead, climit, got, out>>

RecvWait ==
  /\ cpc = "wait"
  /\ not_empty' = not_empty \cup {Consumer} /\ lock' = Nobody
  /\ cpc' = "asleep"
  /\ UNCHANGED <<ring, eventfd, closed, closing, not_full, prodVars, chead,
                 climit, got, cmode, out>>

Ack ==
  /\ cpc = "idle" /\ eventfd = 1
  /\ eventfd' = 0
  /\ UNCHANGED <<ring, syncVars, prodVars, consVars>>

RecvStep ==
  \/ RecvClosed \/ RecvLoadHead \/ RecvLoadTail \/ RecvCopy \/ RecvGiveUp
  \/ RecvClear \/ RecvAdvance \/ RecvLock \/ RecvWait

-----------------------------------------------------------------------------
(* qd_channel_close, by any other thread: raise closed, then broadcast.    *)

CloseFlag ==
  /\ "close" \in Calls /\ closing = "no"
  /\ closed' = 1 /\ closing' = "flagged"
  /\ UNCHANGED <<ring, eventfd, lock, not_full, not_empty, prodVars, consVars>>

\* Mutant: only the receiver is woken.
CloseBroadcastNotEmpty ==
  /\ closing = "flagged" /\ lock = Nobody
  /\ not_empty' = {} /\ closing' = "done"
  /\ UNCHANGED <<ring, eventfd, lock, closed, not_full, prodVars, consVars>>

CloseBroadcast ==
  /\ closing = "flagged" /\ lock = Nobody
  /\ not_full' = {} /\ not_empty' = {} /\ closing' = "done"
  /\ UNCHANGED <<ring, eventfd, lock, closed, prodVars, consVars>>

-----------------------------------------------------------------------------
Step ==
  \/ \E p \in Producers :
       \/ \E v \in unsent, m \in Sends \cap Calls : CallSend(p, v, m)
       \/ ProducerStep(p)
  \/ \E m \in Recvs \cap Calls, n \in 1 .. MaxItems : CallRecv(m, n)
  \/ RecvStep \/ Ack
  \/ CloseFlag \/ CloseBroadcast

Next == Step /\ UNCHANGED flags

Spec == Init /\ [][Next]_vars

\* A thread inside a call keeps running (the scheduler does not starve it), a
\* compare-exchange that can succeed again and again once does, and a close
\* that has begun goes on to its broadcast.  Nobody has to make a call.
Fairness ==
  /\ \A p \in Producers :
       /\ WF_vars(ProducerStep(p) /\ UNCHANGED flags)
       /\ SF_vars(TrySendCas(p) /\ tail' # tail /\ UNCHANGED flags)
  /\ WF_vars(RecvStep /\ UNCHANGED flags)
  /\ WF_vars(CloseBroadcast /\ UNCHANGED flags)

FairSpec == Spec /\ Fairness

-----------------------------------------------------------------------------
(* Properties.                                                             *)

Labels ==
  {"idle", "closed", "load_tail", "load_head", "cas", "write", "commit",
   "signal", "lock", "wait", "asleep", "ovf_lock", "ovf_tail", "ovf_head",
   "ovf_clear", "ovf_drop", "ovf_write", "ovf_commit", "ovf_publish",
   "ovf_unlock"}

CLabels ==
  {"idle", "closed", "load_head", "load_tail", "copy", "clear", "advance",
   "lock", "wait", "asleep"}

\* Every field and local of the channel code holds a value of its C type.
TypeOK ==
  /\ head \in Nat /\ tail \in Nat
  /\ buffer \in [Slots -> Items \cup {Nobody}]
  /\ committed \in [Slots -> {0, 1}]
  /\ eventfd \in {0, 1} /\ closed \in {0, 1}
  /\ lock \in Producers \cup {Consumer, Nobody}
  /\ closing \in {"no", "flagged", "done"}
  /\ not_full \in SUBSET Producers /\ not_empty \in SUBSET {Consumer}
  /\ pc \in [Producers -> Labels]
  /\ ptail \in [Producers -> Nat] /\ phead \in [Producers -> Nat]
  /\ ret \in [Producers -> {"none", "OK", "BUSY", "IO"}]
  /\ item \in [Producers -> Items \cup {Nobody}]
  /\ mode \in [Producers -> Sends \cup {"send_locked"}]
  /\ unsent \in SUBSET Items
  /\ cpc \in CLabels /\ chead \in Nat /\ climit \in Nat
  /\ got \in Seq(Items \cup {Nobody}) /\ out \in Seq(Items \cup {Nobody})
  /\ cmode \in Recvs \cup {"recv_locked"}

\* p has reserved a slot and has not yet raised its committed flag.
Writing(p) == pc[p] \in {"write", "commit"}

\* try_send never reserves more than the ring holds: at most capacity positions
\* lie between head and tail, whatever producers and the consumer interleave.
WindowBounded == head <= tail /\ tail - head <= Capacity

\* No slot is touched by two threads at once: producers between their CAS and
\* their commit are in different slots, and none is in the slot the consumer
\* has copied and not yet cleared.
SlotExclusive ==
  \A p \in Producers : Writing(p) =>
    /\ \A q \in Producers \ {p} :
         Writing(q) => Pos(ptail[q]) # Pos(ptail[p])
    /\ cpc = "clear" => Pos(chead + Len(got) - 1) # Pos(ptail[p])

\* Positions whose slot the consumer has released although head is not yet
\* stored, and the first position whose slot it has not released.
Cleared == IF cpc = "copy" \/ cpc = "advance" THEN Len(got)
           ELSE IF cpc = "clear" THEN Len(got) - 1 ELSE 0

Lo == head + Cleared

\* What a producer knows of head and tail: both only grow.
SnapshotInv ==
  \A p \in Producers :
    /\ pc[p] \notin {"ovf_lock", "ovf_tail", "ovf_head", "ovf_clear", "ovf_drop",
                     "ovf_write", "ovf_commit", "ovf_publish", "ovf_unlock"}
    /\ pc[p] = "load_head" => ptail[p] <= tail
    /\ pc[p] = "cas" => /\ phead[p] <= head /\ ptail[p] <= tail
                        /\ ptail[p] - phead[p] < Capacity

\* Reserved positions are unreleased ones, each reserved by one producer.
WritersInv ==
  \A p \in Producers : Writing(p) =>
    /\ Lo <= ptail[p] /\ ptail[p] < tail
    /\ \A q \in Producers : Writing(q) /\ ptail[q] = ptail[p] => q = p

Reserved(i) == \E p \in Producers : Writing(p) /\ ptail[p] = i

\* The committed flag is up exactly where an item waits for the consumer.
FlagsInv ==
  /\ \A i \in Lo .. tail - 1 : committed[Pos(i)] = 1 <=> ~Reserved(i)
  /\ \A i \in tail .. Lo + Capacity - 1 : committed[Pos(i)] = 0

\* What the consumer knows of head and tail, and how far it is.
ReaderInv ==
  /\ cpc \notin {"idle", "copy", "clear", "advance"} => got = <<>> /\ climit > 0
  /\ cpc = "load_tail" => chead = head
  /\ cpc \in {"copy", "clear", "advance"} =>
       chead = head /\ head + climit <= tail /\ Len(got) <= climit
  /\ cpc = "copy" => Len(got) < climit
  /\ cpc = "clear" => Len(got) > 0 /\ committed[Pos(Lo)] = 1

\* The inductive form of WindowBounded and SlotExclusive.
RingInv == WindowBounded /\ SnapshotInv /\ WritersInv /\ FlagsInv /\ ReaderInv

\* The items between head and tail, oldest first; a reserved slot not yet
\* written stands for the item its producer is about to copy into it.
ItemAt(i) ==
  IF \E p \in Producers : pc[p] = "write" /\ ptail[p] = i
  THEN item[CHOOSE p \in Producers : pc[p] = "write" /\ ptail[p] = i]
  ELSE buffer[Pos(i)]

Contents == [k \in 1 .. tail - head |-> ItemAt(head + k - 1)]

Fifo == INSTANCE BoundedFifo WITH queue <- Contents, delivered <- out

\* Without QD_CHAN_OVERFLOW the channel is a bounded FIFO: a CAS on tail is the
\* moment an item is accepted, the store to head the moment a call delivers.
ImplementsFifo == Fifo!Spec

\* A consumer that found a reserved slot never spins on it for ever.
SpinEnds == (~Overflow /\ cpc = "copy") ~> (cpc # "copy")

\* close wakes every sender and receiver blocked in the channel, and their
\* calls return.
CloseReleases ==
  /\ \A p \in Producers : closed = 1 /\ pc[p] = "asleep" ~> pc[p] = "idle"
  /\ closed = 1 /\ cpc = "asleep" ~> cpc = "idle"

\* In overflow mode the slow path of send, which holds chan->lock, never comes
\* to the locked branch of try_send, which would take the same mutex again.
NoSelfDeadlock == \A p \in Producers : pc[p] = "ovf_lock" => lock # p

\* try_send answers BUSY only when the channel is full, so not before Capacity
\* items were accepted (the branch is commented "Full").
BusyMeansFull ==
  \A p \in Producers : ret[p] = "BUSY" => tail >= Capacity

\* A blocked call returns once what it waits for is there for good.
BlockedCallsReturn ==
  /\ \A p \in Producers :
       ~(<>[](pc[p] = "asleep" /\ tail - head < Capacity))
  /\ ~(<>[](cpc = "asleep" /\ tail # head))
=============================================================================
