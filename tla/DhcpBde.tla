------------------------------ MODULE DhcpBde ------------------------------
(***************************************************************************)
(* The shared memory transport between the DHCP daemon and its kernel      *)
(* module: examples/dhcp/kernel/qd_dhcp_bde.c and the bde_* functions of   *)
(* examples/dhcp/src/qd_dhcp_msg.c.  Two rings of slots in one mapping.    *)
(*                                                                         *)
(* RX, kernel to user: qdhcp_bde_queue_rx fills slots under the client's   *)
(* lock and, when the ring is full, moves the reader's own index past the  *)
(* oldest slot.  bde_recv takes no lock and reads a slot in several steps, *)
(* so the two write rx_tail concurrently.  A message is copied in two      *)
(* halves to make a torn copy visible.                                     *)
(*                                                                         *)
(* TX, user to kernel: bde_send fills a slot, moves tx_head, and calls the *)
(* kernel, which handles every slot up to the head it read.                *)
(***************************************************************************)
EXTENDS Naturals, Sequences

CONSTANTS SLOTS,      \* slots of a ring; one stays empty
          Senders,    \* threads that share the connection
          MaxMsgs     \* bound on the messages of one ring

ASSUME BdeAssumption == SLOTS \in Nat \ {0, 1}

VARIABLES side,       \* which ring this behaviour is about
          head, tail, slots, subscribed,
          kernel,     \* qdhcp_bde_queue_rx: step, its head, its message
          user,       \* bde_recv: step, its tail, the halves it has copied
          issued,     \* messages queued or sent so far
          handed,     \* messages handed to the user, or handled by the kernel
          moved,      \* history: times the kernel moved rx_tail during this recv
          overrun,    \* history: it did so twice within one recv, or in an emptied ring
          sender,     \* per thread: step, head, message, and process_tx's tail and head
          raced,      \* history: two threads were in bde_send at once
          unsaid      \* a TX_NOTIFY has failed since the last one that succeeded

rxVars == <<subscribed, kernel, user, moved, overrun>>
txVars == <<sender, raced, unsaid>>
bdVars == <<side, head, tail, slots, issued, handed, rxVars, txVars>>

Empty == [ready |-> FALSE, a |-> 0, b |-> 0]
Next1(i) == (i + 1) % SLOTS
Used == (head + SLOTS - tail) % SLOTS
KRest == [at |-> "rest", head |-> 0]
URest == [at |-> "rest", tail |-> 0, a |-> 0, b |-> 0]
SRest == [at |-> "rest", head |-> 0, m |-> 0, tail |-> 0, upto |-> 0]

BDInit ==
    /\ side \in {"rx", "tx"}
    /\ head = 0 /\ tail = 0 /\ slots = [i \in 0 .. SLOTS - 1 |-> Empty]
    /\ subscribed = FALSE /\ kernel = KRest /\ user = URest
    /\ issued = 0 /\ handed = <<>> /\ moved = 0 /\ overrun = FALSE
    /\ sender = [t \in Senders |-> SRest] /\ raced = FALSE /\ unsaid = FALSE

-----------------------------------------------------------------------------
(* RX: qdhcp_bde_queue_rx, holding the client's lock.                      *)

qdhcp_bde_ioctl_subscribe(on) ==
    /\ side = "rx" /\ subscribed # on /\ kernel.at = "rest" /\ user.at = "rest"
    /\ subscribed' = on
    /\ UNCHANGED <<side, head, tail, slots, kernel, user, issued, handed, moved, overrun, txVars>>

RxFull == Next1(head) = tail

QueueBegin ==
    /\ side = "rx" /\ subscribed /\ kernel.at = "rest" /\ issued < MaxMsgs
    /\ kernel' = [at |-> IF RxFull THEN "drop" ELSE "header", head |-> head] /\ issued' = issued + 1
    /\ UNCHANGED <<side, head, tail, slots, subscribed, user, handed, moved, overrun, txVars>>

\* A full ring loses its oldest message.
DropOldest ==
    /\ kernel.at = "drop" /\ kernel' = [kernel EXCEPT !.at = "header"]
    /\ tail' = Next1(tail)
    /\ moved' = IF user.at # "rest" THEN moved + 1 ELSE moved
    /\ overrun' = (overrun \/ moved' >= 2 \/ head = tail)
    /\ UNCHANGED <<side, head, slots, subscribed, user, issued, handed, txVars>>

QueueHeader ==
    /\ kernel.at = "header" /\ kernel' = [kernel EXCEPT !.at = "data"]
    /\ slots' = [slots EXCEPT ![kernel.head].ready = TRUE, ![kernel.head].a = issued]
    /\ UNCHANGED <<side, head, tail, subscribed, user, issued, handed, moved, overrun, txVars>>

QueueData ==
    /\ kernel.at = "data" /\ kernel' = [kernel EXCEPT !.at = "publish"]
    /\ slots' = [slots EXCEPT ![kernel.head].b = issued]
    /\ UNCHANGED <<side, head, tail, subscribed, user, issued, handed, moved, overrun, txVars>>

QueuePublish ==
    /\ kernel.at = "publish" /\ kernel' = KRest /\ head' = Next1(kernel.head)
    /\ UNCHANGED <<side, tail, slots, subscribed, user, issued, handed, moved, overrun, txVars>>

-----------------------------------------------------------------------------
(* RX: bde_recv.                                                           *)

\* The ring is not empty and its oldest slot is ready; otherwise it returns 0.
RecvBegin ==
    /\ side = "rx" /\ user.at = "rest" /\ head # tail /\ slots[tail].ready
    /\ user' = [at |-> "first", tail |-> tail, a |-> 0, b |-> 0] /\ moved' = 0
    /\ UNCHANGED <<side, head, tail, slots, subscribed, kernel, issued, handed, overrun, txVars>>

RecvFirst ==
    /\ user.at = "first" /\ user' = [user EXCEPT !.at = "second", !.a = slots[user.tail].a]
    /\ UNCHANGED <<side, head, tail, slots, subscribed, kernel, issued, handed, moved, overrun, txVars>>

RecvSecond ==
    /\ user.at = "second" /\ user' = [user EXCEPT !.at = "clear", !.b = slots[user.tail].b]
    /\ UNCHANGED <<side, head, tail, slots, subscribed, kernel, issued, handed, moved, overrun, txVars>>

RecvClear ==
    /\ user.at = "clear" /\ user' = [user EXCEPT !.at = "advance"]
    /\ slots' = [slots EXCEPT ![user.tail].ready = FALSE]
    /\ UNCHANGED <<side, head, tail, subscribed, kernel, issued, handed, moved, overrun, txVars>>

\* The index that was read at the start is stored, whatever the kernel did since.
RecvAdvance ==
    /\ user.at = "advance" /\ user' = URest /\ tail' = Next1(user.tail)
    /\ handed' = Append(handed, <<user.a, user.b>>)
    /\ UNCHANGED <<side, head, slots, subscribed, kernel, issued, moved, overrun, txVars>>

\* The file is closed and opened again: new memory.
Reopen ==
    /\ side = "rx" /\ user.at = "rest" /\ kernel.at = "rest" /\ (head # 0 \/ subscribed)
    /\ head' = 0 /\ tail' = 0 /\ slots' = [i \in 0 .. SLOTS - 1 |-> Empty]
    /\ subscribed' = FALSE /\ overrun' = FALSE /\ moved' = 0 /\ handed' = <<>>
    /\ UNCHANGED <<side, kernel, user, issued, txVars>>

-----------------------------------------------------------------------------
(* TX: bde_send and the TX_NOTIFY call.                                    *)

\* Defect: the ring is used to its last slot.
FullNever(t) == FALSE

TxFull(t) == Next1(head) = tail

SendBegin(t) ==
    /\ side = "tx" /\ sender[t].at = "rest" /\ issued < MaxMsgs /\ ~TxFull(t)
    /\ sender' = [sender EXCEPT ![t] = [SRest EXCEPT !.at = "fill", !.head = head, !.m = issued + 1]]
    /\ issued' = issued + 1
    /\ raced' = (raced \/ \E r \in Senders \ {t} : sender[r].at # "rest")
    /\ UNCHANGED <<side, head, tail, slots, handed, unsaid, rxVars>>

SendFill(t) ==
    /\ sender[t].at = "fill" /\ sender' = [sender EXCEPT ![t].at = "publish"]
    /\ slots' = [slots EXCEPT ![sender[t].head] = [ready |-> TRUE, a |-> sender[t].m, b |-> sender[t].m]]
    /\ UNCHANGED <<side, head, tail, issued, handed, raced, unsaid, rxVars>>

SendPublish(t) ==
    /\ sender[t].at = "publish" /\ sender' = [sender EXCEPT ![t].at = "notify"]
    /\ head' = Next1(sender[t].head)
    /\ UNCHANGED <<side, tail, slots, issued, handed, raced, unsaid, rxVars>>

\* The call fails and the message stays in the ring, or the kernel reads the indexes.
Notify(t) ==
    /\ sender[t].at = "notify"
    /\ \/ sender' = [sender EXCEPT ![t] = SRest] /\ unsaid' = TRUE
       \/ /\ sender' = [sender EXCEPT ![t].at = "process", ![t].tail = tail, ![t].upto = head]
          /\ UNCHANGED unsaid
    /\ UNCHANGED <<side, head, tail, slots, issued, handed, raced, rxVars>>

\* One slot of qdhcp_bde_process_tx; a slot that is not ready is passed over.
qdhcp_bde_process_tx(t) ==
    LET i == sender[t].tail IN
    /\ sender[t].at = "process" /\ i # sender[t].upto
    /\ handed' = IF slots[i].ready THEN Append(handed, <<slots[i].a, slots[i].b>>) ELSE handed
    /\ slots' = [slots EXCEPT ![i].ready = FALSE]
    /\ sender' = [sender EXCEPT ![t].tail = Next1(i)]
    /\ UNCHANGED <<side, head, tail, issued, raced, unsaid, rxVars>>

ProcessEnd(t) ==
    /\ sender[t].at = "process" /\ sender[t].tail = sender[t].upto
    /\ tail' = sender[t].tail /\ sender' = [sender EXCEPT ![t] = SRest] /\ unsaid' = FALSE
    /\ UNCHANGED <<side, head, slots, issued, handed, raced, rxVars>>

BDNext ==
    \/ \E on \in BOOLEAN : qdhcp_bde_ioctl_subscribe(on)
    \/ QueueBegin \/ DropOldest \/ QueueHeader \/ QueueData \/ QueuePublish
    \/ RecvBegin \/ RecvFirst \/ RecvSecond \/ RecvClear \/ RecvAdvance \/ Reopen
    \/ \E t \in Senders : \/ SendBegin(t) \/ SendFill(t) \/ SendPublish(t) \/ Notify(t)
                          \/ qdhcp_bde_process_tx(t) \/ ProcessEnd(t)

BDSpec == BDInit /\ [][BDNext]_bdVars

-----------------------------------------------------------------------------
Content == [i \in 1 .. Used |-> slots[(tail + i - 1) % SLOTS]]
Newest == IF kernel.at = "rest" THEN issued ELSE issued - 1

(***************************************************************************)
(* The receive ring survives the kernel moving the reader's index.  As     *)
(* long as the kernel does that at most once within a bde_recv, and not    *)
(* after the reader has emptied the ring it had found full, messages come  *)
(* whole and in order, and while no bde_recv is under way the ring holds   *)
(* exactly the newest messages, so that only the oldest are lost.  (Twice  *)
(* is too often: bde_recv then puts rx_tail back, the ring looks empty,    *)
(* and a slot may be overwritten while it is copied.)                      *)
(***************************************************************************)
RxKeepsNewest ==
    side = "rx" /\ ~overrun =>
        /\ \A i \in DOMAIN handed : handed[i][1] = handed[i][2]
        /\ \A i, j \in DOMAIN handed : i < j => handed[i][1] < handed[j][1]
        /\ user.at = "rest" =>
             /\ \A i \in 1 .. Used :
                   Content[i] = [ready |-> TRUE, a |-> Newest - Used + i, b |-> Newest - Used + i]
             /\ handed # <<>> => handed[Len(handed)][1] <= Newest - Used

(***************************************************************************)
(* With one thread at a time in bde_send the kernel handles every message  *)
(* once, in order, and after a TX_NOTIFY that was not refused none is left *)
(* behind, those whose own notification failed included.                   *)
(***************************************************************************)
TxOnce ==
    side = "tx" /\ ~raced =>
        /\ \A i \in DOMAIN handed : handed[i] = <<i, i>>
        /\ (\A t \in Senders : sender[t].at = "rest") /\ ~unsaid => Len(handed) = issued

(***************************************************************************)
(* Both rings keep their messages whole, in order, and once.               *)
(***************************************************************************)
BdeExact == RxKeepsNewest /\ TxOnce
=============================================================================
