------------------------------ MODULE DhcpMsg ------------------------------
(***************************************************************************)
(* The messaging library of the DHCP daemon, examples/dhcp/src/            *)
(* qd_dhcp_msg.c, on its character device transport, composed with the     *)
(* kernel module of DhcpKmod.                                              *)
(*                                                                         *)
(* One thread uses a connection: it makes reliable calls (send, remember   *)
(* in a pending slot, wait for the answer), runs batches of calls, and     *)
(* processes what arrived.  Other processes change the tables through      *)
(* netlink meanwhile.  A write to the device runs the command in the       *)
(* kernel, announces it, and then queues the answer; between these steps   *)
(* the other callers run.  A pending slot falls due when its timeout has   *)
(* elapsed; a due slot is sent again, or given up when its retries are     *)
(* used, whenever qd_dhcp_check_timeouts next runs.                        *)
(***************************************************************************)
EXTENDS DhcpKmod, FiniteSets

CONSTANTS Dev,          \* the caller that is this connection's write()
          UserCmds,     \* the commands the user gives
          Batches,      \* the batches the user builds: sequences of commands
          PENDING_MAX, RETRIES,  \* QD_DHCP_PENDING_MAX, config.retry_count
          MaxCalls,     \* bound on the sequence numbers
          MaxOthers     \* bound on the commands of the other callers

\* A batch without commands makes no call and is left out.
ASSUME MsgAssumption ==
    /\ Dev \in Callers /\ UserCmds \subseteq Commands
    /\ Batches \subseteq Seq(Commands) \ {<<>>}
    /\ PENDING_MAX \in Nat /\ RETRIES \in Nat /\ MaxCalls \in Nat

VARIABLES pc,        \* where the thread is
          cur,       \* the call under way: [seq, cmd]
          slot,      \* pending[]
          at,        \* check_timeouts: slots still to look at; 0: the first send
          then,      \* where check_timeouts returns to
          seq_next,  \* conn->seq_next
          handler,   \* a notification handler is registered
          out,       \* the last call's [seq, res, how]
          batch,     \* the batch under way or the last one
          ran,       \* history: what the kernel answered to each seq, in order
          settled    \* history: seqs whose answer the library has taken

msVars == <<pc, cur, slot, at, then, seq_next, handler, out, batch, ran, settled>>
msAll == <<kmVars, msVars>>
kernelRest == <<method, ifs, bind, ever, sub, pkt, ncmds>>

NoCmd == [op |-> "none", k |-> <<>>, v |-> <<>>]
FreeSlot == [used |-> FALSE, seq |-> 0, cmd |-> NoCmd, due |-> FALSE, retries |-> 0]
NoBatch == [on |-> FALSE, left |-> <<>>, seqs |-> <<>>, errs |-> <<>>,
            atomic |-> FALSE, rolled_back |-> FALSE, was |-> bind]
Slots == 1 .. PENDING_MAX
Seqs == 1 .. MaxCalls

MSInit ==
    /\ KMInit
    /\ pc = "idle" /\ cur = [seq |-> 0, cmd |-> NoCmd]
    /\ slot = [s \in Slots |-> FreeSlot] /\ at = 0 /\ then = "idle"
    /\ seq_next = 0 /\ handler = TRUE
    /\ out = [seq |-> 0, res |-> "ok", how |-> "none"]
    /\ batch = NoBatch /\ ran = [s \in Seqs |-> <<>>] /\ settled = {}

-----------------------------------------------------------------------------
(* Returning from a call, into the user's code or into the batch.          *)

BatchRecord(b, res) ==
    IF b.atomic /\ res # "ok"
    THEN [b EXCEPT !.on = FALSE, !.left = <<>>, !.rolled_back = TRUE,
                   !.seqs = Append(@, cur.seq),
                   !.errs = Append(@, res) \o [i \in 1 .. Len(b.left) - 1 |-> "aborted"]]
    ELSE [b EXCEPT !.errs = Append(@, res), !.seqs = Append(@, cur.seq),
                   !.left = Tail(@), !.on = Len(b.left) > 1]

Returns(res, how) ==
    /\ pc' = "idle" /\ out' = [seq |-> cur.seq, res |-> res, how |-> how]
    /\ batch' = IF batch.on THEN BatchRecord(batch, res) ELSE batch

-----------------------------------------------------------------------------
(* Sending: write() to the device.                                         *)

\* get_next_seq and the builder; the message is ready in tx_buf.
Request(c) ==
    /\ pc = "idle" /\ seq_next < MaxCalls
    /\ IF batch.on THEN c = Head(batch.left) ELSE c \in UserCmds
    /\ seq_next' = seq_next + 1
    /\ cur' = [seq |-> seq_next + 1, cmd |-> c] /\ at' = 0 /\ pc' = "write"
    /\ UNCHANGED <<kmVars, slot, then, handler, out, batch, ran, settled>>

Sent == IF at = 0 THEN cur ELSE [seq |-> slot[at].seq, cmd |-> slot[at].cmd]

\* The kernel runs the command; the message was sent with the ACK flag.
chardev_send ==
    /\ pc = "write"
    /\ \E o \in qdhcp_chardev_process_cmd(Sent.cmd) :
          /\ Applies(Dev, o, Sent.seq)
          /\ ran' = [ran EXCEPT ![Sent.seq] = Append(@, o.ret)]
    /\ pc' = "kernel"
    /\ UNCHANGED <<q, sub, view, pkt, ncmds, cur, slot, at, then, seq_next, handler,
                   out, batch, settled>>

find_pending_slot == {s \in Slots : ~slot[s].used}

\* After the first send: a slot is taken, or there is none and the call fails
\* although the command has been carried out.
Track ==
    IF find_pending_slot = {}
    THEN Returns("full", "local") /\ UNCHANGED slot
    ELSE /\ pc' = "wait" /\ UNCHANGED <<out, batch>>
         /\ slot' = [slot EXCEPT ![CHOOSE s \in find_pending_slot :
                                      \A t \in find_pending_slot : s <= t] =
                        [used |-> TRUE, seq |-> cur.seq, cmd |-> cur.cmd,
                         due |-> FALSE, retries |-> RETRIES]]

\* write() returns; the answer was queued, or no memory was found for it.
qdhcp_chardev_write ==
    /\ pc = "kernel" /\ pend[Dev].note = NoNote
    /\ pend' = [pend EXCEPT ![Dev] = Rest]
    /\ \/ /\ q' = Append(q, Message("resp", pend[Dev].seq, pend[Dev].ret))
          /\ IF at = 0 THEN Track /\ UNCHANGED at
             ELSE pc' = "check" /\ at' = at + 1 /\ UNCHANGED <<slot, out, batch>>
       \/ /\ UNCHANGED <<q, slot>>
          /\ IF at = 0 THEN Returns("io", "local") /\ UNCHANGED at
             ELSE pc' = "check" /\ at' = at + 1 /\ UNCHANGED <<out, batch>>
    /\ UNCHANGED <<kernelRest, view, faithful, cur, then, seq_next, handler, ran, settled>>

-----------------------------------------------------------------------------
(* Receiving, and the pending slots.                                       *)

\* Defect: a refusal leaves the slot in use.
AckSuccess(m) ==
    IF m.v = "ok"
    THEN [s \in Slots |-> IF slot[s].used /\ slot[s].seq = m.k THEN FreeSlot ELSE slot[s]]
    ELSE slot

qd_dhcp_process_ack(m) ==
    [s \in Slots |-> IF slot[s].used /\ slot[s].seq = m.k THEN FreeSlot ELSE slot[s]]

\* Defect: any answer ends the wait.
AnyAnswer(m) == m.t = "resp"

IsOurs(m) == m.t = "resp" /\ m.k = cur.seq

\* One round of the wait loop: a message, if there is one.  Announcements are
\* thrown away here.
qd_dhcp_wait_ack ==
    /\ pc = "wait" /\ q # <<>> /\ q' = Tail(q)
    /\ LET m == q[1] IN
         /\ faithful' = (faithful /\ m.t # "note")
         /\ slot' = IF m.t = "resp" THEN qd_dhcp_process_ack(m) ELSE slot
         /\ settled' = IF m.t = "resp" THEN settled \cup {m.k} ELSE settled
         /\ IF IsOurs(m)
            THEN Returns(m.v, "answer") /\ UNCHANGED <<at, then>>
            ELSE pc' = "check" /\ at' = 1 /\ then' = "wait" /\ UNCHANGED <<out, batch>>
    /\ UNCHANGED <<kernelRest, pend, view, cur, seq_next, handler, ran>>

\* Nothing has arrived: only the timeouts are looked at.
WaitIdle ==
    /\ pc = "wait" /\ q = <<>>
    /\ pc' = "check" /\ at' = 1 /\ then' = "wait"
    /\ UNCHANGED <<kmVars, cur, slot, seq_next, handler, out, batch, ran, settled>>

\* The deadline is the slot's own timeout, counted from a moment later.
DeadlinePassed ==
    /\ pc = "wait"
    /\ \A s \in Slots : slot[s].used /\ slot[s].seq = cur.seq =>
                           slot[s].due \/ slot[s].retries < RETRIES
    /\ Returns("timeout", "local")
    /\ UNCHANGED <<kmVars, cur, slot, at, then, seq_next, handler, ran, settled>>

TimeoutElapses(s) ==
    /\ slot[s].used /\ ~slot[s].due
    /\ slot' = [slot EXCEPT ![s].due = TRUE]
    /\ UNCHANGED <<kmVars, pc, cur, at, then, seq_next, handler, out, batch, ran, settled>>

\* One slot of the loop over pending[].
qd_dhcp_check_timeouts ==
    /\ pc = "check"
    /\ IF at > PENDING_MAX
       THEN pc' = then /\ at' = 0 /\ UNCHANGED slot
       ELSE IF ~slot[at].due
       THEN pc' = "check" /\ at' = at + 1 /\ UNCHANGED slot
       ELSE IF slot[at].retries > 0
       THEN /\ pc' = "write" /\ UNCHANGED at
            /\ slot' = [slot EXCEPT ![at].retries = @ - 1, ![at].due = FALSE]
       ELSE pc' = "check" /\ at' = at + 1 /\ slot' = [slot EXCEPT ![at] = FreeSlot]
    /\ UNCHANGED <<kmVars, cur, then, seq_next, handler, out, batch, ran, settled>>

\* qd_dhcp_process, from the event loop: every message that is there is handled.
ProcessBegin ==
    /\ pc = "idle" /\ ~batch.on /\ pc' = "process"
    /\ UNCHANGED <<kmVars, cur, slot, at, then, seq_next, handler, out, batch, ran, settled>>

\* qd_dhcp_dispatch: the handler, if there is one, updates the user's picture.
qd_dhcp_dispatch(m) ==
    /\ view' = IF m.t = "note" /\ handler THEN [view EXCEPT ![m.k] = m.v] ELSE view
    /\ faithful' = (faithful /\ (m.t = "note" => handler))

qd_dhcp_process ==
    /\ pc = "process"
    /\ IF q = <<>>
       THEN /\ pc' = "check" /\ at' = 1 /\ then' = "idle"
            /\ UNCHANGED <<q, slot, settled, view, faithful>>
       ELSE /\ q' = Tail(q) /\ qd_dhcp_dispatch(q[1])
            /\ slot' = IF q[1].t = "resp" THEN qd_dhcp_process_ack(q[1]) ELSE slot
            /\ settled' = IF q[1].t = "resp" THEN settled \cup {q[1].k} ELSE settled
            /\ UNCHANGED <<pc, at, then>>
    /\ UNCHANGED <<kernelRest, pend, cur, seq_next, handler, out, batch, ran>>

-----------------------------------------------------------------------------
\* qd_dhcp_batch_create and the adds, up to qd_dhcp_batch_execute.
BatchExecute(ops, atomic) ==
    /\ pc = "idle" /\ ~batch.on
    /\ seq_next + Len(ops) <= MaxCalls
    /\ batch' = [NoBatch EXCEPT !.on = TRUE, !.left = ops, !.atomic = atomic]
    /\ UNCHANGED <<kmVars, pc, cur, slot, at, then, seq_next, handler, out, ran, settled>>

\* Handlers and the subscription are set up before the first request, as
\* on_init does.
qd_dhcp_register_handler(on) ==
    /\ seq_next = 0 /\ pc = "idle" /\ ~batch.on /\ handler # on
    /\ handler' = on
    /\ UNCHANGED <<kmVars, pc, cur, slot, at, then, seq_next, out, batch, ran, settled>>

qd_dhcp_subscribe(on) ==
    /\ seq_next = 0 /\ pc = "idle" /\ ~batch.on /\ sub # on
    /\ qdhcp_chardev_ioctl(on) /\ UNCHANGED msVars

\* The other callers of the module, which use netlink.
Others(p) ==
    /\ \/ ncmds < MaxOthers /\ \E c \in UserCmds : NetlinkCommand(p, c)
       \/ Announce(p) \/ NetlinkReturn(p)
    /\ UNCHANGED msVars

MSNext ==
    \/ \E c \in UserCmds \cup UNION {{b[i] : i \in DOMAIN b} : b \in Batches} : Request(c)
    \/ chardev_send \/ (Announce(Dev) /\ UNCHANGED msVars) \/ qdhcp_chardev_write
    \/ qd_dhcp_wait_ack \/ WaitIdle \/ DeadlinePassed
    \/ \E s \in Slots : TimeoutElapses(s)
    \/ qd_dhcp_check_timeouts \/ ProcessBegin \/ qd_dhcp_process
    \/ \E b \in Batches, a \in BOOLEAN : BatchExecute(b, a)
    \/ \E on \in BOOLEAN : qd_dhcp_register_handler(on) \/ qd_dhcp_subscribe(on)
    \/ \E p \in Callers \ {Dev} : Others(p)

MSSpec == MSInit /\ [][MSNext]_msAll

-----------------------------------------------------------------------------
Has(s, r) == \E i \in DOMAIN s : s[i] = r

(***************************************************************************)
(* A call returns the kernel's answer to this very call, never that of an  *)
(* earlier call that timed out and whose answer came late.                 *)
(***************************************************************************)
OwnAnswer == out.how = "answer" => Has(ran[out.seq], out.res)

(***************************************************************************)
(* Once the library has taken the answer to a call, a success or a         *)
(* refusal, it never sends that call again: its command is not carried out *)
(* a second time behind the caller's back.                                 *)
(***************************************************************************)
SettledOnce == [][\A s \in settled : ran'[s] = ran[s]]_msAll

(***************************************************************************)
(* The report of a batch: an operation reported as done was carried out    *)
(* with success, and after the first failure of an atomic batch no further *)
(* operation was sent.                                                     *)
(***************************************************************************)
BatchReport ==
    /\ \A i \in DOMAIN batch.seqs : batch.errs[i] = "ok" => Has(ran[batch.seqs[i]], "ok")
    /\ batch.atomic => \A i \in 1 .. Len(batch.seqs) - 1 : batch.errs[i] = "ok"

(***************************************************************************)
(* qd_dhcp_msg.h: "Atomic execution (all-or-nothing with                   *)
(* QD_DHCP_BATCH_ATOMIC)" and rolled_back, "True if batch was rolled back".*)
(* With no other process at work, the bindings after such a report are     *)
(* those before the batch.                                                 *)
(***************************************************************************)
AllOrNothing == batch.rolled_back /\ ~batch.on /\ pc = "idle" => bind = batch.was

(***************************************************************************)
(* What the library reports of a call or a batch is what the kernel did.   *)
(***************************************************************************)
MsgExact == OwnAnswer /\ BatchReport
=============================================================================
