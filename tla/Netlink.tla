------------------------------- MODULE Netlink -------------------------------
(***************************************************************************)
(* The Generic Netlink socket of qd_netlink.c and the kernel module behind *)
(* it (kernel/qd_kmod.c).  sendto on a netlink socket runs the handler in  *)
(* the kernel before it returns (external), so a request's answer is in    *)
(* the socket's queue when the receive starts.  Threads may share one      *)
(* qd_netlink_t: nl->lock covers sendto only, not the send buffer, the     *)
(* sequence number or the receive.                                         *)
(***************************************************************************)
EXTENDS Naturals, Sequences, SequencesExt, FiniteSets

CONSTANTS NLThreads,
          NLCalls,        \* requests made, over all threads
          NLEvents,       \* loads, unloads and notifications of the kernel module
          NameLen,        \* bytes of the family name, with its final 0
          MAX_ATTRS

VARIABLES family,      \* kernel: id of the registered family, 0 when there is none
          nextId,      \* kernel: id the next registration gets
          group,       \* kernel: the socket is a member of the events group
          family_id,   \* nl->family_id
          seq,         \* nl->seq
          send_buf,    \* nl->send_buf
          queue,       \* messages to be received
          user,        \* per thread: pc, request, whether it is alone on the socket
          made, changes

nlVars == <<family, nextId, group, family_id, seq, send_buf, queue, user, made, changes>>

-----------------------------------------------------------------------------
(* Attributes: nla_put and the loops that walk over them *)

HDRLEN == 4
Align(n) == ((n + 3) \div 4) * 4
Attr(type, len, data) == [type |-> type, len |-> HDRLEN + len, data |-> data]

\* Offset of the i-th attribute, and the length of them all
RECURSIVE AttrOffset(_, _)
AttrOffset(attrs, i) == IF i = 1 THEN 0 ELSE AttrOffset(attrs, i - 1) + Align(attrs[i - 1].len)
Total(attrs) == AttrOffset(attrs, Len(attrs) + 1)

AttrsAt(attrs, at) == {i \in 1..Len(attrs) : AttrOffset(attrs, i) = at}

\* NLA_OK at an offset.  Past the last attribute, or between two, the loops
\* read what is no attribute header: padding, which is 0.
NlaOk(attrs, at, remaining) ==
  \E i \in AttrsAt(attrs, at) : remaining >= HDRLEN /\ attrs[i].len <= remaining
The(attrs, at) == attrs[CHOOSE i \in AttrsAt(attrs, at) : TRUE]
LenAt(attrs, at) == IF AttrsAt(attrs, at) = {} THEN 0 ELSE The(attrs, at).len

\* The loop of qd_netlink_recv
RECURSIVE Parsed(_, _, _, _)
Parsed(attrs, at, remaining, n) ==
  IF NlaOk(attrs, at, remaining) /\ n < MAX_ATTRS
  THEN LET a == The(attrs, at) IN
       <<a>> \o Parsed(attrs, at + Align(a.len), remaining - Align(a.len), n + 1)
  ELSE <<>>

\* A bug: the step to the next attribute forgets the padding.
RECURSIVE FamilyIdPacked(_, _, _)
FamilyIdPacked(attrs, at, remaining) ==
  IF ~NlaOk(attrs, at, remaining) THEN 0
  ELSE IF The(attrs, at).type = "family_id" THEN The(attrs, at).data
  ELSE FamilyIdPacked(attrs, at + The(attrs, at).len, remaining - The(attrs, at).len)

\* The loop of qd_netlink_resolve_family, which subtracts the length of the
\* attribute it has stepped to
RECURSIVE FamilyIdIn(_, _, _)
FamilyIdIn(attrs, at, remaining) ==
  IF ~NlaOk(attrs, at, remaining) THEN 0
  ELSE IF The(attrs, at).type = "family_id" THEN The(attrs, at).data
  ELSE LET next == at + Align(The(attrs, at).len) IN
       FamilyIdIn(attrs, next, remaining - Align(LenAt(attrs, next)))

\* qd_netlink_msg_get_attr and qd_netlink_msg_get_str
GetStr(attrs, type) ==
  LET I == {i \in 1..Len(attrs) : attrs[i].type = type} IN
  IF I = {} THEN "null" ELSE attrs[CHOOSE i \in I : \A j \in I : i <= j].data

-----------------------------------------------------------------------------
(* The kernel: the controller (external), and the handlers of qd_kmod.c *)

Text(s) == Attr("msg", 4, s)
NLReply(req, attrs) == [type |-> "reply", cmd |-> req.cmd, seq |-> req.seq, attrs |-> attrs]
NLError(req) == [type |-> "error", cmd |-> req.cmd, seq |-> req.seq, attrs |-> <<>>]

\* CTRL_CMD_GETFAMILY: name, id and version of the family, in this order
Controller(req) ==
  IF family = 0 THEN NLError(req)
  ELSE NLReply(req, << Attr("family_name", NameLen, "name"), Attr("family_id", 2, family),
                     Attr("version", 4, "1") >>)

qd_cmd_echo(req) ==
  IF ~\E i \in 1..Len(req.attrs) : req.attrs[i].type = "msg" THEN <<NLError(req)>>
  ELSE <<NLReply(req, <<Text(GetStr(req.attrs, "msg"))>>)>>

qd_cmd_info(req) == <<NLReply(req, <<Text("version"), Attr("status", 4, "0")>>)>>

\* The command numbers differ: REGISTER is 2 for the daemon, which is INFO for
\* the module, and the module has no operation for UNREGISTER and GET_INFO.
Handle(req) ==
  IF req.id # family THEN <<NLError(req)>>
  ELSE CASE req.cmd = "echo" -> qd_cmd_echo(req)
         [] req.cmd = "register" -> qd_cmd_info(req)
         [] OTHER -> <<NLError(req)>>

NLIdle == [pc |-> "idle", cmd |-> "none", seq |-> 0, text |-> "null", alone |-> FALSE, reply |-> "null"]

NLInit ==
  /\ family \in {0, 1} /\ nextId = family + 1 /\ group = FALSE
  /\ family_id = 0 /\ seq = 1 /\ queue = <<>>
  /\ send_buf = [cmd |-> "none", seq |-> 0, id |-> 0, attrs |-> <<>>]
  /\ user = [t \in NLThreads |-> NLIdle] /\ made = 0 /\ changes = 0

UserSame == UNCHANGED <<family_id, seq, send_buf, user, made>>
KernelSame == UNCHANGED <<family, nextId, group, changes>>
Busy(t) == user[t].pc # "idle"
Disturb(who) == [t \in NLThreads |-> IF t \in who THEN user[t]
                                     ELSE [user[t] EXCEPT !.alone = FALSE]]

\* qd_kmod_init
Load ==
  /\ family = 0 /\ changes < NLEvents /\ changes' = changes + 1
  /\ family' = nextId /\ nextId' = nextId + 1
  /\ UserSame /\ UNCHANGED <<group, queue>>

\* qd_kmod_exit: the members of its groups are removed.
Unload ==
  /\ family # 0 /\ changes < NLEvents /\ changes' = changes + 1
  /\ family' = 0 /\ group' = FALSE
  /\ UserSame /\ UNCHANGED <<nextId, queue>>

qd_send_notify ==
  /\ family # 0 /\ changes < NLEvents /\ changes' = changes + 1
  /\ IF group THEN /\ queue' = Append(queue, [type |-> "reply", cmd |-> "notify", seq |-> 0,
                                              attrs |-> <<Text("news")>>])
                   /\ user' = Disturb({})
     ELSE UNCHANGED <<queue, user>>
  /\ UNCHANGED <<family, nextId, group, family_id, seq, send_buf, made>>

-----------------------------------------------------------------------------
(* The daemon's side *)

Alone(t) == queue = <<>> /\ \A u \in NLThreads \ {t} : ~Busy(u)

\* qd_netlink_send_msg up to sendto: the request is built in the send buffer,
\* without the lock.  "empty" is an echo request without its text.
Build(t, cmd, text) ==
  /\ ~Busy(t) /\ made < NLCalls /\ family_id # 0
  /\ made' = made + 1 /\ seq' = seq + 1
  /\ send_buf' = [cmd |-> cmd, seq |-> seq, id |-> family_id,
                  attrs |-> IF text = "empty" THEN <<>>
                            ELSE IF cmd = "echo" THEN <<Text(text)>>
                            ELSE <<Attr("pid", 4, text)>>]
  /\ user' = [Disturb({t}) EXCEPT ![t] = [NLIdle EXCEPT !.pc = "send", !.cmd = cmd, !.seq = seq,
                                                      !.text = text, !.alone = Alone(t)]]
  /\ UNCHANGED <<family_id, queue>> /\ KernelSame

\* sendto under nl->lock; the kernel's handler runs inside it.
Transmit(t) ==
  /\ user[t].pc = "send" /\ queue' = queue \o Handle(send_buf)
  /\ user' = [user EXCEPT ![t].pc = "recv"]
  /\ UNCHANGED <<family_id, seq, send_buf, made>> /\ KernelSame

\* qd_netlink_recv: the first message is the answer, whatever its number.
NLRecv(t) ==
  /\ user[t].pc = "recv" /\ queue # <<>> /\ queue' = Tail(queue)
  /\ LET m == Head(queue) IN
     user' = [Disturb({t}) EXCEPT ![t].pc = IF m.type = "error" THEN "failed" ELSE "answered",
                ![t].reply = IF m.type = "error" THEN "null"
                             ELSE GetStr(Parsed(m.attrs, 0, Total(m.attrs), 0), "msg")]
  /\ UNCHANGED <<family_id, seq, send_buf, made>> /\ KernelSame

NLTimesOut(t) ==
  /\ user[t].pc = "recv" /\ queue = <<>> /\ user' = [user EXCEPT ![t].pc = "failed"]
  /\ UNCHANGED <<family_id, seq, send_buf, queue, made>> /\ KernelSame

\* qd_netlink_echo, qd_netlink_get_info, ... return
NLReturns(t) ==
  /\ user[t].pc \in {"failed", "answered", "resolved"} /\ user' = [user EXCEPT ![t] = NLIdle]
  /\ UNCHANGED <<family_id, seq, send_buf, queue, made>> /\ KernelSame

\* qd_netlink_resolve_family: request and receive, here with nobody else on
\* the socket (qd_netlink_create_ex calls it before it returns the handle)
Resolve(t) ==
  /\ \A u \in NLThreads : ~Busy(u)
  /\ made < NLCalls /\ made' = made + 1 /\ seq' = seq + 1
  /\ LET q == Append(queue, Controller([cmd |-> "getfamily", seq |-> seq]))
         m == Head(q)
         id == FamilyIdIn(m.attrs, 0, Total(m.attrs)) IN
     /\ queue' = Tail(q)
     /\ family_id' = IF m.type # "error" /\ id # 0 THEN id ELSE family_id
     /\ user' = [user EXCEPT ![t] = [NLIdle EXCEPT !.pc = "resolved", !.alone = queue = <<>>]]
  /\ UNCHANGED send_buf /\ KernelSame

\* One round of qd_netlink_process
NLProcess ==
  /\ queue # <<>> /\ queue' = Tail(queue) /\ user' = Disturb({})
  /\ UNCHANGED <<family_id, seq, send_buf, made>> /\ KernelSame

\* qd_netlink_subscribe and qd_netlink_unsubscribe
Subscribe(on) ==
  /\ family # 0 /\ group # on /\ group' = on
  /\ UserSame /\ UNCHANGED <<family, nextId, queue, changes>>

NLNext ==
  \/ Load \/ Unload \/ qd_send_notify \/ NLProcess \/ \E on \in BOOLEAN : Subscribe(on)
  \/ \E t \in NLThreads : \/ Build(t, "echo", "hello") \/ Build(t, "echo", "empty")
                          \/ Build(t, "register", "me") \/ Build(t, "get_info", "empty")
                          \/ Transmit(t) \/ NLRecv(t) \/ NLTimesOut(t) \/ NLReturns(t) \/ Resolve(t)

-----------------------------------------------------------------------------
(* Properties *)

\* Whatever the module does meanwhile (loaded, unloaded, loaded again under
\* another id), qd_netlink_request of a thread alone on a drained socket finds
\* exactly one message, the one to its own request, so it never runs into its
\* five-second timeout.
AnswerReady ==
  \A t \in NLThreads : (user[t].pc = "recv" /\ user[t].alone) =>
                          Len(queue) = 1 /\ Head(queue).seq = user[t].seq

\* qd_netlink_echo returns the text it was given.
EchoReturns ==
  \A t \in NLThreads : (user[t].pc = "answered" /\ user[t].cmd = "echo" /\ user[t].alone) =>
                          user[t].reply = user[t].text

\* Requests of a thread alone on the socket are answered so at every step, and
\* qd_netlink_resolve_family finds the id of a registered family although it
\* subtracts the wrong attribute's length from what remains.
NetlinkExact ==
  [][/\ AnswerReady' /\ EchoReturns'
     /\ \A t \in NLThreads :
          (Resolve(t) /\ queue = <<>> /\ family # 0) => family_id' = family]_nlVars
=============================================================================
