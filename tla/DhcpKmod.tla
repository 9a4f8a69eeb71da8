------------------------------ MODULE DhcpKmod ------------------------------
(***************************************************************************)
(* The DHCP snooping kernel module, examples/dhcp/kernel/qd_dhcp_kmod.c:   *)
(* the binding table, the table of monitored interfaces, the two packet    *)
(* hooks, and the character device on which a client reads the changes.    *)
(*                                                                         *)
(* A command changes a table under that table's spin lock and announces    *)
(* the change after the lock is released, so the two are separate steps of *)
(* the calling process: `pend' is what a caller still has to announce.     *)
(* The device keeps a queue per open file; one file is modelled, with the  *)
(* picture (`view') its reader builds from the announcements.              *)
(*                                                                         *)
(* `faithful' is history: every change since the reader subscribed has     *)
(* been, or is about to be, announced to it, and in the order of the       *)
(* changes.  The code loses this in the ways marked below.                 *)
(***************************************************************************)
EXTENDS Naturals, Sequences

CONSTANTS KMacs, KIps,      \* hardware addresses and the addresses bound
          Ifs,              \* interface indexes; disjoint from KMacs
          MAX_INTERFACES,   \* size of the table of interfaces
          MSG_QUEUE_MAX,    \* QDHCP_CHARDEV_MSG_QUEUE_MAX
          Callers,          \* processes inside the module
          Hooks,            \* intercept_method when the module was loaded
          MaxCmds           \* bound on the commands of the callers

\* A key says what it is the key of, and none is 0.
ASSUME KmodAssumption ==
    KMacs \cap Ifs = {} /\ 0 \notin KMacs \cup Ifs /\ MSG_QUEUE_MAX \in Nat \ {0}

VARIABLES bind,      \* [KMacs -> KIps \cup {0}], 0: not bound
          ifs,       \* the interface table: [idx, active, trusted]
          method,    \* subset of {"pack", "tc"}
          q, sub,    \* the device client's queue and its subscribed flag
          pend,      \* per caller: busy, the note to send, the reply, its seq
          view,      \* what the reader has been told
          faithful,  \* see above
          pkt,       \* the packet on its way through the hooks
          ncmds,     \* commands so far
          ever       \* history: an interface has been configured

kmVars == <<bind, ifs, method, q, sub, pend, view, faithful, pkt, ncmds, ever>>

Keys == KMacs \cup Ifs
NoNote == [k |-> 0, v |-> 0]
Rest == [busy |-> FALSE, note |-> NoNote, ret |-> "ok", seq |-> 0]
NoPacket == [at |-> "none", idx |-> 0, dhcp |-> FALSE, by |-> {}]
Known(i) == \E e \in DOMAIN ifs : ifs[e].idx = i

KMInit ==
    /\ bind = [m \in KMacs |-> 0] /\ ifs = <<>> /\ method = Hooks
    /\ q = <<>> /\ sub = FALSE
    /\ pend = [p \in Callers |-> Rest]
    /\ view = [k \in Keys |-> 0] /\ faithful = FALSE
    /\ pkt = NoPacket /\ ncmds = 0 /\ ever = FALSE

-----------------------------------------------------------------------------
(* What a command does: the possible [bind, ifs, method, note, ret, told]; *)
(* told is FALSE where the code changes a table and announces nothing.     *)

Same == [bind |-> bind, ifs |-> ifs, method |-> method, note |-> NoNote,
         ret |-> "ok", told |-> TRUE]
Fails(e) == {[Same EXCEPT !.ret = e]}

binding_add(mac, ip) ==
    {[Same EXCEPT !.bind[mac] = ip, !.note = [k |-> mac, v |-> ip]]}
      \cup (IF bind[mac] = 0 THEN Fails("ENOMEM") ELSE {})

binding_del(mac) ==
    IF bind[mac] = 0 THEN Fails("ENOENT")
    ELSE {[Same EXCEPT !.bind[mac] = 0, !.note = [k |-> mac, v |-> 0]]}

\* Nothing is announced.
binding_clear_all == {[Same EXCEPT !.bind = [m \in KMacs |-> 0], !.told = FALSE]}

iface_find(i) == {e \in DOMAIN ifs : ifs[e].idx = i /\ ifs[e].active}

\* An inactive entry is revived, with its old trust and no announcement.
iface_add(i) ==
    IF Known(i)
    THEN {[Same EXCEPT !.ifs = [e \in DOMAIN ifs |->
              IF ifs[e].idx = i THEN [ifs[e] EXCEPT !.active = TRUE] ELSE ifs[e]],
                       !.told = iface_find(i) # {}]}
    ELSE IF Len(ifs) >= MAX_INTERFACES THEN Fails("ENOSPC")
    ELSE {[Same EXCEPT !.ifs = Append(ifs, [idx |-> i, active |-> TRUE, trusted |-> FALSE]),
                       !.note = [k |-> i, v |-> 1]]}

\* Defect: the entry is taken out of the table.
DelForgets(i) ==
    IF iface_find(i) = {} THEN Fails("ENOENT")
    ELSE {[Same EXCEPT !.ifs = SelectSeq(ifs, LAMBDA e : e.idx # i),
                       !.note = [k |-> i, v |-> 0]]}

iface_del(i) ==
    IF iface_find(i) = {} THEN Fails("ENOENT")
    ELSE {[Same EXCEPT !.ifs = [e \in DOMAIN ifs |->
              IF ifs[e].idx = i THEN [ifs[e] EXCEPT !.active = FALSE] ELSE ifs[e]],
                       !.note = [k |-> i, v |-> 0]]}

SetTrusted(i, on) ==
    IF iface_find(i) = {} THEN Fails("ENOENT")
    ELSE {[Same EXCEPT !.ifs = [e \in DOMAIN ifs |->
              IF e \in iface_find(i) THEN [ifs[e] EXCEPT !.trusted = on] ELSE ifs[e]]]}

\* A command is [op, k, v]; an attribute that was not sent is <<>>.
AddBinding == [op : {"add"}, k : {<<m>> : m \in KMacs}, v : {<<i>> : i \in KIps}]
DelBinding == [op : {"del"}, k : {<<m>> : m \in KMacs}, v : {<<>>}]
Clear == [op : {"clear"}, k : {<<>>}, v : {<<>>}]
AddInterface == [op : {"ifadd"}, k : {<<i>> : i \in Ifs} \cup {<<>>}, v : {<<>>}]
DelInterface == [op : {"ifdel"}, k : {<<i>> : i \in Ifs}, v : {<<>>}]
Trust == [op : {"trust"}, k : {<<i>> : i \in Ifs}, v : {<<>>, <<FALSE>>, <<TRUE>>}]
Method == [op : {"method"}, k : {<<>>}, v : {<<{}>>, <<{"pack"}>>, <<{"pack", "tc"}>>}]
Commands == AddBinding \cup DelBinding \cup Clear \cup AddInterface \cup DelInterface
              \cup Trust \cup Method

\* The generic netlink handlers.
NetlinkCmd(c) ==
    CASE c.op = "add" /\ c.k # <<>> /\ c.v # <<>> -> binding_add(c.k[1], c.v[1])
      [] c.op = "del" /\ c.k # <<>> -> binding_del(c.k[1])
      [] c.op = "clear" -> binding_clear_all
      [] c.op = "ifadd" /\ c.k # <<>> -> iface_add(c.k[1])
      [] c.op = "ifdel" /\ c.k # <<>> -> iface_del(c.k[1])
      [] c.op = "trust" /\ c.k # <<>> /\ c.v # <<>> -> SetTrusted(c.k[1], c.v[1])
      [] c.op = "method" /\ c.v # <<>> -> {[Same EXCEPT !.method = c.v[1]]}
      [] OTHER -> Fails("EINVAL")

\* The device's commands on interfaces: a missing trust attribute means untrusted.
ChardevIfaceCmd(c) ==
    IF c.k = <<>> THEN Fails("EINVAL")
    ELSE CASE c.op = "ifadd" -> iface_add(c.k[1])
           [] c.op = "ifdel" -> iface_del(c.k[1])
           [] c.op = "trust" -> SetTrusted(c.k[1], c.v = <<TRUE>>)

ChardevBindingCmd(c) ==
    CASE c.op = "add" /\ c.k # <<>> /\ c.v # <<>> -> binding_add(c.k[1], c.v[1])
      [] c.op = "del" /\ c.k # <<>> -> binding_del(c.k[1])
      [] c.op = "clear" -> binding_clear_all
      [] OTHER -> Fails("EINVAL")

ChardevMethodCmd(c) ==
    IF c.v = <<>> THEN Fails("EINVAL") ELSE {[Same EXCEPT !.method = c.v[1]]}

qdhcp_chardev_process_cmd(c) ==
    CASE c.op \in {"ifadd", "ifdel", "trust"} -> ChardevIfaceCmd(c)
      [] c.op \in {"add", "del", "clear"} -> ChardevBindingCmd(c)
      [] c.op = "method" -> ChardevMethodCmd(c)
      [] OTHER -> Fails("EOPNOTSUPP")

-----------------------------------------------------------------------------
Actual(k) == IF k \in KMacs THEN bind[k] ELSE IF iface_find(k) = {} THEN 0 ELSE 1

\* Caller p has run command c, with outcome o, up to the release of the lock.
\* A change without an announcement, or one that overtakes another caller's
\* announcement of the same key, is not told faithfully.
Applies(p, o, s) ==
    /\ bind' = o.bind /\ ifs' = o.ifs /\ method' = o.method
    /\ ever' = (ever \/ o.ifs # <<>>)
    /\ pend' = [pend EXCEPT ![p] = [busy |-> TRUE, note |-> o.note, ret |-> o.ret, seq |-> s]]
    /\ faithful' = /\ faithful /\ o.told
                   /\ \A r \in Callers \ {p} : pend[r].note.k = 0 \/ pend[r].note.k # o.note.k

\* A message put at the end of the client's queue.
Message(t, k, v) == [t |-> t, k |-> k, v |-> v]

\* The oldest message makes room; the message itself may find no memory.
qdhcp_chardev_queue_notification(p) ==
    LET room == IF Len(q) >= MSG_QUEUE_MAX THEN Tail(q) ELSE q
        new == Append(room, Message("note", pend[p].note.k, pend[p].note.v))
    IN \/ ~sub /\ q' = q /\ faithful' = FALSE
       \/ sub /\ q' = new /\ faithful' = (faithful /\ (room = q \/ q[1].t = "resp"))
       \/ sub /\ q' = room /\ faithful' = FALSE

-----------------------------------------------------------------------------
NetlinkCommand(p, c) ==
    /\ ~pend[p].busy /\ ncmds < MaxCmds
    /\ \E o \in NetlinkCmd(c) : Applies(p, o, 0)
    /\ ncmds' = ncmds + 1
    /\ UNCHANGED <<q, sub, view, pkt>>

Announce(p) ==
    /\ pend[p].busy /\ pend[p].note # NoNote
    /\ qdhcp_chardev_queue_notification(p)
    /\ pend' = [pend EXCEPT ![p].note = NoNote]
    /\ UNCHANGED <<bind, ifs, method, ever, sub, view, pkt, ncmds>>

NetlinkReturn(p) ==
    /\ pend[p].busy /\ pend[p].note = NoNote
    /\ pend' = [pend EXCEPT ![p] = Rest]
    /\ UNCHANGED <<bind, ifs, method, ever, q, sub, view, faithful, pkt, ncmds>>

\* The reader takes the oldest message and brings its picture up to date.
qdhcp_chardev_read ==
    /\ q # <<>> /\ q' = Tail(q)
    /\ view' = IF q[1].t = "note" THEN [view EXCEPT ![q[1].k] = q[1].v] ELSE view
    /\ UNCHANGED <<bind, ifs, method, ever, sub, pend, faithful, pkt, ncmds>>

\* SUBSCRIBE by a reader that has just listed the tables, and UNSUBSCRIBE.
\* The listing is not atomic with changes in flight.
qdhcp_chardev_ioctl(on) ==
    /\ sub' = on
    /\ IF on /\ ~sub /\ q = <<>> /\ \A p \in Callers : ~pend[p].busy
       THEN view' = [k \in Keys |-> Actual(k)] /\ faithful' = TRUE
       ELSE UNCHANGED <<view, faithful>>
    /\ UNCHANGED <<bind, ifs, method, ever, q, pend, pkt, ncmds>>

\* The file is closed and opened again: a new client, with nothing queued.
qdhcp_chardev_release ==
    /\ q' = <<>> /\ sub' = FALSE /\ faithful' = FALSE
    /\ UNCHANGED <<bind, ifs, method, ever, pend, view, pkt, ncmds>>

-----------------------------------------------------------------------------
(* A packet passes the ingress classifier and then the protocol handler.   *)

iface_is_monitored(i) == ifs = <<>> \/ iface_find(i) # {}

Forwards(m) == m \in method \cap Hooks /\ iface_is_monitored(pkt.idx) /\ pkt.dhcp

Arrives(i, d) ==
    /\ pkt.at = "none" /\ pkt' = [at |-> "tc", idx |-> i, dhcp |-> d, by |-> {}]
    /\ UNCHANGED <<bind, ifs, method, ever, q, sub, pend, view, faithful, ncmds>>

tc_classify ==
    /\ pkt.at = "tc"
    /\ pkt' = [pkt EXCEPT !.at = "pack", !.by = IF Forwards("tc") THEN {"tc"} ELSE {}]
    /\ UNCHANGED <<bind, ifs, method, ever, q, sub, pend, view, faithful, ncmds>>

ptype_handler ==
    /\ pkt.at = "pack"
    /\ pkt' = [pkt EXCEPT !.at = "done",
                          !.by = @ \cup IF Forwards("pack") THEN {"pack"} ELSE {}]
    /\ UNCHANGED <<bind, ifs, method, ever, q, sub, pend, view, faithful, ncmds>>

\* The daemon has read qdhcp0; the packet's memory is gone.
Consumed ==
    /\ pkt.at = "done" /\ pkt' = NoPacket
    /\ UNCHANGED <<bind, ifs, method, ever, q, sub, pend, view, faithful, ncmds>>

KMNext ==
    \/ \E p \in Callers : \/ \E c \in AddBinding \cup DelBinding \cup Clear
                                    \cup AddInterface \cup DelInterface : NetlinkCommand(p, c)
                          \/ \E c \in Trust : NetlinkCommand(p, c)
                          \/ \E c \in Method : NetlinkCommand(p, c)
                          \/ Announce(p) \/ NetlinkReturn(p)
    \/ qdhcp_chardev_read
    \/ \E on \in BOOLEAN : qdhcp_chardev_ioctl(on)
    \/ qdhcp_chardev_release
    \/ \E i \in Ifs, d \in BOOLEAN : Arrives(i, d)
    \/ tc_classify \/ ptype_handler \/ Consumed

KMSpec == KMInit /\ [][KMNext]_kmVars

-----------------------------------------------------------------------------
\* The last thing said about k in the queue and in the announcements under way.
Told(k) ==
    LET saying == {p \in Callers : pend[p].note.k = k}
        queued == {j \in DOMAIN q : q[j].t = "note" /\ q[j].k = k}
    IN CASE saying # {} -> pend[CHOOSE p \in saying : TRUE].note.v
         [] saying = {} /\ queued # {} ->
              q[CHOOSE j \in queued : \A l \in queued : l <= j].v
         [] OTHER -> view[k]

(***************************************************************************)
(* A subscriber to which every change was announced in order ends up with  *)
(* the module's own tables: once it has read its queue and no command is   *)
(* between its lock and its announcement, view = tables.  Stated for every *)
(* moment: the last announcement queued or under way about a key, or what  *)
(* the reader already knows, is the key's value.                           *)
(***************************************************************************)
ReaderCatchesUp == faithful => \A k \in Keys : Told(k) = Actual(k)

(***************************************************************************)
(* Every step leaves that so; and a packet is handed to the daemon only    *)
(* from an interface that is being monitored at that moment.  "Monitor all *)
(* if none configured" ends with the first interface ever added: deleting  *)
(* every interface again does not bring it back, so a deleted interface    *)
(* stays silent until it is re-added.                                      *)
(***************************************************************************)
KmodExact ==
    [][/\ ReaderCatchesUp'
       /\ pkt'.by # pkt.by /\ pkt'.by # {} => ~ever \/ iface_find(pkt.idx) # {}]_kmVars
=============================================================================
