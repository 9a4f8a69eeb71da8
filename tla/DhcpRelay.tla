----------------------------- MODULE DhcpRelay ------------------------------
(***************************************************************************)
(* examples/dhcp/src/dhcp_relay.c and dhcp_option.c: one request on its    *)
(* way from a client through the relay to a server, and the reply back.    *)
(*                                                                         *)
(* The options area of a packet is a sequence of MAX bytes, as in          *)
(* dhcp_packet_t, because what may go wrong there are lengths, padding and *)
(* data bytes that look like an END.  Client, server and network are       *)
(* external; both ends build their options with dhcp_option_add and read   *)
(* them with dhcp_options_parse.                                           *)
(***************************************************************************)
EXTENDS Integers, Sequences, FiniteSets

CONSTANTS
  MAX,          \* DHCP_MAX_OPTIONS_SIZE
  OptionPool,   \* options the ends may add: <<code, data>>
  IfTable,      \* interfaces that can be configured: [idx, gi]
  MAX_HOPS,     \* max_hops
  RelayServers, \* addresses of servers
  MAX_SERVERS,  \* DHCP_RELAY_MAX_SERVERS
  MaxConf       \* bound: changes of interfaces and servers

PAD == 0
END == 9
RELAY_AGENT == 8

VARIABLES
  ifaces,       \* the relay's interfaces, in order
  conf,         \* [insert, replace]: insert_option82, replace_option82
  servers,      \* server_addrs
  changes,      \* changes of interfaces and servers so far
  pk,           \* [at, hops, gi, opts, len, out]: the packet
  added,        \* history: options its sender put into the packet
  from,         \* history: the interface the request came in on
  plain         \* history: interfaces unambiguous and unchanged, nothing cut off

rlVars == <<ifaces, conf, servers, changes, pk, added, from, plain>>

-----------------------------------------------------------------------------
(* dhcp_option.c.  Positions start at 1. *)

Zeros82(n) == [i \in 1 .. n |-> 0]
Padded(bytes) == SubSeq(bytes \o Zeros82(MAX), 1, MAX)

\* The walk all functions share: fields from position i on, a pad being <<0>>
Fields(o) ==
  LET f[i \in 1 .. MAX + 1] ==
        IF i > MAX \/ o[i] = END THEN <<>>
        ELSE IF o[i] = PAD THEN <<<<PAD>>>> \o f[i + 1]
        ELSE IF i + 1 > MAX \/ i + 2 + o[i + 1] > MAX + 1 THEN <<>>
        ELSE <<SubSeq(o, i, i + 1 + o[i + 1])>> \o f[i + 2 + o[i + 1]]
  IN  f[1]

RECURSIVE Flat(_)
Flat(ss) == IF ss = <<>> THEN <<>> ELSE Head(ss) \o Flat(Tail(ss))

dhcp_options_parse(o) == SelectSeq(Fields(o), LAMBDA x : x[1] # PAD)
dhcp_has_option82(o) == \E i \in DOMAIN Fields(o) : Fields(o)[i][1] = RELAY_AGENT

\* The position of END, 0 when there is none
EndAt(o) == LET n == Len(Flat(Fields(o))) + 1 IN IF n <= MAX /\ o[n] = END THEN n ELSE 0

\* dhcp_option_add keeps one byte for END.
CanAdd(bytes, x) == Len(bytes) + 2 + Len(x[2]) <= MAX - 1
dhcp_option_add(bytes, x) == bytes \o <<x[1], Len(x[2])>> \o x[2]
dhcp_option_list_serialize(bytes) == Padded(bytes \o <<END>>)

\* An option that would end on the last byte is dropped.
dhcp_option_strip_relay_info(o) ==
  LET kept == SelectSeq(Fields(o), LAMBDA x : x[1] # RELAY_AGENT)
      room == {i \in DOMAIN kept : Len(kept[i]) = 1 \/ Len(Flat(SubSeq(kept, 1, i))) < MAX}
      bytes == Flat(SelectSeq([i \in DOMAIN kept |-> IF i \in room THEN kept[i] ELSE <<>>],
                              LAMBDA x : x # <<>>))
  IN  Padded(IF Len(bytes) < MAX THEN bytes \o <<END>> ELSE bytes)

\* Circuit id: the interface; remote id: the relay
Option82(idx) == <<RELAY_AGENT, 6, 1, 1, idx, 2, 1, END>>

\* Nothing is added when an id cannot be built or there is no room; an option
\* 82 stripped before that stays stripped.
dhcp_relay_add_option82(o, idx, built) ==
  IF dhcp_has_option82(o) /\ ~ conf.replace THEN o
  ELSE LET s == IF dhcp_has_option82(o) THEN dhcp_option_strip_relay_info(o) ELSE o
           e == EndAt(s)
           x == Option82(idx)
       IN  IF ~ built \/ e = 0 \/ e + Len(x) > MAX THEN s
           ELSE Padded(SubSeq(s, 1, e - 1) \o x \o <<END>>)

-----------------------------------------------------------------------------
(* Interfaces and servers *)

GiOf(idx) == {ifaces[i].gi : i \in {k \in DOMAIN ifaces : ifaces[k].idx = idx}}
Unambiguous(s) == \A i, k \in DOMAIN s : s[i].gi = s[k].gi => i = k

RLInit ==
  /\ ifaces = <<>> /\ conf \in [insert : BOOLEAN, replace : BOOLEAN] /\ servers = <<>> /\ changes = 0
  /\ pk = [at |-> "client", hops |-> 0, gi |-> 0, opts |-> <<>>, len |-> MAX, out |-> 0]
  /\ added = <<>> /\ from = 0 /\ plain = TRUE

dhcp_relay_add_interface(f) ==
  /\ changes < MaxConf /\ changes' = changes + 1
  /\ \A i \in DOMAIN ifaces : ifaces[i].idx # f.idx
  /\ ifaces' = Append(ifaces, f)
  /\ plain' = (plain /\ Unambiguous(ifaces')) /\ UNCHANGED <<conf, servers, pk, added, from>>

dhcp_relay_remove_interface(i) ==
  /\ changes < MaxConf /\ changes' = changes + 1
  /\ ifaces' = [k \in 1 .. Len(ifaces) - 1 |-> ifaces[IF k < i THEN k ELSE k + 1]]
  /\ plain' = (plain /\ ifaces[i].idx # from)
  /\ UNCHANGED <<conf, servers, pk, added, from>>

dhcp_relay_add_server(a) ==
  /\ changes < MaxConf /\ changes' = changes + 1
  /\ Len(servers) < MAX_SERVERS /\ \A i \in DOMAIN servers : servers[i] # a
  /\ servers' = Append(servers, a) /\ UNCHANGED <<ifaces, conf, pk, added, from, plain>>

dhcp_relay_remove_server(a) ==
  /\ changes < MaxConf /\ changes' = changes + 1
  /\ \E i \in DOMAIN servers : servers[i] = a
  /\ servers' = SelectSeq(servers, LAMBDA x : x # a)
  /\ UNCHANGED <<ifaces, conf, pk, added, from, plain>>

-----------------------------------------------------------------------------
(* The ends *)

\* Client and server build their options, and send them.
Build(x) ==
  /\ pk.at \in {"client", "answering"} /\ CanAdd(pk.opts, x)
  /\ pk' = [pk EXCEPT !.opts = dhcp_option_add(@, x)]
  /\ added' = Append(added, dhcp_option_add(<<>>, x))
  /\ UNCHANGED <<ifaces, conf, servers, changes, from, plain>>

ClientSends(idx, hops) ==
  /\ pk.at = "client" /\ from' = idx
  /\ pk' = [pk EXCEPT !.at = "relay", !.opts = dhcp_option_list_serialize(@), !.hops = hops,
                      !.len = Len(pk.opts) + 1]
  /\ UNCHANGED <<ifaces, conf, servers, changes, added, plain>>

\* The server's answer, with the packet's giaddr
ServerTakes ==
  /\ pk.at = "network"
  /\ pk' = [pk EXCEPT !.at = "answering", !.opts = <<>>] /\ added' = <<>>
  /\ UNCHANGED <<ifaces, conf, servers, changes, from, plain>>

\* An answer may carry the relay's option back, before or after its own.
ServerSends(echo) ==
  /\ pk.at = "answering"
  /\ LET bytes == CASE echo = "none"  -> pk.opts
                    [] echo = "front" -> Option82(from) \o pk.opts
                    [] echo = "back"  -> pk.opts \o Option82(from)
     IN  /\ Len(bytes) < MAX
         /\ pk' = [pk EXCEPT !.at = "reply", !.opts = dhcp_option_list_serialize(bytes), !.len = MAX]
  /\ UNCHANGED <<ifaces, conf, servers, changes, added, from, plain>>

\* The forwarded packet comes round, as a client's, on an interface of the relay.
Loops(idx) ==
  /\ pk.at = "network" /\ GiOf(idx) # {} /\ pk' = [pk EXCEPT !.at = "again"]
  /\ UNCHANGED <<ifaces, conf, servers, changes, added, from, plain>>

-----------------------------------------------------------------------------
(* The relay *)

Dropped == pk' = [pk EXCEPT !.at = "dropped"] /\ UNCHANGED plain

Refused(idx) == servers = <<>> \/ pk.hops >= MAX_HOPS \/ GiOf(idx) = {}

\* Defect: the giaddr of a relay on the way is replaced.
GiaddrLast(idx) == CHOOSE g \in GiOf(idx) : TRUE

\* giaddr is set unless another relay has set it.
Giaddr(idx) == IF pk.gi = 0 THEN CHOOSE g \in GiOf(idx) : TRUE ELSE pk.gi

\* pkt_len is handed on as it came: `whole` when the caller gives the size of
\* the structure and not that of the packet received, behind which option 82
\* is cut off.  A send that fails for every server drops the packet.
dhcp_relay_process_client_packet(idx, whole, built) ==
  /\ pk.at = "again" \/ (pk.at = "relay" /\ idx = from)
  /\ \/ Dropped
     \/ /\ ~ Refused(idx)
        /\ LET o == IF conf.insert THEN dhcp_relay_add_option82(pk.opts, idx, built) ELSE pk.opts
               n == IF whole THEN MAX ELSE pk.len
           IN  /\ pk' = [pk EXCEPT !.at = "network", !.hops = @ + 1, !.len = n,
                            !.gi = Giaddr(idx), !.opts = Padded(SubSeq(o, 1, n))]
               /\ plain' = (plain /\ pk'.opts = o)
  /\ UNCHANGED <<ifaces, conf, servers, changes, added, from>>

\* The first interface with the giaddr gets the reply.
dhcp_relay_process_server_packet ==
  /\ pk.at = "reply"
  /\ LET hits == {i \in DOMAIN ifaces : ifaces[i].gi = pk.gi}
     IN  \/ Dropped
         \/ /\ hits # {}
            /\ pk' = [pk EXCEPT !.at = "delivered", !.gi = 0,
                         !.out = ifaces[CHOOSE i \in hits : \A k \in hits : i <= k].idx,
                         !.opts = IF dhcp_has_option82(@) THEN dhcp_option_strip_relay_info(@) ELSE @]
            /\ UNCHANGED plain
  /\ UNCHANGED <<ifaces, conf, servers, changes, added, from>>

RLNext ==
  \/ \E f \in IfTable :
       \/ dhcp_relay_add_interface(f) \/ Loops(f.idx)
       \/ \E hops \in 0 .. MAX_HOPS : ClientSends(f.idx, hops)
       \/ \E whole, built \in BOOLEAN : dhcp_relay_process_client_packet(f.idx, whole, built)
  \/ \E i \in DOMAIN ifaces : dhcp_relay_remove_interface(i)
  \/ \E a \in RelayServers : dhcp_relay_add_server(a) \/ dhcp_relay_remove_server(a)
  \/ \E x \in OptionPool : Build(x)
  \/ ServerTakes \/ dhcp_relay_process_server_packet
  \/ \E echo \in {"none", "front", "back"} : ServerSends(echo)

RLSpec == RLInit /\ [][RLNext]_rlVars

-----------------------------------------------------------------------------

\* However often a packet comes round, a relay forwards it only while its hop
\* count is below max_hops.
HopsBounded == pk.hops <= MAX_HOPS

\* The reply goes out on the interface its request came in on, also through a
\* loop, when no two interfaces share a giaddr and none is removed meanwhile.
RepliesHome == pk.at = "delivered" /\ plain => pk.out = from

\* Unless pkt_len cuts them off, the options that arrive are the options added,
\* in order: at the server with at most one option 82 at the end, at the
\* client with none.
OptionsArrive ==
  LET got == dhcp_options_parse(pk.opts)
      own == SelectSeq(got, LAMBDA x : x[1] # RELAY_AGENT)
  IN  /\ pk.at \in {"network", "again"} /\ plain => own = added /\ Len(got) <= Len(own) + 1
      /\ pk.at = "delivered" => got = added

\* A packet travels a bounded way, comes home, and carries its options.
RelayExact == HopsBounded /\ RepliesHome /\ OptionsArrive
=============================================================================
