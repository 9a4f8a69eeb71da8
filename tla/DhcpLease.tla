----------------------------- MODULE DhcpLease ------------------------------
(***************************************************************************)
(* examples/dhcp/src/dhcp_lease.c on its own: leases in a list and in hash *)
(* chains, the state machine with its table, expiry and cleanup.  Module   *)
(* DhcpServer uses the part the daemon calls.                              *)
(*                                                                         *)
(* A lease is a node.  `due` is now >= expire_time.                        *)
(***************************************************************************)
EXTENDS Integers, Sequences, FiniteSets

CONSTANTS
  Macs,         \* hardware addresses; 0 is the one of all zeros
  Ips,
  Hash,         \* hardware address -> bucket, for Macs and 0
  MaxLeases     \* DHCP_LEASE_MAX

VARIABLES
  node,         \* 1 .. MaxLeases -> lease, or Gone when not allocated
  all,          \* all_leases
  chain,        \* mac_hash: bucket -> sequence of nodes
  count,        \* lease_count
  calls,        \* history: callbacks for a node since it was last OFFERED or BOUND
  wiped         \* history: a reclaim changed the bucket of a listed lease

leaseVars == <<node, all, chain, count, calls, wiped>>

Gone == [st |-> "GONE", mac |-> 0, ip |-> 0, due |-> TRUE]
Nodes == 1 .. MaxLeases
Buckets == {Hash[m] : m \in Macs \cup {0}}
Dead == {"FREE", "EXPIRED", "DECLINED"}

LDInit ==
  /\ node = [n \in Nodes |-> Gone] /\ all = <<>> /\ chain = [b \in Buckets |-> <<>>]
  /\ count = 0 /\ calls = [n \in Nodes |-> 0] /\ wiped = FALSE

Without(s, n) == SelectSeq(s, LAMBDA x : x # n)
Members(s) == {s[i] : i \in DOMAIN s}
First(s, Test(_)) == {s[i] : i \in {k \in DOMAIN s :
                        Test(s[k]) /\ \A j \in 1 .. k - 1 : ~ Test(s[j])}}

\* A node after its state and fields change, and the histories with it
Becomes(n, l, reported) ==
  /\ node' = [node EXCEPT ![n] = l]
  /\ calls' = [calls EXCEPT ![n] = IF l.st \in {"OFFERED", "BOUND"} THEN 0 ELSE @ + reported]

-----------------------------------------------------------------------------

dhcp_lease_find_by_mac(m) == First(chain[Hash[m]], LAMBDA n : node[n].mac = m)
dhcp_lease_find_by_ip(ip) == First(all, LAMBDA n : node[n].ip = ip)

lease_add_to_hashes(n, m) ==
  /\ all' = <<n>> \o all
  /\ chain' = [chain EXCEPT ![Hash[m]] = <<n>> \o @]

\* The chain is the one of the hardware address the lease has now.
lease_remove_from_hashes(n) ==
  /\ all' = Without(all, n)
  /\ chain' = [chain EXCEPT ![Hash[node[n].mac]] = Without(@, n)]

\* calloc: a node nothing refers to
Unused == {n \in Nodes : node[n] = Gone /\ \A b \in Buckets : n \notin Members(chain[b])}

NewLease(m, ip, st) == \E n \in Unused :
  /\ \A k \in Unused : n <= k
  /\ lease_add_to_hashes(n, m) /\ count' = count + 1
  /\ Becomes(n, [st |-> st, mac |-> m, ip |-> ip, due |-> FALSE], 0)

\* dhcp_lease_create refuses a full database also to a client it knows,
\* dhcp_lease_create_offered does not.
dhcp_lease_create(m, ip) ==
  /\ count < MaxLeases
  /\ LET hit == dhcp_lease_find_by_mac(m)
     IN  \/ hit = {} /\ NewLease(m, ip, "BOUND")
         \/ \E n \in hit : /\ Becomes(n, [node[n] EXCEPT !.st = "BOUND", !.ip = ip, !.due = FALSE], 0)
                           /\ UNCHANGED <<all, chain, count>>
  /\ UNCHANGED wiped

dhcp_lease_create_offered(m, ip) ==
  /\ LET hit == dhcp_lease_find_by_mac(m)
     IN  \/ hit = {} /\ count < MaxLeases /\ NewLease(m, ip, "OFFERED")
         \/ \E n \in hit : /\ Becomes(n, [node[n] EXCEPT !.st = "OFFERED", !.ip = ip, !.due = FALSE], 0)
                           /\ UNCHANGED <<all, chain, count>>
  /\ UNCHANGED wiped

dhcp_lease_delete(n) ==
  /\ lease_remove_from_hashes(n) /\ count' = count - 1
  /\ Becomes(n, Gone, 0) /\ UNCHANGED wiped

dhcp_lease_delete_by_ip(ip) == \E n \in dhcp_lease_find_by_ip(ip) : dhcp_lease_delete(n)
dhcp_lease_delete_by_mac(m) == \E n \in dhcp_lease_find_by_mac(m) : dhcp_lease_delete(n)

\* dhcp_lease_bind, _renew, _release and _decline: only the first two look at
\* the state.
SetState(n, from, to, due) ==
  /\ node[n].st \in from /\ Becomes(n, [node[n] EXCEPT !.st = to, !.due = due], 0)
  /\ UNCHANGED <<all, chain, count, wiped>>

dhcp_lease_bind(n) == SetState(n, {"OFFERED", "BOUND"}, "BOUND", FALSE)
dhcp_lease_renew(n) == SetState(n, {"BOUND"}, "BOUND", FALSE)
dhcp_lease_release(n) == SetState(n, {node[n].st}, "FREE", TRUE)
dhcp_lease_decline(n) == SetState(n, {node[n].st}, "DECLINED", node[n].due)

-----------------------------------------------------------------------------
(* The state machine *)

\* g_trans_table: state, event, next state, action; NO_TRANS elsewhere
g_trans_table == {
  <<"FREE", "DISCOVER", "OFFERED", "start_offer">>,
  <<"OFFERED", "DISCOVER", "OFFERED", "start_offer">>,
  <<"OFFERED", "REQUEST", "BOUND", "bind">>,
  <<"OFFERED", "RELEASE", "FREE", "release">>,
  <<"OFFERED", "DECLINE", "DECLINED", "decline">>,
  <<"OFFERED", "TIMEOUT", "FREE", "timeout_offer">>,
  <<"BOUND", "REQUEST", "BOUND", "bind">>,
  <<"BOUND", "RENEW", "BOUND", "bind">>,
  <<"BOUND", "REBIND", "BOUND", "bind">>,
  <<"BOUND", "RELEASE", "FREE", "release">>,
  <<"BOUND", "DECLINE", "DECLINED", "decline">>,
  <<"BOUND", "EXPIRE", "EXPIRED", "expire">>,
  <<"EXPIRED", "DISCOVER", "OFFERED", "start_offer">>,
  <<"EXPIRED", "TIMEOUT", "FREE", "reclaim">>,
  <<"DECLINED", "TIMEOUT", "FREE", "reclaim">>,
  <<"RESERVED", "DISCOVER", "OFFERED", "start_offer">>,
  <<"RESERVED", "REQUEST", "BOUND", "bind">>,
  <<"RESERVED", "RENEW", "BOUND", "bind">>,
  <<"RESERVED", "REBIND", "BOUND", "bind">>,
  <<"RESERVED", "RELEASE", "RESERVED", "release">>,
  <<"RESERVED", "EXPIRE", "RESERVED", "expire">>,
  <<"RESERVED", "TIMEOUT", "RESERVED", "timeout_offer">> }

Events == {"DISCOVER", "REQUEST", "RELEASE", "DECLINE", "EXPIRE", "TIMEOUT", "RENEW", "REBIND"}

\* action_bind_lease and action_renew_lease set a new expire_time,
\* action_decline_lease one in an hour, action_release_lease and
\* action_reclaim_expired clear it; start_offer leaves it to its caller.
Acted(l, action) ==
  CASE action \in {"bind", "decline"} -> [l EXCEPT !.due = FALSE]
    [] action = "release"             -> [l EXCEPT !.due = TRUE]
    [] action = "reclaim"             -> [l EXCEPT !.due = TRUE, !.mac = 0]
    [] OTHER                          -> l

\* on_enter_free clears expire_time, on_enter_declined sets it.
Entered(l, st) == [l EXCEPT !.st = st, !.due = IF st = "FREE" THEN TRUE
                                               ELSE IF st = "DECLINED" THEN FALSE ELSE @]

\* The action and the handler of the state entered both call the callback.
dhcp_lease_transition_ex(n, event) == \E t \in g_trans_table :
  /\ t[1] = node[n].st /\ t[2] = event
  /\ LET l == Entered(Acted(node[n], t[4]), t[3])
         reported == (IF t[4] = "expire" THEN 1 ELSE 0) + (IF t[3] = "EXPIRED" THEN 1 ELSE 0)
     IN  Becomes(n, l, reported) /\ wiped' = (wiped \/ Hash[l.mac] # Hash[node[n].mac])
  /\ UNCHANGED <<all, chain, count>>

-----------------------------------------------------------------------------
(* Expiry *)

Lapsed(n) == node[n].st \in {"BOUND", "OFFERED"} /\ node[n].due

TimePasses(n) ==
  /\ node[n].st # "GONE" /\ ~ node[n].due /\ node' = [node EXCEPT ![n].due = TRUE]
  /\ UNCHANGED <<all, chain, count, calls, wiped>>

\* dhcp_lease_expire for the leases of a set; process_expirations sets no timer
\* and takes nothing off a list.
dhcp_lease_expire(over) ==
  /\ node' = [n \in Nodes |-> IF n \in over THEN [node[n] EXCEPT !.st = "EXPIRED"] ELSE node[n]]
  /\ calls' = [n \in Nodes |-> IF n \in over THEN calls[n] + 1 ELSE calls[n]]

dhcp_lease_db_process_expirations ==
  LET over == {n \in Members(all) : Lapsed(n)}
  IN  over # {} /\ dhcp_lease_expire(over) /\ UNCHANGED <<all, chain, count, wiped>>

\* Defect: the leases leave the list, not their chains.
CleanupListOnly ==
  LET old == {n \in Members(all) : node[n].st \in {"EXPIRED", "FREE"}}
  IN  /\ old # {}
      /\ node' = [n \in Nodes |-> IF n \in old THEN Gone ELSE node[n]]
      /\ all' = SelectSeq(all, LAMBDA n : n \notin old)
      /\ count' = count - Cardinality(old)
      /\ UNCHANGED <<chain, calls, wiped>>

\* dhcp_lease_delete for each
dhcp_lease_db_cleanup_expired ==
  LET old == {n \in Members(all) : node[n].st \in {"EXPIRED", "FREE"}}
  IN  /\ old # {}
      /\ node' = [n \in Nodes |-> IF n \in old THEN Gone ELSE node[n]]
      /\ all' = SelectSeq(all, LAMBDA n : n \notin old)
      /\ chain' = [b \in Buckets |->
                     SelectSeq(chain[b], LAMBDA n : n \notin old \/ Hash[node[n].mac] # b)]
      /\ count' = count - Cardinality(old)
      /\ UNCHANGED <<calls, wiped>>

LDStep ==
  \/ \E m \in Macs, ip \in Ips : dhcp_lease_create(m, ip) \/ dhcp_lease_create_offered(m, ip)
  \/ \E m \in Macs : dhcp_lease_delete_by_mac(m)
  \/ \E ip \in Ips : dhcp_lease_delete_by_ip(ip)
  \/ \E n \in Members(all) :
       \/ dhcp_lease_bind(n) \/ dhcp_lease_renew(n) \/ dhcp_lease_release(n)
       \/ dhcp_lease_decline(n) \/ TimePasses(n)
       \/ \E event \in Events : dhcp_lease_transition_ex(n, event)
  \/ dhcp_lease_db_process_expirations
  \/ dhcp_lease_db_cleanup_expired

\* A lease left in the wrong chain is freed there: nothing is said of what the
\* program does with the pointer.
LDNext == ~ wiped /\ LDStep

LDSpec == LDInit /\ [][LDNext]_leaseVars

-----------------------------------------------------------------------------

\* Until a reclaim (action_reclaim_expired) clears the hardware address of a
\* lease that stays in its old chain, list and chains hold the same leases,
\* each once, each in the chain dhcp_lease_find_by_mac looks in, no two of one
\* client, no freed one, and lease_count counts them.
ChainsExact ==
  ~ wiped =>
    /\ \A b \in Buckets : Members(chain[b]) = {n \in Members(all) : Hash[node[n].mac] = b}
    /\ Members(all) = {n \in Nodes : node[n].st # "GONE"}
    /\ count = Len(all) /\ count = Cardinality(Members(all))
    /\ \A n, k \in Members(all) : n # k /\ node[n].mac = node[k].mac => node[n].mac = 0

\* Every lease that is EXPIRED was reported to the callback, by
\* dhcp_lease_expire once and by the table twice.
ExpiryReported ==
  \A n \in Nodes : node[n].st = "EXPIRED" => calls[n] \in 1 .. 2

\* "Must go through DISCOVER first" (EXPIRED), "IP is poisoned, don't reuse"
\* (DECLINED): whatever the order of events and calls, only dhcp_lease_create
\* binds a lease that is FREE, EXPIRED or DECLINED; and every step leaves the
\* database and the reports of expiry exact.
LeaseLife ==
  [][/\ ChainsExact' /\ ExpiryReported'
     /\ \A n \in Nodes : node[n].st \in Dead /\ node'[n].st = "BOUND" =>
          \E m \in Macs, ip \in Ips : dhcp_lease_create(m, ip)]_leaseVars
=============================================================================
