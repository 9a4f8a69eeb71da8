----------------------------- MODULE DhcpServer -----------------------------
(***************************************************************************)
(* examples/dhcp/src/dhcp_server.c with its address pools (dhcp_pool.c)    *)
(* and its lease database (dhcp_lease.c).                                  *)
(*                                                                         *)
(* The daemon handles one packet or command at a time, in its event loop,  *)
(* so a handler is one step.  Clients may send any packet at any moment,   *)
(* also twice.  A lease of the database is found by the client's hardware  *)
(* address; `order` is the list all_leases, newest first.  Time is the     *)
(* flag `fresh` of a lease: now < expire_time.                             *)
(***************************************************************************)
EXTENDS Integers, Sequences, FiniteSets

CONSTANTS
  MaxReservations, MaxExclusions,   \* per pool
  Clients,      \* hardware addresses
  Ranges,       \* <<[lo, hi], ...>>: the daemon's own pool, then others to add
  Addresses,    \* addresses a packet can name: those of the ranges, and others
  Requests,     \* [rq, ci]: the option "requested address" and ciaddr, or 0
  LEASE_MAX,    \* DHCP_LEASE_MAX
  Exclusions,   \* ranges an administrator may exclude
  MaxAdmin,     \* bound: commands of the administrator
  MaxDrift      \* bound: addresses released more often than allocated

IpRange == [lo : Nat, hi : Nat]

ASSUME DhcpAssumption ==
  /\ 0 \notin Addresses /\ Addresses \subseteq Nat /\ Requests \subseteq [rq : Nat, ci : Nat]
  /\ Ranges \in Seq(IpRange) /\ Ranges # <<>> /\ Exclusions \subseteq IpRange
  /\ LEASE_MAX \in Nat /\ MaxAdmin \in Nat

VARIABLES
  pools,        \* sequence of pools
  lease,        \* client -> [ip, st, fresh], st = "none" without a lease
  order,        \* all_leases
  saved,        \* the lease file: <<[mac, ip, st, fresh], ...>>
  admin,        \* commands given so far
  orderly,      \* history: nothing listed at Exclusive has happened
  acked         \* history: the address each client was last told it has, or 0

dsVars == <<pools, lease, order, saved, admin, orderly, acked>>

-----------------------------------------------------------------------------
(* Pools (dhcp_pool.c): a range of addresses with a bitmap, a hint for the *)
(* next search, reservations and exclusions.  A pool is a record, and an   *)
(* operation an operator from pools to pools.  Addresses are numbers, 0 is *)
(* "none"; `bits` is the set of addresses whose bit is 1 and `hint` the    *)
(* address at next_free_hint.                                              *)

Least(S) == CHOOSE x \in S : \A y \in S : x <= y

\* A sequence without its i-th element
Unlinked(s, i) == [k \in 1 .. Len(s) - 1 |-> s[IF k < i THEN k ELSE k + 1]]

dhcp_pool_create(lo, hi) ==
  [lo |-> lo, hi |-> hi, bits |-> {}, hint |-> lo, alloc |-> 0,
   res |-> {}, excl |-> <<>>]

dhcp_pool_contains(p, ip) == p.lo <= ip /\ ip <= p.hi

is_excluded(p, ip) == \E i \in DOMAIN p.excl : p.excl[i].lo <= ip /\ ip <= p.excl[i].hi

\* The addresses with a 0 bit, from an address on
Zeros(p, from) == {ip \in p.lo .. p.hi : ip >= from /\ ip \notin p.bits}

\* The search from the hint, and from the start when that finds nothing
SearchFrom(p) == IF Zeros(p, p.hint) = {} THEN p.lo ELSE p.hint

\* Defect: the bit of the address handed out is not set.
AllocateUnset(p) ==
  LET zeros == Zeros(p, SearchFrom(p))
      fit   == {ip \in zeros : ~ is_excluded(p, ip)}
  IN  IF fit = {}
        THEN [ip |-> 0, pool |-> [p EXCEPT !.bits = @ \cup zeros]]
        ELSE LET ip == Least(fit)
             IN  [ip |-> ip, pool |-> [p EXCEPT !.alloc = @ + 1, !.hint = ip + 1]]

\* The dynamic half of dhcp_pool_allocate.  The loop over excluded addresses
\* sets the bit of each one it passes, and does not wrap.
AllocateNext(p) ==
  LET zeros == Zeros(p, SearchFrom(p))
      fit   == {ip \in zeros : ~ is_excluded(p, ip)}
  IN  IF fit = {}
        THEN [ip |-> 0, pool |-> [p EXCEPT !.bits = @ \cup zeros]]
        ELSE LET ip == Least(fit)
             IN  [ip |-> ip,
                  pool |-> [p EXCEPT !.bits = @ \cup {z \in zeros : z <= ip},
                                     !.alloc = @ + 1, !.hint = ip + 1]]

dhcp_pool_release(p, ip) ==
  IF ~ dhcp_pool_contains(p, ip) \/ ip \notin p.bits THEN p
  ELSE [p EXCEPT !.bits = @ \ {ip}, !.alloc = @ - 1,
                 !.hint = IF ip < @ THEN ip ELSE @]

dhcp_pool_mark_used(p, ip) ==
  IF ~ dhcp_pool_contains(p, ip) \/ ip \in p.bits THEN p
  ELSE [p EXCEPT !.bits = @ \cup {ip}, !.alloc = @ + 1]

\* The bit is set; the address is not counted as allocated.
dhcp_pool_mark_declined(p, ip) ==
  IF ~ dhcp_pool_contains(p, ip) THEN p
  ELSE [p EXCEPT !.bits = @ \cup {ip}]

dhcp_pool_is_available(p, ip) ==
  dhcp_pool_contains(p, ip) /\ ~ is_excluded(p, ip) /\ ip \notin p.bits

\* available_ips > 0 in dhcp_pool_get_stats: an unsigned difference
HasAvailable(p) == p.hi - p.lo + 1 # p.alloc

-----------------------------------------------------------------------------
(* Reservations and exclusions *)

CanReserve(p, ip, mac) ==
  /\ Cardinality(p.res) < MaxReservations
  /\ \A r \in p.res : r.ip # ip /\ r.mac # mac

dhcp_pool_add_reservation(p, ip, mac) == [p EXCEPT !.res = @ \cup {[ip |-> ip, mac |-> mac]}]

dhcp_pool_remove_reservation(p, ip) == [p EXCEPT !.res = {r \in @ : r.ip # ip}]

\* dhcp_pool_find_reservation; at most one reservation names a client
ReservedFor(p, mac) == {r.ip : r \in {s \in p.res : s.mac = mac}}

\* The bits are set only when the first address of the range is in the pool.
dhcp_pool_add_exclusion(p, lo, hi) ==
  [p EXCEPT !.excl = Append(@, [lo |-> lo, hi |-> hi]),
            !.bits = IF dhcp_pool_contains(p, lo)
                     THEN @ \cup {ip \in lo .. hi : dhcp_pool_contains(p, ip)} ELSE @]

\* The first entry with that start goes, the last takes its place; the bits it
\* had set stay set.
dhcp_pool_remove_exclusion(p, lo) ==
  LET hits == {i \in DOMAIN p.excl : p.excl[i].lo = lo}
      n    == Len(p.excl)
  IN  IF hits = {} THEN p
      ELSE [p EXCEPT !.excl = SubSeq([p.excl EXCEPT ![Least(hits)] = p.excl[n]], 1, n - 1)]

\* Reservations and exclusions survive; the bits of the latter do not.
dhcp_pool_reset(p) == [p EXCEPT !.bits = {}, !.alloc = 0, !.hint = p.lo]
-----------------------------------------------------------------------------
(* State *)

None == [ip |-> 0, st |-> "none", fresh |-> FALSE]
Held == {"OFFERED", "BOUND"}

Holds(m, ip) == lease[m].st \in Held /\ lease[m].ip = ip

\* on_init of qd_dhcpd.c makes one pool, from the configuration; an exclusion
\* may be added before clients are served.
Configured ==
  LET p == dhcp_pool_create(Ranges[1].lo, Ranges[1].hi)
  IN  {<<p>>} \cup {<<dhcp_pool_add_exclusion(p, e.lo, e.hi)>> : e \in Exclusions}

DSInit ==
  /\ pools \in Configured /\ lease = [m \in Clients |-> None] /\ order = <<>>
  /\ saved = <<>> /\ admin = 0 /\ orderly = TRUE /\ acked = [m \in Clients |-> 0]

-----------------------------------------------------------------------------
(* Lease database *)

dhcp_lease_is_valid(l) == l.st \in Held /\ l.fresh

\* dhcp_lease_create and dhcp_lease_create_offered put a new lease at the head;
\* a lease of the client that exists is overwritten in place.
StoreLease(m, ip, st) ==
  /\ lease' = [lease EXCEPT ![m] = [ip |-> ip, st |-> st, fresh |-> TRUE]]
  /\ order' = IF lease[m].st = "none" THEN <<m>> \o order ELSE order

\* dhcp_lease_find_by_ip: the place of the newest lease with the address, in
\* any state
FindByIp(ip) == {j \in DOMAIN order :
                   /\ lease[order[j]].ip = ip
                   /\ \A k \in 1 .. j - 1 : lease[order[k]].ip # ip}

-----------------------------------------------------------------------------
(* The server *)

dhcp_server_find_pool_for_ip(ip) == {i \in DOMAIN pools :
  /\ dhcp_pool_contains(pools[i], ip)
  /\ \A k \in 1 .. i - 1 : ~ dhcp_pool_contains(pools[k], ip)}

find_pool_for_request ==
  LET some == {i \in DOMAIN pools : HasAvailable(pools[i])}
  IN  IF some # {} THEN Least(some) ELSE 1

OnPool(i, p) == pools' = [pools EXCEPT ![i] = p]

\* Pools after an address goes back to the pool that has it, if any
ReleaseIp(ip) == [i \in DOMAIN pools |-> IF i \in dhcp_server_find_pool_for_ip(ip)
                                         THEN dhcp_pool_release(pools[i], ip) ELSE pools[i]]

\* dhcp_lease_create_offered fails only for a new client in a full database.
CanOffer(m) == lease[m].st # "none" \/ Len(order) < LEASE_MAX

\* Defect: the lease the client has is ignored.
OfferedAnew(m) ==
  LET p == pools[find_pool_for_request]
  IN  IF ReservedFor(p, m) # {} THEN [ip |-> Least(ReservedFor(p, m)), pool |-> p]
      ELSE AllocateNext(p)

\* Which address, from which pool state: that of a valid lease; a reservation
\* in the pool chosen, whose bit is not set; the next free one.
Offered(m) ==
  LET p == pools[find_pool_for_request]
  IN  IF dhcp_lease_is_valid(lease[m]) THEN [ip |-> lease[m].ip, pool |-> p]
      ELSE IF ReservedFor(p, m) # {} THEN [ip |-> Least(ReservedFor(p, m)), pool |-> p]
      ELSE AllocateNext(p)

dhcp_server_handle_discover(m) ==
  /\ pools # <<>>
  /\ LET i == find_pool_for_request
         o == Offered(m)
     IN  \/ /\ o.ip = 0
            /\ OnPool(i, o.pool) /\ UNCHANGED <<lease, order>>
         \/ /\ o.ip # 0 /\ CanOffer(m)
            /\ OnPool(i, o.pool) /\ StoreLease(m, o.ip, "OFFERED")
         \/ /\ o.ip # 0 /\ ~ CanOffer(m)
            /\ OnPool(i, dhcp_pool_release(o.pool, o.ip)) /\ UNCHANGED <<lease, order>>
  /\ UNCHANGED <<saved, admin, orderly, acked>>

\* The ACK: the client is told its address, unless sending fails or it is lost.
send_dhcp_response(m, ip) == acked' \in {acked, [acked EXCEPT ![m] = ip]}

\* A client without a lease that names an available address as its own
\* (ciaddr) is given a lease for it.
Rebinds(m, ci) ==
  /\ lease[m].st = "none" /\ ci # 0 /\ Len(order) < LEASE_MAX
  /\ \E i \in dhcp_server_find_pool_for_ip(ci) : dhcp_pool_is_available(pools[i], ci)

\* rq is the option "requested address", 0 when absent.  The result of
\* dhcp_lease_bind, which refuses a lease that is not OFFERED or BOUND, is not
\* looked at: the address is marked and the client gets its ACK all the same.
dhcp_server_handle_request(m, rq, ci) ==
  LET known == lease[m].st # "none"
      ip    == IF known THEN lease[m].ip ELSE ci
      asked == IF rq # 0 THEN rq ELSE ci
      nak   == asked # 0 /\ asked # ip
  IN  /\ known \/ Rebinds(m, ci)
      /\ dhcp_server_find_pool_for_ip(ip) # {}
      /\ IF known /\ (nak \/ lease[m].st \notin Held)
           THEN UNCHANGED <<lease, order>> ELSE StoreLease(m, ip, "BOUND")
      /\ IF nak THEN UNCHANGED <<pools, acked>>
         ELSE /\ pools' = [i \in DOMAIN pools |->
                             IF i \in dhcp_server_find_pool_for_ip(ip)
                             THEN dhcp_pool_mark_used(pools[i], ip) ELSE pools[i]]
              /\ send_dhcp_response(m, ip)
      /\ orderly' = (orderly /\ IF known THEN nak \/ lease[m].st \in Held ELSE ~ nak)
      /\ UNCHANGED <<saved, admin>>

\* Whatever state the lease is in, its address goes back to the pool.
dhcp_server_handle_release(m) ==
  /\ lease[m].st # "none"
  /\ pools' = ReleaseIp(lease[m].ip)
  /\ lease' = [lease EXCEPT ![m].st = "FREE", ![m].fresh = FALSE]
  /\ acked' = [acked EXCEPT ![m] = 0]
  /\ orderly' = (orderly /\ lease[m].st \in Held)
  /\ UNCHANGED <<order, saved, admin>>

\* The address is taken out of its pool, and the newest lease with it marked,
\* whoever has it.
dhcp_server_handle_decline(m, ip) ==
  /\ pools' = [i \in DOMAIN pools |-> IF i \in dhcp_server_find_pool_for_ip(ip)
                                      THEN dhcp_pool_mark_declined(pools[i], ip) ELSE pools[i]]
  /\ lease' = [n \in Clients |-> IF \E j \in FindByIp(ip) : order[j] = n
                                 THEN [lease[n] EXCEPT !.st = "DECLINED"] ELSE lease[n]]
  /\ acked' = [acked EXCEPT ![m] = IF @ = ip THEN 0 ELSE @]
  /\ UNCHANGED <<order, saved, admin, orderly>>

\* expire_time of a lease, or of an offer, passes
LeaseRunsOut(m) ==
  /\ lease[m].fresh /\ lease' = [lease EXCEPT ![m].fresh = FALSE]
  /\ UNCHANGED <<pools, order, saved, admin, orderly, acked>>

\* The client stops using its address when its own time is over.
ClientForgets(m) ==
  /\ acked[m] # 0 /\ ~ lease[m].fresh /\ acked' = [acked EXCEPT ![m] = 0]
  /\ UNCHANGED <<pools, lease, order, saved, admin, orderly>>

-----------------------------------------------------------------------------
(* The administrator: IPC and REST commands, configuration, restarts *)

Command == admin < MaxAdmin /\ admin' = admin + 1

InUse(ip) == \E n \in Clients : Holds(n, ip) \/ acked[n] = ip

Reserved(ip) == \E i \in DOMAIN pools : \E r \in pools[i].res : r.ip = ip

\* An address that is handed out through a reservation needs an exclusion that
\* keeps dhcp_pool_allocate away from it.
Apart(m, ip) ==
  /\ ~ Reserved(ip)
  /\ \A i \in DOMAIN pools : dhcp_pool_contains(pools[i], ip) => is_excluded(pools[i], ip)
  /\ \A n \in Clients \ {m} : ~ Holds(n, ip) /\ acked[n] # ip

AddReservation(i, m, ip) ==
  /\ Command /\ CanReserve(pools[i], ip, m)
  /\ OnPool(i, dhcp_pool_add_reservation(pools[i], ip, m))
  /\ orderly' = (orderly /\ Apart(m, ip))
  /\ UNCHANGED <<lease, order, saved, acked>>

RemoveReservation(i, ip) ==
  /\ Command /\ \E r \in pools[i].res : r.ip = ip
  /\ OnPool(i, dhcp_pool_remove_reservation(pools[i], ip))
  /\ UNCHANGED <<lease, order, saved, orderly, acked>>

AddExclusion(i, e) ==
  /\ Command /\ Len(pools[i].excl) < MaxExclusions
  /\ OnPool(i, dhcp_pool_add_exclusion(pools[i], e.lo, e.hi))
  /\ UNCHANGED <<lease, order, saved, orderly, acked>>

RemoveExclusion(i, e) ==
  LET p == dhcp_pool_remove_exclusion(pools[i], e.lo)
      freed == {ip \in p.lo .. p.hi : is_excluded(pools[i], ip) /\ ~ is_excluded(p, ip)}
  IN  /\ Command /\ p # pools[i] /\ OnPool(i, p)
      /\ orderly' = (orderly /\ \A ip \in freed :
                       (InUse(ip) => ip \in p.bits) /\ ~ Reserved(ip))
      /\ UNCHANGED <<lease, order, saved, acked>>

\* The newest lease with the address is deleted, its address released.
dhcp_server_clear_lease(ip) ==
  /\ Command
  /\ pools' = ReleaseIp(ip)
  /\ \E j \in FindByIp(ip) :
       /\ lease' = [lease EXCEPT ![order[j]] = None]
       /\ order' = Unlinked(order, j)
       /\ orderly' = (orderly /\ lease[order[j]].st \in Held
                              /\ \A n \in Clients : acked[n] # ip)
  /\ UNCHANGED <<saved, acked>>

dhcp_server_clear_all_leases ==
  /\ Command
  /\ pools' = [i \in DOMAIN pools |-> dhcp_pool_reset(pools[i])]
  /\ lease' = [m \in Clients |-> None] /\ order' = <<>>
  /\ orderly' = (orderly /\ \A m \in Clients : acked[m] = 0)
  /\ UNCHANGED <<saved, acked>>

\* The pool goes, the leases of its addresses stay.
dhcp_server_remove_pool(i) ==
  /\ Command /\ pools' = Unlinked(pools, i)
  /\ UNCHANGED <<lease, order, saved, orderly, acked>>

\* A new pool has a clear bitmap, whatever leases there are.
dhcp_server_add_pool(r) ==
  /\ Command /\ Len(pools) < Len(Ranges)
  /\ \A i \in DOMAIN pools : pools[i].lo # r.lo
  /\ pools' = Append(pools, dhcp_pool_create(r.lo, r.hi))
  /\ orderly' = (orderly /\ \A ip \in r.lo .. r.hi :
                    /\ ~ InUse(ip) /\ ~ Reserved(ip)
                    /\ \A i \in DOMAIN pools : ~ dhcp_pool_contains(pools[i], ip))
  /\ UNCHANGED <<lease, order, saved, acked>>

\* dhcp_lease_db_save: all_leases as it is, newest first
dhcp_lease_db_save ==
  [i \in DOMAIN order |-> [mac |-> order[i], l |-> lease[order[i]]]]

\* dhcp_lease_db_load: the first line read is the first lease made, and ends
\* up last in the list.  No bit of a pool is set.  The times are those of a
\* monotonic clock: after a reboot they mean nothing.
Loaded(file, fresh) ==
  /\ lease' = [m \in Clients |->
       IF \E i \in DOMAIN file : file[i].mac = m
       THEN LET l == file[CHOOSE i \in DOMAIN file : file[i].mac = m].l
            IN  [l EXCEPT !.fresh = fresh /\ l.st # "FREE"]
       ELSE None]
  /\ order' = [i \in DOMAIN file |-> file[Len(file) + 1 - i].mac]

\* Stop (which saves) or crash, then start with pools from the configuration
Restart(file, fresh) ==
  /\ Command /\ saved' = file /\ pools' \in Configured /\ Loaded(file, fresh)
  /\ orderly' = (orderly /\ (\A i \in DOMAIN file : file[i].l.st \notin Held)
                         /\ \A m \in Clients : acked[m] = 0)
  /\ UNCHANGED acked

DSStep ==
  \/ \E m \in Clients :
       \/ dhcp_server_handle_discover(m) \/ dhcp_server_handle_release(m)
       \/ LeaseRunsOut(m) \/ ClientForgets(m)
       \/ \E r \in Requests : dhcp_server_handle_request(m, r.rq, r.ci)
       \/ \E ip \in Addresses : dhcp_server_handle_decline(m, ip)
       \/ \E i \in DOMAIN pools, ip \in Addresses : AddReservation(i, m, ip)
  \/ \E i \in DOMAIN pools :
       \/ \E ip \in Addresses : RemoveReservation(i, ip)
       \/ \E e \in Exclusions : AddExclusion(i, e) \/ RemoveExclusion(i, e)
       \/ dhcp_server_remove_pool(i)
  \/ \E ip \in Addresses : dhcp_server_clear_lease(ip)
  \/ \E i \in DOMAIN Ranges : dhcp_server_add_pool(Ranges[i])
  \/ dhcp_server_clear_all_leases
  \/ \E file \in {saved, dhcp_lease_db_save}, fresh \in BOOLEAN : Restart(file, fresh)

DSNext == DSStep /\ \A i \in DOMAIN pools' : pools'[i].alloc >= - MaxDrift

DSSpec == DSInit /\ [][DSNext]_dsVars

-----------------------------------------------------------------------------

\* As long as the history is orderly, the same address never belongs to two
\* clients: held by one through an offer or a lease (dhcp_lease_t) or confirmed
\* to it by an ACK, it is neither held by another nor confirmed to another.
\* Orderly: no REQUEST or RELEASE of a client whose lease was already released
\* or declined, no reservation of an address that dhcp_pool_allocate can hand
\* out, no new bitmap (pool added, restart) under leases in use, no pool that
\* overlaps another.
Exclusive ==
  orderly => \A m, n \in Clients : m # n =>
    \A ip \in Addresses : (Holds(m, ip) \/ acked[m] = ip) => ~ (Holds(n, ip) \/ acked[n] = ip)

\* The list all_leases has every lease once, and no more than DHCP_LEASE_MAX.
ListExact ==
  /\ Len(order) <= LEASE_MAX
  /\ {order[i] : i \in DOMAIN order} = {m \in Clients : lease[m].st # "none"}
  /\ \A i, k \in DOMAIN order : order[i] = order[k] => i = k

\* A client keeps its address: while its lease is valid, no packet of any
\* client moves it to another (dhcp_server_handle_discover offers the same
\* one again).  The administrator can, by a restart from an old file.
Sticky ==
  [][\A m \in Clients : dhcp_lease_is_valid(lease[m]) /\ lease'[m].st \in Held /\ admin' = admin
                        => lease'[m].ip = lease[m].ip]_dsVars

\* A client that gets an ACK has a lease that is BOUND
\* (dhcp_server_handle_request confirms what dhcp_lease_bind did).
AckBound ==
  [][\A m \in Clients : acked'[m] # acked[m] /\ acked'[m] # 0 => lease'[m].st = "BOUND"]_dsVars

\* The addresses belong to one client each, and the list knows every lease.
ServerExact == Exclusive /\ ListExact
=============================================================================
