----------------------------- MODULE DhcpProofs -----------------------------
(***************************************************************************)
(* Proofs about the DHCP server (DhcpServer), for any clients, pools,      *)
(* exclusions and number of leases: an address belongs to one client, the  *)
(* list of leases is exact, and a client keeps its address.                *)
(***************************************************************************)
EXTENDS DhcpServer, WellFoundedInduction, TLAPS

-----------------------------------------------------------------------------
(* The inductive invariant *)

Pool == [lo : Nat, hi : Nat, bits : SUBSET Nat, hint : Nat, alloc : Int,
         res : SUBSET [ip : Addresses, mac : Clients], excl : Seq(IpRange)]

States == {"none", "OFFERED", "BOUND", "FREE", "DECLINED"}
Lease == [ip : Nat, st : States, fresh : BOOLEAN]
Line  == [mac : Clients, l : Lease]

DSTypeOK ==
  /\ pools \in Seq(Pool) /\ lease \in [Clients -> Lease] /\ order \in Seq(Clients)
  /\ saved \in Seq(Line) /\ admin \in Nat /\ orderly \in BOOLEAN
  /\ acked \in [Clients -> Nat]

\* The lease file is a list of leases as dhcp_lease_db_save writes it.
FileExact ==
  /\ Len(saved) <= LEASE_MAX
  /\ \A i \in DOMAIN saved : saved[i].l.st # "none"
  /\ \A i, k \in DOMAIN saved : saved[i].mac = saved[k].mac => i = k

Owns(m, ip) == Holds(m, ip) \/ acked[m] = ip

\* No address is in two pools.
Disjoint(ps) ==
  \A i, k \in DOMAIN ps : i # k =>
    \A ip \in Nat : ~ (dhcp_pool_contains(ps[i], ip) /\ dhcp_pool_contains(ps[k], ip))

\* No pool can hand the address out: its bit is set, or it is excluded ...
Blocked(ps, ip) ==
  \A i \in DOMAIN ps : dhcp_pool_contains(ps[i], ip) =>
    ip \in ps[i].bits \/ is_excluded(ps[i], ip)

\* ... whatever its bit says.
Fenced(ps, ip) ==
  \A i \in DOMAIN ps : dhcp_pool_contains(ps[i], ip) => is_excluded(ps[i], ip)

Reservations(ps) == UNION {ps[i].res : i \in DOMAIN ps}

\* What keeps two clients apart: an address in use is blocked in every pool; a
\* reserved one is excluded from every pool, and used by its client only.
Safe ==
  /\ Disjoint(pools)
  /\ \A m \in Clients : \A ip \in Nat \ {0} : Owns(m, ip) => Blocked(pools, ip)
  /\ \A r \in Reservations(pools) :
       Fenced(pools, r.ip) /\ \A n \in Clients \ {r.mac} : ~ Owns(n, r.ip)
  /\ \A r, q \in Reservations(pools) : r.ip = q.ip => r = q
  /\ \A m, n \in Clients : m # n =>
       \A ip \in Nat \ {0} : Owns(m, ip) => ~ Owns(n, ip)

DSInv == DSTypeOK /\ ListExact /\ FileExact /\ (orderly => Safe)

-----------------------------------------------------------------------------
(* Steps that leave the leases or the pools alone *)

LEMMA OwnsKept ==
  ASSUME UNCHANGED <<lease, acked>>
  PROVE  \A n \in Clients : \A ip : Owns(n, ip)' <=> Owns(n, ip)
BY Zenon DEF Owns, Holds

LEMMA SafeKept ==
  ASSUME Safe, UNCHANGED <<pools, acked, lease>>
  PROVE  Safe'
<1>1. pools' = pools /\ \A n \in Clients : \A ip : Owns(n, ip)' <=> Owns(n, ip)
  BY Zenon, OwnsKept
<1>2. Disjoint(pools)' /\ \A r, q \in Reservations(pools') : r.ip = q.ip => r = q
  BY Zenon, <1>1 DEF Safe
<1>3. \A m \in Clients : \A ip \in Nat \ {0} : Owns(m, ip)' => Blocked(pools', ip)
  BY Zenon, <1>1 DEF Safe
<1>4. \A r \in Reservations(pools') :
        Fenced(pools', r.ip) /\ \A n \in Clients \ {r.mac} : ~ Owns(n, r.ip)'
  BY Zenon, <1>1 DEF Safe
<1>5. \A m, n \in Clients : m # n => \A ip \in Nat \ {0} : Owns(m, ip)' => ~ Owns(n, ip)'
  BY Zenon, <1>1 DEF Safe
<1> QED
  BY Zenon, <1>2, <1>3, <1>4, <1>5 DEF Safe

LEMMA ListSame ==
  ASSUME ListExact, UNCHANGED <<lease, order>>
  PROVE  ListExact'
BY DEF ListExact

-----------------------------------------------------------------------------
(* Least elements, and sequences *)

LEMMA HasLeast ==
  ASSUME NEW S, S \subseteq Nat, S # {}
  PROVE  Least(S) \in S /\ \A y \in S : Least(S) <= y
<1> DEFINE R == OpToRel(<, Nat)
<1>1. IsWellFoundedOn(R, Nat)
  BY Zenon, NatLessThanWellFounded
<1>2. \A x, y \in Nat : <<y, x>> \in R <=> y < x
  BY Zenon DEF OpToRel
<1> HIDE DEF R
<1>3. PICK x \in S : \A y \in S : ~ (<<y, x>> \in R)
  BY Zenon, <1>1, WFMin
<1>4. ASSUME NEW y \in S PROVE x <= y
  <2>1. x \in Nat /\ y \in Nat /\ ~(y < x)
    BY Zenon, <1>2, <1>3
  <2> QED
    BY <2>1
<1> QED
  BY Zenon, <1>4 DEF Least

LEMMA UnlinkedType ==
  ASSUME NEW S, NEW s \in Seq(S), NEW i \in DOMAIN s
  PROVE  /\ Unlinked(s, i) \in Seq(S) /\ DOMAIN Unlinked(s, i) = 1 .. Len(s) - 1
         /\ Len(Unlinked(s, i)) = Len(s) - 1
         /\ \A k \in 1 .. Len(s) - 1 :
              Unlinked(s, i)[k] = s[IF k < i THEN k ELSE k + 1]
<1>1. Len(s) - 1 \in Nat
  OBVIOUS
<1>2. ASSUME NEW k \in 1 .. Len(s) - 1 PROVE s[IF k < i THEN k ELSE k + 1] \in S
  OBVIOUS
<1> QED
  BY <1>1, <1>2 DEF Unlinked

-----------------------------------------------------------------------------
(* Pools *)

\* A pool with the range, reservations and exclusions of another
SameShape(p, q) ==
  q.lo = p.lo /\ q.hi = p.hi /\ q.res = p.res /\ q.excl = p.excl

LEMMA CreateType ==
  ASSUME NEW lo \in Nat, NEW hi \in Nat PROVE dhcp_pool_create(lo, hi) \in Pool
BY DEF dhcp_pool_create, Pool, IpRange

LEMMA AddExclusionType ==
  ASSUME NEW p \in Pool, NEW e \in IpRange
  PROVE  LET q == dhcp_pool_add_exclusion(p, e.lo, e.hi)
         IN  /\ q \in Pool /\ q.lo = p.lo /\ q.hi = p.hi /\ q.res = p.res
             /\ p.bits \subseteq q.bits
             /\ \A ip : is_excluded(p, ip) => is_excluded(q, ip)
<1> DEFINE q == dhcp_pool_add_exclusion(p, e.lo, e.hi)
<1>1. /\ p.excl \in Seq(IpRange) /\ [lo |-> e.lo, hi |-> e.hi] \in IpRange
      /\ p.bits \subseteq Nat /\ e.lo \in Nat /\ e.hi \in Nat
  BY Zenon DEF Pool, IpRange
<1>2. {ip \in e.lo .. e.hi : dhcp_pool_contains(p, ip)} \subseteq Nat
  BY <1>1
<1>3. /\ q.excl = Append(p.excl, [lo |-> e.lo, hi |-> e.hi])
      /\ q.lo = p.lo /\ q.hi = p.hi /\ q.res = p.res /\ p.bits \subseteq q.bits
      /\ q.hint = p.hint /\ q.alloc = p.alloc /\ q.bits \subseteq Nat
      /\ q = [p EXCEPT !.excl = q.excl, !.bits = q.bits]
  BY Zenon, <1>1, <1>2 DEF dhcp_pool_add_exclusion, Pool
<1> HIDE DEF q
<1>4. q.excl \in Seq(IpRange)
  BY <1>1, <1>3
<1>5. q \in Pool
  BY Zenon, <1>3, <1>4 DEF Pool
<1>6. ASSUME NEW ip, is_excluded(p, ip) PROVE is_excluded(q, ip)
  <2>1. PICK i \in DOMAIN p.excl : p.excl[i].lo <= ip /\ ip <= p.excl[i].hi
    BY Zenon, <1>6 DEF is_excluded
  <2>2. i \in DOMAIN q.excl /\ q.excl[i] = p.excl[i]
    BY <1>1, <1>3
  <2> QED
    BY Zenon, <2>1, <2>2 DEF is_excluded
<1> QED
  BY Zenon, <1>3, <1>5, <1>6 DEF q

\* The state of a pool, without its shape
With(p, b, a, h) == [p EXCEPT !.bits = b, !.alloc = a, !.hint = h]

LEMMA PoolState ==
  ASSUME NEW p \in Pool, NEW b \in SUBSET Nat, NEW a \in Int, NEW h \in Nat
  PROVE  /\ With(p, b, a, h) \in Pool /\ SameShape(p, With(p, b, a, h))
         /\ With(p, b, a, h).bits = b
<1>1. With(p, b, a, h) \in Pool
  BY Zenon DEF Pool, With
<1>2. SameShape(p, With(p, b, a, h))
  BY Zenon DEF Pool, SameShape, With
<1>3. With(p, b, a, h).bits = b
  BY Zenon DEF Pool, With
<1> QED
  BY Zenon, <1>1, <1>2, <1>3

LEMMA PoolFields ==
  ASSUME NEW p \in Pool
  PROVE  /\ p.lo \in Nat /\ p.hi \in Nat /\ p.bits \in SUBSET Nat /\ p.alloc \in Int
         /\ p.hint \in Nat /\ SameShape(p, p)
BY Zenon DEF Pool, SameShape

LEMMA ReleaseType ==
  ASSUME NEW p \in Pool, NEW ip \in Nat
  PROVE  LET q == dhcp_pool_release(p, ip)
         IN  q \in Pool /\ SameShape(p, q) /\ p.bits \ {ip} \subseteq q.bits
<1> DEFINE b == p.bits \ {ip}
           a == p.alloc - 1
           h == IF ip < p.hint THEN ip ELSE p.hint
           q == With(p, b, a, h)
<1>1. b \in SUBSET Nat /\ a \in Int /\ h \in Nat
  BY PoolFields
<1>2. dhcp_pool_release(p, ip) = p \/ dhcp_pool_release(p, ip) = q
  BY Zenon DEF dhcp_pool_release, With
<1> HIDE DEF a, b, h
<1>3. q \in Pool /\ SameShape(p, q) /\ q.bits = b
  BY <1>1, PoolState
<1> HIDE DEF q
<1> QED
  BY Zenon, <1>2, <1>3, PoolFields DEF b

LEMMA MarkUsedType ==
  ASSUME NEW p \in Pool, NEW ip \in Nat
  PROVE  LET q == dhcp_pool_mark_used(p, ip)
         IN  /\ q \in Pool /\ SameShape(p, q) /\ p.bits \subseteq q.bits
             /\ dhcp_pool_contains(p, ip) => ip \in q.bits
<1> DEFINE b == p.bits \cup {ip}
           a == p.alloc + 1
           q == With(p, b, a, p.hint)
<1>1. b \in SUBSET Nat /\ a \in Int /\ p.hint \in Nat
  BY PoolFields
<1>2. dhcp_pool_mark_used(p, ip) =
        IF ~ dhcp_pool_contains(p, ip) \/ ip \in p.bits THEN p ELSE q
  BY Zenon DEF dhcp_pool_mark_used, Pool, With
<1> HIDE DEF a, b
<1>3. q \in Pool /\ SameShape(p, q) /\ q.bits = b
  BY <1>1, PoolState
<1> HIDE DEF q
<1> QED
  BY Zenon, <1>2, <1>3, PoolFields DEF b

LEMMA MarkDeclinedType ==
  ASSUME NEW p \in Pool, NEW ip \in Nat
  PROVE  LET q == dhcp_pool_mark_declined(p, ip)
         IN  q \in Pool /\ SameShape(p, q) /\ p.bits \subseteq q.bits
BY Zenon DEF dhcp_pool_mark_declined, Pool, SameShape

LEMMA ResetType ==
  ASSUME NEW p \in Pool
  PROVE  dhcp_pool_reset(p) \in Pool /\ SameShape(p, dhcp_pool_reset(p))
<1>1. {} \in SUBSET Nat /\ 0 \in Int /\ p.lo \in Nat
  BY PoolFields
<1>2. dhcp_pool_reset(p) = With(p, {}, 0, p.lo)
  BY Zenon DEF dhcp_pool_reset, With
<1> QED
  BY <1>1, <1>2, PoolState

\* The address allocated was free: in the range, its bit clear, not excluded;
\* and its bit is set now.
LEMMA AllocateType ==
  ASSUME NEW p \in Pool
  PROVE  LET o == AllocateNext(p)
         IN  /\ o.ip \in Nat /\ o.pool \in Pool /\ SameShape(p, o.pool)
             /\ p.bits \subseteq o.pool.bits
             /\ o.ip # 0 => /\ dhcp_pool_contains(p, o.ip) /\ o.ip \notin p.bits
                            /\ ~ is_excluded(p, o.ip) /\ o.ip \in o.pool.bits
<1> DEFINE zeros == Zeros(p, SearchFrom(p))
           fit   == {ip \in zeros : ~ is_excluded(p, ip)}
           least == Least(fit)
<1>1. p.lo \in Nat /\ p.hi \in Nat /\ p.bits \subseteq Nat /\ p.alloc \in Int
  BY Zenon DEF Pool
<1>2. zeros \subseteq Nat /\ \A ip \in zeros : ip \notin p.bits /\ p.lo <= ip /\ ip <= p.hi
  BY <1>1 DEF Zeros
<1>3. AllocateNext(p) =
        IF fit = {} THEN [ip |-> 0, pool |-> [p EXCEPT !.bits = @ \cup zeros]]
        ELSE [ip |-> least, pool |-> [p EXCEPT !.bits = @ \cup {z \in zeros : z <= least},
                                               !.alloc = @ + 1, !.hint = least + 1]]
  BY Zenon DEF AllocateNext
<1>4. fit \subseteq zeros /\ \A ip \in fit : ~ is_excluded(p, ip)
  BY Zenon
<1> HIDE DEF zeros, fit
<1>5. CASE fit = {}
  BY <1>2, <1>3, <1>5 DEF Pool, SameShape
<1>6. CASE fit # {}
  <2>1. least \in fit
    BY Zenon, <1>2, <1>4, <1>6, HasLeast
  <2> HIDE DEF least
  <2>2. least \in Nat /\ least \in zeros /\ ~ is_excluded(p, least)
    BY Zenon, <1>2, <1>4, <2>1
  <2> DEFINE q == [p EXCEPT !.bits = @ \cup {z \in zeros : z <= least},
                            !.alloc = @ + 1, !.hint = least + 1]
  <2>4. AllocateNext(p) = [ip |-> least, pool |-> q]
    BY Zenon, <1>3, <1>6
  <2>3. q \in Pool /\ SameShape(p, q) /\ p.bits \subseteq q.bits /\ least \in q.bits
    <3> DEFINE b == p.bits \cup {z \in zeros : z <= least}
               c == p.alloc + 1
               h == least + 1
    <3>0. least <= least /\ h \in Nat /\ c \in Int
      BY <1>1, <2>2
    <3>1. b \in SUBSET Nat /\ least \in b /\ p.bits \subseteq b
      BY Zenon, <1>1, <1>2, <2>2, <3>0
    <3>3. q = With(p, b, c, h)
      BY Zenon DEF With
    <3> HIDE DEF b, c, h
    <3>2. LET w == With(p, b, c, h)
          IN  w \in Pool /\ SameShape(p, w) /\ w.bits = b
      BY <3>0, <3>1, PoolState
    <3> HIDE DEF q
    <3> QED
      BY Zenon, <3>1, <3>2, <3>3
  <2> HIDE DEF q
  <2>5. dhcp_pool_contains(p, least) /\ least \notin p.bits
    BY Zenon, <1>2, <2>2 DEF dhcp_pool_contains
  <2> QED
    BY <2>2, <2>3, <2>4, <2>5
<1> QED
  BY Zenon, <1>5, <1>6

-----------------------------------------------------------------------------
(* Lists of pools *)

LEMMA ShapesKept ==
  ASSUME NEW ps \in Seq(Pool), NEW qs \in Seq(Pool), DOMAIN qs = DOMAIN ps,
         \A i \in DOMAIN ps : SameShape(ps[i], qs[i])
  PROVE  /\ Disjoint(ps) => Disjoint(qs) /\ Reservations(qs) = Reservations(ps)
         /\ \A ip : Fenced(ps, ip) => Fenced(qs, ip)
         /\ \A ip : Blocked(ps, ip) /\ (\A i \in DOMAIN ps : ip \in ps[i].bits => ip \in qs[i].bits)
                      => Blocked(qs, ip)
<1>1. \A i \in DOMAIN ps : \A ip :
        /\ dhcp_pool_contains(qs[i], ip) <=> dhcp_pool_contains(ps[i], ip)
        /\ is_excluded(qs[i], ip) <=> is_excluded(ps[i], ip)
  BY DEF SameShape, dhcp_pool_contains, is_excluded
<1>2. Disjoint(ps) => Disjoint(qs)
  BY Zenon, <1>1 DEF Disjoint
<1>3. Reservations(qs) = Reservations(ps)
  BY DEF Reservations, SameShape
<1>4. \A ip : Fenced(ps, ip) => Fenced(qs, ip)
  BY Zenon, <1>1 DEF Fenced
<1>5. \A ip : Blocked(ps, ip) /\ (\A i \in DOMAIN ps : ip \in ps[i].bits => ip \in qs[i].bits)
                => Blocked(qs, ip)
  BY Zenon, <1>1 DEF Blocked
<1> QED
  BY Zenon, <1>2, <1>3, <1>4, <1>5

LEMMA ReservationType ==
  ASSUME NEW ps \in Seq(Pool), NEW r \in Reservations(ps)
  PROVE  r.ip \in Nat \ {0} /\ r.mac \in Clients /\ r = [ip |-> r.ip, mac |-> r.mac]
<1>1. PICK i \in DOMAIN ps : r \in ps[i].res
  BY Zenon DEF Reservations
<1>2. ps[i] \in Pool
  OBVIOUS
<1>3. r \in [ip : Addresses, mac : Clients]
  BY Zenon, <1>1, <1>2 DEF Pool
<1> QED
  BY Zenon, <1>3, DhcpAssumption

LEMMA FencedIsBlocked == \A ps, ip : Fenced(ps, ip) => Blocked(ps, ip)
BY Zenon DEF Fenced, Blocked

Anyone == Clients \cup {"nobody"}

LEMMA SomeoneIs == \A m \in Clients : m \in Anyone
BY Zenon DEF Anyone

LEMMA NobodyIs == "nobody" \in Anyone
BY Zenon DEF Anyone

\* A step that gives the address x to m, or nothing to anybody when x is 0.
LEMMA SafeStep ==
  ASSUME Safe, pools \in Seq(Pool), pools' \in Seq(Pool), NEW m \in Anyone, NEW x \in Nat,
         Disjoint(pools'), Reservations(pools') \subseteq Reservations(pools),
         \A r \in Reservations(pools') : Fenced(pools', r.ip),
         \A n \in Clients : \A ip \in Nat \ {0} :
           Owns(n, ip)' => Owns(n, ip) \/ (n = m /\ ip = x),
         x # 0 => /\ \A n \in Clients \ {m} : ~ Owns(n, x)
                  /\ \A r \in Reservations(pools') : r.ip = x => r.mac = m,
         \A n \in Clients : \A ip \in Nat \ {0} : Owns(n, ip)' => Blocked(pools', ip)
  PROVE  Safe'
<1>1. \A r \in Reservations(pools') : \A n \in Clients \ {r.mac} : ~ Owns(n, r.ip)'
  <2> SUFFICES ASSUME NEW r \in Reservations(pools'), NEW n \in Clients \ {r.mac}, Owns(n, r.ip)'
               PROVE  FALSE
    BY Zenon
  <2>1. r.ip \in Nat \ {0} /\ r \in Reservations(pools)
    BY Zenon, ReservationType
  <2>2. ~ Owns(n, r.ip)
    BY Zenon, <2>1 DEF Safe
  <2>3. n = m /\ r.ip = x
    BY Zenon, <2>1, <2>2
  <2> QED
    BY Zenon, <2>1, <2>3
<1>2. \A r, q \in Reservations(pools') : r.ip = q.ip => r = q
  BY Zenon DEF Safe
<1>3. \A k, n \in Clients : k # n => \A ip \in Nat \ {0} : Owns(k, ip)' => ~ Owns(n, ip)'
  <2> SUFFICES ASSUME NEW k \in Clients, NEW n \in Clients, k # n, NEW ip \in Nat \ {0},
                      Owns(k, ip)', Owns(n, ip)'
               PROVE  FALSE
    BY Zenon
  <2>1. Owns(k, ip) \/ (k = m /\ ip = x)
    BY Zenon
  <2>2. Owns(n, ip) \/ (n = m /\ ip = x)
    BY Zenon
  <2>3. ~ (Owns(k, ip) /\ Owns(n, ip))
    BY Zenon DEF Safe
  <2> QED
    BY Zenon, <2>1, <2>2, <2>3
<1> QED
  BY Zenon, <1>1, <1>2, <1>3 DEF Safe

\* A step that leaves the shapes of the pools alone.
LEMMA SafeShapes ==
  ASSUME Safe, pools \in Seq(Pool), pools' \in Seq(Pool), NEW m \in Anyone, NEW x \in Nat,
         DOMAIN pools' = DOMAIN pools, \A i \in DOMAIN pools : SameShape(pools[i], pools'[i]),
         \A n \in Clients : \A ip \in Nat \ {0} :
           Owns(n, ip)' => Owns(n, ip) \/ (n = m /\ ip = x),
         x # 0 => /\ \A n \in Clients \ {m} : ~ Owns(n, x)
                  /\ \A r \in Reservations(pools) : r.ip = x => r.mac = m
                  /\ Blocked(pools', x),
         \A n \in Clients : \A ip \in Nat \ {0, x} : Owns(n, ip) /\ Owns(n, ip)' =>
           Blocked(pools', ip)
  PROVE  Safe'
<1>1. /\ Disjoint(pools') /\ Reservations(pools') = Reservations(pools)
      /\ \A ip : Fenced(pools, ip) => Fenced(pools', ip)
  BY Zenon, ShapesKept DEF Safe
<1>2. \A r \in Reservations(pools') : Fenced(pools', r.ip)
  BY Zenon, <1>1 DEF Safe
<1>3. \A n \in Clients : \A ip \in Nat \ {0} : Owns(n, ip)' => Blocked(pools', ip)
  <2> SUFFICES ASSUME NEW n \in Clients, NEW ip \in Nat \ {0}, Owns(n, ip)'
               PROVE  Blocked(pools', ip)
    BY Zenon
  <2>1. CASE ip = x
    BY Zenon, <2>1
  <2>2. CASE ip # x
    <3>1. Owns(n, ip)
      BY Zenon, <2>2
    <3> QED
      BY Zenon, <2>2, <3>1
  <2> QED
    BY Zenon, <2>1, <2>2
<1> QED
  BY Zenon, <1>1, <1>2, <1>3, SafeStep

-----------------------------------------------------------------------------
(* The list of leases *)

\* ListExact, member by member
LEMMA ListMembers ==
  ASSUME DSTypeOK, ListExact
  PROVE  /\ \A i \in DOMAIN order : order[i] \in Clients /\ lease[order[i]].st # "none"
         /\ \A m \in Clients : lease[m].st # "none" => \E i \in DOMAIN order : order[i] = m
         /\ \A i, k \in DOMAIN order : order[i] = order[k] => i = k
         /\ Len(order) <= LEASE_MAX /\ LEASE_MAX \in Nat
<1>1. {order[i] : i \in DOMAIN order} = {m \in Clients : lease[m].st # "none"}
  BY Zenon DEF ListExact
<1> QED
  BY <1>1, DhcpAssumption DEF ListExact

\* The states of the leases change, none appears and none goes.
LEMMA ListKept ==
  ASSUME DSTypeOK, ListExact, UNCHANGED order,
         \A m \in Clients : lease'[m].st = "none" <=> lease[m].st = "none"
  PROVE  ListExact'
<1>1. {m \in Clients : lease'[m].st # "none"} = {m \in Clients : lease[m].st # "none"}
  BY Zenon
<1> QED
  BY <1>1 DEF ListExact

LEMMA ConsSeq ==
  ASSUME NEW S, NEW s \in Seq(S), NEW e \in S
  PROVE  /\ <<e>> \o s \in Seq(S) /\ Len(<<e>> \o s) = Len(s) + 1
         /\ (<<e>> \o s)[1] = e /\ \A i \in 1 .. Len(s) : (<<e>> \o s)[i + 1] = s[i]
OBVIOUS

LEMMA StoreList ==
  ASSUME DSTypeOK, ListExact, NEW m \in Clients, NEW ip \in Nat, NEW st \in States \ {"none"},
         StoreLease(m, ip, st), CanOffer(m)
  PROVE  lease' \in [Clients -> Lease] /\ order' \in Seq(Clients) /\ ListExact'
<1>1. lease' = [lease EXCEPT ![m] = [ip |-> ip, st |-> st, fresh |-> TRUE]]
  BY Zenon DEF StoreLease
<1>2. lease' \in [Clients -> Lease] /\ lease'[m].st = st
      /\ \A n \in Clients \ {m} : lease'[n] = lease[n]
  BY Zenon, <1>1 DEF DSTypeOK, Lease
<1>3. CASE lease[m].st # "none"
  <2>1. UNCHANGED order
    BY Zenon, <1>3 DEF StoreLease
  <2> QED
    BY Zenon, <1>2, <1>3, <2>1, ListKept DEF DSTypeOK
<1>4. CASE lease[m].st = "none"
  <2>1. order' = <<m>> \o order /\ order \in Seq(Clients) /\ Len(order) < LEASE_MAX
    BY Zenon, <1>4 DEF StoreLease, DSTypeOK, CanOffer
  <2>2. /\ order' \in Seq(Clients) /\ Len(order') = Len(order) + 1
        /\ order'[1] = m /\ \A i \in 1 .. Len(order) : order'[i + 1] = order[i]
    BY <2>1, ConsSeq
  <2>3. /\ \A i \in DOMAIN order : order[i] \in Clients /\ lease[order[i]].st # "none"
        /\ \A n \in Clients : lease[n].st # "none" => \E i \in DOMAIN order : order[i] = n
        /\ \A i, k \in DOMAIN order : order[i] = order[k] => i = k
        /\ LEASE_MAX \in Nat /\ Len(order) \in Nat /\ DOMAIN order = 1 .. Len(order)
    BY <2>1, ListMembers
  <2>4. DOMAIN order' = 1 .. Len(order) + 1 /\ Len(order') <= LEASE_MAX
    BY <2>1, <2>2, <2>3
  <2>5. \A i \in 1 .. Len(order) + 1 : i = 1 \/ (i - 1 \in 1 .. Len(order) /\ i = (i - 1) + 1)
    BY <2>3
  <2>6. \A i \in DOMAIN order' : i = 1 \/ (i - 1 \in DOMAIN order /\ order'[i] = order[i - 1])
    BY <2>2, <2>3, <2>4, <2>5
  <2>7. \A i \in DOMAIN order : i + 1 \in DOMAIN order' /\ order'[i + 1] = order[i] /\ order[i] # m
    BY <1>4, <2>2, <2>3, <2>4
  <2>8. \A n \in Clients : n \in {order'[i] : i \in DOMAIN order'} <=> lease'[n].st # "none"
    <3> SUFFICES ASSUME NEW n \in Clients
                 PROVE  (\E i \in DOMAIN order' : order'[i] = n) <=> lease'[n].st # "none"
      BY Zenon
    <3>1. CASE n = m
      <4>1. 1 \in DOMAIN order'
        BY <2>3, <2>4
      <4> QED
        BY Zenon, <1>2, <2>2, <3>1, <4>1
    <3>2. CASE n # m
      BY <1>2, <2>2, <2>3, <2>6, <2>7, <3>2
    <3> QED
      BY Zenon, <3>1, <3>2
  <2>9. \A i \in DOMAIN order' : order'[i] \in Clients
    BY <2>2
  <2>10. \A i, k \in DOMAIN order' : order'[i] = order'[k] => i = k
    <3> SUFFICES ASSUME NEW i \in DOMAIN order', NEW k \in DOMAIN order', order'[i] = order'[k]
                 PROVE  i = k
      BY Zenon
    <3>1. i \in Nat /\ k \in Nat
      BY <2>4
    <3>2. CASE i = 1 \/ k = 1
      BY <2>2, <2>6, <2>7, <3>2
    <3>3. CASE i # 1 /\ k # 1
      <4>1. i - 1 = k - 1
        BY <2>3, <2>6, <3>3
      <4> QED
        BY <3>1, <4>1
    <3> QED
      BY Zenon, <3>2, <3>3
  <2>11. {order'[i] : i \in DOMAIN order'} = {n \in Clients : lease'[n].st # "none"}
    BY <2>8, <2>9
  <2> QED
    BY Zenon, <1>2, <2>2, <2>4, <2>10, <2>11 DEF ListExact
<1> QED
  BY Zenon, <1>3, <1>4

-----------------------------------------------------------------------------
(* DISCOVER *)

LEMMA PoolChosen ==
  ASSUME DSTypeOK, pools # <<>>
  PROVE  find_pool_for_request \in DOMAIN pools /\ pools[find_pool_for_request] \in Pool
<1> DEFINE some == {i \in DOMAIN pools : HasAvailable(pools[i])}
<1>1. pools \in Seq(Pool) /\ 1 \in DOMAIN pools /\ DOMAIN pools \subseteq Nat
  BY DEF DSTypeOK
<1>2. find_pool_for_request = IF some # {} THEN Least(some) ELSE 1
  BY Zenon DEF find_pool_for_request
<1>3. some \subseteq DOMAIN pools
  BY Zenon
<1> HIDE DEF some
<1>4. find_pool_for_request \in DOMAIN pools
  BY Zenon, <1>1, <1>2, <1>3, HasLeast
<1> QED
  BY <1>1, <1>4

\* The address offered is that of the client's valid lease, or reserved for it,
\* or free in the pool.
LEMMA OfferedType ==
  ASSUME DSTypeOK, pools # <<>>, NEW m \in Clients
  PROVE  LET p == pools[find_pool_for_request]
             o == Offered(m)
         IN  /\ o.ip \in Nat /\ o.pool \in Pool /\ SameShape(p, o.pool)
             /\ p.bits \subseteq o.pool.bits
             /\ \/ dhcp_lease_is_valid(lease[m]) /\ o.ip = lease[m].ip
                \/ /\ ~ dhcp_lease_is_valid(lease[m])
                   /\ \/ [ip |-> o.ip, mac |-> m] \in p.res
                      \/ o.ip # 0 =>
                           /\ dhcp_pool_contains(p, o.ip) /\ o.ip \notin p.bits
                           /\ ~ is_excluded(p, o.ip) /\ o.ip \in o.pool.bits
<1> DEFINE p == pools[find_pool_for_request]
<1>1. p \in Pool
  BY Zenon, PoolChosen
<1>2. p.res \subseteq [ip : Addresses, mac : Clients] /\ SameShape(p, p)
  BY Zenon, <1>1, PoolFields DEF Pool
<1>3. lease[m].ip \in Nat
  BY Zenon DEF DSTypeOK, Lease
<1>4. Offered(m) =
        IF dhcp_lease_is_valid(lease[m]) THEN [ip |-> lease[m].ip, pool |-> p]
        ELSE IF ReservedFor(p, m) # {} THEN [ip |-> Least(ReservedFor(p, m)), pool |-> p]
        ELSE AllocateNext(p)
  BY Zenon DEF Offered
<1> HIDE DEF p
<1>5. CASE dhcp_lease_is_valid(lease[m])
  BY <1>1, <1>2, <1>3, <1>4, <1>5 DEF p
<1>6. CASE ~ dhcp_lease_is_valid(lease[m]) /\ ReservedFor(p, m) # {}
  <2>1. ReservedFor(p, m) \subseteq Nat
    BY Zenon, <1>2, DhcpAssumption DEF ReservedFor
  <2>2. Least(ReservedFor(p, m)) \in ReservedFor(p, m)
    BY Zenon, <1>6, <2>1, HasLeast
  <2>3. PICK r \in p.res : r.mac = m /\ r.ip = Least(ReservedFor(p, m))
    BY Zenon, <2>2 DEF ReservedFor
  <2>4. r = [ip |-> Least(ReservedFor(p, m)), mac |-> m]
    BY Zenon, <1>2, <2>3
  <2> QED
    BY SMTT(30), <1>1, <1>2, <1>4, <1>6, <2>1, <2>2, <2>3, <2>4 DEF p
<1>7. CASE ~ dhcp_lease_is_valid(lease[m]) /\ ReservedFor(p, m) = {}
  <2>1. Offered(m) = AllocateNext(p)
    BY Zenon, <1>4, <1>7
  <2> QED
    BY Zenon, <1>1, <1>7, <2>1, AllocateType DEF p
<1> QED
  BY Zenon, <1>5, <1>6, <1>7

LEMMA OnPoolType ==
  ASSUME pools \in Seq(Pool), NEW i \in DOMAIN pools, NEW q \in Pool, OnPool(i, q)
  PROVE  /\ pools' \in Seq(Pool) /\ DOMAIN pools' = DOMAIN pools /\ pools'[i] = q
         /\ \A k \in DOMAIN pools \ {i} : pools'[k] = pools[k]
         /\ SameShape(pools[i], q) => \A k \in DOMAIN pools : SameShape(pools[k], pools'[k])
<1>1. pools' = [pools EXCEPT ![i] = q]
  BY Zenon DEF OnPool
<1>2. /\ pools' \in Seq(Pool) /\ DOMAIN pools' = DOMAIN pools /\ pools'[i] = q
      /\ \A k \in DOMAIN pools \ {i} : pools'[k] = pools[k]
  BY <1>1
<1> QED
  BY Zenon, <1>2 DEF SameShape

\* An address that a pool can hand out is nobody's, and not reserved.
LEMMA FreeIsNobodys ==
  ASSUME Safe, pools \in Seq(Pool), NEW i \in DOMAIN pools, NEW x \in Nat \ {0},
         dhcp_pool_contains(pools[i], x), x \notin pools[i].bits, ~ is_excluded(pools[i], x)
  PROVE  /\ \A n \in Clients : ~ Owns(n, x)
         /\ \A r \in Reservations(pools) : r.ip # x
         /\ \A k \in DOMAIN pools \ {i} : ~ dhcp_pool_contains(pools[k], x)
<1>1. ~ Blocked(pools, x) /\ ~ Fenced(pools, x)
  BY Zenon DEF Blocked, Fenced
<1>2. \A k \in DOMAIN pools \ {i} : ~ dhcp_pool_contains(pools[k], x)
  BY Zenon DEF Safe, Disjoint
<1> QED
  BY Zenon, <1>1, <1>2 DEF Safe

LEMMA OwnsAfterStore ==
  ASSUME lease \in [Clients -> Lease], NEW m \in Clients, NEW x \in Nat, NEW st,
         StoreLease(m, x, st),
         \A n \in Clients \ {m} : acked'[n] = acked[n],
         acked'[m] = acked[m] \/ acked'[m] = x
  PROVE  \A n \in Clients : \A ip \in Nat \ {0} :
           Owns(n, ip)' => Owns(n, ip) \/ (n = m /\ ip = x)
<1>1. /\ \A n \in Clients \ {m} : lease'[n] = lease[n]
      /\ lease'[m].ip = x
  BY Zenon DEF StoreLease
<1> QED
  BY Zenon, <1>1 DEF Owns, Holds

LEMMA DiscoverSafe ==
  ASSUME DSTypeOK, Safe, NEW m \in Clients, dhcp_server_handle_discover(m)
  PROVE  Safe'
<1> DEFINE i == find_pool_for_request
           p == pools[i]
           o == Offered(m)
<1>1. /\ pools # <<>> /\ UNCHANGED acked
      /\ \/ /\ o.ip = 0
            /\ OnPool(i, o.pool) /\ UNCHANGED <<lease, order>>
         \/ /\ o.ip # 0 /\ CanOffer(m)
            /\ OnPool(i, o.pool) /\ StoreLease(m, o.ip, "OFFERED")
         \/ /\ o.ip # 0 /\ ~ CanOffer(m)
            /\ OnPool(i, dhcp_pool_release(o.pool, o.ip)) /\ UNCHANGED <<lease, order>>
  BY Zenon DEF dhcp_server_handle_discover
<1>2. /\ o.ip \in Nat /\ o.pool \in Pool /\ SameShape(p, o.pool)
      /\ p.bits \subseteq o.pool.bits
      /\ \/ dhcp_lease_is_valid(lease[m]) /\ o.ip = lease[m].ip
         \/ /\ ~ dhcp_lease_is_valid(lease[m])
            /\ \/ [ip |-> o.ip, mac |-> m] \in p.res
               \/ o.ip # 0 =>
                    /\ dhcp_pool_contains(p, o.ip) /\ o.ip \notin p.bits
                    /\ ~ is_excluded(p, o.ip) /\ o.ip \in o.pool.bits
  BY Zenon, <1>1, OfferedType
<1>3. i \in DOMAIN pools /\ p \in Pool /\ pools \in Seq(Pool) /\ lease \in [Clients -> Lease]
  BY Zenon, <1>1, PoolChosen DEF DSTypeOK
<1> HIDE DEF i, o
<1>4. [ip |-> o.ip, mac |-> m] \in p.res =>
        /\ [ip |-> o.ip, mac |-> m] \in Reservations(pools)
        /\ Fenced(pools, o.ip) /\ \A n \in Clients \ {m} : ~ Owns(n, o.ip)
        /\ \A r \in Reservations(pools) : r.ip = o.ip => r.mac = m
  <2> SUFFICES ASSUME [ip |-> o.ip, mac |-> m] \in p.res
               PROVE  /\ [ip |-> o.ip, mac |-> m] \in Reservations(pools)
                      /\ Fenced(pools, o.ip) /\ \A n \in Clients \ {m} : ~ Owns(n, o.ip)
                      /\ \A r \in Reservations(pools) : r.ip = o.ip => r.mac = m
    BY Zenon
  <2> DEFINE own == [ip |-> o.ip, mac |-> m]
  <2>1. own \in Reservations(pools) /\ own.ip = o.ip /\ own.mac = m
    BY Zenon, <1>3 DEF Reservations
  <2> HIDE DEF own
  <2>2. Fenced(pools, own.ip) /\ \A n \in Clients \ {own.mac} : ~ Owns(n, own.ip)
    BY Zenon, <2>1 DEF Safe
  <2>3. \A r \in Reservations(pools) : r.ip = own.ip => r = own
    BY Zenon, <2>1 DEF Safe
  <2> QED
    BY Zenon, <2>1, <2>2, <2>3 DEF own
<1>5. CASE OnPool(i, o.pool)
  <2>1. /\ pools' \in Seq(Pool) /\ DOMAIN pools' = DOMAIN pools /\ pools'[i] = o.pool
        /\ \A k \in DOMAIN pools \ {i} : pools'[k] = pools[k]
        /\ \A k \in DOMAIN pools : SameShape(pools[k], pools'[k])
    BY Zenon, <1>2, <1>3, <1>5, OnPoolType
  <2>2. \A k \in DOMAIN pools : pools[k].bits \subseteq pools'[k].bits
    BY Zenon, <1>2, <2>1
  <2>3. \A ip : /\ Blocked(pools, ip) => Blocked(pools', ip)
                /\ Fenced(pools, ip) => Fenced(pools', ip)
    BY Zenon, <1>3, <2>1, <2>2, ShapesKept
  <2>4. \A n \in Clients : \A ip \in Nat \ {0} : Owns(n, ip) => Blocked(pools', ip)
    BY Zenon, <2>3 DEF Safe
  <2>5. CASE UNCHANGED lease
    <3>1. \A n \in Clients : \A ip \in Nat \ {0} : Owns(n, ip)' => Owns(n, ip)
      BY Zenon, <1>1, <2>5 DEF Owns, Holds
    <3>2. 0 \in Nat
      BY Zenon
    <3> QED
      BY Zenon, <1>3, <2>1, <2>4, <3>1, <3>2, SomeoneIs, SafeShapes
  <2>6. CASE o.ip # 0 /\ StoreLease(m, o.ip, "OFFERED")
    <3>1. \A n \in Clients : \A ip \in Nat \ {0} :
            Owns(n, ip)' => Owns(n, ip) \/ (n = m /\ ip = o.ip)
      BY Zenon, <1>1, <1>2, <1>3, <2>6, OwnsAfterStore
    <3>2. /\ \A n \in Clients \ {m} : ~ Owns(n, o.ip)
          /\ \A r \in Reservations(pools) : r.ip = o.ip => r.mac = m
          /\ Blocked(pools', o.ip)
      <4>1. CASE dhcp_lease_is_valid(lease[m]) /\ o.ip = lease[m].ip
        <5>1. Owns(m, o.ip) /\ o.ip \in Nat \ {0}
          BY Zenon, <1>2, <2>6, <4>1 DEF dhcp_lease_is_valid, Owns, Holds
        <5>2. \A r \in Reservations(pools) : r.ip = o.ip => r.mac = m
          BY Zenon, <5>1 DEF Safe
        <5>3. \A n \in Clients \ {m} : ~ Owns(n, o.ip)
          BY Zenon, <5>1 DEF Safe
        <5> QED
          BY Zenon, <2>4, <5>1, <5>2, <5>3
      <4>2. CASE [ip |-> o.ip, mac |-> m] \in p.res
        BY Zenon, <1>4, <2>3, <4>2, FencedIsBlocked
      <4>3. CASE /\ dhcp_pool_contains(p, o.ip) /\ o.ip \notin p.bits
                 /\ ~ is_excluded(p, o.ip) /\ o.ip \in o.pool.bits
        <5>1. /\ \A n \in Clients : ~ Owns(n, o.ip)
              /\ \A r \in Reservations(pools) : r.ip # o.ip
              /\ \A k \in DOMAIN pools \ {i} : ~ dhcp_pool_contains(pools[k], o.ip)
          BY Zenon, <1>2, <1>3, <2>6, <4>3, FreeIsNobodys
        <5>2. Blocked(pools', o.ip)
          BY Zenon, <2>1, <4>3, <5>1 DEF Blocked
        <5> QED
          BY Zenon, <5>1, <5>2
      <4> QED
        BY Zenon, <1>2, <2>6, <4>1, <4>2, <4>3
    <3>3. \A n \in Clients : \A ip \in Nat \ {0, o.ip} :
            Owns(n, ip) /\ Owns(n, ip)' => Blocked(pools', ip)
      BY Zenon, <2>4
    <3> QED
      BY Zenon, <1>2, <1>3, <2>1, <3>1, <3>2, <3>3, SomeoneIs, SafeShapes
  <2> QED
    BY Zenon, <1>1, <1>5, <2>5, <2>6
<1>6. CASE o.ip # 0 /\ ~ CanOffer(m) /\ UNCHANGED lease
           /\ OnPool(i, dhcp_pool_release(o.pool, o.ip))
  <2> DEFINE q == dhcp_pool_release(o.pool, o.ip)
  <2>1. q \in Pool /\ SameShape(o.pool, q) /\ o.pool.bits \ {o.ip} \subseteq q.bits
    BY Zenon, <1>2, ReleaseType
  <2>2. SameShape(p, q) /\ p.bits \ {o.ip} \subseteq q.bits
    BY Zenon, <1>2, <2>1 DEF SameShape
  <2> HIDE DEF q
  <2>3. OnPool(i, q)
    BY Zenon, <1>6 DEF q
  <2>4. /\ pools' \in Seq(Pool) /\ DOMAIN pools' = DOMAIN pools /\ pools'[i] = q
        /\ \A k \in DOMAIN pools \ {i} : pools'[k] = pools[k]
        /\ \A k \in DOMAIN pools : SameShape(pools[k], pools'[k])
    BY Zenon, <1>3, <2>1, <2>2, <2>3, OnPoolType
  <2>5. \A k \in DOMAIN pools : pools[k].bits \ {o.ip} \subseteq pools'[k].bits
    BY Zenon, <2>2, <2>4
  <2>6. \A n \in Clients : \A ip \in Nat \ {0} : Owns(n, ip)' => Owns(n, ip)
    BY Zenon, <1>1, <1>6 DEF Owns, Holds
  <2>7. \A n \in Clients : \A ip \in Nat \ {0} : Owns(n, ip) => Blocked(pools', ip)
    <3> SUFFICES ASSUME NEW n \in Clients, NEW ip \in Nat \ {0}, Owns(n, ip)
                 PROVE  Blocked(pools', ip)
      BY Zenon
    <3>1. Blocked(pools, ip)
      BY Zenon DEF Safe
    <3>2. CASE ip # o.ip
      <4>1. \A k \in DOMAIN pools : ip \in pools[k].bits => ip \in pools'[k].bits
        BY Zenon, <2>5, <3>2
      <4> QED
        BY Zenon, <1>3, <2>4, <3>1, <4>1, ShapesKept
    <3>3. CASE ip = o.ip
      <4>1. ~ dhcp_lease_is_valid(lease[m])
        BY Zenon, <1>6 DEF CanOffer, dhcp_lease_is_valid, Held
      <4>2. CASE [ip |-> o.ip, mac |-> m] \in p.res
        <5>1. Fenced(pools, ip)
          BY Zenon, <1>4, <3>3, <4>2
        <5>2. Fenced(pools', ip)
          BY Zenon, <1>3, <2>4, <5>1, ShapesKept
        <5> QED
          BY Zenon, <5>2, FencedIsBlocked
      <4>3. CASE /\ dhcp_pool_contains(p, o.ip) /\ o.ip \notin p.bits
                 /\ ~ is_excluded(p, o.ip)
        BY Zenon, <1>3, <3>3, <4>3, FreeIsNobodys
      <4> QED
        BY Zenon, <1>2, <1>6, <4>1, <4>2, <4>3
    <3> QED
      BY Zenon, <3>2, <3>3
  <2>8. 0 \in Nat
    BY Zenon
  <2> QED
    BY <1>3, <2>4, <2>6, <2>7, <2>8, SomeoneIs, SafeShapes
<1> QED
  BY Zenon, <1>1, <1>5, <1>6

-----------------------------------------------------------------------------
(* REQUEST, RELEASE, DECLINE and time *)

LEMMA MarkedPools ==
  ASSUME pools \in Seq(Pool), NEW ip \in Nat, NEW ps,
         ps = [i \in DOMAIN pools |-> IF i \in dhcp_server_find_pool_for_ip(ip)
                                      THEN dhcp_pool_mark_used(pools[i], ip) ELSE pools[i]]
  PROVE  /\ ps \in Seq(Pool) /\ DOMAIN ps = DOMAIN pools
         /\ \A i \in DOMAIN pools : /\ SameShape(pools[i], ps[i])
                                    /\ pools[i].bits \subseteq ps[i].bits
         /\ \A i \in dhcp_server_find_pool_for_ip(ip) : ip \in ps[i].bits
<1>1. ASSUME NEW i \in DOMAIN pools
      PROVE  /\ ps[i] \in Pool /\ SameShape(pools[i], ps[i])
             /\ pools[i].bits \subseteq ps[i].bits
             /\ i \in dhcp_server_find_pool_for_ip(ip) => ip \in ps[i].bits
  <2>1. pools[i] \in Pool
    OBVIOUS
  <2>2. CASE i \in dhcp_server_find_pool_for_ip(ip)
    <3>1. ps[i] = dhcp_pool_mark_used(pools[i], ip) /\ dhcp_pool_contains(pools[i], ip)
      BY Zenon, <2>2 DEF dhcp_server_find_pool_for_ip
    <3> QED
      BY Zenon, <2>1, <3>1, MarkUsedType
  <2>3. CASE i \notin dhcp_server_find_pool_for_ip(ip)
    BY Zenon, <2>1, <2>3, PoolFields
  <2> QED
    BY Zenon, <2>2, <2>3
<1>2. DOMAIN ps = DOMAIN pools /\ DOMAIN pools = 1 .. Len(pools) /\ Len(pools) \in Nat
  OBVIOUS
<1>3. ps \in Seq(Pool)
  BY <1>1, <1>2
<1>4. dhcp_server_find_pool_for_ip(ip) \subseteq DOMAIN pools
  BY Zenon DEF dhcp_server_find_pool_for_ip
<1> QED
  BY Zenon, <1>1, <1>2, <1>3, <1>4

LEMMA DeclinedPools ==
  ASSUME pools \in Seq(Pool), NEW ip \in Nat, NEW ps,
         ps = [i \in DOMAIN pools |-> IF i \in dhcp_server_find_pool_for_ip(ip)
                                      THEN dhcp_pool_mark_declined(pools[i], ip) ELSE pools[i]]
  PROVE  /\ ps \in Seq(Pool) /\ DOMAIN ps = DOMAIN pools
         /\ \A i \in DOMAIN pools : /\ SameShape(pools[i], ps[i])
                                    /\ pools[i].bits \subseteq ps[i].bits
<1>1. ASSUME NEW i \in DOMAIN pools
      PROVE  /\ ps[i] \in Pool /\ SameShape(pools[i], ps[i])
             /\ pools[i].bits \subseteq ps[i].bits
  <2>1. pools[i] \in Pool
    OBVIOUS
  <2>2. ps[i] = dhcp_pool_mark_declined(pools[i], ip) \/ ps[i] = pools[i]
    BY Zenon
  <2> QED
    BY Zenon, <2>1, <2>2, MarkDeclinedType, PoolFields
<1>2. DOMAIN ps = DOMAIN pools /\ DOMAIN pools = 1 .. Len(pools) /\ Len(pools) \in Nat
  OBVIOUS
<1>3. ps \in Seq(Pool)
  BY <1>1, <1>2
<1> QED
  BY Zenon, <1>1, <1>2, <1>3

LEMMA ReleasedPools ==
  ASSUME pools \in Seq(Pool), NEW ip \in Nat, NEW ps, ps = ReleaseIp(ip)
  PROVE  /\ ps \in Seq(Pool) /\ DOMAIN ps = DOMAIN pools
         /\ \A i \in DOMAIN pools : /\ SameShape(pools[i], ps[i])
                                    /\ pools[i].bits \ {ip} \subseteq ps[i].bits
<1>1. ASSUME NEW i \in DOMAIN pools
      PROVE  /\ ps[i] \in Pool /\ SameShape(pools[i], ps[i])
             /\ pools[i].bits \ {ip} \subseteq ps[i].bits
  <2>1. pools[i] \in Pool
    OBVIOUS
  <2>2. ps[i] = dhcp_pool_release(pools[i], ip) \/ ps[i] = pools[i]
    BY Zenon DEF ReleaseIp
  <2> QED
    BY Zenon, <2>1, <2>2, ReleaseType, PoolFields
<1>2. /\ DOMAIN ps = DOMAIN pools /\ DOMAIN pools = 1 .. Len(pools) /\ Len(pools) \in Nat
      /\ ps = [i \in DOMAIN pools |-> ps[i]]
  BY DEF ReleaseIp
<1>3. ps \in Seq(Pool)
  BY <1>1, <1>2
<1> QED
  BY Zenon, <1>1, <1>2, <1>3

\* Steps after which no client has more, and no pool has fewer bits set.
LEMMA SafeGrow ==
  ASSUME Safe, pools \in Seq(Pool), pools' \in Seq(Pool),
         DOMAIN pools' = DOMAIN pools,
         \A i \in DOMAIN pools : SameShape(pools[i], pools'[i]) /\ pools[i].bits \subseteq pools'[i].bits,
         \A n \in Clients : \A ip \in Nat \ {0} : Owns(n, ip)' => Owns(n, ip)
  PROVE  Safe'
<1>1. PICK m \in Anyone : TRUE
  BY Zenon, NobodyIs
<1>2. \A ip : Blocked(pools, ip) => Blocked(pools', ip)
  BY Zenon, ShapesKept
<1>3. \A n \in Clients : \A ip \in Nat \ {0} : Owns(n, ip) => Blocked(pools', ip)
  BY Zenon, <1>2 DEF Safe
<1>4. 0 \in Nat
  BY Zenon
<1> QED
  BY Zenon, <1>3, <1>4, SomeoneIs, SafeShapes

\* Steps that put one address back that is nobody's afterwards.
LEMMA SafeRelease ==
  ASSUME Safe, pools \in Seq(Pool), pools' \in Seq(Pool), NEW m \in Clients, NEW x \in Nat,
         DOMAIN pools' = DOMAIN pools,
         \A i \in DOMAIN pools : SameShape(pools[i], pools'[i]) /\ pools[i].bits \ {x} \subseteq pools'[i].bits,
         \A n \in Clients : \A ip \in Nat \ {0} : Owns(n, ip)' => Owns(n, ip) /\ ip # x
  PROVE  Safe'
<1>1. \A n \in Clients : \A ip \in Nat \ {0} : Owns(n, ip)' => Blocked(pools', ip)
  <2> SUFFICES ASSUME NEW n \in Clients, NEW ip \in Nat \ {0}, Owns(n, ip)'
               PROVE  Blocked(pools', ip)
    BY Zenon
  <2>1. Blocked(pools, ip) /\ ip # x
    BY Zenon DEF Safe
  <2>2. \A i \in DOMAIN pools : ip \in pools[i].bits => ip \in pools'[i].bits
    BY Zenon, <2>1
  <2> QED
    BY Zenon, <2>1, <2>2, ShapesKept
<1>2. 0 \in Nat
  BY Zenon
<1> QED
  BY Zenon, <1>1, <1>2, SomeoneIs, SafeShapes

LEMMA RequestSafe ==
  ASSUME DSTypeOK, Safe, NEW m \in Clients, NEW rq \in Nat, NEW ci \in Nat, orderly,
         dhcp_server_handle_request(m, rq, ci), orderly'
  PROVE  Safe'
<1> DEFINE known == lease[m].st # "none"
           x     == IF known THEN lease[m].ip ELSE ci
           asked == IF rq # 0 THEN rq ELSE ci
           nak   == asked # 0 /\ asked # x
<1>1. /\ pools \in Seq(Pool) /\ lease \in [Clients -> Lease] /\ acked \in [Clients -> Nat]
      /\ x \in Nat
  BY Zenon DEF DSTypeOK, Lease
<1>2. /\ known \/ Rebinds(m, ci)
      /\ IF known /\ (nak \/ lease[m].st \notin Held)
           THEN UNCHANGED <<lease, order>> ELSE StoreLease(m, x, "BOUND")
      /\ IF nak THEN UNCHANGED <<pools, acked>>
         ELSE /\ pools' = [i \in DOMAIN pools |->
                             IF i \in dhcp_server_find_pool_for_ip(x)
                             THEN dhcp_pool_mark_used(pools[i], x) ELSE pools[i]]
              /\ send_dhcp_response(m, x)
      /\ IF known THEN nak \/ lease[m].st \in Held ELSE ~ nak
  BY Zenon DEF dhcp_server_handle_request
<1> HIDE DEF x, nak
<1>3. CASE nak
  <2>1. UNCHANGED <<pools, acked, lease>>
    BY Zenon, <1>2, <1>3
  <2> QED
    BY Zenon, <2>1, SafeKept
<1>4. CASE ~ nak
  <2>1. StoreLease(m, x, "BOUND") /\ (known => lease[m].st \in Held)
    BY Zenon, <1>2, <1>4
  <2>2. /\ \A n \in Clients \ {m} : acked'[n] = acked[n]
        /\ acked'[m] = acked[m] \/ acked'[m] = x
    BY Zenon, <1>1, <1>2, <1>4 DEF send_dhcp_response
  <2>3. \A n \in Clients : \A ip \in Nat \ {0} :
          Owns(n, ip)' => Owns(n, ip) \/ (n = m /\ ip = x)
    BY Zenon, <1>1, <2>1, <2>2, OwnsAfterStore
  <2>4. pools' = [i \in DOMAIN pools |->
                    IF i \in dhcp_server_find_pool_for_ip(x)
                    THEN dhcp_pool_mark_used(pools[i], x) ELSE pools[i]]
    BY Zenon, <1>2, <1>4
  <2>5. /\ pools' \in Seq(Pool) /\ DOMAIN pools' = DOMAIN pools
        /\ \A i \in DOMAIN pools : /\ SameShape(pools[i], pools'[i])
                                   /\ pools[i].bits \subseteq pools'[i].bits
        /\ \A i \in dhcp_server_find_pool_for_ip(x) : x \in pools'[i].bits
    BY Zenon, <1>1, <2>4, MarkedPools
  <2>6. \A ip : Blocked(pools, ip) => Blocked(pools', ip)
    BY Zenon, <1>1, <2>5, ShapesKept
  <2>7. \A n \in Clients : \A ip \in Nat \ {0} : Owns(n, ip) => Blocked(pools', ip)
    BY Zenon, <2>6 DEF Safe
  <2>8. ASSUME x # 0
        PROVE  /\ \A n \in Clients \ {m} : ~ Owns(n, x)
               /\ \A r \in Reservations(pools) : r.ip = x => r.mac = m
               /\ Blocked(pools', x)
    <3>1. CASE known
      <4>1. Owns(m, x) /\ x \in Nat \ {0}
        BY Zenon, <1>1, <2>1, <2>8, <3>1 DEF Owns, Holds, x
      <4>2. \A r \in Reservations(pools) : r.ip = x => r.mac = m
        BY Zenon, <4>1 DEF Safe
      <4>3. \A n \in Clients \ {m} : ~ Owns(n, x)
        BY Zenon, <4>1 DEF Safe
      <4> QED
        BY Zenon, <2>7, <4>1, <4>2, <4>3
    <3>2. CASE ~ known
      <4>1. x = ci /\ Rebinds(m, ci)
        BY Zenon, <1>2, <3>2 DEF x
      <4>2. PICK i \in dhcp_server_find_pool_for_ip(x) : dhcp_pool_is_available(pools[i], x)
        BY Zenon, <4>1 DEF Rebinds
      <4>3. /\ i \in DOMAIN pools /\ dhcp_pool_contains(pools[i], x)
            /\ x \notin pools[i].bits /\ ~ is_excluded(pools[i], x)
        BY Zenon, <4>2 DEF dhcp_server_find_pool_for_ip, dhcp_pool_is_available
      <4>4. /\ \A n \in Clients : ~ Owns(n, x)
            /\ \A r \in Reservations(pools) : r.ip # x
            /\ \A k \in DOMAIN pools \ {i} : ~ dhcp_pool_contains(pools[k], x)
        BY Zenon, <1>1, <2>8, <4>3, FreeIsNobodys
      <4>5. x \in pools'[i].bits
        BY Zenon, <2>5, <4>2
      <4>6. \A k \in DOMAIN pools : dhcp_pool_contains(pools'[k], x) <=> dhcp_pool_contains(pools[k], x)
        BY Zenon, <2>5 DEF SameShape, dhcp_pool_contains
      <4>7. Blocked(pools', x)
        BY Zenon, <2>5, <4>4, <4>5, <4>6 DEF Blocked
      <4> QED
        BY Zenon, <4>4, <4>7
    <3> QED
      BY Zenon, <3>1, <3>2
  <2>9. \A n \in Clients : \A ip \in Nat \ {0, x} :
            Owns(n, ip) /\ Owns(n, ip)' => Blocked(pools', ip)
    BY Zenon, <2>7
  <2> QED
    <3>1. m \in Anyone
      BY Zenon, SomeoneIs
    <3>2. x # 0 => /\ \A n \in Clients \ {m} : ~ Owns(n, x)
                   /\ \A r \in Reservations(pools) : r.ip = x => r.mac = m
                   /\ Blocked(pools', x)
      BY Zenon, <2>8
    <3> QED
      BY <1>1, <2>3, <2>5, <2>9, <3>1, <3>2, SafeShapes
<1> QED
  BY Zenon, <1>3, <1>4

LEMMA ReleaseSafe ==
  ASSUME DSTypeOK, Safe, NEW m \in Clients, dhcp_server_handle_release(m), orderly'
  PROVE  Safe'
<1> DEFINE x == lease[m].ip
<1>1. /\ pools \in Seq(Pool) /\ lease \in [Clients -> Lease] /\ acked \in [Clients -> Nat]
      /\ x \in Nat
  BY Zenon DEF DSTypeOK, Lease
<1>2. /\ pools' = ReleaseIp(x) /\ lease[m].st \in Held
      /\ lease' = [lease EXCEPT ![m].st = "FREE", ![m].fresh = FALSE]
      /\ acked' = [acked EXCEPT ![m] = 0]
  BY Zenon DEF dhcp_server_handle_release
<1>3. Owns(m, x)
  BY Zenon, <1>2 DEF Owns, Holds
<1>4. /\ \A n \in Clients \ {m} : lease'[n] = lease[n] /\ acked'[n] = acked[n]
      /\ acked'[m] = 0
  BY Zenon, <1>1, <1>2
<1>5. lease'[m].st = "FREE"
  BY Zenon, <1>1, <1>2 DEF Lease
<1>6. \A n \in Clients : \A ip \in Nat \ {0} : Owns(n, ip)' => Owns(n, ip) /\ ip # x
  <2> SUFFICES ASSUME NEW n \in Clients, NEW ip \in Nat \ {0}, Owns(n, ip)'
               PROVE  Owns(n, ip) /\ ip # x
    BY Zenon
  <2>1. n # m
    BY Zenon, <1>4, <1>5 DEF Owns, Holds, Held
  <2>2. Owns(n, ip)
    BY Zenon, <1>4, <2>1 DEF Owns, Holds
  <2>3. ~ Owns(m, ip)
    BY Zenon, <2>1, <2>2 DEF Safe
  <2> QED
    BY Zenon, <1>3, <2>2, <2>3
<1> HIDE DEF x
<1>7. /\ pools' \in Seq(Pool) /\ DOMAIN pools' = DOMAIN pools
      /\ \A i \in DOMAIN pools : /\ SameShape(pools[i], pools'[i])
                                 /\ pools[i].bits \ {x} \subseteq pools'[i].bits
  BY Zenon, <1>1, <1>2, ReleasedPools
<1> QED
  BY Zenon, <1>1, <1>6, <1>7, SafeRelease

LEMMA DeclineSafe ==
  ASSUME DSTypeOK, Safe, NEW m \in Clients, NEW ip \in Nat, dhcp_server_handle_decline(m, ip)
  PROVE  Safe'
<1>1. /\ pools \in Seq(Pool) /\ lease \in [Clients -> Lease] /\ acked \in [Clients -> Nat]
  BY Zenon DEF DSTypeOK
<1>2. /\ pools' \in Seq(Pool) /\ DOMAIN pools' = DOMAIN pools
      /\ \A i \in DOMAIN pools : /\ SameShape(pools[i], pools'[i])
                                 /\ pools[i].bits \subseteq pools'[i].bits
  BY Zenon, <1>1, DeclinedPools DEF dhcp_server_handle_decline
<1>3. \A n \in Clients : /\ lease'[n] = lease[n] \/ lease'[n].st = "DECLINED"
                         /\ acked'[n] = acked[n] \/ acked'[n] = 0
  BY Zenon, <1>1 DEF dhcp_server_handle_decline, Lease
<1>4. \A n \in Clients : \A a \in Nat \ {0} : Owns(n, a)' => Owns(n, a)
  BY Zenon, <1>3 DEF Owns, Holds, Held
<1> QED
  BY Zenon, <1>1, <1>2, <1>4, SafeGrow

LEMMA TimeSafe ==
  ASSUME DSTypeOK, Safe, NEW m \in Clients, LeaseRunsOut(m) \/ ClientForgets(m)
  PROVE  Safe'
<1>1. /\ pools \in Seq(Pool) /\ lease \in [Clients -> Lease] /\ acked \in [Clients -> Nat]
  BY Zenon DEF DSTypeOK
<1>2. /\ UNCHANGED pools
      /\ \A n \in Clients : /\ lease'[n].st = lease[n].st /\ lease'[n].ip = lease[n].ip
                            /\ acked'[n] = acked[n] \/ acked'[n] = 0
  <2>1. CASE ClientForgets(m)
    BY Zenon, <1>1, <2>1 DEF ClientForgets
  <2>2. CASE LeaseRunsOut(m)
    <3>1. /\ UNCHANGED <<pools, acked>> /\ lease'[m] = [lease[m] EXCEPT !.fresh = FALSE]
          /\ \A n \in Clients \ {m} : lease'[n] = lease[n]
      BY Zenon, <1>1, <2>2 DEF LeaseRunsOut
    <3>2. lease[m] \in Lease
      BY Zenon, <1>1
    <3>3. lease'[m].st = lease[m].st /\ lease'[m].ip = lease[m].ip
      BY Zenon, <3>1, <3>2 DEF Lease
    <3> QED
      BY Zenon, <3>1, <3>3
  <2> QED
    BY Zenon, <2>1, <2>2
<1>3. \A n \in Clients : \A a \in Nat \ {0} : Owns(n, a)' => Owns(n, a)
  BY Zenon, <1>2 DEF Owns, Holds
<1>4. \A i \in DOMAIN pools : SameShape(pools[i], pools'[i]) /\ pools[i].bits \subseteq pools'[i].bits
  BY <1>1, <1>2, PoolFields
<1> QED
  BY Zenon, <1>1, <1>2, <1>3, <1>4, SafeGrow

-----------------------------------------------------------------------------
(* The administrator *)

\* Owners, and the clients told an address, are as before.
LEMMA AddReservationSafe ==
  ASSUME DSTypeOK, Safe, NEW i \in DOMAIN pools, NEW m \in Clients, NEW x \in Addresses,
         AddReservation(i, m, x), orderly'
  PROVE  pools' \in Seq(Pool) /\ Safe'
<1> DEFINE p == pools[i]
           r == [ip |-> x, mac |-> m]
           q == dhcp_pool_add_reservation(p, x, m)
<1>1. pools \in Seq(Pool) /\ p \in Pool
  BY DEF DSTypeOK
<1>2. OnPool(i, q) /\ UNCHANGED <<lease, acked>> /\ Apart(m, x)
  BY Zenon DEF AddReservation
<1>3. /\ q \in Pool /\ q.lo = p.lo /\ q.hi = p.hi /\ q.bits = p.bits /\ q.excl = p.excl
      /\ q.res = p.res \cup {r}
  <2>1. r \in [ip : Addresses, mac : Clients]
    BY Zenon
  <2>2. q = [p EXCEPT !.res = p.res \cup {r}]
    BY Zenon DEF dhcp_pool_add_reservation
  <2> HIDE DEF q, r
  <2>3. p.res \cup {r} \in SUBSET [ip : Addresses, mac : Clients]
    BY Zenon, <1>1, <2>1 DEF Pool
  <2> QED
    BY Zenon, <1>1, <2>2, <2>3 DEF Pool
<1> HIDE DEF q
<1>4. /\ pools' \in Seq(Pool) /\ DOMAIN pools' = DOMAIN pools /\ pools'[i] = q
      /\ \A k \in DOMAIN pools \ {i} : pools'[k] = pools[k]
  BY Zenon, <1>1, <1>2, <1>3, OnPoolType
<1>5. \A k \in DOMAIN pools : /\ pools'[k].lo = pools[k].lo /\ pools'[k].hi = pools[k].hi
                              /\ pools'[k].bits = pools[k].bits /\ pools'[k].excl = pools[k].excl
  BY Zenon, <1>3, <1>4
<1>6. \A k \in DOMAIN pools : \A ip :
        /\ dhcp_pool_contains(pools'[k], ip) <=> dhcp_pool_contains(pools[k], ip)
        /\ is_excluded(pools'[k], ip) <=> is_excluded(pools[k], ip)
  BY <1>5 DEF dhcp_pool_contains, is_excluded
<1>7. Reservations(pools') = Reservations(pools) \cup {r}
  BY <1>3, <1>4 DEF Reservations
<1>8. \A ip : (Blocked(pools', ip) <=> Blocked(pools, ip)) /\ (Fenced(pools', ip) <=> Fenced(pools, ip))
  BY Zenon, <1>4, <1>5, <1>6 DEF Blocked, Fenced
<1>9. Disjoint(pools')
  BY Zenon, <1>4, <1>6 DEF Safe, Disjoint
<1>10. /\ Fenced(pools, x) /\ \A n \in Clients \ {m} : ~ Owns(n, x)
       /\ \A s \in Reservations(pools) : s.ip # x
  BY Zenon, <1>2 DEF Apart, Fenced, Reserved, Reservations, Owns
<1>11. \A n \in Clients : \A ip : Owns(n, ip)' <=> Owns(n, ip)
  BY Zenon, <1>2, OwnsKept
<1>12. r.ip = x /\ r.mac = m
  BY Zenon
<1> HIDE DEF r
<1>13. \A n \in Clients : \A ip \in Nat \ {0} : Owns(n, ip)' => Blocked(pools', ip)
  BY Zenon, <1>8, <1>11 DEF Safe
<1>14. \A s \in Reservations(pools') :
         Fenced(pools', s.ip) /\ \A n \in Clients \ {s.mac} : ~ Owns(n, s.ip)'
  BY <1>7, <1>8, <1>10, <1>11, <1>12 DEF Safe
<1>15. \A s, t \in Reservations(pools') : s.ip = t.ip => s = t
  BY Zenon, <1>7, <1>10, <1>12 DEF Safe
<1>16. \A k, n \in Clients : k # n => \A ip \in Nat \ {0} : Owns(k, ip)' => ~ Owns(n, ip)'
  BY Zenon, <1>11 DEF Safe
<1> QED
  BY Zenon, <1>4, <1>9, <1>13, <1>14, <1>15, <1>16 DEF Safe

\* Steps that change pools only, without widening any of them: a reservation
\* or a pool goes, an exclusion comes or, under the conditions of Orderly, goes.
LEMMA PoolsSafe ==
  ASSUME Safe, pools \in Seq(Pool), pools' \in Seq(Pool), UNCHANGED <<lease, acked>>,
         Disjoint(pools'), Reservations(pools') \subseteq Reservations(pools),
         \A ip \in Nat : Reserved(ip) /\ Fenced(pools, ip) => Fenced(pools', ip),
         \A ip \in Nat : InUse(ip) /\ Blocked(pools, ip) => Blocked(pools', ip)
  PROVE  Safe'
<1>1. PICK m \in Anyone : TRUE
  BY Zenon, NobodyIs
<1>2. \A n \in Clients : \A ip : Owns(n, ip)' <=> Owns(n, ip)
  BY Zenon, OwnsKept
<1>3. \A r \in Reservations(pools') : Fenced(pools', r.ip)
  <2> SUFFICES ASSUME NEW r \in Reservations(pools') PROVE Fenced(pools', r.ip)
    BY Zenon
  <2>1. Reserved(r.ip)
    BY Zenon DEF Reservations, Reserved
  <2>2. r.ip \in Nat
    BY Zenon, ReservationType
  <2> QED
    BY Zenon, <2>1, <2>2 DEF Safe
<1>4. \A n \in Clients : \A ip \in Nat \ {0} : Owns(n, ip)' => Blocked(pools', ip)
  <2> SUFFICES ASSUME NEW n \in Clients, NEW ip \in Nat \ {0}, Owns(n, ip)'
               PROVE  Blocked(pools', ip)
    BY Zenon
  <2>1. Owns(n, ip)
    BY Zenon, <1>2
  <2>2. InUse(ip) /\ Blocked(pools, ip)
    BY Zenon, <2>1 DEF Owns, InUse, Safe
  <2> QED
    BY Zenon, <2>2
<1>5. 0 \in Nat
  BY Zenon
<1> QED
  BY Zenon, <1>1, <1>2, <1>3, <1>4, <1>5, SafeStep

LEMMA RemoveReservationSafe ==
  ASSUME DSTypeOK, NEW i \in DOMAIN pools, NEW x \in Addresses,
         RemoveReservation(i, x)
  PROVE  pools' \in Seq(Pool) /\ (Safe => Safe')
<1> DEFINE p == pools[i]
           q == dhcp_pool_remove_reservation(p, x)
<1>1. pools \in Seq(Pool) /\ p \in Pool
  BY DEF DSTypeOK
<1>2. OnPool(i, q) /\ UNCHANGED <<lease, acked>>
  BY Zenon DEF RemoveReservation
<1>3. /\ q \in Pool /\ q.lo = p.lo /\ q.hi = p.hi /\ q.bits = p.bits /\ q.excl = p.excl
      /\ q.res \subseteq p.res
  BY Zenon, <1>1 DEF dhcp_pool_remove_reservation, Pool
<1> HIDE DEF q
<1>4. /\ pools' \in Seq(Pool) /\ DOMAIN pools' = DOMAIN pools /\ pools'[i] = q
      /\ \A k \in DOMAIN pools \ {i} : pools'[k] = pools[k]
  BY Zenon, <1>1, <1>2, <1>3, OnPoolType
<1>5. \A k \in DOMAIN pools : /\ pools'[k].lo = pools[k].lo /\ pools'[k].hi = pools[k].hi
                              /\ pools'[k].bits = pools[k].bits /\ pools'[k].excl = pools[k].excl
                              /\ pools'[k].res \subseteq pools[k].res
  BY Zenon, <1>3, <1>4
<1>6. \A k \in DOMAIN pools : \A ip :
        /\ dhcp_pool_contains(pools'[k], ip) <=> dhcp_pool_contains(pools[k], ip)
        /\ is_excluded(pools'[k], ip) <=> is_excluded(pools[k], ip)
  BY <1>5 DEF dhcp_pool_contains, is_excluded
<1>7. Reservations(pools') \subseteq Reservations(pools)
  BY <1>4, <1>5 DEF Reservations
<1>8. \A ip : (Blocked(pools, ip) => Blocked(pools', ip)) /\ (Fenced(pools, ip) => Fenced(pools', ip))
  BY Zenon, <1>4, <1>5, <1>6 DEF Blocked, Fenced
<1>9. Safe => Disjoint(pools')
  BY Zenon, <1>4, <1>6 DEF Safe, Disjoint
<1> QED
  BY Zenon, <1>1, <1>2, <1>4, <1>7, <1>8, <1>9, PoolsSafe

LEMMA AddExclusionSafe ==
  ASSUME DSTypeOK, NEW i \in DOMAIN pools, NEW e \in IpRange, AddExclusion(i, e)
  PROVE  pools' \in Seq(Pool) /\ (Safe => Safe')
<1> DEFINE p == pools[i]
           q == dhcp_pool_add_exclusion(p, e.lo, e.hi)
<1>1. pools \in Seq(Pool) /\ p \in Pool
  BY DEF DSTypeOK
<1>2. OnPool(i, q) /\ UNCHANGED <<lease, acked>>
  BY Zenon DEF AddExclusion
<1>3. /\ q \in Pool /\ q.lo = p.lo /\ q.hi = p.hi /\ q.res = p.res
      /\ p.bits \subseteq q.bits
      /\ \A ip : is_excluded(p, ip) => is_excluded(q, ip)
  BY Zenon, <1>1, AddExclusionType
<1> HIDE DEF q
<1>4. /\ pools' \in Seq(Pool) /\ DOMAIN pools' = DOMAIN pools /\ pools'[i] = q
      /\ \A k \in DOMAIN pools \ {i} : pools'[k] = pools[k]
  BY Zenon, <1>1, <1>2, <1>3, OnPoolType
<1>5. \A k \in DOMAIN pools : /\ pools'[k].lo = pools[k].lo /\ pools'[k].hi = pools[k].hi
                              /\ pools[k].bits \subseteq pools'[k].bits
                              /\ pools'[k].res = pools[k].res
                              /\ \A ip : is_excluded(pools[k], ip) => is_excluded(pools'[k], ip)
  BY Zenon, <1>3, <1>4
<1>6. \A k \in DOMAIN pools : \A ip :
        dhcp_pool_contains(pools'[k], ip) <=> dhcp_pool_contains(pools[k], ip)
  BY Zenon, <1>5 DEF dhcp_pool_contains
<1>7. Reservations(pools') = Reservations(pools)
  BY <1>4, <1>5 DEF Reservations
<1>8. \A ip : (Blocked(pools, ip) => Blocked(pools', ip)) /\ (Fenced(pools, ip) => Fenced(pools', ip))
  BY Zenon, <1>4, <1>5, <1>6 DEF Blocked, Fenced
<1>9. Safe => Disjoint(pools')
  BY Zenon, <1>4, <1>6 DEF Safe, Disjoint
<1> QED
  BY <1>1, <1>2, <1>4, <1>7, <1>8, <1>9, PoolsSafe

LEMMA RemoveExclusionType ==
  ASSUME NEW p \in Pool, NEW lo
  PROVE  LET q == dhcp_pool_remove_exclusion(p, lo)
         IN  q \in Pool /\ q.lo = p.lo /\ q.hi = p.hi /\ q.res = p.res /\ q.bits = p.bits
<1> DEFINE hits == {i \in DOMAIN p.excl : p.excl[i].lo = lo}
           n == Len(p.excl)
           s == [p.excl EXCEPT ![Least(hits)] = p.excl[n]]
           q == [p EXCEPT !.excl = SubSeq(s, 1, n - 1)]
<1>1. p.excl \in Seq(IpRange)
  BY Zenon DEF Pool
<1>2. dhcp_pool_remove_exclusion(p, lo) = IF hits = {} THEN p ELSE q
  BY Zenon DEF dhcp_pool_remove_exclusion
<1>3. CASE hits = {}
  BY Zenon, <1>2, <1>3
<1>4. CASE hits # {}
  <2>1. hits \subseteq Nat /\ n \in Nat /\ n \in DOMAIN p.excl
    BY <1>1, <1>4
  <2>2. Least(hits) \in hits
    BY Zenon, <1>4, <2>1, HasLeast
  <2>3. p.excl[n] \in IpRange
    BY <1>1, <2>1
  <2>4. s \in Seq(IpRange) /\ Len(s) = n
    BY <1>1, <2>2, <2>3
  <2> HIDE DEF s, n, hits
  <2>5. SubSeq(s, 1, n - 1) \in Seq(IpRange)
    BY <2>1, <2>4
  <2>6. q \in Pool /\ q.lo = p.lo /\ q.hi = p.hi /\ q.res = p.res /\ q.bits = p.bits
    BY Zenon, <2>5 DEF Pool
  <2> QED
    BY Zenon, <1>2, <1>4, <2>6
<1> QED
  BY Zenon, <1>3, <1>4

LEMMA RemoveExclusionSafe ==
  ASSUME DSTypeOK, NEW i \in DOMAIN pools, NEW e, RemoveExclusion(i, e)
  PROVE  pools' \in Seq(Pool) /\ (Safe /\ orderly' => Safe')
<1> DEFINE p == pools[i]
           q == dhcp_pool_remove_exclusion(p, e.lo)
           freed == {ip \in q.lo .. q.hi : is_excluded(p, ip) /\ ~ is_excluded(q, ip)}
<1>1. pools \in Seq(Pool) /\ p \in Pool
  BY DEF DSTypeOK
<1>2. /\ OnPool(i, q) /\ UNCHANGED <<lease, acked>>
      /\ orderly' => \A ip \in freed : (InUse(ip) => ip \in q.bits) /\ ~ Reserved(ip)
  BY Zenon DEF RemoveExclusion
<1>3. q \in Pool /\ q.lo = p.lo /\ q.hi = p.hi /\ q.res = p.res /\ q.bits = p.bits
  BY Zenon, <1>1, RemoveExclusionType
<1> HIDE DEF q
<1>4. /\ pools' \in Seq(Pool) /\ DOMAIN pools' = DOMAIN pools /\ pools'[i] = q
      /\ \A k \in DOMAIN pools \ {i} : pools'[k] = pools[k]
  BY Zenon, <1>1, <1>2, <1>3, OnPoolType
<1>5. \A k \in DOMAIN pools : /\ pools'[k].lo = pools[k].lo /\ pools'[k].hi = pools[k].hi
                              /\ pools'[k].bits = pools[k].bits /\ pools'[k].res = pools[k].res
  BY Zenon, <1>3, <1>4
<1>6. \A k \in DOMAIN pools : \A ip :
        dhcp_pool_contains(pools'[k], ip) <=> dhcp_pool_contains(pools[k], ip)
  BY Zenon, <1>5 DEF dhcp_pool_contains
<1>7. Reservations(pools') = Reservations(pools)
  BY <1>4, <1>5 DEF Reservations
<1>8. ASSUME orderly', NEW ip \in Nat, InUse(ip), Blocked(pools, ip) PROVE Blocked(pools', ip)
  <2> SUFFICES ASSUME NEW k \in DOMAIN pools, dhcp_pool_contains(pools[k], ip)
               PROVE  ip \in pools'[k].bits \/ is_excluded(pools'[k], ip)
    BY Zenon, <1>4, <1>6 DEF Blocked
  <2>1. ip \in pools[k].bits \/ is_excluded(pools[k], ip)
    BY Zenon, <1>8 DEF Blocked
  <2>2. CASE k # i
    BY Zenon, <1>4, <2>1, <2>2
  <2>3. CASE k = i /\ ip \notin p.bits /\ ~ is_excluded(q, ip)
    <3>1. ip \in q.lo .. q.hi
      <4>1. pools[i].lo = q.lo /\ pools[i].hi = q.hi
        BY Zenon, <1>3
      <4>2. q.lo \in Nat /\ q.hi \in Nat
        BY Zenon, <1>3 DEF Pool
      <4>3. pools[i].lo <= ip /\ ip <= pools[i].hi
        BY Zenon, <2>3 DEF dhcp_pool_contains
      <4> QED
        BY <4>1, <4>2, <4>3
    <3>2. ip \in freed
      BY Zenon, <2>1, <2>3, <3>1
    <3> QED
      BY Zenon, <1>2, <1>3, <1>8, <2>3, <3>2
  <2> QED
    BY Zenon, <1>3, <1>4, <2>2, <2>3
<1>9. ASSUME orderly', NEW ip \in Nat, Reserved(ip), Fenced(pools, ip) PROVE Fenced(pools', ip)
  <2> SUFFICES ASSUME NEW k \in DOMAIN pools, dhcp_pool_contains(pools[k], ip)
               PROVE  is_excluded(pools'[k], ip)
    BY Zenon, <1>4, <1>6 DEF Fenced
  <2>1. is_excluded(pools[k], ip)
    BY Zenon, <1>9 DEF Fenced
  <2>2. CASE k # i
    BY Zenon, <1>4, <2>1, <2>2
  <2>3. CASE k = i /\ ~ is_excluded(q, ip)
    <3>1. ip \in q.lo .. q.hi
      BY <1>3, <1>9, <2>3 DEF dhcp_pool_contains, Pool
    <3>2. ip \in freed
      BY Zenon, <2>1, <2>3, <3>1
    <3> QED
      BY Zenon, <1>2, <1>9, <3>2
  <2> QED
    BY Zenon, <1>4, <2>2, <2>3
<1>10. Safe => Disjoint(pools')
  BY Zenon, <1>4, <1>6 DEF Safe, Disjoint
<1> QED
  BY Zenon, <1>1, <1>2, <1>4, <1>7, <1>8, <1>9, <1>10, PoolsSafe

LEMMA RemovePoolSafe ==
  ASSUME DSTypeOK, NEW i \in DOMAIN pools, dhcp_server_remove_pool(i)
  PROVE  pools' \in Seq(Pool) /\ (Safe => Safe')
<1>1. pools \in Seq(Pool) /\ UNCHANGED <<lease, acked>> /\ pools' = Unlinked(pools, i)
  BY Zenon DEF DSTypeOK, dhcp_server_remove_pool
<1> DEFINE f(k) == IF k < i THEN k ELSE k + 1
<1>2. /\ pools' \in Seq(Pool) /\ DOMAIN pools' = 1 .. Len(pools) - 1
      /\ \A k \in 1 .. Len(pools) - 1 : pools'[k] = pools[f(k)]
  BY Zenon, <1>1, UnlinkedType
<1>3. /\ \A k \in DOMAIN pools' : f(k) \in DOMAIN pools /\ pools'[k] = pools[f(k)]
      /\ \A j, k \in DOMAIN pools' : j # k => f(j) # f(k)
  BY SMTT(30), <1>1, <1>2
<1> HIDE DEF f
<1>4. Reservations(pools') \subseteq Reservations(pools)
  BY Zenon, <1>3 DEF Reservations
<1>5. \A ip : (Blocked(pools, ip) => Blocked(pools', ip)) /\ (Fenced(pools, ip) => Fenced(pools', ip))
  BY Zenon, <1>3 DEF Blocked, Fenced
<1>6. Safe => Disjoint(pools')
  BY Zenon, <1>3 DEF Safe, Disjoint
<1> QED
  BY Zenon, <1>1, <1>2, <1>4, <1>5, <1>6, PoolsSafe

LEMMA AddPoolSafe ==
  ASSUME DSTypeOK, NEW r \in IpRange, dhcp_server_add_pool(r)
  PROVE  pools' \in Seq(Pool) /\ (Safe /\ orderly' => Safe')
<1> DEFINE q == dhcp_pool_create(r.lo, r.hi)
           n == Len(pools) + 1
<1>1. pools \in Seq(Pool) /\ UNCHANGED <<lease, acked>> /\ pools' = Append(pools, q)
  BY Zenon DEF DSTypeOK, dhcp_server_add_pool
<1>2. r.lo \in Nat /\ r.hi \in Nat
  BY Zenon DEF IpRange
<1>3. q \in Pool /\ q.lo = r.lo /\ q.hi = r.hi /\ q.res = {}
  BY Zenon, <1>2, CreateType DEF dhcp_pool_create
<1> HIDE DEF q
<1>4. /\ pools' \in Seq(Pool) /\ DOMAIN pools' = DOMAIN pools \cup {n} /\ n \notin DOMAIN pools
      /\ pools'[n] = q /\ \A k \in DOMAIN pools : pools'[k] = pools[k]
  BY <1>1, <1>3
<1> HIDE DEF n
<1>5. ASSUME orderly', NEW ip \in Nat, dhcp_pool_contains(q, ip)
      PROVE  /\ ~ InUse(ip) /\ ~ Reserved(ip)
             /\ \A i \in DOMAIN pools : ~ dhcp_pool_contains(pools[i], ip)
  <2>1. ip \in r.lo .. r.hi
    BY <1>2, <1>3, <1>5 DEF dhcp_pool_contains
  <2> QED
    BY Zenon, <1>5, <2>1 DEF dhcp_server_add_pool
<1>6. Reservations(pools') \subseteq Reservations(pools)
  BY <1>3, <1>4 DEF Reservations
<1>7. orderly' => \A ip \in Nat : /\ InUse(ip) /\ Blocked(pools, ip) => Blocked(pools', ip)
                                  /\ Reserved(ip) /\ Fenced(pools, ip) => Fenced(pools', ip)
  BY Zenon, <1>4, <1>5 DEF Blocked, Fenced
<1>8. Safe /\ orderly' => Disjoint(pools')
  <2> SUFFICES ASSUME Safe, orderly', NEW i \in DOMAIN pools', NEW k \in DOMAIN pools', i # k,
                      NEW ip \in Nat,
                      dhcp_pool_contains(pools'[i], ip), dhcp_pool_contains(pools'[k], ip)
               PROVE  FALSE
    BY Zenon DEF Disjoint
  <2>1. CASE i = n
    BY Zenon, <1>4, <1>5, <2>1
  <2>2. CASE k = n
    BY Zenon, <1>4, <1>5, <2>2
  <2>3. CASE i # n /\ k # n
    BY Zenon, <1>4, <2>3 DEF Safe, Disjoint
  <2> QED
    BY Zenon, <2>1, <2>2, <2>3
<1> QED
  BY Zenon, <1>1, <1>4, <1>6, <1>7, <1>8, PoolsSafe

\* Nobody has an address: pools of any state without reservations, or with
\* those there were, are safe.
LEMMA NobodySafe ==
  ASSUME \A n \in Clients : \A ip \in Nat \ {0} : ~ Owns(n, ip)',
         pools' \in Seq(Pool), Disjoint(pools'),
         \A r \in Reservations(pools') : Fenced(pools', r.ip),
         \A r, q \in Reservations(pools') : r.ip = q.ip => r = q
  PROVE  Safe'
<1>1. \A r \in Reservations(pools') : \A n \in Clients \ {r.mac} : ~ Owns(n, r.ip)'
  BY Zenon, ReservationType
<1> QED
  BY Zenon, <1>1 DEF Safe

LEMMA ClearAllSafe ==
  ASSUME DSTypeOK, dhcp_server_clear_all_leases
  PROVE  pools' \in Seq(Pool) /\ (Safe /\ orderly' => Safe')
<1>1. /\ pools \in Seq(Pool) /\ acked \in [Clients -> Nat] /\ UNCHANGED acked
      /\ pools' = [i \in DOMAIN pools |-> dhcp_pool_reset(pools[i])]
      /\ lease' = [m \in Clients |-> None]
      /\ orderly' => \A m \in Clients : acked[m] = 0
  BY Zenon DEF DSTypeOK, dhcp_server_clear_all_leases
<1>2. DOMAIN pools = 1 .. Len(pools) /\ Len(pools) \in Nat
      /\ DOMAIN pools' = DOMAIN pools
  BY <1>1
<1>3. \A i \in DOMAIN pools : pools'[i] \in Pool /\ SameShape(pools[i], pools'[i])
  BY <1>1, ResetType
<1>4. pools' \in Seq(Pool)
  BY <1>1, <1>2, <1>3
<1>5. ASSUME Safe, orderly' PROVE Safe'
  <2>1. \A n \in Clients : \A ip \in Nat \ {0} : ~ Owns(n, ip)'
    BY Zenon, <1>1, <1>5 DEF Owns, Holds, None, Held
  <2>2. /\ Disjoint(pools') /\ Reservations(pools') = Reservations(pools)
        /\ \A ip : Fenced(pools, ip) => Fenced(pools', ip)
    BY Zenon, <1>1, <1>2, <1>3, <1>4, <1>5, ShapesKept DEF Safe
  <2>3. \A r \in Reservations(pools') : Fenced(pools', r.ip)
    BY Zenon, <1>5, <2>2 DEF Safe
  <2>4. \A r, q \in Reservations(pools') : r.ip = q.ip => r = q
    BY Zenon, <1>5, <2>2 DEF Safe
  <2> QED
    BY Zenon, <1>4, <2>1, <2>2, <2>3, <2>4, NobodySafe
<1> QED
  BY Zenon, <1>4, <1>5

LEMMA ConfiguredType ==
  ASSUME NEW ps \in Configured
  PROVE  ps \in Seq(Pool) /\ Disjoint(ps) /\ Reservations(ps) = {}
<1> DEFINE p == dhcp_pool_create(Ranges[1].lo, Ranges[1].hi)
<1>1. Ranges[1] \in IpRange
  BY DhcpAssumption
<1>2. Ranges[1].lo \in Nat /\ Ranges[1].hi \in Nat
  BY Zenon, <1>1 DEF IpRange
<1>3. p \in Pool /\ p.res = {}
  BY Zenon, <1>2, CreateType DEF dhcp_pool_create
<1> HIDE DEF p
<1>4. ASSUME NEW e \in Exclusions
      PROVE  /\ dhcp_pool_add_exclusion(p, e.lo, e.hi) \in Pool
             /\ dhcp_pool_add_exclusion(p, e.lo, e.hi).res = {}
  BY Zenon, <1>3, AddExclusionType, DhcpAssumption
<1>5. PICK q \in Pool : ps = <<q>> /\ q.res = {}
  <2>1. ps = <<p>> \/ \E e \in Exclusions : ps = <<dhcp_pool_add_exclusion(p, e.lo, e.hi)>>
    BY Zenon DEF Configured, p
  <2> QED
    BY Zenon, <1>3, <1>4, <2>1
<1>6. DOMAIN ps = {1} /\ ps[1] = q /\ ps \in Seq(Pool)
  BY <1>5
<1> QED
  BY Zenon, <1>5, <1>6 DEF Disjoint, Reservations

LEMMA RestartSafe ==
  ASSUME DSTypeOK, NEW file, NEW fresh, Restart(file, fresh), orderly',
         \A m \in Clients : (\E i \in DOMAIN file : file[i].mac = m) => lease'[m].st \notin Held
  PROVE  Safe'
<1>1. /\ pools' \in Configured /\ UNCHANGED acked /\ \A m \in Clients : acked[m] = 0
      /\ Loaded(file, fresh)
  BY Zenon DEF Restart
<1>2. \A m \in Clients : lease'[m].st \notin Held
  <2> SUFFICES ASSUME NEW m \in Clients, ~ \E i \in DOMAIN file : file[i].mac = m
               PROVE  lease'[m].st \notin Held
    BY Zenon
  <2>1. lease'[m] = None
    BY Zenon, <1>1 DEF Loaded
  <2> QED
    BY <2>1 DEF None, Held
<1>3. \A n \in Clients : \A ip \in Nat \ {0} : ~ Owns(n, ip)'
  BY Zenon, <1>1, <1>2 DEF Owns, Holds
<1>4. pools' \in Seq(Pool) /\ Disjoint(pools') /\ Reservations(pools') = {}
  BY Zenon, <1>1, ConfiguredType
<1> QED
  BY Zenon, <1>3, <1>4, NobodySafe

\* The lease cleared, and the address released, are the same client's.
LEMMA ClearLeaseSafe ==
  ASSUME DSTypeOK, ListExact, NEW x \in Nat \ {0}, dhcp_server_clear_lease(x)
  PROVE  pools' \in Seq(Pool) /\ (Safe /\ orderly' => Safe')
<1>1. PICK j \in FindByIp(x) :
        /\ lease' = [lease EXCEPT ![order[j]] = None]
        /\ order' = Unlinked(order, j)
        /\ orderly' = (orderly /\ lease[order[j]].st \in Held /\ \A n \in Clients : acked[n] # x)
  BY Zenon DEF dhcp_server_clear_lease
<1> DEFINE m == order[j]
<1>2. /\ pools \in Seq(Pool) /\ pools' = ReleaseIp(x) /\ UNCHANGED acked
      /\ lease \in [Clients -> Lease] /\ x \in Nat
  BY Zenon DEF DSTypeOK, dhcp_server_clear_lease
<1>3. j \in DOMAIN order /\ lease[m].ip = x /\ m \in Clients
  BY Zenon, ListMembers DEF FindByIp
<1> HIDE DEF m
<1>4. /\ pools' \in Seq(Pool) /\ DOMAIN pools' = DOMAIN pools
      /\ \A i \in DOMAIN pools : /\ SameShape(pools[i], pools'[i])
                                 /\ pools[i].bits \ {x} \subseteq pools'[i].bits
  BY Zenon, <1>2, ReleasedPools
<1>5. ASSUME Safe, orderly' PROVE Safe'
  <2>1. /\ lease'[m] = None /\ \A n \in Clients \ {m} : lease'[n] = lease[n]
        /\ \A n \in Clients : acked'[n] = acked[n] /\ acked[n] # x
        /\ lease[m].st \in Held
    BY Zenon, <1>1, <1>2, <1>3, <1>5 DEF m
  <2>2. Owns(m, x)
    BY Zenon, <1>3, <2>1 DEF Owns, Holds
  <2>3. \A n \in Clients : \A ip \in Nat \ {0} : Owns(n, ip)' => Owns(n, ip) /\ ip # x
    <3> SUFFICES ASSUME NEW n \in Clients, NEW ip \in Nat \ {0}, Owns(n, ip)'
                 PROVE  Owns(n, ip) /\ ip # x
      BY Zenon
    <3>1. CASE n = m
      <4>1. lease'[n].st = "none" /\ acked'[n] = acked[n] /\ acked[n] # x
        BY <2>1, <3>1 DEF None
      <4>2. ~ Holds(n, ip)'
        BY Zenon, <4>1 DEF Holds, Held
      <4> QED
        BY Zenon, <4>1, <4>2 DEF Owns
    <3>2. CASE n # m
      <4>1. Owns(n, ip)
        BY Zenon, <2>1, <3>2 DEF Owns, Holds
      <4>2. ~ Owns(m, ip)
        BY Zenon, <1>3, <1>5, <3>2, <4>1 DEF Safe
      <4> QED
        BY Zenon, <2>2, <4>1, <4>2
    <3> QED
      BY Zenon, <3>1, <3>2
  <2> QED
    BY Zenon, <1>2, <1>3, <1>4, <1>5, <2>3, SafeRelease
<1> QED
  BY Zenon, <1>4, <1>5

-----------------------------------------------------------------------------
(* The list of leases under the other operations *)

LEMMA ClearLeaseList ==
  ASSUME DSTypeOK, ListExact, NEW j \in DOMAIN order,
         lease' = [lease EXCEPT ![order[j]] = None], order' = Unlinked(order, j)
  PROVE  lease' \in [Clients -> Lease] /\ order' \in Seq(Clients) /\ ListExact'
<1> DEFINE m == order[j]
           N == Len(order)
           f(k) == IF k < j THEN k ELSE k + 1
<1>1. /\ \A i \in DOMAIN order : order[i] \in Clients /\ lease[order[i]].st # "none"
      /\ \A n \in Clients : lease[n].st # "none" => \E i \in DOMAIN order : order[i] = n
      /\ \A i, k \in DOMAIN order : order[i] = order[k] => i = k
      /\ LEASE_MAX \in Nat /\ N <= LEASE_MAX
  BY Zenon, ListMembers
<1>2. order \in Seq(Clients) /\ lease \in [Clients -> Lease] /\ None \in Lease
      /\ N \in Nat /\ DOMAIN order = 1 .. N /\ m \in Clients
  BY DEF DSTypeOK, None, Lease, States
<1>3. /\ lease' \in [Clients -> Lease] /\ lease'[m] = None
      /\ \A n \in Clients \ {m} : lease'[n] = lease[n]
  BY Zenon, <1>2
<1>4. /\ order' \in Seq(Clients) /\ DOMAIN order' = 1 .. N - 1 /\ Len(order') = N - 1
      /\ \A k \in 1 .. N - 1 : order'[k] = order[f(k)]
  BY Zenon, <1>2, UnlinkedType
<1>5. /\ \A k \in DOMAIN order' : f(k) \in DOMAIN order /\ f(k) # j
      /\ \A i, k \in DOMAIN order' : f(i) = f(k) => i = k
      /\ \A i \in DOMAIN order \ {j} : \E k \in DOMAIN order' : f(k) = i
  <2>1. \A k \in 1 .. N - 1 : f(k) \in 1 .. N /\ f(k) # j
    BY <1>2
  <2>2. \A i, k \in 1 .. N - 1 : f(i) = f(k) => i = k
    BY <1>2
  <2>3. ASSUME NEW i \in 1 .. N \ {j} PROVE \E k \in 1 .. N - 1 : f(k) = i
    <3>1. CASE i < j
      <4>1. i \in 1 .. N - 1 /\ f(i) = i
        BY <1>2, <3>1
      <4> QED
        BY Zenon, <4>1
    <3>2. CASE i > j
      <4>1. i - 1 \in 1 .. N - 1 /\ f(i - 1) = i
        BY <1>2, <3>2
      <4> QED
        BY Zenon, <4>1
    <3> QED
      BY <1>2, <3>1, <3>2
  <2> QED
    BY Zenon, <1>2, <1>4, <2>1, <2>2, <2>3
<1> HIDE DEF f, N
<1>6. \A k \in DOMAIN order' : order'[k] = order[f(k)]
  BY Zenon, <1>4
<1>7. \A i, k \in DOMAIN order' : order'[i] = order'[k] => i = k
  <2> SUFFICES ASSUME NEW i \in DOMAIN order', NEW k \in DOMAIN order', order'[i] = order'[k]
               PROVE  i = k
    BY Zenon
  <2>1. /\ f(i) \in DOMAIN order /\ f(k) \in DOMAIN order
        /\ order[f(i)] = order'[i] /\ order[f(k)] = order'[k]
    BY Zenon, <1>5, <1>6
  <2>2. f(i) = f(k)
    BY Zenon, <1>1, <2>1
  <2> QED
    BY Zenon, <1>5, <2>2
<1>8. ASSUME NEW k \in DOMAIN order'
      PROVE  order'[k] # m /\ order'[k] \in Clients /\ lease'[order'[k]].st # "none"
  <2>1. f(k) \in DOMAIN order /\ f(k) # j /\ order'[k] = order[f(k)]
    BY Zenon, <1>5, <1>6
  <2>2. order[f(k)] # m /\ order[f(k)] \in Clients /\ lease[order[f(k)]].st # "none"
    BY Zenon, <1>1, <2>1
  <2> QED
    BY Zenon, <1>3, <2>1, <2>2
<1>9. ASSUME NEW n \in Clients, lease'[n].st # "none"
      PROVE  \E k \in DOMAIN order' : order'[k] = n
  <2>1. n # m /\ lease[n].st # "none"
    BY Zenon, <1>3, <1>9 DEF None
  <2>2. PICK i \in DOMAIN order : order[i] = n
    BY Zenon, <1>1, <2>1
  <2>3. PICK k \in DOMAIN order' : f(k) = i
    BY Zenon, <1>5, <2>1, <2>2
  <2> QED
    BY Zenon, <1>6, <2>2, <2>3
<1>10. {order'[i] : i \in DOMAIN order'} = {n \in Clients : lease'[n].st # "none"}
  BY <1>8, <1>9
<1>11. Len(order') <= LEASE_MAX
  <2>1. Len(order') = N - 1 /\ N \in Nat /\ LEASE_MAX \in Nat /\ N <= LEASE_MAX
    BY Zenon, <1>1, <1>2, <1>4
  <2> QED
    BY <2>1
<1> QED
  BY Zenon, <1>3, <1>4, <1>7, <1>10, <1>11 DEF ListExact

\* A file with lines of different clients, all with a lease
Loadable(file) ==
  /\ file \in Seq(Line) /\ Len(file) <= LEASE_MAX
  /\ \A i \in DOMAIN file : file[i].l.st # "none"
  /\ \A i, k \in DOMAIN file : file[i].mac = file[k].mac => i = k

LEMMA SaveLoadable == ASSUME DSTypeOK, ListExact PROVE Loadable(dhcp_lease_db_save)
<1> DEFINE file == dhcp_lease_db_save
<1>1. /\ \A i \in DOMAIN order : order[i] \in Clients /\ lease[order[i]].st # "none"
      /\ \A i, k \in DOMAIN order : order[i] = order[k] => i = k
      /\ Len(order) <= LEASE_MAX
  BY Zenon, ListMembers
<1>2. order \in Seq(Clients) /\ lease \in [Clients -> Lease]
  BY Zenon DEF DSTypeOK
<1>3. /\ file = [i \in DOMAIN order |-> [mac |-> order[i], l |-> lease[order[i]]]]
      /\ DOMAIN file = DOMAIN order /\ DOMAIN order = 1 .. Len(order) /\ Len(order) \in Nat
  BY <1>2 DEF dhcp_lease_db_save
<1> HIDE DEF file
<1>4. \A i \in DOMAIN file : file[i] \in Line /\ file[i].mac = order[i] /\ file[i].l = lease[order[i]]
  BY Zenon, <1>1, <1>2, <1>3 DEF Line
<1>5. file \in Seq(Line) /\ Len(file) = Len(order)
  <2>1. file = [i \in 1 .. Len(order) |-> file[i]]
    BY Zenon, <1>3
  <2>2. \A i \in 1 .. Len(order) : file[i] \in Line
    BY Zenon, <1>3, <1>4
  <2> QED
    BY <1>3, <2>1, <2>2
<1> QED
  BY Zenon, <1>1, <1>3, <1>4, <1>5 DEF Loadable, file

LEMMA LoadList ==
  ASSUME NEW file, NEW fresh \in BOOLEAN, Loadable(file), Loaded(file, fresh)
  PROVE  /\ lease' \in [Clients -> Lease] /\ order' \in Seq(Clients) /\ ListExact'
         /\ \A i \in DOMAIN file : lease'[file[i].mac].st = file[i].l.st
<1> DEFINE N == Len(file)
<1>1. /\ file \in Seq(Line) /\ N \in Nat /\ DOMAIN file = 1 .. N /\ N <= LEASE_MAX
      /\ \A i \in DOMAIN file : file[i] \in Line
  BY DEF Loadable
<1>2. \A i \in DOMAIN file : file[i].mac \in Clients /\ file[i].l \in Lease
                             /\ file[i].l.st \in States \ {"none"}
  BY Zenon, <1>1 DEF Loadable, Line, Lease
<1>3. \A i, k \in DOMAIN file : file[i].mac = file[k].mac => i = k
  BY Zenon DEF Loadable
<1>4. ASSUME NEW i \in DOMAIN file
      PROVE  /\ lease'[file[i].mac] = [file[i].l EXCEPT !.fresh = fresh /\ file[i].l.st # "FREE"]
             /\ lease'[file[i].mac] \in Lease /\ lease'[file[i].mac].st = file[i].l.st
  <2> DEFINE m == file[i].mac
             c == CHOOSE k \in DOMAIN file : file[k].mac = m
             l == file[c].l
  <2>1. c \in DOMAIN file /\ file[c].mac = m
    BY Zenon
  <2>2. c = i
    BY Zenon, <1>3, <2>1
  <2>3. m \in Clients /\ (\E k \in DOMAIN file : file[k].mac = m)
    BY Zenon, <1>2
  <2>4. lease'[m] = [l EXCEPT !.fresh = fresh /\ l.st # "FREE"]
    BY Zenon, <2>3 DEF Loaded
  <2> HIDE DEF c, m
  <2>5. l = file[i].l /\ l \in Lease
    BY Zenon, <1>2, <2>2
  <2> HIDE DEF l
  <2>6. (fresh /\ l.st # "FREE") \in BOOLEAN
    BY Zenon
  <2>7. [l EXCEPT !.fresh = fresh /\ l.st # "FREE"] \in Lease
        /\ [l EXCEPT !.fresh = fresh /\ l.st # "FREE"].st = l.st
    BY Zenon, <2>5, <2>6 DEF Lease
  <2> QED
    BY Zenon, <2>4, <2>5, <2>7 DEF m
<1>5. ASSUME NEW m \in Clients, ~ \E i \in DOMAIN file : file[i].mac = m
      PROVE  lease'[m] = None
  BY Zenon, <1>5 DEF Loaded
<1>6. None \in Lease /\ None.st = "none"
  BY Zenon DEF None, Lease, States
<1>7. lease' \in [Clients -> Lease]
  <2>1. lease' = [m \in Clients |-> lease'[m]]
    BY Zenon DEF Loaded
  <2>2. \A m \in Clients : lease'[m] \in Lease
    BY Zenon, <1>4, <1>5, <1>6
  <2> QED
    BY Zenon, <2>1, <2>2
<1>8. order' = [i \in 1 .. N |-> file[N + 1 - i].mac]
  BY Zenon, <1>1 DEF Loaded
<1>9. \A i \in 1 .. N : N + 1 - i \in 1 .. N /\ N + 1 - (N + 1 - i) = i
  BY <1>1
<1>10. \A i, k \in 1 .. N : N + 1 - i = N + 1 - k => i = k
  BY <1>1
<1> HIDE DEF N
<1>11. order' \in Seq(Clients) /\ DOMAIN order' = 1 .. N /\ Len(order') = N
  BY <1>1, <1>2, <1>8, <1>9
<1>a. \A i \in DOMAIN order' : N + 1 - i \in DOMAIN file /\ order'[i] = file[N + 1 - i].mac
  BY Zenon, <1>1, <1>8, <1>9, <1>11
<1>12. ASSUME NEW i \in DOMAIN order', NEW k \in DOMAIN order', order'[i] = order'[k] PROVE i = k
  <2>1. N + 1 - i = N + 1 - k
    BY <1>3, <1>12, <1>a
  <2> QED
    BY Zenon, <1>10, <1>11, <2>1
<1>13. ASSUME NEW i \in DOMAIN order'
       PROVE  order'[i] \in Clients /\ lease'[order'[i]].st # "none"
  <2>1. PICK k \in DOMAIN file : order'[i] = file[k].mac
    BY Zenon, <1>a
  <2>2. file[k].mac \in Clients /\ file[k].l.st # "none"
    BY Zenon, <1>2
  <2>3. lease'[file[k].mac].st = file[k].l.st
    BY Zenon, <1>4
  <2> QED
    BY Zenon, <2>1, <2>2, <2>3
<1>14. ASSUME NEW n \in Clients, lease'[n].st # "none"
       PROVE  \E k \in DOMAIN order' : order'[k] = n
  <2>1. PICK i \in DOMAIN file : file[i].mac = n
    BY Zenon, <1>5, <1>6, <1>14
  <2>2. N + 1 - i \in DOMAIN order' /\ order'[N + 1 - i] = file[i].mac
    BY Zenon, <1>1, <1>8, <1>9, <1>11
  <2> QED
    BY Zenon, <2>1, <2>2
<1>15. {order'[i] : i \in DOMAIN order'} = {n \in Clients : lease'[n].st # "none"}
  BY <1>13, <1>14
<1> QED
  BY Zenon, <1>1, <1>4, <1>7, <1>11, <1>12, <1>15 DEF ListExact

-----------------------------------------------------------------------------
(* The invariant *)

LEMMA DSInvInit == DSInit => DSInv
<1> SUFFICES ASSUME DSInit PROVE DSInv
  BY Zenon
<1>1. pools \in Seq(Pool) /\ Disjoint(pools) /\ Reservations(pools) = {}
  BY Zenon, ConfiguredType DEF DSInit
<1>2. None \in Lease /\ None.st = "none"
  BY Zenon DEF None, Lease, States
<1>3. DSTypeOK
  BY <1>1, <1>2 DEF DSInit, DSTypeOK
<1>4. ListExact
  BY <1>2, DhcpAssumption DEF DSInit, ListExact
<1>5. FileExact
  BY DhcpAssumption DEF DSInit, FileExact
<1>6. \A n \in Clients : \A ip \in Nat \ {0} : ~ Owns(n, ip)
  BY Zenon DEF DSInit, Owns, Holds, None, Held
<1>7. Safe
  BY Zenon, <1>1, <1>6 DEF Safe
<1> QED
  BY Zenon, <1>3, <1>4, <1>5, <1>7 DEF DSInv

\* What is left to show for a step that does not touch the lease file
LEMMA DSInvStep ==
  ASSUME DSInv, UNCHANGED saved, pools' \in Seq(Pool), lease' \in [Clients -> Lease],
         order' \in Seq(Clients), admin' \in Nat, orderly' \in BOOLEAN,
         acked' \in [Clients -> Nat], ListExact', orderly' => Safe'
  PROVE  DSInv'
<1>1. DSTypeOK'
  BY Zenon DEF DSInv, DSTypeOK
<1>2. FileExact'
  BY Zenon DEF DSInv, FileExact
<1> QED
  BY Zenon, <1>1, <1>2 DEF DSInv

LEMMA CommandType == ASSUME DSTypeOK, Command PROVE admin' \in Nat /\ admin' # admin
BY DEF DSTypeOK, Command

LEMMA DiscoverKeeps ==
  ASSUME DSInv, NEW m \in Clients, dhcp_server_handle_discover(m) PROVE DSInv'
<1> DEFINE i == find_pool_for_request
           o == Offered(m)
<1>1. DSTypeOK /\ ListExact /\ UNCHANGED <<saved, admin, orderly, acked>> /\ pools # <<>>
  BY Zenon DEF DSInv, dhcp_server_handle_discover
<1>2. /\ o.ip \in Nat /\ o.pool \in Pool /\ i \in DOMAIN pools
      /\ dhcp_pool_release(o.pool, o.ip) \in Pool
  BY Zenon, <1>1, OfferedType, PoolChosen, ReleaseType
<1>3. /\ OnPool(i, o.pool) \/ OnPool(i, dhcp_pool_release(o.pool, o.ip))
      /\ UNCHANGED <<lease, order>> \/ (CanOffer(m) /\ StoreLease(m, o.ip, "OFFERED"))
  BY Zenon DEF dhcp_server_handle_discover
<1> HIDE DEF i, o
<1>4. pools' \in Seq(Pool)
  BY Zenon, <1>1, <1>2, <1>3, OnPoolType DEF DSTypeOK
<1>5. lease' \in [Clients -> Lease] /\ order' \in Seq(Clients) /\ ListExact'
  <2>1. CASE UNCHANGED <<lease, order>>
    BY Zenon, <1>1, <2>1, ListSame DEF DSTypeOK
  <2>2. CASE CanOffer(m) /\ StoreLease(m, o.ip, "OFFERED")
    <3>1. "OFFERED" \in States \ {"none"}
      BY Zenon DEF States
    <3> QED
      BY Zenon, <1>1, <1>2, <2>2, <3>1, StoreList
  <2> QED
    BY Zenon, <1>3, <2>1, <2>2
<1>6. orderly' => Safe'
  BY Zenon, <1>1, DiscoverSafe DEF DSInv
<1> QED
  BY Zenon, <1>1, <1>4, <1>5, <1>6, DSInvStep DEF DSTypeOK

LEMMA RequestKeeps ==
  ASSUME DSInv, NEW m \in Clients, NEW rq \in Nat, NEW ci \in Nat,
         dhcp_server_handle_request(m, rq, ci)
  PROVE  DSInv'
<1> DEFINE known == lease[m].st # "none"
           x     == IF known THEN lease[m].ip ELSE ci
<1>1. DSTypeOK /\ ListExact /\ UNCHANGED <<saved, admin>> /\ x \in Nat
  BY Zenon DEF DSInv, dhcp_server_handle_request, DSTypeOK, Lease
<1>2. /\ known \/ Rebinds(m, ci)
      /\ UNCHANGED <<lease, order>> \/ StoreLease(m, x, "BOUND")
      /\ \/ UNCHANGED <<pools, acked>>
         \/ /\ pools' = [i \in DOMAIN pools |->
                             IF i \in dhcp_server_find_pool_for_ip(x)
                             THEN dhcp_pool_mark_used(pools[i], x) ELSE pools[i]]
            /\ send_dhcp_response(m, x)
      /\ orderly' \in BOOLEAN /\ (orderly' => orderly)
  BY Zenon, <1>1 DEF dhcp_server_handle_request, DSTypeOK
<1>3. CanOffer(m)
  BY Zenon, <1>2 DEF CanOffer, Rebinds
<1> HIDE DEF x
<1>4. pools' \in Seq(Pool) /\ acked' \in [Clients -> Nat]
  <2>1. CASE UNCHANGED <<pools, acked>>
    BY Zenon, <1>1, <2>1 DEF DSTypeOK
  <2>2. CASE /\ pools' = [i \in DOMAIN pools |->
                             IF i \in dhcp_server_find_pool_for_ip(x)
                             THEN dhcp_pool_mark_used(pools[i], x) ELSE pools[i]]
             /\ send_dhcp_response(m, x)
    <3>1. pools' \in Seq(Pool)
      BY Zenon, <1>1, <2>2, MarkedPools DEF DSTypeOK
    <3>2. acked' \in [Clients -> Nat]
      BY Zenon, <1>1, <2>2 DEF DSTypeOK, send_dhcp_response
    <3> QED
      BY Zenon, <3>1, <3>2
  <2> QED
    BY Zenon, <1>2, <2>1, <2>2
<1>5. lease' \in [Clients -> Lease] /\ order' \in Seq(Clients) /\ ListExact'
  <2>1. CASE UNCHANGED <<lease, order>>
    BY Zenon, <1>1, <2>1, ListSame DEF DSTypeOK
  <2>2. CASE StoreLease(m, x, "BOUND")
    <3>1. "BOUND" \in States \ {"none"}
      BY Zenon DEF States
    <3> QED
      BY Zenon, <1>1, <1>3, <2>2, <3>1, StoreList
  <2> QED
    BY Zenon, <1>2, <2>1, <2>2
<1>6. orderly' => Safe'
  BY Zenon, <1>1, <1>2, RequestSafe DEF DSInv
<1> QED
  BY <1>1, <1>2, <1>4, <1>5, <1>6, DSInvStep DEF DSTypeOK

LEMMA ReleaseKeeps ==
  ASSUME DSInv, NEW m \in Clients, dhcp_server_handle_release(m) PROVE DSInv'
<1>1. /\ DSTypeOK /\ ListExact /\ UNCHANGED <<order, saved, admin>> /\ lease[m].st # "none"
      /\ pools' = ReleaseIp(lease[m].ip) /\ acked' = [acked EXCEPT ![m] = 0]
      /\ lease' = [lease EXCEPT ![m].st = "FREE", ![m].fresh = FALSE]
      /\ orderly' \in BOOLEAN /\ (orderly' => orderly)
  BY Zenon DEF DSInv, dhcp_server_handle_release, DSTypeOK
<1>2. lease \in [Clients -> Lease] /\ lease[m] \in Lease /\ lease[m].ip \in Nat
  BY Zenon, <1>1 DEF DSTypeOK, Lease
<1>3. /\ lease'[m] = [lease[m] EXCEPT !.st = "FREE", !.fresh = FALSE]
      /\ \A n \in Clients \ {m} : lease'[n] = lease[n]
  BY Zenon, <1>1, <1>2
<1>4. lease'[m] \in Lease /\ lease'[m].st = "FREE"
  BY Zenon, <1>2, <1>3 DEF Lease, States
<1>5. lease' \in [Clients -> Lease]
  BY Zenon, <1>1, <1>2, <1>3, <1>4
<1>6. ListExact'
  BY Zenon, <1>1, <1>3, <1>4, ListKept
<1>7. pools' \in Seq(Pool)
  BY Zenon, <1>1, <1>2, ReleasedPools DEF DSTypeOK
<1>8. acked' \in [Clients -> Nat]
  BY Zenon, <1>1 DEF DSTypeOK
<1>9. orderly' => Safe'
  BY Zenon, <1>1, ReleaseSafe DEF DSInv
<1> QED
  BY <1>1, <1>5, <1>6, <1>7, <1>8, <1>9, DSInvStep DEF DSTypeOK

LEMMA DeclineKeeps ==
  ASSUME DSInv, NEW m \in Clients, NEW ip \in Nat, dhcp_server_handle_decline(m, ip) PROVE DSInv'
<1>1. /\ DSTypeOK /\ ListExact /\ UNCHANGED <<order, saved, admin, orderly>>
      /\ acked' = [acked EXCEPT ![m] = IF @ = ip THEN 0 ELSE @]
      /\ lease' = [n \in Clients |-> IF \E j \in FindByIp(ip) : order[j] = n
                                     THEN [lease[n] EXCEPT !.st = "DECLINED"] ELSE lease[n]]
  BY Zenon DEF DSInv, dhcp_server_handle_decline
<1>2. lease \in [Clients -> Lease] /\ "DECLINED" \in States \ {"none"}
  BY Zenon, <1>1 DEF DSTypeOK, States
<1>3. ASSUME NEW n \in Clients
      PROVE  lease'[n] \in Lease /\ (lease'[n].st = "none" <=> lease[n].st = "none")
  <2>1. CASE \E j \in FindByIp(ip) : order[j] = n
    <3>1. lease[n].st # "none"
      BY Zenon, <1>1, <2>1, ListMembers DEF FindByIp
    <3>2. lease'[n] = [lease[n] EXCEPT !.st = "DECLINED"]
      BY Zenon, <1>1, <2>1
    <3>3. lease'[n] \in Lease /\ lease'[n].st = "DECLINED"
      BY Zenon, <1>2, <3>2 DEF Lease
    <3> QED
      BY Zenon, <3>1, <3>3
  <2>2. CASE ~ \E j \in FindByIp(ip) : order[j] = n
    BY Zenon, <1>1, <1>2, <2>2
  <2> QED
    BY Zenon, <2>1, <2>2
<1>4. lease' \in [Clients -> Lease]
  BY Zenon, <1>1, <1>3
<1>5. ListExact'
  BY Zenon, <1>1, <1>3, ListKept
<1>6. pools' \in Seq(Pool)
  BY Zenon, <1>1, DeclinedPools DEF DSTypeOK, dhcp_server_handle_decline
<1>7. acked' \in [Clients -> Nat]
  BY Zenon, <1>1 DEF DSTypeOK
<1>8. orderly' => Safe'
  BY Zenon, <1>1, DeclineSafe DEF DSInv
<1> QED
  BY <1>1, <1>4, <1>5, <1>6, <1>7, <1>8, DSInvStep DEF DSTypeOK

LEMMA TimeKeeps ==
  ASSUME DSInv, NEW m \in Clients, LeaseRunsOut(m) \/ ClientForgets(m) PROVE DSInv'
<1>1. /\ DSTypeOK /\ ListExact /\ UNCHANGED <<pools, order, saved, admin, orderly>>
      /\ lease' = lease \/ lease' = [lease EXCEPT ![m].fresh = FALSE]
      /\ acked' = acked \/ acked' = [acked EXCEPT ![m] = 0]
  BY Zenon DEF DSInv, LeaseRunsOut, ClientForgets
<1>2. lease \in [Clients -> Lease]
  BY Zenon, <1>1 DEF DSTypeOK
<1>3. ASSUME NEW n \in Clients PROVE lease'[n] \in Lease /\ lease'[n].st = lease[n].st
  <2>1. CASE lease' = lease \/ n # m
    BY Zenon, <1>1, <1>2, <2>1
  <2>2. CASE lease' = [lease EXCEPT ![m].fresh = FALSE] /\ n = m
    <3>1. lease'[n] = [lease[n] EXCEPT !.fresh = FALSE]
      BY Zenon, <1>2, <2>2
    <3> QED
      BY Zenon, <1>2, <3>1 DEF Lease
  <2> QED
    BY Zenon, <1>1, <2>1, <2>2
<1>4. lease' \in [Clients -> Lease]
  BY Zenon, <1>1, <1>2, <1>3
<1>5. ListExact'
  BY Zenon, <1>1, <1>3, ListKept
<1>6. acked' \in [Clients -> Nat]
  BY <1>1 DEF DSTypeOK
<1>7. orderly' => Safe'
  BY Zenon, <1>1, TimeSafe DEF DSInv
<1> QED
  BY Zenon, <1>1, <1>4, <1>5, <1>6, <1>7, DSInvStep DEF DSTypeOK

LEMMA AddReservationType ==
  ASSUME DSTypeOK, NEW i \in DOMAIN pools, NEW m \in Clients, NEW x \in Addresses,
         AddReservation(i, m, x)
  PROVE  pools' \in Seq(Pool)
<1> DEFINE q == dhcp_pool_add_reservation(pools[i], x, m)
<1>1. pools \in Seq(Pool) /\ pools[i] \in Pool /\ [ip |-> x, mac |-> m] \in [ip : Addresses, mac : Clients]
  BY DEF DSTypeOK
<1>2. OnPool(i, q)
  BY Zenon DEF AddReservation
<1>3. q \in Pool
  BY Zenon, <1>1 DEF dhcp_pool_add_reservation, Pool
<1> HIDE DEF q
<1> QED
  BY Zenon, <1>1, <1>2, <1>3, OnPoolType

\* The commands that change the pools alone
LEMMA PoolCommandKeeps ==
  ASSUME DSInv, NEW i \in DOMAIN pools,
         \/ \E m \in Clients, ip \in Addresses : AddReservation(i, m, ip)
         \/ \E ip \in Addresses : RemoveReservation(i, ip)
         \/ \E e \in Exclusions : AddExclusion(i, e) \/ RemoveExclusion(i, e)
         \/ dhcp_server_remove_pool(i)
  PROVE  DSInv'
<1>1. DSTypeOK /\ ListExact /\ (orderly => Safe)
  BY Zenon DEF DSInv
<1>2. /\ Command /\ UNCHANGED <<lease, order, saved, acked>>
      /\ orderly' \in BOOLEAN /\ (orderly' => orderly)
  <2>1. orderly \in BOOLEAN
    BY Zenon, <1>1 DEF DSTypeOK
  <2> DEFINE Kept == /\ Command /\ UNCHANGED <<lease, order, saved, acked>>
                     /\ orderly' \in BOOLEAN /\ (orderly' => orderly)
  <2>2. ASSUME NEW m \in Clients, NEW ip \in Addresses, AddReservation(i, m, ip) PROVE Kept
    BY Zenon, <2>1, <2>2 DEF AddReservation
  <2>3. ASSUME NEW ip \in Addresses, RemoveReservation(i, ip) PROVE Kept
    BY Zenon, <2>1, <2>3 DEF RemoveReservation
  <2>4. ASSUME NEW e \in Exclusions, AddExclusion(i, e) PROVE Kept
    BY Zenon, <2>1, <2>4 DEF AddExclusion
  <2>5. ASSUME NEW e \in Exclusions, RemoveExclusion(i, e) PROVE Kept
    BY Zenon, <2>1, <2>5 DEF RemoveExclusion
  <2>6. ASSUME dhcp_server_remove_pool(i) PROVE Kept
    BY Zenon, <2>1, <2>6 DEF dhcp_server_remove_pool
  <2> HIDE DEF Kept
  <2>7. Kept
    BY Zenon, <2>2, <2>3, <2>4, <2>5, <2>6
  <2> QED
    BY Zenon, <2>7 DEF Kept
<1>3. pools' \in Seq(Pool) /\ (orderly' => Safe')
  <2>1. ASSUME NEW m \in Clients, NEW x \in Addresses, AddReservation(i, m, x)
        PROVE  pools' \in Seq(Pool) /\ (orderly' => Safe')
    BY Zenon, <1>1, <1>2, <2>1, AddReservationType, AddReservationSafe
  <2>2. ASSUME NEW x \in Addresses, RemoveReservation(i, x)
        PROVE  pools' \in Seq(Pool) /\ (orderly' => Safe')
    BY Zenon, <1>1, <1>2, <2>2, RemoveReservationSafe
  <2>3. ASSUME NEW e \in Exclusions, AddExclusion(i, e)
        PROVE  pools' \in Seq(Pool) /\ (orderly' => Safe')
    <3>1. e \in IpRange
      BY Zenon, DhcpAssumption
    <3> QED
      BY <1>1, <1>2, <2>3, <3>1, AddExclusionSafe
  <2>4. ASSUME NEW e \in Exclusions, RemoveExclusion(i, e)
        PROVE  pools' \in Seq(Pool) /\ (orderly' => Safe')
    BY <1>1, <1>2, <2>4, RemoveExclusionSafe
  <2>5. ASSUME dhcp_server_remove_pool(i)
        PROVE  pools' \in Seq(Pool) /\ (orderly' => Safe')
    BY <1>1, <1>2, <2>5, RemovePoolSafe
  <2> QED
    BY <2>1, <2>2, <2>3, <2>4, <2>5
<1>4. ListExact'
  BY Zenon, <1>1, <1>2, ListSame
<1>5. admin' \in Nat
  BY Zenon, <1>1, <1>2, CommandType
<1> QED
  BY Zenon, <1>1, <1>2, <1>3, <1>4, <1>5, DSInvStep DEF DSTypeOK

LEMMA AddPoolKeeps ==
  ASSUME DSInv, NEW i \in DOMAIN Ranges, dhcp_server_add_pool(Ranges[i]) PROVE DSInv'
<1>1. DSTypeOK /\ ListExact /\ (orderly => Safe) /\ Ranges[i] \in IpRange
  BY DhcpAssumption DEF DSInv
<1>2. /\ Command /\ UNCHANGED <<lease, order, saved, acked>>
      /\ orderly' \in BOOLEAN /\ (orderly' => orderly)
  <2>1. orderly \in BOOLEAN
    BY Zenon, <1>1 DEF DSTypeOK
  <2> QED
    BY Zenon, <2>1 DEF dhcp_server_add_pool
<1>3. pools' \in Seq(Pool) /\ (orderly' => Safe')
  BY Zenon, <1>1, <1>2, AddPoolSafe
<1>4. ListExact'
  BY Zenon, <1>1, <1>2, ListSame
<1>5. admin' \in Nat
  BY <1>1, <1>2, CommandType
<1> QED
  BY <1>1, <1>2, <1>3, <1>4, <1>5, DSInvStep DEF DSTypeOK

LEMMA ClearLeaseKeeps ==
  ASSUME DSInv, NEW x \in Addresses, dhcp_server_clear_lease(x) PROVE DSInv'
<1>1. DSTypeOK /\ ListExact /\ (orderly => Safe) /\ x \in Nat \ {0} /\ orderly \in BOOLEAN
  BY Zenon, DhcpAssumption DEF DSInv, DSTypeOK
<1>2. PICK j \in FindByIp(x) :
        /\ lease' = [lease EXCEPT ![order[j]] = None]
        /\ order' = Unlinked(order, j)
        /\ orderly' = (orderly /\ lease[order[j]].st \in Held /\ \A n \in Clients : acked[n] # x)
  BY Zenon DEF dhcp_server_clear_lease
<1>3. j \in DOMAIN order /\ Command /\ UNCHANGED <<saved, acked>>
  BY Zenon DEF FindByIp, dhcp_server_clear_lease
<1>4. lease' \in [Clients -> Lease] /\ order' \in Seq(Clients) /\ ListExact'
  BY Zenon, <1>1, <1>2, <1>3, ClearLeaseList
<1>5. orderly' \in BOOLEAN /\ (orderly' => orderly)
  BY Zenon, <1>1, <1>2
<1>6. pools' \in Seq(Pool) /\ (orderly' => Safe')
  BY Zenon, <1>1, <1>5, ClearLeaseSafe
<1>7. admin' \in Nat
  BY Zenon, <1>1, <1>3, CommandType
<1> QED
  BY <1>1, <1>3, <1>4, <1>5, <1>6, <1>7, DSInvStep DEF DSTypeOK

LEMMA ClearAllKeeps ==
  ASSUME DSInv, dhcp_server_clear_all_leases PROVE DSInv'
<1>1. /\ DSTypeOK /\ ListExact /\ (orderly => Safe) /\ orderly \in BOOLEAN
      /\ LEASE_MAX \in Nat
  BY Zenon, DhcpAssumption DEF DSInv, DSTypeOK
<1>2. /\ Command /\ UNCHANGED <<saved, acked>> /\ order' = <<>>
      /\ lease' = [m \in Clients |-> None]
      /\ orderly' = (orderly /\ \A m \in Clients : acked[m] = 0)
  BY Zenon DEF dhcp_server_clear_all_leases
<1>3. None \in Lease /\ None.st = "none"
  BY Zenon DEF None, Lease, States
<1>4. lease' \in [Clients -> Lease] /\ order' \in Seq(Clients)
  BY <1>2, <1>3
<1>5. ListExact'
  BY <1>1, <1>2, <1>3 DEF ListExact
<1>6. orderly' \in BOOLEAN /\ (orderly' => orderly)
  BY Zenon, <1>1, <1>2
<1>7. pools' \in Seq(Pool) /\ (orderly' => Safe')
  BY Zenon, <1>1, <1>6, ClearAllSafe
<1>8. admin' \in Nat
  BY Zenon, <1>1, <1>2, CommandType
<1> QED
  BY <1>1, <1>2, <1>4, <1>5, <1>6, <1>7, <1>8, DSInvStep DEF DSTypeOK

LEMMA RestartKeeps ==
  ASSUME DSInv, NEW file \in {saved, dhcp_lease_db_save}, NEW fresh \in BOOLEAN,
         Restart(file, fresh)
  PROVE  DSInv'
<1>1. /\ DSTypeOK /\ ListExact /\ FileExact /\ orderly \in BOOLEAN /\ acked \in [Clients -> Nat]
      /\ saved \in Seq(Line)
  BY Zenon DEF DSInv, DSTypeOK
<1>2. Loadable(saved)
  BY Zenon, <1>1 DEF FileExact, Loadable
<1>3. Loadable(file)
  BY Zenon, <1>1, <1>2, SaveLoadable
<1>4. /\ Command /\ saved' = file /\ pools' \in Configured /\ Loaded(file, fresh) /\ UNCHANGED acked
      /\ orderly' = (orderly /\ (\A i \in DOMAIN file : file[i].l.st \notin Held)
                             /\ \A m \in Clients : acked[m] = 0)
  BY Zenon DEF Restart
<1>5. /\ lease' \in [Clients -> Lease] /\ order' \in Seq(Clients) /\ ListExact'
      /\ \A i \in DOMAIN file : lease'[file[i].mac].st = file[i].l.st
  BY Zenon, <1>3, <1>4, LoadList
<1>6. pools' \in Seq(Pool)
  BY Zenon, <1>4, ConfiguredType
<1>7. admin' \in Nat
  BY Zenon, <1>1, <1>4, CommandType
<1>8. saved' \in Seq(Line) /\ FileExact'
  BY Zenon, <1>3, <1>4 DEF Loadable, FileExact
<1>9. orderly' => Safe'
  <2> SUFFICES ASSUME orderly' PROVE Safe'
    BY Zenon
  <2>1. \A m \in Clients : (\E i \in DOMAIN file : file[i].mac = m) => lease'[m].st \notin Held
    BY Zenon, <1>4, <1>5
  <2> QED
    BY Zenon, <1>1, <2>1, RestartSafe
<1>10. orderly' \in BOOLEAN
  BY <1>1, <1>4
<1>11. DSTypeOK'
  BY <1>1, <1>4, <1>5, <1>6, <1>7, <1>8, <1>10 DEF DSTypeOK
<1> QED
  BY Zenon, <1>5, <1>8, <1>9, <1>11 DEF DSInv

LEMMA DSInvNext == ASSUME DSInv, [DSNext]_dsVars PROVE DSInv'
<1>1. CASE UNCHANGED dsVars
  <2>1. UNCHANGED <<pools, lease, order, saved, admin, orderly, acked>>
    BY Zenon, <1>1 DEF dsVars
  <2>2. DSTypeOK' /\ ListExact' /\ FileExact'
    <3>1. DSTypeOK'
      BY Zenon, <2>1 DEF DSInv, DSTypeOK
    <3>2. ListExact'
      BY Zenon, <2>1, ListSame DEF DSInv
    <3>3. FileExact'
      BY Zenon, <2>1 DEF DSInv, FileExact
    <3> QED
      BY Zenon, <3>1, <3>2, <3>3
  <2>3. Safe => Safe'
    BY Zenon, <2>1, SafeKept
  <2> QED
    BY Zenon, <2>1, <2>2, <2>3 DEF DSInv
<1>2. CASE DSStep
  <2>1. \A r \in Requests : r.rq \in Nat /\ r.ci \in Nat
    BY Zenon, DhcpAssumption
  <2>2. Addresses \subseteq Nat
    BY Zenon, DhcpAssumption
  <2>3. ASSUME NEW m \in Clients, dhcp_server_handle_discover(m) PROVE DSInv'
    BY Zenon, <2>3, DiscoverKeeps
  <2>4. ASSUME NEW m \in Clients, dhcp_server_handle_release(m) PROVE DSInv'
    BY Zenon, <2>4, ReleaseKeeps
  <2>5. ASSUME NEW m \in Clients, LeaseRunsOut(m) \/ ClientForgets(m) PROVE DSInv'
    BY Zenon, <2>5, TimeKeeps
  <2>6. ASSUME NEW m \in Clients, NEW r \in Requests, dhcp_server_handle_request(m, r.rq, r.ci)
        PROVE  DSInv'
    BY Zenon, <2>1, <2>6, RequestKeeps
  <2>7. ASSUME NEW m \in Clients, NEW ip \in Addresses, dhcp_server_handle_decline(m, ip)
        PROVE  DSInv'
    BY <2>2, <2>7, DeclineKeeps
  <2>8. ASSUME NEW i \in DOMAIN pools,
               \/ \E m \in Clients, ip \in Addresses : AddReservation(i, m, ip)
               \/ \E ip \in Addresses : RemoveReservation(i, ip)
               \/ \E e \in Exclusions : AddExclusion(i, e) \/ RemoveExclusion(i, e)
               \/ dhcp_server_remove_pool(i)
        PROVE  DSInv'
    BY Zenon, <2>8, PoolCommandKeeps
  <2>9. ASSUME NEW ip \in Addresses, dhcp_server_clear_lease(ip) PROVE DSInv'
    BY Zenon, <2>9, ClearLeaseKeeps
  <2>10. ASSUME NEW i \in DOMAIN Ranges, dhcp_server_add_pool(Ranges[i]) PROVE DSInv'
    BY Zenon, <2>10, AddPoolKeeps
  <2>11. ASSUME dhcp_server_clear_all_leases PROVE DSInv'
    BY Zenon, <2>11, ClearAllKeeps
  <2>12. ASSUME NEW file \in {saved, dhcp_lease_db_save}, NEW fresh \in BOOLEAN, Restart(file, fresh)
         PROVE  DSInv'
    BY Zenon, <2>12, RestartKeeps
  <2> QED
    BY <1>2, <2>3, <2>4, <2>5, <2>6, <2>7, <2>8, <2>9, <2>10, <2>11, <2>12 DEF DSStep
<1> QED
  BY Zenon, <1>1, <1>2 DEF DSNext

\* For any clients, pools, exclusions, requests and database size, and any
\* interleaving of packets, commands and restarts: no address belongs to two
\* clients while the history is orderly, and all_leases has every lease once.
THEOREM ServerCorrect == DSSpec => []ServerExact
<1>1. DSInv => ServerExact
  <2> SUFFICES ASSUME DSInv PROVE ServerExact
    BY Zenon
  <2>1. Addresses \subseteq Nat \ {0}
    BY Zenon, DhcpAssumption
  <2>2. Exclusive
    BY Zenon, <2>1 DEF DSInv, Safe, Owns, Exclusive
  <2> QED
    BY Zenon, <2>2 DEF DSInv, ServerExact
<1> QED
  BY <1>1, DSInvInit, DSInvNext, PTL DEF DSSpec

\* No packet moves a valid lease to another address: DISCOVER offers the same
\* one, REQUEST binds it, RELEASE and DECLINE end it.
THEOREM StickyCorrect == DSSpec => Sticky
<1> DEFINE Kept == \A m \in Clients :
             dhcp_lease_is_valid(lease[m]) /\ lease'[m].st \in Held /\ admin' = admin
               => lease'[m].ip = lease[m].ip
<1>1. ASSUME DSTypeOK, [DSNext]_dsVars PROVE Kept
  <2> SUFFICES ASSUME NEW m \in Clients, dhcp_lease_is_valid(lease[m]), lease'[m].st \in Held,
                      admin' = admin, lease'[m] # lease[m]
               PROVE  lease'[m].ip = lease[m].ip
    BY Zenon
  <2>1. lease \in [Clients -> Lease] /\ admin \in Nat /\ lease[m].st \in Held
    BY Zenon, <1>1 DEF DSTypeOK, dhcp_lease_is_valid
  <2>2. DSStep /\ ~ Command
    BY <1>1, <2>1 DEF DSNext, dsVars, Command
  <2>3. ASSUME NEW n \in Clients, dhcp_server_handle_discover(n) PROVE lease'[m].ip = lease[m].ip
    <3>1. UNCHANGED lease \/ StoreLease(n, Offered(n).ip, "OFFERED")
      BY Zenon, <2>3 DEF dhcp_server_handle_discover
    <3>2. lease' = [lease EXCEPT ![n] = [ip |-> Offered(n).ip, st |-> "OFFERED", fresh |-> TRUE]]
      BY Zenon, <3>1 DEF StoreLease
    <3>3. n = m /\ lease'[m].ip = Offered(m).ip
      BY Zenon, <2>1, <3>2
    <3> QED
      BY Zenon, <3>3 DEF Offered
  <2>4. ASSUME NEW n \in Clients, NEW rq, NEW ci, dhcp_server_handle_request(n, rq, ci)
        PROVE  lease'[m].ip = lease[m].ip
    <3> DEFINE x == IF lease[n].st # "none" THEN lease[n].ip ELSE ci
    <3>1. UNCHANGED lease \/ StoreLease(n, x, "BOUND")
      BY Zenon, <2>4 DEF dhcp_server_handle_request
    <3> HIDE DEF x
    <3>2. lease' = [lease EXCEPT ![n] = [ip |-> x, st |-> "BOUND", fresh |-> TRUE]]
      BY Zenon, <3>1 DEF StoreLease
    <3>3. n = m /\ lease'[m].ip = x
      BY Zenon, <2>1, <3>2
    <3> QED
      BY Zenon, <2>1, <3>3 DEF x, Held
  <2>5. ASSUME NEW n \in Clients, dhcp_server_handle_release(n) PROVE FALSE
    <3>1. lease' = [lease EXCEPT ![n].st = "FREE", ![n].fresh = FALSE]
      BY Zenon, <2>5 DEF dhcp_server_handle_release
    <3>2. n = m /\ lease'[m] = [lease[m] EXCEPT !.st = "FREE", !.fresh = FALSE]
      BY Zenon, <2>1, <3>1
    <3>3. lease[m] \in Lease
      BY Zenon, <2>1
    <3>4. lease'[m].st = "FREE"
      BY Zenon, <3>2, <3>3 DEF Lease
    <3> QED
      BY Zenon, <3>4 DEF Held
  <2>6. ASSUME NEW n \in Clients, NEW ip, dhcp_server_handle_decline(n, ip) PROVE FALSE
    <3>1. lease'[m] = [lease[m] EXCEPT !.st = "DECLINED"]
      BY Zenon, <2>6 DEF dhcp_server_handle_decline
    <3>2. lease[m] \in Lease
      BY Zenon, <2>1
    <3>3. lease'[m].st = "DECLINED"
      BY Zenon, <3>1, <3>2 DEF Lease
    <3> QED
      BY Zenon, <3>3 DEF Held
  <2>7. ASSUME NEW n \in Clients, LeaseRunsOut(n) \/ ClientForgets(n)
        PROVE  lease'[m].ip = lease[m].ip
    <3>1. lease' = [lease EXCEPT ![n].fresh = FALSE]
      BY Zenon, <2>7 DEF LeaseRunsOut, ClientForgets
    <3>2. n = m /\ lease'[m] = [lease[m] EXCEPT !.fresh = FALSE]
      BY Zenon, <2>1, <3>1
    <3>3. lease[m] \in Lease
      BY Zenon, <2>1
    <3> QED
      BY Zenon, <3>2, <3>3 DEF Lease
  <2>8. \E n \in Clients :
          \/ dhcp_server_handle_discover(n) \/ dhcp_server_handle_release(n)
          \/ LeaseRunsOut(n) \/ ClientForgets(n)
          \/ \E r \in Requests : dhcp_server_handle_request(n, r.rq, r.ci)
          \/ \E ip \in Addresses : dhcp_server_handle_decline(n, ip)
    BY Zenon, <2>2 DEF DSStep, AddReservation, RemoveReservation, AddExclusion, RemoveExclusion,
                dhcp_server_remove_pool, dhcp_server_clear_lease, dhcp_server_add_pool,
                dhcp_server_clear_all_leases, Restart
  <2> QED
    BY <2>3, <2>4, <2>5, <2>6, <2>7, <2>8
<1>2. DSInv => DSTypeOK
  BY Zenon DEF DSInv
<1>3. ASSUME DSTypeOK, [DSNext]_dsVars PROVE [Kept]_dsVars
  BY Zenon, <1>1, <1>3
<1> HIDE DEF Kept
<1>4. DSSpec => [][Kept]_dsVars
  BY <1>2, <1>3, DSInvInit, DSInvNext, PTL DEF DSSpec
<1> QED
  BY Zenon, <1>4 DEF Sticky, Kept
=============================================================================
