-------------------------- MODULE DhcpKernelProofs --------------------------
(***************************************************************************)
(* The kernel side of the DHCP example and the messaging library that      *)
(* talks to it, for any tables, commands, batches, callers, pending slots  *)
(* and retries: a reader of the announcements comes to know the tables,    *)
(* and what the library reports is what the kernel did.                    *)
(***************************************************************************)
EXTENDS DhcpMsg, Integers, TLAPS

-----------------------------------------------------------------------------
(* The kernel module: types.                                               *)

Answers == {"ok", "ENOMEM", "ENOENT", "ENOSPC", "EINVAL", "EOPNOTSUPP"}
Values == KIps \cup {0, 1}
Notes == {NoNote} \cup [k : Keys, v : Values]
Entries == [idx : Ifs, active : BOOLEAN, trusted : BOOLEAN]
Messages == [t : {"note", "resp"}, k : Keys \cup Nat, v : Values \cup Answers]
Bindings == [KMacs -> KIps \cup {0}]

KmTypes ==
  /\ bind \in Bindings /\ ifs \in Seq(Entries)
  /\ q \in Seq(Messages) /\ sub \in BOOLEAN
  /\ pend \in [Callers -> [busy : BOOLEAN, note : Notes, ret : Answers, seq : Nat]]
  /\ view \in [Keys -> Values] /\ faithful \in BOOLEAN /\ ever \in BOOLEAN
  /\ \A i \in 1 .. Len(q) : q[i].t = "note" => q[i].k \in Keys /\ q[i].v \in Values

\* Actual as a function of the tables
ActualIn(b, f, k) ==
  IF k \in KMacs THEN b[k]
  ELSE IF {e \in DOMAIN f : f[e].idx = k /\ f[e].active} = {} THEN 0 ELSE 1

\* What every outcome of a command is: of the right types, it empties no table
\* of interfaces, and its announcement, if the change is announced, says what
\* has changed.
IsOutcome(o) ==
  /\ o.bind \in Bindings /\ o.ifs \in Seq(Entries) /\ o.note \in Notes
  /\ o.ret \in Answers /\ o.told \in BOOLEAN
  /\ ifs # <<>> => o.ifs # <<>>
  /\ o.told => \A k \in Keys : ActualIn(o.bind, o.ifs, k) =
                                 IF o.note.k = k THEN o.note.v ELSE Actual(k)

LEMMA NoNoteType == NoNote \in Notes /\ NoNote.k = 0 /\ NoNote.v = 0
BY DEF NoNote, Notes

LEMMA ActualIs == \A k : Actual(k) = ActualIn(bind, ifs, k)
BY Zenon DEF Actual, ActualIn, iface_find

\* An outcome that changes no table
LEMMA SameTables ==
  ASSUME KmTypes, NEW o, o.bind = bind, o.ifs = ifs, o.note = NoNote,
         o.ret \in Answers, o.told = TRUE
  PROVE  IsOutcome(o)
<1>1. \A k \in Keys : NoNote.k # k
  BY Zenon, NoNoteType, KmodAssumption DEF Keys
<1> QED
  BY Zenon, <1>1, ActualIs, NoNoteType DEF IsOutcome, KmTypes

LEMMA FailsOutcome ==
  ASSUME KmTypes, NEW e \in Answers, NEW o \in Fails(e)
  PROVE  IsOutcome(o)
<1>1. o.bind = bind /\ o.ifs = ifs /\ o.note = NoNote /\ o.ret = e /\ o.told = TRUE
  BY DEF Fails, Same
<1> QED
  BY Zenon, <1>1, SameTables

LEMMA MethodOutcome ==
  ASSUME KmTypes, NEW m, NEW o \in {[Same EXCEPT !.method = m]}
  PROVE  IsOutcome(o)
<1>1. o.bind = bind /\ o.ifs = ifs /\ o.note = NoNote /\ o.ret = "ok" /\ o.told = TRUE
  BY DEF Same
<1> QED
  BY Zenon, <1>1, SameTables DEF Answers

\* A binding of one address is changed.
LEMMA BindOutcome ==
  ASSUME KmTypes, NEW m \in KMacs, NEW ip \in KIps \cup {0}, NEW o,
         o = [Same EXCEPT !.bind[m] = ip, !.note = [k |-> m, v |-> ip]]
  PROVE  IsOutcome(o)
<1>1. /\ o.bind = [bind EXCEPT ![m] = ip] /\ o.ifs = ifs
      /\ o.note = [k |-> m, v |-> ip] /\ o.ret = "ok" /\ o.told = TRUE
  BY DEF Same
<1>2. o.bind \in Bindings /\ o.note \in Notes /\ o.ret \in Answers
  <2>0. bind \in Bindings /\ o.ret \in Answers
    BY Zenon, <1>1 DEF KmTypes, Answers
  <2>1. o.bind \in Bindings
    <3>1. [bind EXCEPT ![m] = ip] \in [KMacs -> KIps \cup {0}]
      BY Zenon, <2>0 DEF Bindings
    <3> QED
      BY Zenon, <1>1, <3>1 DEF Bindings
  <2>2. m \in Keys /\ ip \in Values
    BY Zenon DEF Values, Keys
  <2> QED
    BY <1>1, <2>0, <2>1, <2>2 DEF Notes
<1>3. ASSUME NEW k \in Keys
      PROVE  ActualIn(o.bind, o.ifs, k) = IF o.note.k = k THEN o.note.v ELSE Actual(k)
  <2>1. o.bind[m] = ip /\ \A j \in KMacs : j # m => o.bind[j] = bind[j]
    BY Zenon, <1>1 DEF KmTypes, Bindings
  <2>2. o.note.k = m /\ o.note.v = ip
    BY <1>1
  <2> QED
    BY <1>1, <2>1, <2>2, ActualIs DEF ActualIn
<1> QED
  BY Zenon, <1>1, <1>2, <1>3 DEF IsOutcome, KmTypes

LEMMA BindingOutcome ==
  ASSUME KmTypes, NEW m \in KMacs, NEW ip \in KIps, NEW o \in binding_add(m, ip)
  PROVE  IsOutcome(o)
BY Zenon, BindOutcome, FailsOutcome DEF binding_add, Answers

LEMMA BindingDelOutcome ==
  ASSUME KmTypes, NEW m \in KMacs, NEW o \in binding_del(m)
  PROVE  IsOutcome(o)
BY Zenon, BindOutcome, FailsOutcome DEF binding_del, Answers

LEMMA ClearOutcome ==
  ASSUME KmTypes, NEW o \in binding_clear_all
  PROVE  IsOutcome(o)
<1>1. /\ o.bind = [j \in KMacs |-> 0] /\ o.ifs = ifs /\ o.note = NoNote
      /\ o.ret = "ok" /\ o.told = FALSE
  BY Zenon DEF binding_clear_all, Same
<1>2. o.bind \in Bindings
  BY Zenon, <1>1 DEF Bindings
<1> QED
  BY Zenon, <1>1, <1>2, NoNoteType DEF IsOutcome, KmTypes, Answers

-----------------------------------------------------------------------------
(* The table of interfaces.                                                *)

ActiveIn(f, k) == {e \in DOMAIN f : f[e].idx = k /\ f[e].active}

\* A change of the entries in place
LEMMA Remapped ==
  ASSUME KmTypes, NEW f, f = [e \in DOMAIN ifs |-> f[e]],
         \A e \in DOMAIN ifs : f[e] \in Entries
  PROVE  f \in Seq(Entries) /\ (ifs # <<>> => f # <<>>) /\ DOMAIN f = DOMAIN ifs
<1>1. ifs \in Seq(Entries)
  BY Zenon DEF KmTypes
<1>2. DOMAIN ifs = 1 .. Len(ifs) /\ Len(ifs) \in Nat /\ DOMAIN f = DOMAIN ifs
  BY <1>1
<1>3. f \in [1 .. Len(ifs) -> Entries]
  BY Zenon, <1>2
<1>4. f \in Seq(Entries) /\ Len(f) = Len(ifs)
  BY <1>2, <1>3
<1>5. ifs # <<>> => f # <<>>
  BY <1>1, <1>2, <1>4
<1> QED
  BY Zenon, <1>2, <1>4, <1>5

\* An outcome that changes the table of interfaces, in the activity of i only
LEMMA TableOutcome ==
  ASSUME KmTypes, NEW i \in Ifs, NEW o, o.bind = bind, o.ifs \in Seq(Entries),
         ifs # <<>> => o.ifs # <<>>, o.ret \in Answers, o.told \in BOOLEAN,
         \A k \in Ifs : k # i => (ActiveIn(o.ifs, k) = {} <=> ActiveIn(ifs, k) = {}),
         \/ o.note = NoNote /\ (o.told => (ActiveIn(o.ifs, i) = {} <=> ActiveIn(ifs, i) = {}))
         \/ o.note = [k |-> i, v |-> 1] /\ ActiveIn(o.ifs, i) # {}
         \/ o.note = [k |-> i, v |-> 0] /\ ActiveIn(o.ifs, i) = {}
  PROVE  IsOutcome(o)
<1>1. i \notin KMacs /\ i # 0 /\ i \in Keys /\ 0 \notin Keys
  BY Zenon, KmodAssumption DEF Keys
<1>2. o.note \in Notes
  BY <1>1, NoNoteType DEF Notes, Values
<1>3. ASSUME NEW k \in Keys, o.told
      PROVE  ActualIn(o.bind, o.ifs, k) = IF o.note.k = k THEN o.note.v ELSE Actual(k)
  <2>0. Actual(k) = ActualIn(bind, ifs, k)
    BY Zenon, ActualIs
  <2>1. CASE k \in KMacs
    <3>1. o.note.k # k
      BY <1>1, <2>1, NoNoteType, KmodAssumption
    <3> QED
      BY Zenon, <2>0, <2>1, <3>1 DEF ActualIn
  <2>2. CASE k \notin KMacs /\ k # i
    <3>1. o.note.k # k /\ k \in Ifs
      BY <1>1, <2>2, NoNoteType DEF Keys
    <3> QED
      BY Zenon, <2>0, <2>2, <3>1 DEF ActualIn, ActiveIn
  <2>3. CASE k = i
    <3>1. \A x : ([k |-> i, v |-> x]).k = i /\ ([k |-> i, v |-> x]).v = x
      OBVIOUS
    <3>2. \/ o.note.k # k /\ (ActiveIn(o.ifs, i) = {} <=> ActiveIn(ifs, i) = {})
          \/ o.note.k = k /\ o.note.v = 1 /\ ActiveIn(o.ifs, i) # {}
          \/ o.note.k = k /\ o.note.v = 0 /\ ActiveIn(o.ifs, i) = {}
      BY Zenon, <1>1, <1>3, <2>3, <3>1, NoNoteType
    <3> QED
      BY Zenon, <1>1, <2>0, <2>3, <3>2 DEF ActualIn, ActiveIn
  <2> QED
    BY Zenon, <2>1, <2>2, <2>3
<1> QED
  BY Zenon, <1>2, <1>3 DEF IsOutcome, KmTypes

LEMMA IfaceAddOutcome ==
  ASSUME KmTypes, NEW i \in Ifs, NEW o \in iface_add(i)
  PROVE  IsOutcome(o)
<1>0. ifs \in Seq(Entries)
  BY Zenon DEF KmTypes
<1>1. CASE Known(i)
  <2> DEFINE f == [e \in DOMAIN ifs |->
                     IF ifs[e].idx = i THEN [ifs[e] EXCEPT !.active = TRUE] ELSE ifs[e]]
  <2>1. /\ o.bind = bind /\ o.ifs = f /\ o.note = NoNote /\ o.ret = "ok"
        /\ o.told = (iface_find(i) # {})
    BY Zenon, <1>1 DEF iface_add, Same
  <2>2. \A e \in DOMAIN ifs : /\ f[e] \in Entries /\ f[e].idx = ifs[e].idx
                              /\ f[e].active <=> ifs[e].active \/ ifs[e].idx = i
    <3> TAKE e \in DOMAIN ifs
    <3>1. ifs[e] \in Entries
      BY <1>0
    <3>2. LET x == [ifs[e] EXCEPT !.active = TRUE]
          IN  x \in Entries /\ x.idx = ifs[e].idx /\ x.active = TRUE
      BY Zenon, <3>1 DEF Entries
    <3> QED
      BY Zenon, <3>1, <3>2
  <2>3. f = [e \in DOMAIN ifs |-> f[e]]
    BY Zenon
  <2> HIDE DEF f
  <2>4. f \in Seq(Entries) /\ (ifs # <<>> => f # <<>>) /\ DOMAIN f = DOMAIN ifs
    BY Zenon, <2>2, <2>3, Remapped
  <2>5. \A k \in Ifs : k # i => (ActiveIn(f, k) = {} <=> ActiveIn(ifs, k) = {})
    BY Zenon, <2>2, <2>4 DEF ActiveIn
  <2>6. o.told => (ActiveIn(f, i) = {} <=> ActiveIn(ifs, i) = {})
    BY Zenon, <2>1, <2>2, <2>4 DEF ActiveIn, iface_find
  <2>7. o.told \in BOOLEAN /\ o.ret \in Answers
    BY Zenon, <2>1 DEF Answers
  <2> QED
    BY Zenon, <2>1, <2>4, <2>5, <2>6, <2>7, TableOutcome
<1>2. CASE ~Known(i) /\ o \in Fails("ENOSPC")
  BY Zenon, <1>2, FailsOutcome DEF Answers
<1>3. CASE /\ ~Known(i)
           /\ o = [Same EXCEPT !.ifs = Append(ifs, [idx |-> i, active |-> TRUE, trusted |-> FALSE]),
                               !.note = [k |-> i, v |-> 1]]
  <2> DEFINE new == [idx |-> i, active |-> TRUE, trusted |-> FALSE]
             f == Append(ifs, new)
  <2>1. /\ o.bind = bind /\ o.ifs = f /\ o.note = [k |-> i, v |-> 1] /\ o.ret = "ok"
        /\ o.told = TRUE
    BY <1>3 DEF Same
  <2>2. new \in Entries /\ new.idx = i /\ new.active
    BY DEF Entries
  <2> HIDE DEF new
  <2>3. /\ f \in Seq(Entries) /\ f # <<>> /\ DOMAIN f = DOMAIN ifs \cup {Len(ifs) + 1}
        /\ f[Len(ifs) + 1] = new /\ \A e \in DOMAIN ifs : f[e] = ifs[e]
    BY <1>0, <2>2
  <2> HIDE DEF f
  <2>4. \A k \in Ifs : k # i => (ActiveIn(f, k) = {} <=> ActiveIn(ifs, k) = {})
    BY Zenon, <2>2, <2>3 DEF ActiveIn
  <2>5. ActiveIn(f, i) # {}
    BY Zenon, <2>2, <2>3 DEF ActiveIn
  <2>6. o.told \in BOOLEAN /\ o.ret \in Answers
    BY Zenon, <2>1 DEF Answers
  <2> QED
    BY Zenon, <2>1, <2>3, <2>4, <2>5, <2>6, TableOutcome
<1> QED
  BY Zenon, <1>1, <1>2, <1>3 DEF iface_add

LEMMA IfaceDelOutcome ==
  ASSUME KmTypes, NEW i \in Ifs, NEW o \in iface_del(i)
  PROVE  IsOutcome(o)
<1>0. ifs \in Seq(Entries)
  BY Zenon DEF KmTypes
<1>1. CASE iface_find(i) # {}
  <2> DEFINE f == [e \in DOMAIN ifs |->
                     IF ifs[e].idx = i THEN [ifs[e] EXCEPT !.active = FALSE] ELSE ifs[e]]
  <2>1. /\ o.bind = bind /\ o.ifs = f /\ o.note = [k |-> i, v |-> 0] /\ o.ret = "ok"
        /\ o.told = TRUE
    BY Zenon, <1>1 DEF iface_del, Same
  <2>2. \A e \in DOMAIN ifs : /\ f[e] \in Entries /\ f[e].idx = ifs[e].idx
                              /\ f[e].active <=> ifs[e].active /\ ifs[e].idx # i
    <3> TAKE e \in DOMAIN ifs
    <3>1. ifs[e] \in Entries
      BY <1>0
    <3>2. LET x == [ifs[e] EXCEPT !.active = FALSE]
          IN  x \in Entries /\ x.idx = ifs[e].idx /\ x.active = FALSE
      BY Zenon, <3>1 DEF Entries
    <3> QED
      BY Zenon, <3>1, <3>2
  <2>3. f = [e \in DOMAIN ifs |-> f[e]]
    BY Zenon
  <2> HIDE DEF f
  <2>4. f \in Seq(Entries) /\ (ifs # <<>> => f # <<>>) /\ DOMAIN f = DOMAIN ifs
    BY Zenon, <2>2, <2>3, Remapped
  <2>5. \A k \in Ifs : k # i => (ActiveIn(f, k) = {} <=> ActiveIn(ifs, k) = {})
    BY Zenon, <2>2, <2>4 DEF ActiveIn
  <2>6. ActiveIn(f, i) = {}
    BY Zenon, <2>2, <2>4 DEF ActiveIn
  <2>7. o.told \in BOOLEAN /\ o.ret \in Answers
    BY Zenon, <2>1 DEF Answers
  <2> QED
    BY Zenon, <2>1, <2>4, <2>5, <2>6, <2>7, TableOutcome
<1>2. CASE iface_find(i) = {}
  BY Zenon, <1>2, FailsOutcome DEF iface_del, Answers
<1> QED
  BY Zenon, <1>1, <1>2

LEMMA TrustOutcome ==
  ASSUME KmTypes, NEW i \in Ifs, NEW on \in BOOLEAN, NEW o \in SetTrusted(i, on)
  PROVE  IsOutcome(o)
<1>0. ifs \in Seq(Entries)
  BY Zenon DEF KmTypes
<1>1. CASE iface_find(i) # {}
  <2> DEFINE f == [e \in DOMAIN ifs |->
                     IF e \in iface_find(i) THEN [ifs[e] EXCEPT !.trusted = on] ELSE ifs[e]]
  <2>1. /\ o.bind = bind /\ o.ifs = f /\ o.note = NoNote /\ o.ret = "ok" /\ o.told = TRUE
    BY <1>1 DEF SetTrusted, Same
  <2>2. \A e \in DOMAIN ifs : /\ f[e] \in Entries /\ f[e].idx = ifs[e].idx
                              /\ f[e].active = ifs[e].active
    <3> TAKE e \in DOMAIN ifs
    <3>1. ifs[e] \in Entries
      BY <1>0
    <3>2. LET x == [ifs[e] EXCEPT !.trusted = on]
          IN  x \in Entries /\ x.idx = ifs[e].idx /\ x.active = ifs[e].active
      BY <3>1 DEF Entries
    <3> QED
      BY Zenon, <3>1, <3>2
  <2>3. f = [e \in DOMAIN ifs |-> f[e]]
    BY Zenon
  <2> HIDE DEF f
  <2>4. f \in Seq(Entries) /\ (ifs # <<>> => f # <<>>) /\ DOMAIN f = DOMAIN ifs
    BY Zenon, <2>2, <2>3, Remapped
  <2>5. \A k : ActiveIn(f, k) = ActiveIn(ifs, k)
    BY Zenon, <2>2, <2>4 DEF ActiveIn
  <2>7. o.told \in BOOLEAN /\ o.ret \in Answers
    BY Zenon, <2>1 DEF Answers
  <2> QED
    BY Zenon, <2>1, <2>4, <2>5, <2>7, TableOutcome
<1>2. CASE iface_find(i) = {}
  BY Zenon, <1>2, FailsOutcome DEF SetTrusted, Answers
<1> QED
  BY Zenon, <1>1, <1>2

\* Every outcome of every command, over netlink or the device
LEMMA NetlinkOutcome ==
  ASSUME KmTypes, NEW c \in Commands, NEW o \in NetlinkCmd(c)
  PROVE  IsOutcome(o)
<1>1. CASE c \in AddBinding
  <2>1. PICK m \in KMacs, ip \in KIps : c.op = "add" /\ c.k = <<m>> /\ c.v = <<ip>>
    BY <1>1 DEF AddBinding
  <2>2. c.k # <<>> /\ c.v # <<>> /\ c.k[1] = m /\ c.v[1] = ip
    BY <2>1
  <2>3. NetlinkCmd(c) = binding_add(m, ip)
    BY <2>1, <2>2 DEF NetlinkCmd
  <2> QED
    BY Zenon, <2>3, BindingOutcome
<1>2. CASE c \in DelBinding
  <2>1. PICK m \in KMacs : c.op = "del" /\ c.k = <<m>>
    BY <1>2 DEF DelBinding
  <2>2. c.k # <<>> /\ c.k[1] = m
    BY <2>1
  <2>3. NetlinkCmd(c) = binding_del(m)
    BY <2>1, <2>2 DEF NetlinkCmd
  <2> QED
    BY Zenon, <2>3, BindingDelOutcome
<1>3. CASE c \in Clear
  <2>1. c.op = "clear"
    BY <1>3 DEF Clear
  <2>2. c.op # "add" /\ c.op # "del"
    BY <2>1
  <2>3. NetlinkCmd(c) = binding_clear_all
    BY <2>1, <2>2 DEF NetlinkCmd
  <2> QED
    BY Zenon, <2>3, ClearOutcome
<1>4. CASE c \in AddInterface
  <2>1. c.op = "ifadd" /\ (c.k = <<>> \/ \E i \in Ifs : c.k = <<i>>)
    BY <1>4 DEF AddInterface
  <2>2. CASE c.k = <<>>
    <3>1. NetlinkCmd(c) = Fails("EINVAL")
      BY <2>1, <2>2 DEF NetlinkCmd
    <3> QED
      BY Zenon, <3>1, FailsOutcome DEF Answers
  <2>3. ASSUME NEW i \in Ifs, c.k = <<i>> PROVE IsOutcome(o)
    <3>1. c.k # <<>> /\ c.k[1] = i
      BY <2>3
    <3>2. NetlinkCmd(c) = iface_add(i)
      BY <2>1, <3>1 DEF NetlinkCmd
    <3> QED
      BY Zenon, <3>2, IfaceAddOutcome
  <2> QED
    BY Zenon, <2>1, <2>2, <2>3
<1>5. CASE c \in DelInterface
  <2>1. PICK i \in Ifs : c.op = "ifdel" /\ c.k = <<i>>
    BY <1>5 DEF DelInterface
  <2>2. c.k # <<>> /\ c.k[1] = i
    BY <2>1
  <2>3. NetlinkCmd(c) = iface_del(i)
    BY <2>1, <2>2 DEF NetlinkCmd
  <2> QED
    BY Zenon, <2>3, IfaceDelOutcome
<1>6. CASE c \in Trust
  <2>1. PICK i \in Ifs : c.op = "trust" /\ c.k = <<i>> /\ c.v \in {<<>>, <<FALSE>>, <<TRUE>>}
    BY Zenon, <1>6 DEF Trust
  <2>2. c.k # <<>> /\ c.k[1] = i
    BY <2>1
  <2>3. CASE c.v = <<>>
    <3>1. NetlinkCmd(c) = Fails("EINVAL")
      BY <2>1, <2>3 DEF NetlinkCmd
    <3> QED
      BY Zenon, <3>1, FailsOutcome DEF Answers
  <2>4. ASSUME NEW on \in BOOLEAN, c.v = <<on>> PROVE IsOutcome(o)
    <3>1. c.v # <<>> /\ c.v[1] = on
      BY <2>4
    <3>2. NetlinkCmd(c) = SetTrusted(i, on)
      BY <2>1, <2>2, <3>1 DEF NetlinkCmd
    <3> QED
      BY Zenon, <3>2, TrustOutcome
  <2> QED
    BY Zenon, <2>1, <2>3, <2>4
<1>7. CASE c \in Method
  <2>1. PICK x : c.op = "method" /\ c.v = <<x>>
    BY <1>7 DEF Method
  <2>2. c.v # <<>> /\ c.v[1] = x
    BY <2>1
  <2>3. NetlinkCmd(c) = {[Same EXCEPT !.method = x]}
    BY <2>1, <2>2 DEF NetlinkCmd
  <2> QED
    BY Zenon, <2>3, MethodOutcome
<1> QED
  BY Zenon, <1>1, <1>2, <1>3, <1>4, <1>5, <1>6, <1>7 DEF Commands

LEMMA ChardevOutcome ==
  ASSUME KmTypes, NEW c \in Commands, NEW o \in qdhcp_chardev_process_cmd(c)
  PROVE  IsOutcome(o)
<1>1. CASE c \in AddBinding
  <2>1. PICK m \in KMacs, ip \in KIps : c.op = "add" /\ c.k = <<m>> /\ c.v = <<ip>>
    BY <1>1 DEF AddBinding
  <2>2. c.k # <<>> /\ c.v # <<>> /\ c.k[1] = m /\ c.v[1] = ip
    BY <2>1
  <2>3. qdhcp_chardev_process_cmd(c) = binding_add(m, ip)
    BY <2>1, <2>2 DEF qdhcp_chardev_process_cmd, ChardevBindingCmd
  <2> QED
    BY Zenon, <2>3, BindingOutcome
<1>2. CASE c \in DelBinding
  <2>1. PICK m \in KMacs : c.op = "del" /\ c.k = <<m>>
    BY <1>2 DEF DelBinding
  <2>2. c.k # <<>> /\ c.k[1] = m
    BY <2>1
  <2>3. qdhcp_chardev_process_cmd(c) = binding_del(m)
    BY <2>1, <2>2 DEF qdhcp_chardev_process_cmd, ChardevBindingCmd
  <2> QED
    BY Zenon, <2>3, BindingDelOutcome
<1>3. CASE c \in Clear
  <2>1. c.op = "clear"
    BY <1>3 DEF Clear
  <2>2. c.op # "add" /\ c.op # "del"
    BY <2>1
  <2>3. qdhcp_chardev_process_cmd(c) = binding_clear_all
    BY <2>1, <2>2 DEF qdhcp_chardev_process_cmd, ChardevBindingCmd
  <2> QED
    BY Zenon, <2>3, ClearOutcome
<1>4. CASE c \in AddInterface
  <2>1. c.op = "ifadd" /\ (c.k = <<>> \/ \E i \in Ifs : c.k = <<i>>)
    BY <1>4 DEF AddInterface
  <2>2. CASE c.k = <<>>
    <3>1. qdhcp_chardev_process_cmd(c) = Fails("EINVAL")
      BY <2>1, <2>2 DEF qdhcp_chardev_process_cmd, ChardevIfaceCmd
    <3> QED
      BY Zenon, <3>1, FailsOutcome DEF Answers
  <2>3. ASSUME NEW i \in Ifs, c.k = <<i>> PROVE IsOutcome(o)
    <3>1. c.k # <<>> /\ c.k[1] = i
      BY <2>3
    <3>2. qdhcp_chardev_process_cmd(c) = iface_add(i)
      BY <2>1, <3>1 DEF qdhcp_chardev_process_cmd, ChardevIfaceCmd
    <3> QED
      BY Zenon, <3>2, IfaceAddOutcome
  <2> QED
    BY Zenon, <2>1, <2>2, <2>3
<1>5. CASE c \in DelInterface
  <2>1. PICK i \in Ifs : c.op = "ifdel" /\ c.k = <<i>>
    BY <1>5 DEF DelInterface
  <2>2. c.k # <<>> /\ c.k[1] = i
    BY <2>1
  <2>3. qdhcp_chardev_process_cmd(c) = iface_del(i)
    BY <2>1, <2>2 DEF qdhcp_chardev_process_cmd, ChardevIfaceCmd
  <2> QED
    BY Zenon, <2>3, IfaceDelOutcome
<1>6. CASE c \in Trust
  <2>1. PICK i \in Ifs : c.op = "trust" /\ c.k = <<i>>
    BY <1>6 DEF Trust
  <2>2. c.k # <<>> /\ c.k[1] = i
    BY <2>1
  <2>3. qdhcp_chardev_process_cmd(c) = SetTrusted(i, c.v = <<TRUE>>)
    BY <2>1, <2>2 DEF qdhcp_chardev_process_cmd, ChardevIfaceCmd
  <2>4. (c.v = <<TRUE>>) \in BOOLEAN
    BY Zenon
  <2> QED
    BY Zenon, <2>3, <2>4, TrustOutcome
<1>7. CASE c \in Method
  <2>1. PICK x : c.op = "method" /\ c.v = <<x>>
    BY <1>7 DEF Method
  <2>2. c.v # <<>> /\ c.v[1] = x
    BY <2>1
  <2>3. qdhcp_chardev_process_cmd(c) = {[Same EXCEPT !.method = x]}
    BY <2>1, <2>2 DEF qdhcp_chardev_process_cmd, ChardevMethodCmd
  <2> QED
    BY Zenon, <2>3, MethodOutcome
<1> QED
  BY Zenon, <1>1, <1>2, <1>3, <1>4, <1>5, <1>6, <1>7 DEF Commands

-----------------------------------------------------------------------------
(* The reader's picture.                                                   *)

\* Read in order, the announcements in s leave a reader that knew d of key k
\* with x.
Says(m, k) == m.t = "note" /\ m.k = k
LeavesWith(s, k, d, x) ==
  \/ (\A i \in 1 .. Len(s) : ~Says(s[i], k)) /\ x = d
  \/ \E j \in 1 .. Len(s) : /\ Says(s[j], k) /\ x = s[j].v
                            /\ \A i \in 1 .. Len(s) : Says(s[i], k) => i <= j

\* After its queue s and the announcements under way a reader with picture w
\* has x for k.
Tells(pe, s, w, k, x) ==
  \/ \E p \in Callers : pe[p].note.k = k /\ pe[p].note.v = x
  \/ (\A p \in Callers : pe[p].note.k # k) /\ LeavesWith(s, k, w[k], x)

OneSays(pe) ==
  \A p, r \in Callers : p # r => pe[p].note.k = 0 \/ pe[p].note.k # pe[r].note.k

KmInv ==
  /\ KmTypes
  /\ \A p \in Callers : ~pend[p].busy => pend[p].note = NoNote
  /\ ever => ifs # <<>>
  /\ faithful => /\ OneSays(pend)
                 /\ \A k \in Keys : Tells(pend, q, view, k, Actual(k))

LEMMA KeyNotZero == \A k \in Keys : k # 0
BY Zenon, KmodAssumption DEF Keys

\* A message at the end of the queue
LEMMA LeavesAppend ==
  ASSUME NEW s \in Seq(Messages), NEW m \in Messages, NEW k, NEW d, NEW x,
         LeavesWith(s, k, d, x)
  PROVE  LeavesWith(Append(s, m), k, d, IF Says(m, k) THEN m.v ELSE x)
<1> DEFINE z == Append(s, m)
<1>1. /\ Len(s) \in Nat /\ Len(z) = Len(s) + 1 /\ z[Len(s) + 1] = m
      /\ \A i \in 1 .. Len(s) : z[i] = s[i]
  OBVIOUS
<1> HIDE DEF z
<1>2. 1 .. Len(z) = (1 .. Len(s)) \cup {Len(s) + 1}
  BY <1>1
<1>3. \A i \in 1 .. Len(z) : i <= Len(s) + 1
  BY <1>1
<1>4. CASE Says(m, k)
  BY Zenon, <1>1, <1>2, <1>3, <1>4 DEF LeavesWith, z
<1>5. CASE ~Says(m, k)
  <2>1. \A i \in 1 .. Len(z) : Says(z[i], k) => i \in 1 .. Len(s) /\ Says(s[i], k)
    BY Zenon, <1>1, <1>2, <1>5
  <2>2. \A i \in 1 .. Len(s) : i \in 1 .. Len(z)
    BY Zenon, <1>2
  <2> QED
    BY Zenon, <1>1, <1>5, <2>1, <2>2 DEF LeavesWith, z
<1> QED
  BY Zenon, <1>4, <1>5

\* The oldest message is taken out; what it said becomes what is known.
LEMMA LeavesTail ==
  ASSUME NEW s \in Seq(Messages), s # <<>>, NEW k, NEW d, NEW e, NEW x,
         LeavesWith(s, k, d, x), e = IF Says(s[1], k) THEN s[1].v ELSE d
  PROVE  LeavesWith(Tail(s), k, e, x)
<1> DEFINE z == Tail(s)
<1>1. /\ Len(s) \in Nat /\ Len(s) >= 1 /\ Len(z) = Len(s) - 1
      /\ \A i \in 1 .. Len(z) : z[i] = s[i + 1]
  OBVIOUS
<1> HIDE DEF z
<1>2. \A i \in 1 .. Len(z) : i + 1 \in 1 .. Len(s) /\ i \in Int
  BY <1>1
<1>3. \A i \in 1 .. Len(s) : i # 1 => i - 1 \in 1 .. Len(z) /\ i = (i - 1) + 1
  BY <1>1
<1>4. CASE (\A i \in 1 .. Len(s) : ~Says(s[i], k)) /\ x = d
  <2>1. ~Says(s[1], k)
    BY <1>1, <1>4
  <2> QED
    BY Zenon, <1>1, <1>2, <1>4, <2>1 DEF LeavesWith, z
<1>5. ASSUME NEW j \in 1 .. Len(s), Says(s[j], k), x = s[j].v,
             \A i \in 1 .. Len(s) : Says(s[i], k) => i <= j
      PROVE  LeavesWith(z, k, e, x)
  <2>1. CASE j = 1
    <3>1. \A i \in 1 .. Len(z) : ~(i + 1 <= 1)
      BY <1>1
    <3>2. \A i \in 1 .. Len(z) : ~Says(z[i], k)
      BY Zenon, <1>1, <1>2, <1>5, <2>1, <3>1
    <3> QED
      BY Zenon, <1>5, <2>1, <3>2 DEF LeavesWith
  <2>2. CASE j # 1
    <3>1. j - 1 \in 1 .. Len(z) /\ z[j - 1] = s[j]
      BY <1>1, <1>3, <2>2
    <3>2. \A i \in 1 .. Len(z) : i + 1 <= j => i <= j - 1
      BY <1>2
    <3>3. \A i \in 1 .. Len(z) : Says(z[i], k) => i <= j - 1
      BY Zenon, <1>1, <1>2, <1>5, <3>2
    <3> QED
      BY Zenon, <1>5, <3>1, <3>3 DEF LeavesWith
  <2> QED
    BY Zenon, <2>1, <2>2
<1> QED
  BY Zenon, <1>4, <1>5 DEF LeavesWith, z

\* Told is what the reader ends up with.
LEMMA TellsTold ==
  ASSUME KmTypes, OneSays(pend), NEW k \in Keys, NEW x, Tells(pend, q, view, k, x)
  PROVE  Told(k) = x
<1> DEFINE saying == {p \in Callers : pend[p].note.k = k}
           queued == {j \in DOMAIN q : q[j].t = "note" /\ q[j].k = k}
           last == CHOOSE j \in queued : \A l \in queued : l <= j
<1>0. DOMAIN q = 1 .. Len(q) /\ \A i \in 1 .. Len(q) : i \in Int
  BY DEF KmTypes
<1>1. ASSUME NEW p \in Callers, pend[p].note.k = k, pend[p].note.v = x
      PROVE  Told(k) = x
  <2>1. saying = {p}
    BY Zenon, <1>1, KeyNotZero DEF OneSays
  <2>2. saying # {} /\ (CHOOSE r \in saying : TRUE) = p
    BY Zenon, <2>1
  <2> HIDE DEF saying, queued
  <2>3. Told(k) = pend[CHOOSE r \in saying : TRUE].note.v
    BY <2>2 DEF Told, saying, queued
  <2> QED
    BY Zenon, <1>1, <2>2, <2>3
<1>2. ASSUME saying = {}, LeavesWith(q, k, view[k], x)
      PROVE  Told(k) = x
  <2>1. CASE queued = {}
    <3>1. \A i \in 1 .. Len(q) : ~Says(q[i], k)
      BY Zenon, <1>0, <2>1 DEF Says
    <3>2. x = view[k]
      BY Zenon, <1>2, <3>1 DEF LeavesWith
    <3> HIDE DEF saying, queued
    <3>3. Told(k) = view[k]
      BY <1>2, <2>1 DEF Told, saying, queued
    <3> QED
      BY Zenon, <3>2, <3>3
  <2>2. CASE queued # {}
    <3>1. PICK j \in 1 .. Len(q) : /\ Says(q[j], k) /\ x = q[j].v
                                   /\ \A i \in 1 .. Len(q) : Says(q[i], k) => i <= j
      BY Zenon, <1>0, <1>2, <2>2 DEF LeavesWith, Says
    <3>2. j \in queued /\ \A l \in queued : l <= j
      BY Zenon, <1>0, <3>1 DEF Says
    <3>3. last \in queued /\ \A l \in queued : l <= last
      BY Zenon, <3>2
    <3>4. last <= j /\ j <= last /\ last \in Int /\ j \in Int
      BY Zenon, <1>0, <3>2, <3>3
    <3>5. last = j
      BY <3>4
    <3> HIDE DEF saying, queued, last
    <3>6. Told(k) = q[last].v
      BY Zenon, <1>2, <2>2 DEF Told, saying, queued, last
    <3> QED
      BY Zenon, <3>1, <3>5, <3>6
  <2> QED
    BY Zenon, <2>1, <2>2
<1> QED
  BY Zenon, <1>1, <1>2 DEF Tells

\* The invariant is what the reader relies on.
LEMMA KmCatchesUp == KmInv => ReaderCatchesUp
BY Zenon, TellsTold DEF KmInv, ReaderCatchesUp

-----------------------------------------------------------------------------
(* The kernel module: every step keeps the reader's picture true.          *)

LEMMA KmInit == KMInit => KmInv
<1> SUFFICES ASSUME KMInit PROVE KmInv
  OBVIOUS
<1>1. /\ bind = [m \in KMacs |-> 0] /\ ifs = <<>> /\ q = <<>> /\ sub = FALSE
      /\ pend = [p \in Callers |-> Rest] /\ view = [k \in Keys |-> 0]
      /\ faithful = FALSE /\ ever = FALSE
  BY Zenon DEF KMInit
<1>2. bind \in Bindings /\ view \in [Keys -> Values]
  BY Zenon, <1>1 DEF Bindings, Values
<1>3. Rest \in [busy : BOOLEAN, note : Notes, ret : Answers, seq : Nat]
  BY NoNoteType DEF Rest, Answers
<1>4. Rest.note = NoNote
  BY DEF Rest
<1>5. ifs \in Seq(Entries) /\ q \in Seq(Messages) /\ Len(q) = 0
  BY <1>1
<1>6. \A i \in 1 .. Len(q) : FALSE
  BY <1>5
<1>7. KmTypes
  BY Zenon, <1>1, <1>2, <1>3, <1>5, <1>6 DEF KmTypes
<1> QED
  BY Zenon, <1>1, <1>4, <1>7 DEF KmInv

\* A command is carried out, by a caller with nothing to announce.
LEMMA AppliesKm ==
  ASSUME KmInv, NEW p \in Callers, ~pend[p].busy, NEW s \in Nat, NEW o, IsOutcome(o),
         Applies(p, o, s), q' = q, sub' = sub, view' = view
  PROVE  KmInv'
<1> DEFINE n == [busy |-> TRUE, note |-> o.note, ret |-> o.ret, seq |-> s]
<1>1. /\ bind' = o.bind /\ ifs' = o.ifs /\ ever' = (ever \/ o.ifs # <<>>)
      /\ pend' = [pend EXCEPT ![p] = n]
      /\ faithful' = (/\ faithful /\ o.told
                      /\ \A r \in Callers \ {p} :
                            pend[r].note.k = 0 \/ pend[r].note.k # o.note.k)
  BY Zenon DEF Applies
<1>2. n \in [busy : BOOLEAN, note : Notes, ret : Answers, seq : Nat]
      /\ n.note = o.note /\ n.busy = TRUE
  BY DEF IsOutcome
<1> HIDE DEF n
<1>3. pend \in [Callers -> [busy : BOOLEAN, note : Notes, ret : Answers, seq : Nat]]
  BY Zenon DEF KmInv, KmTypes
<1>4. pend'[p] = n /\ \A r \in Callers : r # p => pend'[r] = pend[r]
  BY Zenon, <1>1, <1>3
<1>5. pend' \in [Callers -> [busy : BOOLEAN, note : Notes, ret : Answers, seq : Nat]]
  BY <1>1, <1>2, <1>3
<1>6. faithful' \in BOOLEAN /\ ever' \in BOOLEAN
  BY Zenon, <1>1 DEF KmInv, KmTypes
<1>7. KmTypes'
  BY Zenon, <1>1, <1>5, <1>6 DEF KmInv, KmTypes, IsOutcome
<1>8. \A r \in Callers : ~pend'[r].busy => pend'[r].note = NoNote
  BY Zenon, <1>2, <1>4 DEF KmInv
<1>9. ever' => ifs' # <<>>
  BY Zenon, <1>1 DEF KmInv, IsOutcome
<1>10. ASSUME faithful' PROVE OneSays(pend)' /\ \A k \in Keys : Tells(pend, q, view, k, Actual(k))'
  <2>1. faithful /\ o.told /\ \A r \in Callers \ {p} :
                            pend[r].note.k = 0 \/ pend[r].note.k # o.note.k
    BY Zenon, <1>1, <1>10
  <2>2. OneSays(pend) /\ \A k \in Keys : Tells(pend, q, view, k, Actual(k))
    BY Zenon, <2>1 DEF KmInv
  <2>3. pend[p].note.k = 0
    BY Zenon, NoNoteType DEF KmInv
  <2>4. \A r, t \in Callers : r # t => pend'[r].note.k = 0 \/ pend'[r].note.k # pend'[t].note.k
    BY <1>2, <1>4, <2>1, <2>2 DEF OneSays
  <2>5. ASSUME NEW k \in Keys PROVE Tells(pend', q', view', k, Actual(k)')
    <3>1. Actual(k)' = ActualIn(o.bind, o.ifs, k)
      BY Zenon, <1>1 DEF Actual, ActualIn, iface_find
    <3>2. Actual(k)' = IF o.note.k = k THEN o.note.v ELSE Actual(k)
      BY Zenon, <2>1, <3>1 DEF IsOutcome
    <3>3. CASE o.note.k = k
      BY Zenon, <1>2, <1>4, <3>2, <3>3 DEF Tells
    <3>4. CASE o.note.k # k
      <4>1. Tells(pend, q, view, k, Actual(k)')
        BY Zenon, <2>2, <3>2, <3>4
      <4> QED
        BY Zenon, <1>2, <1>4, <2>3, <3>4, <4>1, KeyNotZero DEF Tells
    <3> QED
      BY Zenon, <3>3, <3>4
  <2> QED
    BY Zenon, <2>4, <2>5 DEF OneSays, Tells
<1> QED
  BY Zenon, <1>7, <1>8, <1>9, <1>10 DEF KmInv

\* The announcement of a change
LEMMA AnnounceKm ==
  ASSUME KmInv, NEW p \in Callers, Announce(p)
  PROVE  KmInv'
<1> DEFINE room == IF Len(q) >= MSG_QUEUE_MAX THEN Tail(q) ELSE q
           msg == Message("note", pend[p].note.k, pend[p].note.v)
<1>1. /\ pend[p].busy /\ pend[p].note # NoNote
      /\ pend' = [pend EXCEPT ![p].note = NoNote]
      /\ bind' = bind /\ ifs' = ifs /\ ever' = ever /\ sub' = sub /\ view' = view
  BY Zenon DEF Announce
<1>2. \/ q' = q /\ faithful' = FALSE
      \/ q' = Append(room, msg) /\ faithful' = (faithful /\ (room = q \/ q[1].t = "resp"))
      \/ q' = room /\ faithful' = FALSE
  BY Zenon DEF Announce, qdhcp_chardev_queue_notification
<1>3. KmTypes
  BY Zenon DEF KmInv
<1>4. pend[p] \in [busy : BOOLEAN, note : Notes, ret : Answers, seq : Nat] /\ q \in Seq(Messages)
  BY Zenon, <1>3 DEF KmTypes
<1>5. pend[p].note.k \in Keys /\ pend[p].note.v \in Values
  <2>1. pend[p].note \in Notes
    BY <1>4
  <2>2. pend[p].note \in [k : Keys, v : Values]
    BY Zenon, <1>1, <2>1 DEF Notes
  <2> QED
    BY <2>2
<1>6. /\ msg \in Messages /\ msg.t = "note"
      /\ msg.k = pend[p].note.k /\ msg.v = pend[p].note.v
  BY <1>5 DEF Message, Messages
<1>7. room \in Seq(Messages) /\ (room = q \/ (q # <<>> /\ room = Tail(q)))
  <2>1. Len(q) >= MSG_QUEUE_MAX => q # <<>>
    BY <1>4, KmodAssumption
  <2> QED
    BY <1>4, <2>1
<1> HIDE DEF msg, room
<1>8. /\ pend'[p].busy = pend[p].busy /\ pend'[p].note = NoNote
      /\ pend' \in [Callers -> [busy : BOOLEAN, note : Notes, ret : Answers, seq : Nat]]
      /\ \A r \in Callers : r # p => pend'[r] = pend[r]
  BY Zenon, <1>1, <1>3, NoNoteType DEF KmTypes
<1>9. q' \in Seq(Messages) /\ \A i \in 1 .. Len(q') : q'[i].t = "note" => q'[i].k \in Keys /\ q'[i].v \in Values
  <2>1. \A i \in 1 .. Len(room) : room[i].t = "note" => room[i].k \in Keys /\ room[i].v \in Values
    <3>1. CASE room = q
      BY Zenon, <1>3, <3>1 DEF KmTypes
    <3>2. CASE q # <<>> /\ room = Tail(q)
      <4>1. \A i \in 1 .. Len(room) : i + 1 \in 1 .. Len(q) /\ room[i] = q[i + 1]
        BY <1>4, <3>2
      <4> QED
        BY Zenon, <1>3, <4>1 DEF KmTypes
    <3> QED
      BY Zenon, <1>7, <3>1, <3>2
  <2>2. CASE q' = Append(room, msg)
    <3>1. \A i \in 1 .. Len(q') : (i \in 1 .. Len(room) /\ q'[i] = room[i]) \/ q'[i] = msg
      BY <1>7, <2>2
    <3>2. q' \in Seq(Messages)
      BY <1>6, <1>7, <2>2
    <3> QED
      BY Zenon, <1>5, <1>6, <2>1, <3>1, <3>2
  <2> QED
    BY Zenon, <1>2, <1>3, <1>7, <2>1, <2>2 DEF KmTypes
<1>10. faithful' \in BOOLEAN
  BY Zenon, <1>2, <1>3 DEF KmTypes
<1>11. KmTypes'
  BY Zenon, <1>1, <1>3, <1>8, <1>9, <1>10 DEF KmTypes
<1>12. \A r \in Callers : ~pend'[r].busy => pend'[r].note = NoNote
  BY Zenon, <1>8 DEF KmInv
<1>13. ASSUME faithful'
       PROVE  OneSays(pend)' /\ \A k \in Keys : Tells(pend, q, view, k, Actual(k))'
  <2>1. /\ faithful /\ q' = Append(room, msg)
        /\ room = q \/ (q # <<>> /\ room = Tail(q) /\ q[1].t = "resp")
    BY Zenon, <1>2, <1>7, <1>13
  <2>2. OneSays(pend) /\ \A k \in Keys : Tells(pend, q, view, k, Actual(k))
    BY Zenon, <2>1 DEF KmInv
  <2>3. \A r, t \in Callers : r # t => pend'[r].note.k = 0 \/ pend'[r].note.k # pend'[t].note.k
    <3> SUFFICES ASSUME NEW r \in Callers, NEW t \in Callers, r # t, pend'[r].note.k # 0
                 PROVE  pend'[r].note.k # pend'[t].note.k
      BY Zenon
    <3>1. r # p /\ pend'[r] = pend[r]
      BY Zenon, <1>8, NoNoteType
    <3>2. CASE t = p
      BY Zenon, <1>8, <3>2, NoNoteType
    <3>3. CASE t # p
      BY Zenon, <1>8, <2>2, <3>1, <3>3 DEF OneSays
    <3> QED
      BY Zenon, <3>2, <3>3
  <2>4. ASSUME NEW k \in Keys PROVE Tells(pend', q', view', k, Actual(k)')
    <3>1. Actual(k)' = Actual(k)
      BY Zenon, <1>1 DEF Actual, iface_find
    <3>2. CASE pend[p].note.k = k
      <4>1. Says(msg, k)
        BY Zenon, <1>6, <3>2 DEF Says
      <4>2. \A r \in Callers : pend'[r].note.k # k
        BY Zenon, <1>8, <2>2, <3>2, NoNoteType, KeyNotZero DEF OneSays
      <4>3. pend[p].note.v = Actual(k)
        BY Zenon, <2>2, <3>2, KeyNotZero DEF OneSays, Tells
      <4>4. LeavesWith(q', k, view'[k], msg.v)
        <5>1. Len(room) \in Nat /\ Len(q') = Len(room) + 1 /\ q'[Len(room) + 1] = msg
          BY <1>6, <1>7, <2>1
        <5>2. Len(q') \in 1 .. Len(q') /\ q'[Len(q')] = msg /\ \A i \in 1 .. Len(q') : i <= Len(q')
          BY <5>1
        <5> QED
          BY Zenon, <4>1, <5>2 DEF LeavesWith
      <4> QED
        BY Zenon, <1>6, <3>1, <4>2, <4>3, <4>4 DEF Tells
    <3>3. CASE pend[p].note.k # k
      <4>1. ~Says(msg, k)
        BY Zenon, <1>6, <3>3 DEF Says
      <4>2. CASE \E r \in Callers : pend[r].note.k = k /\ pend[r].note.v = Actual(k)
        BY Zenon, <1>8, <3>1, <3>3, <4>2 DEF Tells
      <4>3. CASE (\A r \in Callers : pend[r].note.k # k) /\ LeavesWith(q, k, view[k], Actual(k))
        <5>1. LeavesWith(room, k, view[k], Actual(k))
          <6>1. CASE room = q
            BY Zenon, <4>3, <6>1
          <6>2. CASE q # <<>> /\ room = Tail(q) /\ q[1].t = "resp"
            <7>1. ~Says(q[1], k)
              BY Zenon, <6>2 DEF Says
            <7> QED
              BY Zenon, <1>4, <4>3, <6>2, <7>1, LeavesTail
          <6> QED
            BY Zenon, <2>1, <6>1, <6>2
        <5>2. LeavesWith(q', k, view[k], Actual(k))
          BY Zenon, <1>6, <1>7, <2>1, <4>1, <5>1, LeavesAppend
        <5>3. \A r \in Callers : pend'[r].note.k # k
          BY Zenon, <1>8, <4>3, NoNoteType, KeyNotZero
        <5> QED
          BY Zenon, <1>1, <3>1, <5>2, <5>3 DEF Tells
      <4> QED
        BY Zenon, <2>2, <4>2, <4>3 DEF Tells
    <3> QED
      BY Zenon, <3>2, <3>3
  <2> QED
    BY Zenon, <2>3, <2>4 DEF OneSays, Tells
<1> QED
  BY Zenon, <1>1, <1>11, <1>12, <1>13 DEF KmInv

\* A caller returns; the answer to a write goes into the queue.
LEMMA ReturnKm ==
  ASSUME KmInv, NEW p \in Callers, pend[p].note = NoNote,
         pend' = [pend EXCEPT ![p] = Rest],
         q' = q \/ \E m \in Messages : m.t = "resp" /\ q' = Append(q, m),
         bind' = bind, ifs' = ifs, ever' = ever, sub' = sub, view' = view,
         faithful' = faithful
  PROVE  KmInv'
<1>1. KmTypes /\ q \in Seq(Messages)
  BY Zenon DEF KmInv, KmTypes
<1>2. Rest \in [busy : BOOLEAN, note : Notes, ret : Answers, seq : Nat] /\ Rest.note = NoNote
  BY NoNoteType DEF Rest, Answers
<1>3. /\ pend' \in [Callers -> [busy : BOOLEAN, note : Notes, ret : Answers, seq : Nat]]
      /\ pend'[p] = Rest /\ \A r \in Callers : r # p => pend'[r] = pend[r]
  BY <1>1, <1>2 DEF KmTypes
<1>4. \A r \in Callers : pend'[r].note = pend[r].note
  BY Zenon, <1>2, <1>3
<1>5. /\ q' \in Seq(Messages)
      /\ \A i \in 1 .. Len(q') : q'[i].t = "note" => q'[i].k \in Keys /\ q'[i].v \in Values
  <2>1. ASSUME NEW m \in Messages, m.t = "resp", q' = Append(q, m)
        PROVE  /\ q' \in Seq(Messages)
               /\ \A i \in 1 .. Len(q') : q'[i].t = "note" => q'[i].k \in Keys /\ q'[i].v \in Values
    <3>1. q' \in Seq(Messages)
          /\ \A i \in 1 .. Len(q') : (i \in 1 .. Len(q) /\ q'[i] = q[i]) \/ q'[i] = m
      BY <1>1, <2>1
    <3>2. "resp" # "note"
      OBVIOUS
    <3> QED
      BY Zenon, <1>1, <2>1, <3>1, <3>2 DEF KmTypes
  <2> QED
    BY Zenon, <1>1, <2>1 DEF KmTypes
<1>6. KmTypes'
  BY Zenon, <1>1, <1>3, <1>5 DEF KmTypes
<1>7. \A r \in Callers : ~pend'[r].busy => pend'[r].note = NoNote
  BY Zenon, <1>2, <1>3 DEF KmInv
<1>8. ASSUME NEW k, NEW d, NEW x, LeavesWith(q, k, d, x) PROVE LeavesWith(q', k, d, x)
  <2>1. ASSUME NEW m \in Messages, m.t = "resp", q' = Append(q, m)
        PROVE  LeavesWith(q', k, d, x)
    <3>1. ~Says(m, k)
      BY Zenon, <2>1 DEF Says
    <3> QED
      BY Zenon, <1>1, <1>8, <2>1, <3>1, LeavesAppend
  <2> QED
    BY Zenon, <1>8, <2>1
<1>9. ASSUME faithful
      PROVE  OneSays(pend') /\ \A k \in Keys : Tells(pend', q', view', k, Actual(k)')
  <2>1. OneSays(pend) /\ \A k \in Keys : Tells(pend, q, view, k, Actual(k))
    BY Zenon, <1>9 DEF KmInv
  <2>2. OneSays(pend')
    BY <1>4, <2>1 DEF OneSays
  <2>3. ASSUME NEW k \in Keys PROVE Tells(pend', q', view', k, Actual(k)')
    <3>1. Actual(k)' = Actual(k) /\ Tells(pend, q, view, k, Actual(k))
      BY Zenon, <2>1 DEF Actual, iface_find
    <3> QED
      BY Zenon, <1>4, <1>8, <3>1 DEF Tells
  <2> QED
    BY Zenon, <2>2, <2>3
<1> QED
  BY Zenon, <1>6, <1>7, <1>9 DEF KmInv, OneSays, Tells

\* The oldest message is taken.  An announcement either changes the reader's
\* picture or the picture is no longer faithful.
LEMMA TakeKm ==
  ASSUME KmInv, q # <<>>, q' = Tail(q), pend' = pend,
         bind' = bind, ifs' = ifs, ever' = ever, sub' = sub, faithful' \in BOOLEAN,
         view' = view \/ (q[1].t = "note" /\ view' = [view EXCEPT ![q[1].k] = q[1].v]),
         faithful' => faithful
                   /\ (q[1].t = "note" => view' = [view EXCEPT ![q[1].k] = q[1].v])
                   /\ (q[1].t # "note" => view' = view)
  PROVE  KmInv'
<1>1. KmTypes /\ q \in Seq(Messages)
  BY Zenon DEF KmInv, KmTypes
<1>2. 1 \in 1 .. Len(q)
  BY <1>1
<1>3. q[1].t = "note" => q[1].k \in Keys /\ q[1].v \in Values
  BY Zenon, <1>1, <1>2 DEF KmTypes
<1>4. view \in [Keys -> Values]
  BY Zenon, <1>1 DEF KmTypes
<1>5. view' \in [Keys -> Values]
  BY <1>3, <1>4
<1>6. q' \in Seq(Messages) /\ \A i \in 1 .. Len(q') : i + 1 \in 1 .. Len(q) /\ q'[i] = q[i + 1]
  BY <1>1
<1>7. KmTypes'
  BY <1>1, <1>5, <1>6 DEF KmTypes
<1>8. ASSUME faithful'
      PROVE  \A k \in Keys : Tells(pend', q', view', k, Actual(k)')
  <2> SUFFICES ASSUME NEW k \in Keys PROVE Tells(pend', q', view', k, Actual(k)')
    OBVIOUS
  <2>1. Actual(k)' = Actual(k)
    BY Zenon DEF Actual, iface_find
  <2>2. Tells(pend, q, view, k, Actual(k))
    BY Zenon, <1>8 DEF KmInv
  <2>3. view'[k] = IF Says(q[1], k) THEN q[1].v ELSE view[k]
    <3>1. CASE q[1].t = "note"
      BY Zenon, <1>3, <1>4, <1>8, <3>1 DEF Says
    <3>2. CASE q[1].t # "note"
      BY Zenon, <1>8, <3>2 DEF Says
    <3> QED
      BY Zenon, <3>1, <3>2
  <2>4. LeavesWith(q, k, view[k], Actual(k)) => LeavesWith(q', k, view'[k], Actual(k))
    BY Zenon, <1>1, <2>3, LeavesTail
  <2> QED
    BY Zenon, <2>1, <2>2, <2>4 DEF Tells
<1> QED
  BY Zenon, <1>7, <1>8 DEF KmInv, OneSays, Tells

\* What leaves the tables, the queue, the callers and the picture alone
LEMMA PictureKm ==
  ASSUME KmInv, bind' = bind, ifs' = ifs, q' = q, sub' \in BOOLEAN, pend' = pend,
         view' = view, faithful' = faithful, ever' = ever
  PROVE  KmInv'
<1>1. \A k \in Keys : Actual(k)' = Actual(k)
  BY Zenon DEF Actual, iface_find
<1>2. KmTypes'
  BY Zenon DEF KmInv, KmTypes
<1>3. faithful' => OneSays(pend') /\ \A k \in Keys : Tells(pend', q', view', k, Actual(k)')
  BY Zenon, <1>1 DEF KmInv
<1>4. faithful' => OneSays(pend)' /\ \A k \in Keys : Tells(pend, q, view, k, Actual(k))'
  BY Zenon, <1>3 DEF OneSays, Tells
<1> QED
  BY Zenon, <1>2, <1>4 DEF KmInv

LEMMA QuietKm ==
  ASSUME KmInv, bind' = bind, ifs' = ifs, q' = q, sub' = sub, pend' = pend,
         view' = view, faithful' = faithful, ever' = ever
  PROVE  KmInv'
<1>1. sub' \in BOOLEAN
  BY Zenon DEF KmInv, KmTypes
<1> QED
  BY Zenon, <1>1, PictureKm

\* SUBSCRIBE by a reader that has just listed the tables, and UNSUBSCRIBE
LEMMA SubscribeKm ==
  ASSUME KmInv, NEW on \in BOOLEAN, qdhcp_chardev_ioctl(on)
  PROVE  KmInv'
<1>1. /\ sub' = on /\ bind' = bind /\ ifs' = ifs /\ ever' = ever /\ q' = q /\ pend' = pend
      /\ \/ view' = view /\ faithful' = faithful
         \/ /\ q = <<>> /\ \A p \in Callers : ~pend[p].busy
            /\ view' = [k \in Keys |-> Actual(k)] /\ faithful' = TRUE
  BY Zenon DEF qdhcp_chardev_ioctl
<1>2. KmTypes
  BY Zenon DEF KmInv
<1>3. \A k \in Keys : Actual(k)' = Actual(k)
  BY Zenon, <1>1 DEF Actual, iface_find
<1>4. CASE view' = view /\ faithful' = faithful
  BY Zenon, <1>1, <1>4, PictureKm
<1>5. CASE /\ q = <<>> /\ \A p \in Callers : ~pend[p].busy
           /\ view' = [k \in Keys |-> Actual(k)] /\ faithful' = TRUE
  <2>1. \A k \in Keys : Actual(k) \in Values
    BY Zenon, <1>2 DEF Actual, KmTypes, Bindings, Values, Keys
  <2>2. view' \in [Keys -> Values]
    BY Zenon, <1>5, <2>1
  <2>3. KmTypes'
    BY Zenon, <1>1, <1>2, <1>5, <2>2 DEF KmTypes
  <2>4. \A p \in Callers : pend[p].note.k = 0
    BY Zenon, <1>5, NoNoteType DEF KmInv
  <2>5. \A i \in 1 .. Len(q) : FALSE
    BY <1>5
  <2>6. ASSUME NEW k \in Keys PROVE Tells(pend', q', view', k, Actual(k)')
    BY Zenon, <1>1, <1>3, <1>5, <2>4, <2>5, KeyNotZero DEF Tells, LeavesWith
  <2> QED
    BY Zenon, <1>1, <2>3, <2>4, <2>6 DEF KmInv, OneSays, Tells
<1> QED
  BY Zenon, <1>1, <1>4, <1>5

\* The file is closed and opened again.
LEMMA ReleaseKm ==
  ASSUME KmInv, qdhcp_chardev_release
  PROVE  KmInv'
<1>1. q' \in Seq(Messages) /\ \A i \in 1 .. Len(q') : FALSE
  BY DEF qdhcp_chardev_release
<1> QED
  BY Zenon, <1>1 DEF KmInv, KmTypes, qdhcp_chardev_release

LEMMA NetlinkCommandKm ==
  ASSUME KmInv, NEW p \in Callers, NEW c \in Commands, NetlinkCommand(p, c)
  PROVE  KmInv'
<1>1. /\ ~pend[p].busy /\ q' = q /\ sub' = sub /\ view' = view
      /\ \E o \in NetlinkCmd(c) : Applies(p, o, 0)
  BY Zenon DEF NetlinkCommand
<1>2. KmTypes /\ 0 \in Nat
  BY DEF KmInv
<1> QED
  BY Zenon, <1>1, <1>2, NetlinkOutcome, AppliesKm

LEMMA NetlinkReturnKm ==
  ASSUME KmInv, NEW p \in Callers, NetlinkReturn(p)
  PROVE  KmInv'
BY Zenon, ReturnKm DEF NetlinkReturn

LEMMA ReadKm ==
  ASSUME KmInv, qdhcp_chardev_read
  PROVE  KmInv'
<1>1. faithful \in BOOLEAN
  BY Zenon DEF KmInv, KmTypes
<1> QED
  BY Zenon, <1>1, TakeKm DEF qdhcp_chardev_read

-----------------------------------------------------------------------------
(* The kernel module on its own.                                           *)

LEMMA KmNext == KmInv /\ [KMNext]_kmVars => KmInv'
<1> SUFFICES ASSUME KmInv, [KMNext]_kmVars PROVE KmInv'
  OBVIOUS
<1>1. ASSUME NEW p \in Callers,
             NEW c \in AddBinding \cup DelBinding \cup Clear
                         \cup AddInterface \cup DelInterface,
             NetlinkCommand(p, c)
      PROVE  KmInv'
  <2>1. c \in Commands
    BY Zenon DEF Commands
  <2> QED
    BY Zenon, <1>1, <2>1, NetlinkCommandKm
<1>2. ASSUME NEW p \in Callers, NEW c \in Trust, NetlinkCommand(p, c) PROVE KmInv'
  <2>1. c \in Commands
    BY Zenon DEF Commands
  <2> QED
    BY Zenon, <1>2, <2>1, NetlinkCommandKm
<1>3. ASSUME NEW p \in Callers, NEW c \in Method, NetlinkCommand(p, c) PROVE KmInv'
  <2>1. c \in Commands
    BY Zenon DEF Commands
  <2> QED
    BY Zenon, <1>3, <2>1, NetlinkCommandKm
<1>4. ASSUME NEW p \in Callers, Announce(p) \/ NetlinkReturn(p) PROVE KmInv'
  BY Zenon, <1>4, AnnounceKm, NetlinkReturnKm
<1>5. CASE qdhcp_chardev_read
  BY Zenon, <1>5, ReadKm
<1>6. ASSUME NEW on \in BOOLEAN, qdhcp_chardev_ioctl(on) PROVE KmInv'
  BY Zenon, <1>6, SubscribeKm
<1>7. CASE qdhcp_chardev_release
  BY Zenon, <1>7, ReleaseKm
<1>8. CASE \E i \in Ifs, d \in BOOLEAN : Arrives(i, d)
  BY Zenon, <1>8, QuietKm DEF Arrives
<1>9. CASE tc_classify \/ ptype_handler \/ Consumed
  BY Zenon, <1>9, QuietKm DEF tc_classify, ptype_handler, Consumed
<1>10. CASE UNCHANGED kmVars
  BY Zenon, <1>10, QuietKm DEF kmVars
<1> QED
  BY Zenon, <1>1, <1>2, <1>3, <1>4, <1>5, <1>6, <1>7, <1>8, <1>9, <1>10 DEF KMNext

\* A hook that forwards a packet finds its interface monitored.
LEMMA ForwardsMonitored ==
  ASSUME KmInv, NEW m, Forwards(m)
  PROVE  ~ever \/ iface_find(pkt.idx) # {}
BY Zenon DEF KmInv, Forwards, iface_is_monitored

LEMMA PacketKm ==
  ASSUME KmInv, [KMNext]_kmVars, pkt'.by # pkt.by, pkt'.by # {}
  PROVE  ~ever \/ iface_find(pkt.idx) # {}
<1>1. ASSUME NEW i \in Ifs, NEW d \in BOOLEAN, Arrives(i, d) PROVE FALSE
  BY <1>1 DEF Arrives
<1>2. CASE tc_classify
  <2>1. pkt' = [pkt EXCEPT !.at = "pack", !.by = IF Forwards("tc") THEN {"tc"} ELSE {}]
    BY Zenon, <1>2 DEF tc_classify
  <2>2. CASE Forwards("tc")
    BY Zenon, <2>2, ForwardsMonitored
  <2>3. CASE ~Forwards("tc")
    <3>1. pkt' = [pkt EXCEPT !.at = "pack", !.by = {}]
      BY Zenon, <2>1, <2>3
    <3>2. pkt'.by = {} \/ pkt'.by = pkt.by
      BY <3>1
    <3> QED
      BY Zenon, <3>2
  <2> QED
    BY Zenon, <2>2, <2>3
<1>3. CASE ptype_handler
  <2>1. pkt' = [pkt EXCEPT !.at = "done",
                           !.by = @ \cup IF Forwards("pack") THEN {"pack"} ELSE {}]
    BY Zenon, <1>3 DEF ptype_handler
  <2>2. CASE Forwards("pack")
    BY Zenon, <2>2, ForwardsMonitored
  <2>3. CASE ~Forwards("pack")
    <3>1. pkt' = [pkt EXCEPT !.at = "done", !.by = @ \cup {}]
      BY Zenon, <2>1, <2>3
    <3>2. pkt'.by = pkt.by
      BY <3>1
    <3> QED
      BY Zenon, <3>2
  <2> QED
    BY Zenon, <2>2, <2>3
<1>4. CASE Consumed
  BY <1>4 DEF Consumed, NoPacket
<1>5. CASE \E p \in Callers : \/ \E c \in AddBinding \cup DelBinding \cup Clear
                                    \cup AddInterface \cup DelInterface : NetlinkCommand(p, c)
                              \/ \E c \in Trust : NetlinkCommand(p, c)
                              \/ \E c \in Method : NetlinkCommand(p, c)
                              \/ Announce(p) \/ NetlinkReturn(p)
  BY Zenon, <1>5 DEF NetlinkCommand, Announce, NetlinkReturn
<1>6. CASE \/ qdhcp_chardev_read \/ qdhcp_chardev_release
           \/ \E on \in BOOLEAN : qdhcp_chardev_ioctl(on)
  BY Zenon, <1>6 DEF qdhcp_chardev_read, qdhcp_chardev_release, qdhcp_chardev_ioctl
<1>7. CASE UNCHANGED kmVars
  BY Zenon, <1>7 DEF kmVars
<1> QED
  BY Zenon, <1>1, <1>2, <1>3, <1>4, <1>5, <1>6, <1>7 DEF KMNext

(***************************************************************************)
(* A client of the character device to which every change was announced in *)
(* order has, once it has read its queue, the kernel module's own tables,  *)
(* whatever the callers do between a table's lock and the announcement;    *)
(* and qd_dhcp_kmod.c's hooks hand over packets of monitored interfaces    *)
(* only, also after every configured interface was deleted again.  For any *)
(* number of callers, bindings, interfaces and queued messages.            *)
(***************************************************************************)
THEOREM KmodCorrect == KMSpec => KmodExact
<1>0. KmInv' => ReaderCatchesUp'
  BY KmCatchesUp, PTL
<1>1. KmInv /\ [KMNext]_kmVars =>
        [/\ ReaderCatchesUp'
         /\ pkt'.by # pkt.by /\ pkt'.by # {} => ~ever \/ iface_find(pkt.idx) # {}]_kmVars
  <2> SUFFICES ASSUME KmInv, [KMNext]_kmVars
               PROVE  /\ ReaderCatchesUp'
                      /\ pkt'.by # pkt.by /\ pkt'.by # {} => ~ever \/ iface_find(pkt.idx) # {}
    BY Zenon
  <2>1. KmInv'
    BY Zenon, KmNext
  <2>2. ReaderCatchesUp'
    BY Zenon, <1>0, <2>1
  <2> QED
    BY Zenon, <2>2, PacketKm
<1> QED
  BY <1>1, KmInit, KmNext, PTL DEF KMSpec, KmodExact

-----------------------------------------------------------------------------
(* The messaging library: the inductive invariant.                         *)

Results == Answers \cup {"full", "io", "timeout", "aborted"}
SlotRecs == [used : BOOLEAN, seq : Nat, cmd : Commands \cup {NoCmd}, due : BOOLEAN,
             retries : Nat]
BatchRecs == [on : BOOLEAN, left : Seq(Commands), seqs : Seq(Seqs), errs : Seq(Results),
              atomic : BOOLEAN, rolled_back : BOOLEAN, was : Bindings]
Histories == [Seqs -> Seq(Answers)]

\* Every answer in queue s is the kernel's to a call that was made.
QueueOk(s, rr, n) ==
  \A i \in 1 .. Len(s) : s[i].t = "resp" => s[i].k \in 1 .. n /\ Has(rr[s[i].k], s[i].v)

\* A slot in use holds a call whose answer was not taken.
SlotOk(e, n, st) ==
  /\ e.due => e.used
  /\ e.used => e.seq \in 1 .. n /\ e.seq \notin st /\ e.cmd \in Commands

OutOk(o, rr) == o.how = "answer" => o.seq \in Seqs /\ Has(rr[o.seq], o.res)

BatchOk(b, rr) ==
  /\ b \in BatchRecs /\ Len(b.seqs) <= Len(b.errs)
  /\ \A i \in 1 .. Len(b.seqs) : b.errs[i] = "ok" => Has(rr[b.seqs[i]], "ok")
  /\ b.on => Len(b.seqs) = Len(b.errs) /\ b.left # <<>>
  /\ b.atomic => \A i \in 1 .. Len(b.seqs) - 1 : b.errs[i] = "ok"
  /\ b.atomic /\ b.on => \A i \in 1 .. Len(b.seqs) : b.errs[i] = "ok"

MsgTypes ==
  /\ pc \in {"idle", "write", "kernel", "wait", "check", "process"}
  /\ then \in {"idle", "wait"} /\ seq_next \in 0 .. MaxCalls
  /\ cur.seq = seq_next /\ at \in 0 .. PENDING_MAX + 1
  /\ slot \in [Slots -> SlotRecs]
  /\ ran \in Histories /\ settled \subseteq 1 .. seq_next

\* Where the thread is, and what it is sending
Thread ==
  /\ pc \in {"wait", "write", "kernel"} \/ then = "wait" => seq_next >= 1
  /\ pc \in {"write", "kernel"} /\ at = 0 => seq_next \notin settled /\ cur.cmd \in Commands
  /\ pc \in {"write", "kernel"} /\ at # 0 => at \in Slots
  /\ pc = "write" /\ at # 0 => slot[at].used
  /\ pc = "check" => at >= 1
  /\ pc = "kernel" => pend[Dev].seq \in 1 .. seq_next /\ Has(ran[pend[Dev].seq], pend[Dev].ret)
  /\ pc # "kernel" => ~pend[Dev].busy

MsgInv ==
  /\ KmInv /\ MsgTypes /\ Thread
  /\ QueueOk(q, ran, seq_next)
  /\ \A s \in Slots : SlotOk(slot[s], seq_next, settled)
  /\ OutOk(out, ran) /\ BatchOk(batch, ran)

\* What the steps of a caller and of the reader see of the library
LEMMA MsgParts ==
  ASSUME MsgInv
  PROVE  /\ seq_next \in Nat /\ cur.seq = seq_next /\ 1 .. seq_next \subseteq Seqs
         /\ slot \in [Slots -> SlotRecs] /\ ran \in Histories
         /\ q \in Seq(Messages) /\ Dev \in Callers
         /\ pend[Dev] \in [busy : BOOLEAN, note : Notes, ret : Answers, seq : Nat]
<1>1. seq_next \in 0 .. MaxCalls /\ cur.seq = seq_next
  BY Zenon DEF MsgInv, MsgTypes
<1>2. seq_next \in Nat /\ 1 .. seq_next \subseteq Seqs
  BY <1>1, MsgAssumption DEF Seqs
<1> QED
  BY Zenon, <1>1, <1>2, MsgAssumption DEF MsgInv, MsgTypes, KmInv, KmTypes

LEMMA TailLeft ==
  ASSUME NEW S, NEW s \in Seq(S), Len(s) > 1
  PROVE  Tail(s) # <<>>
<1>1. s # <<>> /\ Len(s) \in Nat
  OBVIOUS
<1>2. Len(Tail(s)) = Len(s) - 1
  BY <1>1
<1>3. Len(Tail(s)) # 0
  BY <1>1, <1>2
<1>4. Len(<<>>) = 0
  OBVIOUS
<1> QED
  BY Zenon, <1>3, <1>4

LEMMA HasAppend ==
  ASSUME NEW s \in Seq(Answers), NEW a \in Answers
  PROVE  /\ Has(Append(s, a), a)
         /\ \A r : Has(s, r) => Has(Append(s, a), r)
<1>1. /\ Append(s, a)[Len(s) + 1] = a /\ Len(s) + 1 \in DOMAIN Append(s, a)
      /\ \A i \in DOMAIN s : i \in DOMAIN Append(s, a) /\ Append(s, a)[i] = s[i]
  OBVIOUS
<1> QED
  BY Zenon, <1>1 DEF Has

\* An operation of a batch has returned.
LEMMA RecordOk ==
  ASSUME NEW b, NEW rr, BatchOk(b, rr), b.on, cur.seq \in Seqs, NEW res \in Results,
         res = "ok" => Has(rr[cur.seq], "ok")
  PROVE  BatchOk(BatchRecord(b, res), rr)
<1> DEFINE n == Len(b.seqs)  c == BatchRecord(b, res)
<1>1. /\ b \in BatchRecs /\ n \in Nat /\ Len(b.errs) = n /\ b.left # <<>>
      /\ b.seqs \in Seq(Seqs) /\ b.errs \in Seq(Results) /\ b.left \in Seq(Commands)
  BY DEF BatchOk, BatchRecs
<1>2. /\ \A i \in 1 .. n : b.errs[i] = "ok" => Has(rr[b.seqs[i]], "ok")
      /\ b.atomic => \A i \in 1 .. n : b.errs[i] = "ok"
  BY Zenon DEF BatchOk
<1>3. CASE b.atomic /\ res # "ok"
  <2> DEFINE a == [i \in 1 .. Len(b.left) - 1 |-> "aborted"]
  <2>1. c = [b EXCEPT !.on = FALSE, !.left = <<>>, !.rolled_back = TRUE,
                      !.seqs = Append(@, cur.seq), !.errs = Append(@, res) \o a]
    BY Zenon, <1>3 DEF BatchRecord
  <2>2. a \in Seq(Results)
    BY <1>1 DEF Results
  <2> HIDE DEF a, c
  <2>3. /\ c.on = FALSE /\ c.seqs = Append(b.seqs, cur.seq) /\ c.atomic = b.atomic
        /\ c.errs = Append(b.errs, res) \o a /\ c.left = <<>> /\ c.was = b.was
        /\ c.rolled_back = TRUE
        /\ c = [on |-> c.on, left |-> c.left, seqs |-> c.seqs, errs |-> c.errs,
                atomic |-> c.atomic, rolled_back |-> c.rolled_back, was |-> c.was]
    BY Zenon, <1>1, <2>1 DEF BatchRecs
  <2>4. c.seqs \in Seq(Seqs) /\ c.left \in Seq(Commands)
    BY <1>1, <2>3
  <2>5. c.errs \in Seq(Results)
    BY <1>1, <2>2, <2>3
  <2>6. c \in BatchRecs
    BY Zenon, <1>1, <2>3, <2>4, <2>5 DEF BatchRecs
  <2>7. /\ Len(c.seqs) = n + 1 /\ c.seqs[n + 1] = cur.seq
        /\ \A i \in 1 .. n : c.seqs[i] = b.seqs[i]
    BY <1>1, <2>3
  <2>8. /\ Len(c.errs) >= n + 1 /\ c.errs[n + 1] = res
        /\ \A i \in 1 .. n : c.errs[i] = b.errs[i]
    <3>1. /\ Append(b.errs, res) \in Seq(Results) /\ Len(Append(b.errs, res)) = n + 1
          /\ Append(b.errs, res)[n + 1] = res
          /\ \A i \in 1 .. n : Append(b.errs, res)[i] = b.errs[i]
      BY <1>1
    <3> DEFINE e == Append(b.errs, res)
    <3> HIDE DEF e
    <3>2. /\ Len(e \o a) = Len(e) + Len(a) /\ Len(a) \in Nat
          /\ \A i \in 1 .. Len(e) : (e \o a)[i] = e[i]
      <4>1. e \in Seq(Results)
        BY Zenon, <3>1 DEF e
      <4> QED
        BY <2>2, <4>1
    <3>3. c.errs = e \o a
      BY Zenon, <2>3 DEF e
    <3>4. /\ Len(e) = n + 1 /\ e[n + 1] = res /\ \A i \in 1 .. n : e[i] = b.errs[i]
      BY Zenon, <3>1 DEF e
    <3>5. /\ n + 1 \in 1 .. Len(e) /\ \A i \in 1 .. n : i \in 1 .. Len(e)
          /\ Len(e) + Len(a) >= n + 1
      BY <1>1, <3>2, <3>4
    <3> QED
      BY Zenon, <3>2, <3>3, <3>4, <3>5
  <2>9. 1 .. n + 1 = (1 .. n) \cup {n + 1} /\ 1 .. Len(c.seqs) - 1 = 1 .. n
        /\ Len(c.seqs) <= Len(c.errs)
    BY <1>1, <2>7, <2>8
  <2>10. \A i \in 1 .. Len(c.seqs) : c.errs[i] = "ok" => Has(rr[c.seqs[i]], "ok")
    BY Zenon, <1>2, <1>3, <2>7, <2>8, <2>9
  <2>11. \A i \in 1 .. Len(c.seqs) - 1 : c.errs[i] = "ok"
    BY Zenon, <1>2, <1>3, <2>8, <2>9
  <2> QED
    BY Zenon, <2>3, <2>6, <2>9, <2>10, <2>11 DEF BatchOk, c
<1>4. CASE ~(b.atomic /\ res # "ok")
  <2>1. c = [b EXCEPT !.errs = Append(@, res), !.seqs = Append(@, cur.seq),
                      !.left = Tail(@), !.on = Len(b.left) > 1]
    BY Zenon, <1>4 DEF BatchRecord
  <2> HIDE DEF c
  <2>3. /\ c.on = (Len(b.left) > 1) /\ c.seqs = Append(b.seqs, cur.seq)
        /\ c.atomic = b.atomic /\ c.errs = Append(b.errs, res) /\ c.left = Tail(b.left)
        /\ c.was = b.was /\ c.rolled_back = b.rolled_back
        /\ c = [on |-> c.on, left |-> c.left, seqs |-> c.seqs, errs |-> c.errs,
                atomic |-> c.atomic, rolled_back |-> c.rolled_back, was |-> c.was]
    BY Zenon, <1>1, <2>1 DEF BatchRecs
  <2>4. c.seqs \in Seq(Seqs) /\ c.errs \in Seq(Results) /\ c.left \in Seq(Commands)
    BY <1>1, <2>3
  <2>5. c.on \in BOOLEAN
    BY <2>3
  <2>6. c \in BatchRecs
    BY Zenon, <1>1, <2>3, <2>4, <2>5 DEF BatchRecs
  <2>7. /\ Len(c.seqs) = n + 1 /\ c.seqs[n + 1] = cur.seq
        /\ \A i \in 1 .. n : c.seqs[i] = b.seqs[i]
    BY <1>1, <2>3
  <2>8. /\ Len(c.errs) = n + 1 /\ c.errs[n + 1] = res
        /\ \A i \in 1 .. n : c.errs[i] = b.errs[i]
    BY <1>1, <2>3
  <2>9. 1 .. n + 1 = (1 .. n) \cup {n + 1} /\ 1 .. Len(c.seqs) - 1 = 1 .. n
        /\ Len(c.seqs) <= Len(c.errs) /\ Len(c.seqs) = Len(c.errs)
    BY <1>1, <2>7, <2>8
  <2>10. \A i \in 1 .. Len(c.seqs) : c.errs[i] = "ok" => Has(rr[c.seqs[i]], "ok")
    <3>1. \A i \in 1 .. n : c.errs[i] = "ok" => Has(rr[c.seqs[i]], "ok")
      BY Zenon, <1>2, <2>7, <2>8
    <3>2. c.errs[n + 1] = "ok" => Has(rr[c.seqs[n + 1]], "ok")
      BY Zenon, <2>7, <2>8
    <3>3. \A i \in 1 .. Len(c.seqs) : i \in 1 .. n \/ i = n + 1
      BY Zenon, <2>7, <2>9
    <3> QED
      BY Zenon, <3>1, <3>2, <3>3
  <2>11. c.atomic => \A i \in 1 .. Len(c.seqs) : c.errs[i] = "ok"
    BY Zenon, <1>2, <1>4, <2>3, <2>7, <2>8, <2>9
  <2>12. c.atomic => \A i \in 1 .. Len(c.seqs) - 1 : c.errs[i] = "ok"
    BY Zenon, <2>7, <2>9, <2>11
  <2>13. c.on => c.left # <<>>
    <3>1. Len(b.left) > 1 => Tail(b.left) # <<>>
      BY Zenon, <1>1, TailLeft
    <3> QED
      BY Zenon, <2>3, <3>1
  <2> QED
    BY Zenon, <2>6, <2>9, <2>10, <2>11, <2>12, <2>13 DEF BatchOk, c
<1> QED
  BY Zenon, <1>3, <1>4

\* A call returns res into the user's code or into the batch.
LEMMA ReturnsOk ==
  ASSUME MsgInv, seq_next >= 1, NEW res \in Results, NEW how, Returns(res, how),
         how = "answer" \/ res = "ok" => Has(ran[cur.seq], res)
  PROVE  pc' = "idle" /\ OutOk(out', ran) /\ BatchOk(batch', ran)
<1>1. /\ pc' = "idle" /\ out' = [seq |-> cur.seq, res |-> res, how |-> how]
      /\ batch' = IF batch.on THEN BatchRecord(batch, res) ELSE batch
  BY Zenon DEF Returns
<1>2. out'.seq = cur.seq /\ out'.res = res /\ out'.how = how
  BY <1>1
<1>3. cur.seq \in 1 .. seq_next
  BY MsgParts
<1>4. cur.seq \in Seqs
  BY Zenon, <1>3, MsgParts
<1>5. BatchOk(batch, ran)
  BY Zenon DEF MsgInv
<1> QED
  BY Zenon, <1>1, <1>2, <1>4, <1>5, RecordOk DEF OutOk

-----------------------------------------------------------------------------
(* The messaging library: the pieces of a step.                            *)

LEMMA QueueTail ==
  ASSUME NEW s \in Seq(Messages), NEW rr, NEW n, QueueOk(s, rr, n), s # <<>>
  PROVE  QueueOk(Tail(s), rr, n)
<1>1. \A i \in 1 .. Len(Tail(s)) : i + 1 \in 1 .. Len(s) /\ Tail(s)[i] = s[i + 1]
  OBVIOUS
<1> QED
  BY Zenon, <1>1 DEF QueueOk

LEMMA QueueAppend ==
  ASSUME NEW s \in Seq(Messages), NEW m \in Messages, NEW rr, NEW n, QueueOk(s, rr, n),
         m.t = "resp" => m.k \in 1 .. n /\ Has(rr[m.k], m.v)
  PROVE  QueueOk(Append(s, m), rr, n)
<1>1. \A i \in 1 .. Len(Append(s, m)) :
         (i \in 1 .. Len(s) /\ Append(s, m)[i] = s[i]) \/ Append(s, m)[i] = m
  OBVIOUS
<1> QED
  BY Zenon, <1>1 DEF QueueOk

\* The kernel's history only grows.
LEMMA GrowOk ==
  ASSUME NEW rr, NEW r2, \A s \in Seqs : \A x : Has(rr[s], x) => Has(r2[s], x),
         NEW n, 1 .. n \subseteq Seqs
  PROVE  /\ \A s : QueueOk(s, rr, n) => QueueOk(s, r2, n)
         /\ \A o : OutOk(o, rr) => OutOk(o, r2)
         /\ \A b : BatchOk(b, rr) => BatchOk(b, r2)
<1>1. \A s : QueueOk(s, rr, n) => QueueOk(s, r2, n)
  BY Zenon DEF QueueOk
<1>2. \A o : OutOk(o, rr) => OutOk(o, r2)
  BY Zenon DEF OutOk
<1>3. ASSUME NEW b, BatchOk(b, rr) PROVE BatchOk(b, r2)
  <2>1. b.seqs \in Seq(Seqs)
    BY <1>3 DEF BatchOk, BatchRecs
  <2>2. \A i \in 1 .. Len(b.seqs) : b.seqs[i] \in Seqs
    BY <2>1
  <2> QED
    BY Zenon, <1>3, <2>2 DEF BatchOk
<1> QED
  BY Zenon, <1>1, <1>2, <1>3

LEMMA FreeSlotOk == FreeSlot \in SlotRecs /\ FreeSlot.used = FALSE /\ FreeSlot.due = FALSE
BY DEF FreeSlot, SlotRecs

\* A step of the kernel that is not this connection's
LEMMA KernelStep ==
  ASSUME MsgInv, KmInv', UNCHANGED msVars, QueueOk(q', ran, seq_next),
         pend'[Dev].busy = pend[Dev].busy, pend'[Dev].seq = pend[Dev].seq,
         pend'[Dev].ret = pend[Dev].ret
  PROVE  MsgInv'
<1>1. /\ pc' = pc /\ cur' = cur /\ slot' = slot /\ at' = at /\ then' = then
      /\ seq_next' = seq_next /\ out' = out /\ batch' = batch /\ ran' = ran
      /\ settled' = settled
  BY Zenon DEF msVars
<1>2. MsgTypes'
  BY Zenon, <1>1 DEF MsgInv, MsgTypes
<1>3. Thread'
  BY Zenon, <1>1 DEF MsgInv, Thread
<1> QED
  BY Zenon, <1>1, <1>2, <1>3 DEF MsgInv, QueueOk, SlotOk, OutOk, BatchOk

\* A step of the thread that leaves the kernel alone
LEMMA ThreadStep ==
  ASSUME MsgInv, UNCHANGED kmVars, ran' = ran, MsgTypes', Thread', seq_next' \in Nat,
         seq_next <= seq_next', settled' = settled,
         \A s \in Slots : SlotOk(slot'[s], seq_next', settled'),
         OutOk(out', ran'), BatchOk(batch', ran')
  PROVE  MsgInv'
<1>1. KmInv'
  BY Zenon, QuietKm DEF MsgInv, kmVars
<1>2. q' = q
  BY Zenon DEF kmVars
<1>3. 1 .. seq_next \subseteq 1 .. seq_next'
  BY MsgParts
<1>4. QueueOk(q', ran', seq_next')
  BY Zenon, <1>2, <1>3 DEF MsgInv, QueueOk
<1> QED
  BY Zenon, <1>1, <1>4 DEF MsgInv

\* An answer is taken: the slot of its call is freed.
LEMMA AckOk ==
  ASSUME MsgInv, NEW m, m.k \in 1 .. seq_next
  PROVE  /\ qd_dhcp_process_ack(m) \in [Slots -> SlotRecs]
         /\ settled \cup {m.k} \subseteq 1 .. seq_next
         /\ \A s \in Slots : SlotOk(qd_dhcp_process_ack(m)[s], seq_next, settled \cup {m.k})
<1> DEFINE new == qd_dhcp_process_ack(m)
<1>1. slot \in [Slots -> SlotRecs]
  BY Zenon, MsgParts
<1>2. new = [s \in Slots |-> IF slot[s].used /\ slot[s].seq = m.k THEN FreeSlot ELSE slot[s]]
  BY Zenon DEF qd_dhcp_process_ack
<1> HIDE DEF new
<1>3. new \in [Slots -> SlotRecs]
  BY Zenon, <1>1, <1>2, FreeSlotOk
<1>4. ASSUME NEW s \in Slots PROVE SlotOk(new[s], seq_next, settled \cup {m.k})
  <2>1. new[s] = IF slot[s].used /\ slot[s].seq = m.k THEN FreeSlot ELSE slot[s]
    BY Zenon, <1>2
  <2>2. SlotOk(slot[s], seq_next, settled)
    BY Zenon DEF MsgInv
  <2> QED
    BY Zenon, <2>1, <2>2, FreeSlotOk DEF SlotOk
<1> QED
  BY Zenon, <1>3, <1>4 DEF new, MsgInv, MsgTypes

\* The oldest message is taken from the queue.
LEMMA TakeOk ==
  ASSUME MsgInv, q # <<>>, q' = Tail(q),
         slot' = IF q[1].t = "resp" THEN qd_dhcp_process_ack(q[1]) ELSE slot,
         settled' = IF q[1].t = "resp" THEN settled \cup {q[1].k} ELSE settled
  PROVE  /\ QueueOk(q', ran, seq_next) /\ slot' \in [Slots -> SlotRecs]
         /\ settled' \subseteq 1 .. seq_next
         /\ \A s \in Slots : SlotOk(slot'[s], seq_next, settled')
         /\ q[1].t = "resp" => q[1].k \in 1 .. seq_next /\ Has(ran[q[1].k], q[1].v)
<1>1. q \in Seq(Messages) /\ QueueOk(q, ran, seq_next)
  BY Zenon, MsgParts DEF MsgInv
<1>2. 1 \in 1 .. Len(q)
  BY <1>1
<1>3. q[1].t = "resp" => q[1].k \in 1 .. seq_next /\ Has(ran[q[1].k], q[1].v)
  BY Zenon, <1>1, <1>2 DEF QueueOk
<1>4. QueueOk(q', ran, seq_next)
  BY Zenon, <1>1, QueueTail
<1>5. slot \in [Slots -> SlotRecs] /\ settled \subseteq 1 .. seq_next
      /\ \A s \in Slots : SlotOk(slot[s], seq_next, settled)
  BY Zenon DEF MsgInv, MsgTypes
<1>6. CASE q[1].t = "resp"
  BY Zenon, <1>3, <1>4, <1>6, AckOk
<1>7. CASE q[1].t # "resp"
  BY Zenon, <1>4, <1>5, <1>7
<1> QED
  BY Zenon, <1>6, <1>7

\* What is sent is a call the library holds no answer to.
LEMMA SentOk ==
  ASSUME MsgInv, pc = "write"
  PROVE  Sent.seq \in 1 .. seq_next /\ Sent.seq \notin settled /\ Sent.cmd \in Commands
<1>1. CASE at = 0
  <2>1. Sent = cur
    BY Zenon, <1>1 DEF Sent
  <2>2. seq_next >= 1 /\ seq_next \notin settled /\ cur.cmd \in Commands
    BY Zenon, <1>1 DEF MsgInv, Thread
  <2>3. cur.seq \in 1 .. seq_next
    BY <2>2, MsgParts
  <2> QED
    BY Zenon, <2>1, <2>2, <2>3, MsgParts
<1>2. CASE at # 0
  <2>1. Sent.seq = slot[at].seq /\ Sent.cmd = slot[at].cmd
    BY <1>2 DEF Sent
  <2>2. at \in Slots /\ slot[at].used
    BY Zenon, <1>2 DEF MsgInv, Thread
  <2> QED
    BY Zenon, <2>1, <2>2 DEF MsgInv, SlotOk
<1> QED
  BY Zenon, <1>1, <1>2

-----------------------------------------------------------------------------
(* The messaging library: every step keeps the invariant.                  *)

LEMMA MsgInit == MSInit => MsgInv
<1> SUFFICES ASSUME MSInit PROVE MsgInv
  OBVIOUS
<1>1. KmInv /\ bind \in Bindings
  BY Zenon, KmInit DEF MSInit, KmInv, KmTypes
<1>2. /\ pc = "idle" /\ cur = [seq |-> 0, cmd |-> NoCmd]
      /\ slot = [s \in Slots |-> FreeSlot] /\ at = 0 /\ then = "idle" /\ seq_next = 0
      /\ out = [seq |-> 0, res |-> "ok", how |-> "none"] /\ batch = NoBatch
      /\ ran = [s \in Seqs |-> <<>>] /\ settled = {} /\ q = <<>>
      /\ pend = [p \in Callers |-> Rest]
  BY Zenon DEF MSInit, KMInit
<1>3. MsgTypes
  <2>1. <<>> \in Seq(Answers)
    OBVIOUS
  <2>2. ran \in Histories /\ slot \in [Slots -> SlotRecs]
    BY Zenon, <1>2, <2>1, FreeSlotOk DEF Histories
  <2> QED
    BY <1>2, <2>2, MsgAssumption DEF MsgTypes
<1>4. pend[Dev].busy = FALSE
  BY <1>2, MsgAssumption DEF Rest
<1>5. Thread
  BY <1>2, <1>4 DEF Thread
<1>6. QueueOk(q, ran, seq_next)
  BY <1>2 DEF QueueOk
<1>7. \A s \in Slots : SlotOk(slot[s], seq_next, settled)
  BY Zenon, <1>2, FreeSlotOk DEF SlotOk
<1>8. out.how # "answer"
  BY <1>2
<1>9. BatchOk(batch, ran)
  <2>1. batch = [on |-> FALSE, left |-> <<>>, seqs |-> <<>>, errs |-> <<>>,
                 atomic |-> FALSE, rolled_back |-> FALSE, was |-> bind]
    BY Zenon, <1>2 DEF NoBatch
  <2>2. batch \in BatchRecs
    BY <1>1, <2>1 DEF BatchRecs
  <2>3. batch.seqs = <<>> /\ batch.errs = <<>> /\ batch.on = FALSE /\ batch.atomic = FALSE
    BY <2>1
  <2>4. Len(batch.seqs) <= Len(batch.errs) /\ \A i \in 1 .. Len(batch.seqs) : FALSE
    BY <2>3
  <2> QED
    BY Zenon, <2>2, <2>3, <2>4 DEF BatchOk
<1> QED
  BY Zenon, <1>1, <1>3, <1>5, <1>6, <1>7, <1>8, <1>9 DEF MsgInv, OutOk

LEMMA RequestMsg ==
  ASSUME MsgInv, NEW c, Request(c)
  PROVE  MsgInv'
<1>1. /\ pc = "idle" /\ seq_next < MaxCalls /\ seq_next' = seq_next + 1
      /\ cur' = [seq |-> seq_next + 1, cmd |-> c] /\ at' = 0 /\ pc' = "write"
      /\ slot' = slot /\ then' = then /\ out' = out /\ batch' = batch /\ ran' = ran
      /\ settled' = settled /\ UNCHANGED kmVars
  BY Zenon DEF Request
<1>2. pend' = pend
  BY Zenon, <1>1 DEF kmVars
<1>3. c \in Commands
  <2>1. batch.on \in BOOLEAN /\ batch.left \in Seq(Commands) /\ (batch.on => batch.left # <<>>)
    BY DEF MsgInv, BatchOk, BatchRecs
  <2>2. batch.on => Head(batch.left) \in Commands
    BY <2>1
  <2> QED
    BY Zenon, <2>1, <2>2, MsgAssumption DEF Request
<1>4. /\ cur'.seq = seq_next' /\ cur'.cmd = c /\ seq_next \in Nat /\ seq_next' >= 1
      /\ seq_next' \in 0 .. MaxCalls /\ seq_next' \in Nat /\ seq_next <= seq_next'
      /\ 1 .. seq_next \subseteq 1 .. seq_next' /\ seq_next' \notin 1 .. seq_next
  BY <1>1, MsgParts, MsgAssumption
<1>5. MsgTypes'
  <2>1. 0 \in 0 .. PENDING_MAX + 1
    BY MsgAssumption
  <2> QED
    BY Zenon, <1>1, <1>4, <2>1 DEF MsgInv, MsgTypes
<1>6. Thread'
  <2>1. ~pend'[Dev].busy /\ seq_next' \notin settled'
    BY <1>1, <1>2, <1>4 DEF MsgInv, MsgTypes, Thread
  <2> QED
    BY <1>1, <1>3, <1>4, <2>1 DEF Thread
<1>7. \A s \in Slots : SlotOk(slot'[s], seq_next', settled')
  BY Zenon, <1>1, <1>4 DEF MsgInv, SlotOk
<1>8. OutOk(out', ran') /\ BatchOk(batch', ran')
  BY Zenon, <1>1 DEF MsgInv
<1> QED
  BY Zenon, <1>1, <1>4, <1>5, <1>6, <1>7, <1>8, ThreadStep

\* The kernel carries out a command of this connection; a call whose answer was
\* taken is not among those it may carry out.
LEMMA SendMsg ==
  ASSUME MsgInv, chardev_send
  PROVE  MsgInv' /\ \A s \in settled : ran'[s] = ran[s]
<1>1. /\ pc = "write" /\ pc' = "kernel" /\ q' = q /\ sub' = sub /\ view' = view
      /\ cur' = cur /\ slot' = slot /\ at' = at /\ then' = then /\ seq_next' = seq_next
      /\ out' = out /\ batch' = batch /\ settled' = settled
  BY Zenon DEF chardev_send
<1>2. PICK o \in qdhcp_chardev_process_cmd(Sent.cmd) :
         Applies(Dev, o, Sent.seq) /\ ran' = [ran EXCEPT ![Sent.seq] = Append(@, o.ret)]
  BY Zenon DEF chardev_send
<1>3. Sent.seq \in 1 .. seq_next /\ Sent.seq \notin settled /\ Sent.cmd \in Commands
  BY Zenon, <1>1, SentOk
<1>4. KmInv /\ KmTypes /\ ~pend[Dev].busy
  BY <1>1 DEF MsgInv, KmInv, Thread
<1>5. IsOutcome(o) /\ o.ret \in Answers
  BY Zenon, <1>2, <1>3, <1>4, ChardevOutcome DEF IsOutcome
<1>6. Sent.seq \in Nat /\ Sent.seq \in Seqs /\ Dev \in Callers
  BY <1>3, MsgParts
<1>7. KmInv'
  BY Zenon, <1>1, <1>2, <1>4, <1>5, <1>6, AppliesKm
<1>8. /\ pend'[Dev].busy = TRUE /\ pend'[Dev].ret = o.ret /\ pend'[Dev].seq = Sent.seq
  <2>1. pend' = [pend EXCEPT ![Dev] = [busy |-> TRUE, note |-> o.note, ret |-> o.ret,
                                       seq |-> Sent.seq]]
    BY Zenon, <1>2 DEF Applies
  <2>2. Dev \in DOMAIN pend
    BY Zenon, <1>4, <1>6 DEF KmTypes
  <2> QED
    BY <2>1, <2>2
<1>9. /\ ran' \in Histories /\ Has(ran'[Sent.seq], o.ret)
      /\ \A s \in Seqs : \A x : Has(ran[s], x) => Has(ran'[s], x)
      /\ \A s \in Seqs : s # Sent.seq => ran'[s] = ran[s]
  <2> DEFINE h == Sent.seq  a == o.ret
  <2> HIDE DEF h, a
  <2>1. ran \in Histories /\ h \in Seqs /\ a \in Answers
    BY Zenon, <1>5, <1>6, MsgParts DEF h, a
  <2>2. ran' = [ran EXCEPT ![h] = Append(@, a)]
    BY Zenon, <1>2 DEF h, a
  <2>3. /\ ran' \in Histories /\ Has(ran'[h], a)
        /\ \A s \in Seqs : \A x : Has(ran[s], x) => Has(ran'[s], x)
        /\ \A s \in Seqs : s # h => ran'[s] = ran[s]
    <3>1. ran[h] \in Seq(Answers)
      BY Zenon, <2>1 DEF Histories
    <3>2. ran'[h] = Append(ran[h], a) /\ \A s \in Seqs : s # h => ran'[s] = ran[s]
      BY Zenon, <2>1, <2>2 DEF Histories
    <3>3. Append(ran[h], a) \in Seq(Answers)
      BY <2>1, <3>1
    <3>4. ran' \in Histories
      BY <2>1, <2>2, <3>3 DEF Histories
    <3>5. Has(ran'[h], a) /\ \A x : Has(ran[h], x) => Has(ran'[h], x)
      BY Zenon, <2>1, <3>1, <3>2, HasAppend
    <3> QED
      BY Zenon, <3>2, <3>4, <3>5
  <2> QED
    BY Zenon, <2>3 DEF h, a
<1>10. QueueOk(q', ran', seq_next') /\ OutOk(out', ran') /\ BatchOk(batch', ran')
  BY Zenon, <1>1, <1>9, MsgParts, GrowOk DEF MsgInv
<1>11. MsgTypes'
  BY Zenon, <1>1, <1>9 DEF MsgInv, MsgTypes
<1>12. Thread'
  <2>1. pend'[Dev].seq \in 1 .. seq_next' /\ Has(ran'[pend'[Dev].seq], pend'[Dev].ret)
    BY Zenon, <1>1, <1>3, <1>8, <1>9
  <2>2. "kernel" # "write" /\ "kernel" # "check"
    OBVIOUS
  <2> QED
    BY Zenon, <1>1, <2>1, <2>2 DEF MsgInv, Thread
<1>13. \A s \in Slots : SlotOk(slot'[s], seq_next', settled')
  BY Zenon, <1>1 DEF MsgInv
<1>14. \A s \in settled : ran'[s] = ran[s]
  BY Zenon, <1>3, <1>9, MsgParts DEF MsgInv, MsgTypes
<1> QED
  BY Zenon, <1>7, <1>10, <1>11, <1>12, <1>13, <1>14 DEF MsgInv

\* An announcement is not an answer.
LEMMA AnnounceQueue ==
  ASSUME MsgInv, NEW p \in Callers, Announce(p)
  PROVE  QueueOk(q', ran, seq_next)
<1> DEFINE room == IF Len(q) >= MSG_QUEUE_MAX THEN Tail(q) ELSE q
           msg == Message("note", pend[p].note.k, pend[p].note.v)
<1>1. q' = q \/ q' = Append(room, msg) \/ q' = room
  BY Zenon DEF Announce, qdhcp_chardev_queue_notification
<1>2. q \in Seq(Messages) /\ QueueOk(q, ran, seq_next) /\ pend[p].note \in Notes
      /\ pend[p].note # NoNote
  <2>1. pend[p] \in [busy : BOOLEAN, note : Notes, ret : Answers, seq : Nat]
    BY Zenon DEF MsgInv, KmInv, KmTypes
  <2>2. pend[p].note \in Notes
    BY <2>1
  <2> QED
    BY Zenon, <2>2, MsgParts DEF MsgInv, Announce
<1>3. msg \in Messages /\ msg.t = "note"
  <2>1. pend[p].note \in [k : Keys, v : Values]
    BY Zenon, <1>2 DEF Notes
  <2> QED
    BY <2>1 DEF Message, Messages
<1>4. room = q \/ (q # <<>> /\ room = Tail(q))
  <2>1. Len(q) >= MSG_QUEUE_MAX => q # <<>>
    BY <1>2, KmodAssumption
  <2> QED
    BY Zenon, <2>1
<1> HIDE DEF room, msg
<1>5. room \in Seq(Messages)
  <2>1. q # <<>> => Tail(q) \in Seq(Messages)
    BY <1>2
  <2> QED
    BY Zenon, <1>2, <1>4, <2>1
<1>6. QueueOk(room, ran, seq_next)
  BY Zenon, <1>2, <1>4, QueueTail
<1>7. msg.t # "resp"
  BY <1>3
<1>8. QueueOk(Append(room, msg), ran, seq_next)
  BY Zenon, <1>3, <1>5, <1>6, <1>7, QueueAppend
<1> QED
  BY Zenon, <1>1, <1>2, <1>6, <1>8

LEMMA AnnounceMsg ==
  ASSUME MsgInv, NEW p \in Callers, Announce(p), UNCHANGED msVars
  PROVE  MsgInv'
<1>1. KmInv /\ KmTypes
  BY Zenon DEF MsgInv, KmInv
<1>2. KmInv'
  BY Zenon, <1>1, AnnounceKm
<1>3. pend' = [pend EXCEPT ![p].note = NoNote]
  BY Zenon DEF Announce
<1>4. /\ pend'[Dev].busy = pend[Dev].busy /\ pend'[Dev].seq = pend[Dev].seq
      /\ pend'[Dev].ret = pend[Dev].ret
  BY <1>1, <1>3, MsgAssumption DEF KmTypes
<1> QED
  BY Zenon, <1>2, <1>4, AnnounceQueue, KernelStep

LEMMA OthersMsg ==
  ASSUME MsgInv, NEW p \in Callers \ {Dev}, Others(p)
  PROVE  MsgInv'
<1>1. KmInv /\ KmTypes /\ UNCHANGED msVars /\ QueueOk(q, ran, seq_next)
  BY Zenon DEF MsgInv, KmInv, Others
<1>2. ASSUME NEW c \in UserCmds, NetlinkCommand(p, c) PROVE MsgInv'
  <2>1. c \in Commands /\ q' = q
    BY Zenon, <1>2, MsgAssumption DEF NetlinkCommand
  <2>2. KmInv'
    BY Zenon, <1>1, <1>2, <2>1, NetlinkCommandKm
  <2>3. pend'[Dev] = pend[Dev]
    BY Zenon, <1>1, <1>2, MsgAssumption DEF NetlinkCommand, Applies, KmTypes
  <2> QED
    BY Zenon, <1>1, <2>1, <2>2, <2>3, KernelStep
<1>3. CASE Announce(p)
  BY Zenon, <1>1, <1>3, AnnounceMsg
<1>4. CASE NetlinkReturn(p)
  <2>1. KmInv' /\ q' = q
    BY Zenon, <1>1, <1>4, NetlinkReturnKm DEF NetlinkReturn
  <2>2. pend'[Dev] = pend[Dev]
    BY Zenon, <1>1, <1>4, MsgAssumption DEF NetlinkReturn, KmTypes
  <2> QED
    BY Zenon, <1>1, <2>1, <2>2, KernelStep
<1> QED
  BY Zenon, <1>2, <1>3, <1>4 DEF Others

LEMMA SubscribeMsg ==
  ASSUME MsgInv, NEW on \in BOOLEAN, qd_dhcp_subscribe(on)
  PROVE  MsgInv'
<1>1. KmInv' /\ q' = q /\ pend' = pend /\ UNCHANGED msVars
  BY Zenon, SubscribeKm DEF MsgInv, qd_dhcp_subscribe, qdhcp_chardev_ioctl
<1> QED
  BY Zenon, <1>1, KernelStep DEF MsgInv

\* A first send is over: the call gets a slot, or there is none.
LEMMA TrackMsg ==
  ASSUME MsgInv, pc = "kernel", at = 0, Track
  PROVE  /\ pc' \in {"idle", "wait"} /\ OutOk(out', ran) /\ BatchOk(batch', ran)
         /\ slot' \in [Slots -> SlotRecs]
         /\ \A s \in Slots : SlotOk(slot'[s], seq_next, settled)
<1>1. /\ slot \in [Slots -> SlotRecs] /\ OutOk(out, ran) /\ BatchOk(batch, ran)
      /\ \A s \in Slots : SlotOk(slot[s], seq_next, settled)
  BY Zenon, MsgParts DEF MsgInv
<1>2. seq_next >= 1 /\ seq_next \notin settled /\ cur.cmd \in Commands /\ cur.seq = seq_next
  BY Zenon, MsgParts DEF MsgInv, Thread
<1>3. CASE find_pending_slot = {}
  <2>1. Returns("full", "local") /\ slot' = slot
    BY Zenon, <1>3 DEF Track
  <2>2. "full" \in Results /\ "local" # "answer" /\ "full" # "ok"
    BY DEF Results
  <2> QED
    BY Zenon, <1>1, <1>2, <2>1, <2>2, ReturnsOk
<1>4. CASE find_pending_slot # {}
  <2> DEFINE new == [used |-> TRUE, seq |-> cur.seq, cmd |-> cur.cmd, due |-> FALSE,
                     retries |-> RETRIES]
  <2>1. pc' = "wait" /\ out' = out /\ batch' = batch
    BY Zenon, <1>4 DEF Track
  <2>2. \E x : slot' = [slot EXCEPT ![x] = new]
    BY Zenon, <1>4 DEF Track
  <2>3. PICK x : slot' = [slot EXCEPT ![x] = new]
    BY Zenon, <2>2
  <2>4. /\ new \in SlotRecs /\ new.used = TRUE /\ new.due = FALSE /\ new.seq = seq_next
        /\ new.cmd \in Commands
    BY <1>2, MsgParts, MsgAssumption DEF SlotRecs
  <2>5. seq_next \in 1 .. seq_next
    BY <1>2, MsgParts
  <2> HIDE DEF new
  <2>6. slot' \in [Slots -> SlotRecs] /\ \A s \in Slots : slot'[s] = new \/ slot'[s] = slot[s]
    BY Zenon, <1>1, <2>3, <2>4
  <2>7. SlotOk(new, seq_next, settled)
    BY Zenon, <1>2, <2>4, <2>5 DEF SlotOk
  <2> QED
    BY Zenon, <1>1, <2>1, <2>6, <2>7
<1> QED
  BY Zenon, <1>3, <1>4

LEMMA WriteMsg ==
  ASSUME MsgInv, qdhcp_chardev_write
  PROVE  MsgInv'
<1> DEFINE msg == Message("resp", pend[Dev].seq, pend[Dev].ret)
<1>1. /\ pc = "kernel" /\ pend[Dev].note = NoNote /\ pend' = [pend EXCEPT ![Dev] = Rest]
      /\ bind' = bind /\ ifs' = ifs /\ ever' = ever /\ sub' = sub /\ view' = view
      /\ faithful' = faithful /\ cur' = cur /\ then' = then /\ seq_next' = seq_next
      /\ ran' = ran /\ settled' = settled /\ (q' = q \/ q' = Append(q, msg))
  BY Zenon DEF qdhcp_chardev_write, kernelRest
<1>2. /\ KmInv /\ q \in Seq(Messages) /\ QueueOk(q, ran, seq_next) /\ Dev \in Callers
      /\ slot \in [Slots -> SlotRecs] /\ OutOk(out, ran) /\ BatchOk(batch, ran)
      /\ \A s \in Slots : SlotOk(slot[s], seq_next, settled)
  BY Zenon, MsgParts DEF MsgInv
<1>3. pend[Dev].seq \in 1 .. seq_next /\ Has(ran[pend[Dev].seq], pend[Dev].ret)
  BY Zenon, <1>1 DEF MsgInv, Thread
<1>4. /\ msg \in Messages /\ msg.t = "resp" /\ msg.k = pend[Dev].seq /\ msg.v = pend[Dev].ret
  BY MsgParts DEF Message, Messages
<1> HIDE DEF msg
<1>5. KmInv'
  BY Zenon, <1>1, <1>2, <1>4, ReturnKm
<1>6. QueueOk(q', ran, seq_next)
  BY Zenon, <1>1, <1>2, <1>3, <1>4, QueueAppend
<1>7. ~pend'[Dev].busy
  <2>1. Dev \in DOMAIN pend
    BY Zenon, <1>2 DEF KmInv, KmTypes
  <2> QED
    BY <1>1, <2>1 DEF Rest
<1>8. seq_next >= 1
  BY Zenon, <1>1 DEF MsgInv, Thread
<1>9. /\ pc' \in {"idle", "wait", "check"} /\ OutOk(out', ran) /\ BatchOk(batch', ran)
      /\ slot' \in [Slots -> SlotRecs] /\ at' \in 0 .. PENDING_MAX + 1
      /\ pc' = "check" => at' >= 1
      /\ \A s \in Slots : SlotOk(slot'[s], seq_next, settled)
  <2>1. CASE at = 0 /\ Track /\ at' = at
    <3>1. pc' # "check" /\ at' \in 0 .. PENDING_MAX + 1
      BY <1>1, <2>1, TrackMsg, MsgAssumption
    <3> QED
      BY Zenon, <1>1, <2>1, <3>1, TrackMsg
  <2>2. CASE at # 0 /\ pc' = "check" /\ at' = at + 1 /\ UNCHANGED <<slot, out, batch>>
    <3>1. at \in Slots
      BY Zenon, <1>1, <2>2 DEF MsgInv, Thread
    <3>2. at' >= 1 /\ at' \in 0 .. PENDING_MAX + 1
      BY <2>2, <3>1, MsgAssumption DEF Slots
    <3> QED
      BY Zenon, <1>2, <2>2, <3>2
  <2>3. CASE at = 0 /\ Returns("io", "local") /\ at' = at /\ slot' = slot
    <3>1. "io" \in Results /\ "local" # "answer" /\ "io" # "ok"
      BY DEF Results
    <3>2. pc' = "idle" /\ OutOk(out', ran) /\ BatchOk(batch', ran)
      BY Zenon, <1>8, <2>3, <3>1, ReturnsOk
    <3>3. pc' # "check" /\ at' \in 0 .. PENDING_MAX + 1
      BY <2>3, <3>2, MsgAssumption
    <3> QED
      BY Zenon, <1>2, <2>3, <3>2, <3>3
  <2> QED
    BY Zenon, <2>1, <2>2, <2>3 DEF qdhcp_chardev_write
<1>10. pc' \notin {"write", "kernel"} /\ pc' \in {"idle", "write", "kernel", "wait", "check", "process"}
  BY <1>9
<1>11. MsgTypes'
  BY Zenon, <1>1, <1>9, <1>10 DEF MsgInv, MsgTypes
<1>12. Thread'
  <2>1. pc' # "write" /\ pc' # "kernel"
    BY Zenon, <1>10
  <2> QED
    BY Zenon, <1>1, <1>7, <1>8, <1>9, <1>10, <2>1 DEF Thread
<1> QED
  BY Zenon, <1>1, <1>5, <1>6, <1>9, <1>11, <1>12 DEF MsgInv

LEMMA WaitMsg ==
  ASSUME MsgInv, qd_dhcp_wait_ack
  PROVE  MsgInv'
<1> DEFINE m == q[1]
<1>1. /\ pc = "wait" /\ q # <<>> /\ q' = Tail(q) /\ pend' = pend /\ view' = view
      /\ bind' = bind /\ ifs' = ifs /\ ever' = ever /\ sub' = sub
      /\ cur' = cur /\ seq_next' = seq_next /\ ran' = ran
      /\ faithful' = (faithful /\ q[1].t # "note")
      /\ slot' = (IF q[1].t = "resp" THEN qd_dhcp_process_ack(q[1]) ELSE slot)
      /\ settled' = (IF q[1].t = "resp" THEN settled \cup {q[1].k} ELSE settled)
  BY Zenon DEF qd_dhcp_wait_ack, kernelRest
<1>2. \/ IsOurs(q[1]) /\ Returns(q[1].v, "answer") /\ at' = at /\ then' = then
      \/ pc' = "check" /\ at' = 1 /\ then' = "wait" /\ out' = out /\ batch' = batch
  BY Zenon DEF qd_dhcp_wait_ack
<1>3. /\ QueueOk(q', ran, seq_next) /\ slot' \in [Slots -> SlotRecs]
      /\ settled' \subseteq 1 .. seq_next
      /\ \A s \in Slots : SlotOk(slot'[s], seq_next, settled')
      /\ q[1].t = "resp" => q[1].k \in 1 .. seq_next /\ Has(ran[q[1].k], q[1].v)
  BY ZenonT(30), <1>1, TakeOk
<1>4. KmInv /\ faithful \in BOOLEAN /\ seq_next >= 1 /\ ~pend[Dev].busy
      /\ OutOk(out, ran) /\ BatchOk(batch, ran)
  BY Zenon, <1>1 DEF MsgInv, KmInv, KmTypes, Thread
<1>5. KmInv'
  <2>1. faithful' \in BOOLEAN
    BY Zenon, <1>1
  <2>2. faithful' => faithful /\ q[1].t # "note"
    BY Zenon, <1>1
  <2> QED
    BY Zenon, <1>1, <1>4, <2>1, <2>2, TakeKm
<1>6. /\ pc' \in {"idle", "check"} /\ OutOk(out', ran) /\ BatchOk(batch', ran)
      /\ at' \in 0 .. PENDING_MAX + 1 /\ then' \in {"idle", "wait"} /\ (pc' = "check" => at' >= 1)
  <2>1. CASE IsOurs(q[1]) /\ Returns(q[1].v, "answer") /\ at' = at /\ then' = then
    <3>1. q[1].t = "resp" /\ q[1].k = cur.seq
      BY Zenon, <2>1 DEF IsOurs
    <3>2. Has(ran[cur.seq], q[1].v) /\ cur.seq \in Seqs
      BY Zenon, <1>3, <3>1, MsgParts
    <3>3. ran[cur.seq] \in Seq(Answers)
      BY Zenon, <3>2, MsgParts DEF Histories
    <3>4. q[1].v \in Answers
      BY <3>2, <3>3 DEF Has
    <3>5. q[1].v \in Results
      BY Zenon, <3>4 DEF Results
    <3>6. pc' = "idle" /\ OutOk(out', ran) /\ BatchOk(batch', ran)
      BY Zenon, <1>4, <2>1, <3>2, <3>5, ReturnsOk
    <3>7. pc' # "check"
      BY <3>6
    <3> QED
      BY Zenon, <2>1, <3>6, <3>7 DEF MsgInv, MsgTypes
  <2>2. CASE pc' = "check" /\ at' = 1 /\ then' = "wait" /\ out' = out /\ batch' = batch
    <3>1. at' >= 1 /\ at' \in 0 .. PENDING_MAX + 1
      BY <2>2, MsgAssumption
    <3> QED
      BY Zenon, <1>4, <2>2, <3>1
  <2> QED
    BY Zenon, <1>2, <2>1, <2>2
<1>7. pc' \notin {"write", "kernel"} /\ pc' \in {"idle", "write", "kernel", "wait", "check", "process"}
  BY <1>6
<1>8. MsgTypes'
  BY Zenon, <1>1, <1>3, <1>6, <1>7 DEF MsgInv, MsgTypes
<1>9. Thread'
  BY Zenon, <1>1, <1>4, <1>6, <1>7 DEF Thread
<1> QED
  BY Zenon, <1>1, <1>3, <1>5, <1>6, <1>8, <1>9 DEF MsgInv

LEMMA ProcessMsg ==
  ASSUME MsgInv, qd_dhcp_process
  PROVE  MsgInv'
<1>1. /\ pc = "process" /\ pend' = pend /\ bind' = bind /\ ifs' = ifs /\ ever' = ever
      /\ sub' = sub /\ cur' = cur /\ seq_next' = seq_next /\ ran' = ran /\ out' = out
      /\ batch' = batch
  BY Zenon DEF qd_dhcp_process, kernelRest
<1>2. KmInv /\ faithful \in BOOLEAN /\ ~pend[Dev].busy /\ OutOk(out, ran) /\ BatchOk(batch, ran)
  BY Zenon, <1>1 DEF MsgInv, KmInv, KmTypes, Thread
<1>3. CASE q = <<>>
  <2>1. pc' = "check" /\ at' = 1 /\ then' = "idle"
        /\ UNCHANGED <<q, slot, settled, view, faithful>>
    BY Zenon, <1>3 DEF qd_dhcp_process
  <2>2. at' >= 1 /\ at' \in 0 .. PENDING_MAX + 1
    BY <2>1, MsgAssumption
  <2>3. MsgTypes'
    BY Zenon, <1>1, <2>1, <2>2 DEF MsgInv, MsgTypes
  <2>4. Thread'
    BY <1>1, <1>2, <2>1, <2>2 DEF Thread
  <2>5. KmInv'
    BY Zenon, <1>1, <1>2, <2>1, QuietKm
  <2> QED
    BY Zenon, <1>1, <2>1, <2>3, <2>4, <2>5 DEF MsgInv
<1>4. CASE q # <<>>
  <2>1. /\ q' = Tail(q) /\ qd_dhcp_dispatch(q[1]) /\ pc' = pc /\ at' = at /\ then' = then
        /\ slot' = (IF q[1].t = "resp" THEN qd_dhcp_process_ack(q[1]) ELSE slot)
        /\ settled' = (IF q[1].t = "resp" THEN settled \cup {q[1].k} ELSE settled)
    BY Zenon, <1>4 DEF qd_dhcp_process
  <2>2. /\ QueueOk(q', ran, seq_next) /\ slot' \in [Slots -> SlotRecs]
        /\ settled' \subseteq 1 .. seq_next
        /\ \A s \in Slots : SlotOk(slot'[s], seq_next, settled')
    BY Zenon, <1>4, <2>1, TakeOk
  <2>3. /\ view' = (IF q[1].t = "note" /\ handler THEN [view EXCEPT ![q[1].k] = q[1].v] ELSE view)
        /\ faithful' = (faithful /\ (q[1].t = "note" => handler))
    BY Zenon, <2>1 DEF qd_dhcp_dispatch
  <2>4. KmInv'
    <3>1. faithful' \in BOOLEAN
      BY Zenon, <2>3
    <3>2. view' = view \/ (q[1].t = "note" /\ view' = [view EXCEPT ![q[1].k] = q[1].v])
      BY Zenon, <2>3
    <3>3. faithful' => faithful
                   /\ (q[1].t = "note" => view' = [view EXCEPT ![q[1].k] = q[1].v])
                   /\ (q[1].t # "note" => view' = view)
      BY Zenon, <2>3
    <3> QED
      BY Zenon, <1>1, <1>2, <1>4, <2>1, <3>1, <3>2, <3>3, TakeKm
  <2>5. MsgTypes'
    BY Zenon, <1>1, <2>1, <2>2 DEF MsgInv, MsgTypes
  <2>6. Thread'
    <3>1. then = "wait" => seq_next >= 1
      BY Zenon DEF MsgInv, Thread
    <3> QED
      BY <1>1, <1>2, <2>1, <3>1 DEF Thread
  <2> QED
    BY Zenon, <1>1, <1>2, <2>2, <2>4, <2>5, <2>6 DEF MsgInv
<1> QED
  BY Zenon, <1>3, <1>4

LEMMA TimeoutMsg ==
  ASSUME MsgInv, NEW s \in Slots, TimeoutElapses(s)
  PROVE  MsgInv'
<1>1. /\ slot[s].used /\ slot' = [slot EXCEPT ![s].due = TRUE] /\ UNCHANGED kmVars
      /\ pc' = pc /\ cur' = cur /\ at' = at /\ then' = then /\ seq_next' = seq_next
      /\ out' = out /\ batch' = batch /\ ran' = ran /\ settled' = settled
  BY Zenon DEF TimeoutElapses
<1>2. pend' = pend
  BY Zenon, <1>1 DEF kmVars
<1>3. slot \in [Slots -> SlotRecs] /\ seq_next \in Nat /\ seq_next <= seq_next
  BY MsgParts
<1>4. slot[s] \in SlotRecs
  BY Zenon, <1>3
<1>5. /\ slot' \in [Slots -> SlotRecs] /\ \A r \in Slots : r # s => slot'[r] = slot[r]
      /\ slot'[s].used = slot[s].used /\ slot'[s].seq = slot[s].seq
      /\ slot'[s].cmd = slot[s].cmd
  BY Zenon, <1>1, <1>3, <1>4 DEF SlotRecs
<1>6. \A r \in Slots : SlotOk(slot'[r], seq_next', settled')
  <2>1. SlotOk(slot'[s], seq_next', settled')
    BY <1>1, <1>5 DEF MsgInv, SlotOk
  <2> QED
    BY Zenon, <1>1, <1>5, <2>1 DEF MsgInv
<1>7. MsgTypes'
  BY Zenon, <1>1, <1>5 DEF MsgInv, MsgTypes
<1>8. Thread'
  <2>1. \A r \in Slots : slot'[r].used = slot[r].used
    BY Zenon, <1>5
  <2> QED
    BY Zenon, <1>1, <1>2, <2>1 DEF MsgInv, Thread
<1> QED
  BY Zenon, <1>1, <1>3, <1>6, <1>7, <1>8, ThreadStep DEF MsgInv

LEMMA CheckMsg ==
  ASSUME MsgInv, qd_dhcp_check_timeouts
  PROVE  MsgInv'
<1>1. /\ pc = "check" /\ UNCHANGED kmVars /\ cur' = cur /\ then' = then /\ seq_next' = seq_next
      /\ out' = out /\ batch' = batch /\ ran' = ran /\ settled' = settled
  BY Zenon DEF qd_dhcp_check_timeouts
<1>2. pend' = pend /\ ~pend[Dev].busy
  BY <1>1 DEF kmVars, MsgInv, Thread
<1>3. /\ slot \in [Slots -> SlotRecs] /\ seq_next \in Nat /\ seq_next <= seq_next
      /\ at \in 1 .. PENDING_MAX + 1
  <2>1. at \in 0 .. PENDING_MAX + 1 /\ at >= 1
    BY Zenon, <1>1 DEF MsgInv, MsgTypes, Thread
  <2> QED
    BY <2>1, MsgParts, MsgAssumption
<1>4. then \in {"idle", "wait"} /\ (then = "wait" => seq_next >= 1)
  BY Zenon DEF MsgInv, MsgTypes, Thread
<1>5. \A r \in Slots : SlotOk(slot[r], seq_next, settled)
  BY Zenon DEF MsgInv
<1> SUFFICES /\ pc' \in {"idle", "wait", "check", "write"} /\ at' \in 0 .. PENDING_MAX + 1
             /\ slot' \in [Slots -> SlotRecs]
             /\ \A r \in Slots : SlotOk(slot'[r], seq_next, settled)
             /\ pc' \in {"wait", "write"} => seq_next >= 1
             /\ pc' = "check" => at' >= 1
             /\ pc' = "write" => at' \in Slots /\ at' # 0 /\ slot'[at'].used
  <2>1. pc' # "kernel" /\ pc' \in {"idle", "write", "kernel", "wait", "check", "process"}
    OBVIOUS
  <2>2. MsgTypes'
    BY Zenon, <1>1, <2>1 DEF MsgInv, MsgTypes
  <2>3. Thread'
    BY Zenon, <1>1, <1>2, <1>4, <2>1 DEF Thread
  <2> QED
    BY Zenon, <1>1, <1>3, <2>2, <2>3, ThreadStep DEF MsgInv
<1>6. CASE at > PENDING_MAX
  <2>1. pc' = then /\ at' = 0 /\ slot' = slot
    BY Zenon, <1>6 DEF qd_dhcp_check_timeouts
  <2>2. at' \in 0 .. PENDING_MAX + 1 /\ pc' # "check" /\ pc' # "write"
    BY <1>4, <2>1, MsgAssumption
  <2> QED
    BY <1>3, <1>4, <1>5, <2>1, <2>2
<1>7. CASE ~(at > PENDING_MAX)
  <2>1. at \in Slots /\ at # 0 /\ at + 1 \in 0 .. PENDING_MAX + 1 /\ at + 1 >= 1
        /\ at \in 0 .. PENDING_MAX + 1
    BY <1>3, <1>7, MsgAssumption DEF Slots
  <2>2. slot[at] \in SlotRecs /\ SlotOk(slot[at], seq_next, settled)
    BY Zenon, <1>3, <1>5, <2>1
  <2>3. CASE ~slot[at].due
    <3>1. pc' = "check" /\ at' = at + 1 /\ slot' = slot
      BY Zenon, <1>7, <2>3 DEF qd_dhcp_check_timeouts
    <3> QED
      BY <1>3, <1>5, <2>1, <3>1
  <2>4. CASE slot[at].due /\ slot[at].retries > 0
    <3>1. /\ pc' = "write" /\ at' = at
          /\ slot' = [slot EXCEPT ![at].retries = @ - 1, ![at].due = FALSE]
      BY Zenon, <1>7, <2>4 DEF qd_dhcp_check_timeouts
    <3>2. /\ slot' \in [Slots -> SlotRecs] /\ \A r \in Slots : r # at => slot'[r] = slot[r]
          /\ slot'[at].used = slot[at].used /\ slot'[at].seq = slot[at].seq
          /\ slot'[at].cmd = slot[at].cmd /\ slot'[at].due = FALSE
      BY <1>3, <2>1, <2>2, <2>4, <3>1 DEF SlotRecs
    <3>3. slot[at].used /\ slot[at].seq \in 1 .. seq_next
      BY Zenon, <2>2, <2>4 DEF SlotOk
    <3>4. SlotOk(slot'[at], seq_next, settled)
      BY Zenon, <2>2, <3>2 DEF SlotOk
    <3>5. \A r \in Slots : SlotOk(slot'[r], seq_next, settled)
      BY Zenon, <1>5, <3>2, <3>4
    <3>6. seq_next >= 1 /\ pc' # "check" /\ pc' \in {"idle", "wait", "check", "write"}
      BY <1>3, <3>1, <3>3
    <3>7. slot'[at'].used
      BY Zenon, <3>1, <3>2, <3>3
    <3> QED
      BY Zenon, <2>1, <3>1, <3>2, <3>5, <3>6, <3>7
  <2>5. CASE slot[at].due /\ ~(slot[at].retries > 0)
    <3>1. pc' = "check" /\ at' = at + 1 /\ slot' = [slot EXCEPT ![at] = FreeSlot]
      BY Zenon, <1>7, <2>5 DEF qd_dhcp_check_timeouts
    <3>2. /\ slot' \in [Slots -> SlotRecs] /\ \A r \in Slots : r # at => slot'[r] = slot[r]
          /\ slot'[at] = FreeSlot
      BY <1>3, <2>1, <3>1, FreeSlotOk
    <3>3. SlotOk(FreeSlot, seq_next, settled)
      BY Zenon, FreeSlotOk DEF SlotOk
    <3>4. \A r \in Slots : SlotOk(slot'[r], seq_next, settled)
      BY Zenon, <1>5, <3>2, <3>3
    <3>5. pc' # "write" /\ pc' # "wait" /\ pc' \in {"idle", "wait", "check", "write"}
      BY <3>1
    <3> QED
      BY Zenon, <2>1, <3>1, <3>2, <3>4, <3>5
  <2> QED
    BY Zenon, <2>3, <2>4, <2>5
<1> QED
  BY Zenon, <1>6, <1>7

\* The steps that only move the thread
LEMMA MoveMsg ==
  ASSUME MsgInv, UNCHANGED kmVars, cur' = cur, slot' = slot, seq_next' = seq_next,
         out' = out, ran' = ran, settled' = settled,
         pc' \in {"idle", "process", "check"}, pc # "kernel",
         at' = at \/ at' = 1, pc' = "check" => at' = 1,
         then' = then \/ (then' = "wait" /\ pc = "wait"), BatchOk(batch', ran)
  PROVE  MsgInv'
<1>1. pend' = pend
  BY Zenon DEF kmVars
<1>2. ~pend[Dev].busy /\ (then' = "wait" => seq_next >= 1) /\ then' \in {"idle", "wait"}
  BY DEF MsgInv, MsgTypes, Thread
<1>3. at' \in 0 .. PENDING_MAX + 1 /\ (pc' = "check" => at' >= 1)
  BY MsgAssumption DEF MsgInv, MsgTypes
<1>4. pc' \notin {"wait", "write", "kernel"}
      /\ pc' \in {"idle", "write", "kernel", "wait", "check", "process"}
  OBVIOUS
<1>5. MsgTypes'
  BY Zenon, <1>2, <1>3, <1>4 DEF MsgInv, MsgTypes
<1>6. pc' # "kernel" /\ pc' # "write" /\ pc' # "wait"
  BY <1>4
<1>7. Thread'
  BY Zenon, <1>1, <1>2, <1>3, <1>4, <1>6 DEF Thread
<1>8. seq_next \in Nat /\ seq_next <= seq_next
  BY MsgParts
<1>9. /\ \A s \in Slots : SlotOk(slot'[s], seq_next', settled')
      /\ OutOk(out', ran') /\ BatchOk(batch', ran')
  BY Zenon DEF MsgInv
<1> QED
  BY Zenon, <1>5, <1>7, <1>8, <1>9, ThreadStep

LEMMA DeadlineMsg ==
  ASSUME MsgInv, DeadlinePassed
  PROVE  MsgInv'
<1>1. /\ pc = "wait" /\ Returns("timeout", "local") /\ UNCHANGED kmVars /\ cur' = cur
      /\ slot' = slot /\ at' = at /\ then' = then /\ seq_next' = seq_next /\ ran' = ran
      /\ settled' = settled
  BY Zenon DEF DeadlinePassed
<1>2. "timeout" \in Results /\ "local" # "answer" /\ "timeout" # "ok"
  BY DEF Results
<1>3. seq_next >= 1 /\ pend' = pend /\ ~pend[Dev].busy
  BY <1>1 DEF MsgInv, Thread, kmVars
<1>4. pc' = "idle" /\ OutOk(out', ran) /\ BatchOk(batch', ran)
  BY Zenon, <1>1, <1>2, <1>3, ReturnsOk
<1>5. MsgTypes'
  BY Zenon, <1>1, <1>4 DEF MsgInv, MsgTypes
<1>6. Thread'
  BY <1>1, <1>3, <1>4 DEF Thread
<1>7. seq_next \in Nat /\ seq_next <= seq_next
  BY MsgParts
<1> QED
  BY Zenon, <1>1, <1>4, <1>5, <1>6, <1>7, ThreadStep DEF MsgInv

LEMMA BatchMsg ==
  ASSUME MsgInv, NEW b \in Batches, NEW a \in BOOLEAN, BatchExecute(b, a)
  PROVE  MsgInv'
<1>1. /\ pc = "idle" /\ UNCHANGED kmVars /\ pc' = pc /\ cur' = cur /\ slot' = slot /\ at' = at
      /\ then' = then /\ seq_next' = seq_next /\ out' = out /\ ran' = ran /\ settled' = settled
      /\ batch' = [NoBatch EXCEPT !.on = TRUE, !.left = b, !.atomic = a]
  BY Zenon DEF BatchExecute
<1>2. batch' = [on |-> TRUE, left |-> b, seqs |-> <<>>, errs |-> <<>>,
                atomic |-> a, rolled_back |-> FALSE, was |-> bind]
  BY Zenon, <1>1 DEF NoBatch
<1>3. bind \in Bindings /\ b \in Seq(Commands) /\ b # <<>>
  BY Zenon, MsgAssumption DEF MsgInv, KmInv, KmTypes
<1>4. batch' \in BatchRecs
  BY <1>2, <1>3 DEF BatchRecs
<1>5. batch'.seqs = <<>> /\ batch'.errs = <<>> /\ batch'.left = b
  BY <1>2
<1>6. /\ Len(batch'.seqs) <= Len(batch'.errs) /\ \A i \in 1 .. Len(batch'.seqs) : FALSE
      /\ Len(batch'.seqs) = Len(batch'.errs) /\ \A i \in 1 .. Len(batch'.seqs) - 1 : FALSE
  BY <1>5
<1>7. BatchOk(batch', ran)
  BY Zenon, <1>3, <1>4, <1>5, <1>6 DEF BatchOk
<1>8. pc' \in {"idle", "process", "check"} /\ pc # "kernel" /\ pc' # "check"
  BY <1>1
<1> QED
  BY Zenon, <1>1, <1>7, <1>8, MoveMsg

LEMMA QuietMsg ==
  ASSUME MsgInv, WaitIdle \/ ProcessBegin \/ \E on \in BOOLEAN : qd_dhcp_register_handler(on)
  PROVE  MsgInv'
<1>1. BatchOk(batch, ran)
  BY Zenon DEF MsgInv
<1>2. CASE WaitIdle
  <2>1. "check" \in {"idle", "process", "check"} /\ "wait" # "kernel"
    OBVIOUS
  <2> QED
    BY Zenon, <1>1, <1>2, <2>1, MoveMsg DEF WaitIdle
<1>3. CASE ProcessBegin \/ \E on \in BOOLEAN : qd_dhcp_register_handler(on)
  <2>1. {"idle", "process"} \subseteq {"idle", "process", "check"}
        /\ "idle" # "kernel" /\ "idle" # "check" /\ "process" # "check"
    OBVIOUS
  <2> QED
    BY Zenon, <1>1, <1>3, <2>1, MoveMsg DEF ProcessBegin, qd_dhcp_register_handler
<1> QED
  BY Zenon, <1>2, <1>3

LEMMA MsgNext ==
  ASSUME MsgInv, [MSNext]_msAll
  PROVE  MsgInv'
<1>1. ASSUME NEW c, Request(c) PROVE MsgInv'
  BY Zenon, <1>1, RequestMsg
<1>2. CASE chardev_send
  BY Zenon, <1>2, SendMsg
<1>3. CASE Announce(Dev) /\ UNCHANGED msVars
  BY Zenon, <1>3, AnnounceMsg, MsgAssumption
<1>4. CASE qdhcp_chardev_write
  BY Zenon, <1>4, WriteMsg
<1>5. CASE qd_dhcp_wait_ack
  BY Zenon, <1>5, WaitMsg
<1>6. CASE DeadlinePassed
  BY Zenon, <1>6, DeadlineMsg
<1>7. ASSUME NEW s \in Slots, TimeoutElapses(s) PROVE MsgInv'
  BY Zenon, <1>7, TimeoutMsg
<1>8. CASE qd_dhcp_check_timeouts
  BY Zenon, <1>8, CheckMsg
<1>9. CASE qd_dhcp_process
  BY Zenon, <1>9, ProcessMsg
<1>10. ASSUME NEW b \in Batches, NEW a \in BOOLEAN, BatchExecute(b, a) PROVE MsgInv'
  BY Zenon, <1>10, BatchMsg
<1>11. ASSUME NEW on \in BOOLEAN, qd_dhcp_subscribe(on) PROVE MsgInv'
  BY Zenon, <1>11, SubscribeMsg
<1>12. ASSUME NEW p \in Callers \ {Dev}, Others(p) PROVE MsgInv'
  BY Zenon, <1>12, OthersMsg
<1>13. CASE WaitIdle \/ ProcessBegin \/ \E on \in BOOLEAN : qd_dhcp_register_handler(on)
  BY Zenon, <1>13, QuietMsg
<1>14. CASE UNCHANGED msAll
  <2>1. UNCHANGED kmVars /\ UNCHANGED msVars
    BY Zenon, <1>14 DEF msAll
  <2>2. KmInv' /\ q' = q /\ pend' = pend
    BY Zenon, <2>1, QuietKm DEF MsgInv, kmVars
  <2> QED
    BY Zenon, <2>1, <2>2, KernelStep DEF MsgInv
<1> QED
  BY Zenon, <1>1, <1>2, <1>3, <1>4, <1>5, <1>6, <1>7, <1>8, <1>9, <1>10, <1>11, <1>12,
     <1>13, <1>14 DEF MSNext

\* Only a send changes what the kernel has answered.
LEMMA SettledKept ==
  ASSUME MsgInv, [MSNext]_msAll
  PROVE  \A s \in settled : ran'[s] = ran[s]
<1>1. CASE chardev_send
  BY Zenon, <1>1, SendMsg
<1>2. CASE ~chardev_send
  <2>1. ran' = ran
    BY Zenon, <1>2 DEF MSNext, Request, qdhcp_chardev_write, qd_dhcp_wait_ack, WaitIdle,
       DeadlinePassed, TimeoutElapses, qd_dhcp_check_timeouts, ProcessBegin, qd_dhcp_process,
       BatchExecute, qd_dhcp_register_handler, qd_dhcp_subscribe, Others, msVars, msAll
  <2> QED
    BY Zenon, <2>1
<1> QED
  BY Zenon, <1>1, <1>2

(***************************************************************************)
(* What qd_dhcp_send_reliable and qd_dhcp_batch_execute report is what the *)
(* kernel did: a call returns the answer to this very call, also when an   *)
(* earlier one timed out and its answer came late or came twice; an        *)
(* operation a batch reports as done was carried out with success, and     *)
(* after the first failure of an atomic batch nothing more was sent.  For  *)
(* any commands, batches, pending slots, retries and other callers.        *)
(***************************************************************************)
THEOREM MsgCorrect == MSSpec => []MsgExact
<1>1. MsgInv => MsgExact
  <2> SUFFICES ASSUME MsgInv PROVE MsgExact
    OBVIOUS
  <2>1. OutOk(out, ran) /\ BatchOk(batch, ran)
    BY Zenon DEF MsgInv
  <2>2. DOMAIN batch.seqs = 1 .. Len(batch.seqs)
    BY <2>1 DEF BatchOk, BatchRecs
  <2> QED
    BY Zenon, <2>1, <2>2 DEF MsgExact, OwnAnswer, BatchReport, OutOk, BatchOk
<1>2. MsgInv /\ [MSNext]_msAll => MsgInv'
  BY Zenon, MsgNext
<1> QED
  BY <1>1, <1>2, MsgInit, PTL DEF MSSpec

(***************************************************************************)
(* A call whose answer qd_dhcp_process_ack has taken is never sent again   *)
(* by qd_dhcp_check_timeouts: its command is not carried out a second time.*)
(***************************************************************************)
THEOREM SettledCorrect == MSSpec => SettledOnce
<1>1. MsgInv /\ [MSNext]_msAll => MsgInv'
  BY Zenon, MsgNext
<1>2. MsgInv /\ [MSNext]_msAll => [\A s \in settled : ran'[s] = ran[s]]_msAll
  BY Zenon, SettledKept
<1> QED
  BY <1>1, <1>2, MsgInit, PTL DEF MSSpec, SettledOnce

(***************************************************************************)
(* The reader of the announcements catches up also where the changes come  *)
(* from qd_dhcp_msg.c's own calls, which are sent again when an answer is  *)
(* late, and it is the library's thread that reads the queue, looking for  *)
(* answers.                                                                *)
(***************************************************************************)
THEOREM LibraryCatchesUp == MSSpec => []ReaderCatchesUp
<1>1. MsgInv => ReaderCatchesUp
  BY Zenon, KmCatchesUp DEF MsgInv
<1>2. MsgInv /\ [MSNext]_msAll => MsgInv'
  BY Zenon, MsgNext
<1> QED
  BY <1>1, <1>2, MsgInit, PTL DEF MSSpec
=============================================================================
