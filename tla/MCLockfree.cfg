SPECIFICATION LFSpec
CONSTANTS
  Producers = {p1, p2}
  Consumer = c
  Nobody = none
  Capacity = 2
  Flags = {{}}
  Items = {i1, i2, i3}
  MaxItems = 2
  Calls = {"try_send", "try_recv", "try_recv_batch"}
  Owner = o
  Thieves = {th1, th2}
  DequeCapacity = 4
  MaxTasks = 5
  MaxKey = 8
  MapKeys = {"a", "b", "c", "d"}
  MapValues = {v1, v2}
  MapBuckets = {0, 1}
  MapHash <- MCMapHash
  NoNode = NoNode
  LockThreads = {t1, t2, t3}
  Writer = t1
  SeqModulus = 8
  MaxWrites = 5
SYMMETRY Symmetry
INVARIANTS
  RingInv ContainersExact LocksExclude
PROPERTIES
  ImplementsFifo ImplementsDeque
