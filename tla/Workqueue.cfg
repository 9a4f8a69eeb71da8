SPECIFICATION WQFairSpec
CONSTANTS
  Producers = {w1, w2}
  Consumer = loop
  Nobody = none
  Capacity = 2
  Flags = {{}}
  Items = {i1, i2}
  MaxItems = 2
  Calls = {"try_send", "try_recv_batch"}
  Api = {"submit", "batch", "delayed", "work", "cancellable", "destroy"}
CHECK_DEADLOCK FALSE
INVARIANT
  ItemsAccounted
PROPERTY
  DestroyReturns
