SPECIFICATION WQSpec
CONSTANTS
  Producers = {w1}
  Consumer = loop
  Nobody = none
  Capacity = 2
  Flags = {{}}
  Items = {i1, i2}
  MaxItems = 2
  Calls = {"try_send", "try_recv_batch"}
  Api = {"submit"}
CHECK_DEADLOCK FALSE
INVARIANT NoLostWakeup
