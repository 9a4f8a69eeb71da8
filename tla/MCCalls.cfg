SPECIFICATION CLSpec
CONSTANTS
  Producers = {p1, p2}
  Consumer = c
  Nobody = none
  Capacity = 1
  Flags = {{}, {"OVERFLOW"}, {"NONBLOCK"}}
  Items = {i1, i2}
  MaxItems = 1
  Calls = {"send", "recv", "close"}
  Waiters <- MCWaiters
  FutureCalls = {"wait", "timedwait", "cancel"}
CHECK_DEADLOCK FALSE
INVARIANT
  CallsSafe
PROPERTY
  CallsReturn
