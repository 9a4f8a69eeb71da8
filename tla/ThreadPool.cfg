SPECIFICATION Spec
CONSTANTS
  N = 2
  Clients = {c}
  MaxTasks = 3
  Low = {3}
  High = {2}
  BatchSize = 2
  RingCap = 2
  DequeCap = 2
  Stealing = TRUE
  Calls = {"submit", "callback", "batch", "child", "graceful", "immediate"}
CHECK_DEADLOCK FALSE
INVARIANTS
  PoolSafe NoStranded
