SPECIFICATION FairSpec
CONSTANTS
  N = 1
  Clients = {c}
  MaxTasks = 5
  Low = {}
  High = {}
  BatchSize = 3
  RingCap = 2
  DequeCap = 2
  Stealing = TRUE
  Calls = {"batch", "child", "pause", "destroy"}
CHECK_DEADLOCK FALSE
PROPERTIES
  TasksRun 
