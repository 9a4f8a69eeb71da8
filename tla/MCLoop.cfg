SPECIFICATION LoopSpec
CONSTANTS
  Files = {f1}
  Asyncs = {a1}
  Works = {w1, w2}
  Handlers = {h1, h2}
  EventSets <- ReadSets
  Clients <- MCClients
  Ops = {o1, o2}
  Fds = {d1}
  Nil = Nil
  OpKinds = {"IN"}
  Procs = {p}
  Inodes = {1, 2}
  Starts = 2
  MaxAsks = 3
  Logs = {TRUE, FALSE}
  Pushers = {q1, q2}
  Poppers = {r1, r2}
  RingCapacity = 2
  MaxTasks = 3
CHECK_DEADLOCK FALSE
INVARIANT
  LoopSafe
PROPERTIES
  LoopProgress DaemonStops TasksPopped
