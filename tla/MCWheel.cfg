SPECIFICATION WheelSpec
CONSTANTS
  Timers = {t1, t2}
  Repeating = {t1}
  Bits = 1
  Levels = 3
  Delays = {1, 5}
  MaxJump = 3
  MaxTick = 6
  Ops = {o1, o2, o3}
  Fds = {d1, d2}
  Nil = Nil
  OpKinds = {"IN"}
  UrOps = {p1, p2}
  Tried = {p1}
  UrWatches = {w1, w2}
  UrFds = {d1}
  Depth = 2
CHECK_DEADLOCK FALSE
INVARIANTS
  WheelInTime 

  
