SPECIFICATION ICSpec
CONSTANTS
  cli1 = cli1
  cli2 = cli2
  Clients = {cli1, cli2}
  MaxConnections = 1
  MaxRequests <- MCRequests
  MaxBroadcasts = 1
  RecvCap = 6
  WireCap = 6
  Size <- MCSize
  N = 4
  Lens = {1, 2, 3}
  MaxBytes = 9
  Threads = {1, 2}
  MaxCalls = 3
  MaxEvents = 1
  MAX_PENDING = 1
  NLThreads = {1, 2}
  NLCalls = 3
  NLEvents = 3
  NameLen = 2
  MAX_ATTRS = 2
  WireIds = {1, 257}
  WireLens = {0, 2}
  WireServices = {5}
  Word = 256
  NAME_LEN = 2
  MAX_MSG_SIZE = 3
CHECK_DEADLOCK FALSE
INVARIANTS
  UnixExact ShmExact ClientExact WireRoundTrip
PROPERTY
  NetlinkExact
