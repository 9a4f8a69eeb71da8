SPECIFICATION MCSpec
CONSTANTS
  KMacs = {1}
  KIps = {1, 2}
  Ifs = {11, 12}
  MAX_INTERFACES = 1
  MSG_QUEUE_MAX = 2
  Callers = {dev, p1}
  Dev = dev
  Hooks = {"pack", "tc"}
  MaxCmds = 3
  UserCmds <- MCUserCmds
  Batches <- MCBatches
  PENDING_MAX = 1
  RETRIES = 1
  MaxCalls = 2
  MaxOthers = 1
  SLOTS = 3
  Senders = {t1, t2}
  MaxMsgs = 5
CHECK_DEADLOCK FALSE
INVARIANTS
  MsgExact BdeExact
PROPERTIES
   SettledOnce
