SPECIFICATION SVSpec
CONSTANTS
  Procs = {p, q}
  Inodes = {1, 2}
  Starts = 2
  MaxAsks = 1
  Logs = {FALSE}
  term = term
  hup = hup
  usr = usr
  Signo = {term, hup, usr}
  Defaults <- MCDefaults
  TableSize = 3
  MaxLines = 5
  MaxFiles = 3
  BufferSize = 3
  MaxSize = 4
  Names = {"", "s"}
  Keys = {"k", "#c"}
  Comments = {"#c"}
  Values = {"NULL", "v"}
  MaxSections = 2
  Cmds = {1, 2, 3}
  Buckets = {0, 1}
  Hash <- MCHash
  MaxEntries = 2
  MaxCalls = 3
  Lengths = {1, 3}
  MaxCap = 9
  Callers = {c1, c2}
  Reqs = {r1, r2}
  MaxPools = 2
  Slabs = {s1, s2, s3}
  Total = 2
  HeapBlocks = 1
  MemThreads = {t1, t2}
  InitialSize = 4
  MinSize = 2
  Sizes = {1, 2, 9}
  Aligns = {1, 2}
  MaxBlocks = 2
  PoolSize = 4
CHECK_DEADLOCK FALSE
INVARIANTS
  SingleInstance  HandlersExact FsExact HeapExact

  
