SPECIFICATION MCSpec
CONSTANTS
  a = a
  b = b
  c = c
  Clients = {a, b, c}
  Ranges <- MCRanges
  Addresses = {1, 2, 3}
  Requests <- MCRequests
  LEASE_MAX = 2
  Exclusions <- MCExclusions
  MaxAdmin = 1
  MaxDrift = 0
  MaxReservations = 1
  MaxExclusions = 2
  Macs = {1, 2, 3}
  Ips = {1, 2}
  Hash <- MCHash
  MaxLeases = 2
  StClients = {1, 2}
  StIps = {1, 2}
  StHosts = {"", "h"}
  MaxLines = 3
  MAX = 12
  OptionPool <- MCOptions
  IfTable <- MCInterfaces
  MAX_HOPS = 2
  RelayServers = {1, 2}
  MAX_SERVERS = 1
  MaxConf = 3
CHECK_DEADLOCK FALSE
SYMMETRY Symmetry
INVARIANTS
  ServerExact StorageExact RelayExact
PROPERTIES
  Sticky LeaseLife
