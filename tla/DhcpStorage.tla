---------------------------- MODULE DhcpStorage -----------------------------
(***************************************************************************)
(* examples/dhcp/src/dhcp_storage_file.c, the lease store that appends a   *)
(* line for every change and replays the file at its start, and the part   *)
(* of dhcp_core.c that selects, starts and closes it.                      *)
(*                                                                         *)
(* One thread; the process may die between any two steps.  A stored lease  *)
(* is its address and host name, "" when it has none.                      *)
(***************************************************************************)
EXTENDS Integers, Sequences, FiniteSets

CONSTANTS
  StClients,
  StIps,
  StHosts,      \* host names, with ""
  MaxLines      \* bound: lines in the file

VARIABLES
  cache,        \* lease_cache: client -> [ip, host], Absent when it has none
  file,         \* lines of the log: [act, mac, ip, host]
  fd,           \* log_fp: "closed", "log", or "old", the file before a rename
  line,         \* the line written last, whose change is not in the cache yet
  promise,      \* history: client -> leases it may have after a restart
  sane          \* history: no line has been written to a file that is gone

stVars == <<cache, file, fd, line, promise, sane>>

Absent == [ip |-> 0, host |-> ""]
NoLine == [act |-> "none", mac |-> 0, ip |-> 0, host |-> ""]
EmptyCache == [m \in StClients |-> Absent]

STInit ==
  /\ cache = EmptyCache /\ file = <<>> /\ fd = "closed" /\ line = NoLine
  /\ promise = [m \in StClients |-> {Absent}] /\ sane = TRUE

\* The same lease, but for a host name that was cleared
Agrees(read, p) == read.ip = p.ip /\ (p.host = "" \/ read.host = p.host)

-----------------------------------------------------------------------------
(* Replay *)

\* Defect: a line of deletion is skipped.
ParseAddsOnly(c, l) ==
  [c EXCEPT ![l.mac] = IF l.act = "D" THEN @
                       ELSE [ip |-> l.ip, host |-> IF l.host = "" THEN @.host ELSE l.host]]

\* parse_log_line: an empty host name does not overwrite the one cached.
parse_log_line(c, l) ==
  [c EXCEPT ![l.mac] = IF l.act = "D" THEN Absent
                       ELSE [ip |-> l.ip, host |-> IF l.host = "" THEN @.host ELSE l.host]]

\* replay_log adds the file's lines to the cache there is.
replay_log(c) ==
  LET upto[i \in 0 .. Len(file)] ==
        IF i = 0 THEN c ELSE parse_log_line(upto[i - 1], file[i])
  IN  upto[Len(file)]

-----------------------------------------------------------------------------

\* file_storage_init, from dhcp_core_run; a second run replays again.
file_storage_init ==
  /\ line = NoLine
  /\ cache' = replay_log(cache) /\ fd' = "log"
  /\ promise' = [m \in StClients |-> {p \in promise[m] : Agrees(cache'[m], p)}]
  /\ UNCHANGED <<file, line, sane>>

\* The lease a line stands for
Meant(l) == IF l.act = "D" THEN Absent ELSE [ip |-> l.ip, host |-> l.host]

\* The line is flushed first, the cache changed after it.  Lines to a file
\* that compaction has replaced go nowhere.
WriteLine(l) ==
  /\ fd # "closed" /\ line = NoLine /\ Len(file) < MaxLines
  /\ line' = l
  /\ file' = IF fd = "log" THEN Append(file, l) ELSE file
  /\ promise' = [promise EXCEPT ![l.mac] = @ \cup {Meant(l)}]
  /\ sane' = (sane /\ fd = "log")
  /\ UNCHANGED <<cache, fd>>

file_storage_save_lease(m, ip, h) == WriteLine([act |-> "A", mac |-> m, ip |-> ip, host |-> h])
file_storage_delete_lease(m) == WriteLine([act |-> "D", mac |-> m, ip |-> 0, host |-> ""])

\* The entry of the cache takes the host name also when it is empty.
UpdateCache ==
  /\ line # NoLine /\ line' = NoLine
  /\ cache' = [cache EXCEPT ![line.mac] = Meant(line)]
  /\ promise' = [promise EXCEPT ![line.mac] = {Meant(line)}]
  /\ UNCHANGED <<file, fd, sane>>

\* dhcp_storage_file_compact: a line for each cached lease, in an order of the
\* hash table, in a temporary file that then replaces the log.  log_fp stays
\* on the file that is gone.
dhcp_storage_file_compact ==
  /\ line = NoLine /\ fd # "closed"
  /\ LET live == {m \in StClients : cache[m] # Absent}
     IN  \E order \in [1 .. Cardinality(live) -> live] :
           /\ {order[i] : i \in DOMAIN order} = live
           /\ file' = [i \in DOMAIN order |-> [act |-> "A", mac |-> order[i],
                          ip |-> cache[order[i]].ip, host |-> cache[order[i]].host]]
  /\ fd' = "old"
  /\ UNCHANGED <<cache, line, promise, sane>>

\* file_storage_close, from dhcp_core_destroy or dhcp_core_set_storage
file_storage_close ==
  /\ line = NoLine /\ fd # "closed" /\ fd' = "closed" /\ cache' = EmptyCache
  /\ UNCHANGED <<file, line, promise, sane>>

Crash ==
  /\ line # NoLine /\ fd' = "closed" /\ cache' = EmptyCache /\ line' = NoLine
  /\ UNCHANGED <<file, promise, sane>>

STNext ==
  \/ \E m \in StClients, ip \in StIps, h \in StHosts : file_storage_save_lease(m, ip, h)
  \/ \E m \in StClients : file_storage_delete_lease(m)
  \/ file_storage_init \/ UpdateCache \/ dhcp_storage_file_compact
  \/ file_storage_close \/ Crash

STSpec == STInit /\ [][STNext]_stVars

-----------------------------------------------------------------------------

\* As long as nothing was saved or deleted after a compaction, replay_log finds
\* for every client what the last save or delete that returned left, or what
\* one cut short by a crash meant.
Durable ==
  sane => \A m \in StClients : \E p \in promise[m] : Agrees(replay_log(EmptyCache)[m], p)

\* And file_storage_get_lease, which looks at the cache only, says the same.
CacheTrue ==
  sane /\ fd # "closed" /\ line = NoLine =>
    \A m \in StClients : Agrees(replay_log(EmptyCache)[m], cache[m])

\* A restart finds the leases that were saved, and so does a lookup before it.
StorageExact == Durable /\ CacheTrue
=============================================================================
