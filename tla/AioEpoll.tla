------------------------------ MODULE AioEpoll ------------------------------
(***************************************************************************)
(* src/core/qd_aio.c over src/core/backend/qd_backend_epoll.c: operations  *)
(* are queued as pending nodes, registered one-shot with epoll, performed  *)
(* when their descriptor is ready and then reported to the callback.  The  *)
(* nodes are kept as the program keeps them, a chain of next pointers: the *)
(* prev pointers are never set when a node is appended, and removing a     *)
(* node goes by them.  The loop is used by one thread; qd_aio_stop alone   *)
(* may come from any.  epoll_wait reports one event at a time; a batch is  *)
(* a run of those without a callback in between.  When a descriptor is     *)
(* ready is up to the environment.                                         *)
(***************************************************************************)
EXTENDS Integers, Sequences, FiniteSets, SequencesExt

CONSTANTS
  Ops,    \* requests; a request is also its pending node and its user_data
  Fds,    \* file descriptors
  OpKinds,\* kinds of operation submitted, a subset of {"IN", "OUT", "POLL"}
  Nil     \* the null pointer

VARIABLES
  req,               \* op and fd of every node
  nxt, head, tail,   \* the pending list
  count,             \* pending_count
  live, freedOps,    \* nodes allocated, nodes freed
  epoll,             \* per descriptor: the node registered for it
  running, rpc,      \* loop->running and the control of qd_aio_run
  order,             \* history: live nodes in the order of submission
  outOfOrder,        \* history: a node was removed that was not the first
  shared,            \* history: a descriptor with a pending node was used again
  staleNode          \* history: a freed node was used

listVars == <<req, nxt, head, tail, count, live, freedOps, order, outOfOrder, staleNode>>
epVars == <<listVars, epoll, running, rpc, shared>>

Kinds == {"IN", "OUT", "POLL", "TIMEOUT", "WATCH"}

\* qd_ep_op_to_events; QD_OP_TIMEOUT has no events.
OpToEvents(kind) == CASE kind = "IN"    -> {"IN"}
                      [] kind = "WATCH" -> {"IN"}
                      [] kind = "OUT"   -> {"OUT"}
                      [] kind = "POLL"  -> {"IN", "OUT"}
                      [] OTHER          -> {}

EPInit ==
  /\ req = [o \in Ops |-> [kind |-> "IN", fd |-> Nil]]
  /\ nxt = [o \in Ops |-> Nil] /\ head = Nil /\ tail = Nil /\ count = 0
  /\ live = {} /\ freedOps = {}
  /\ epoll = [f \in Fds |-> Nil]
  /\ running = FALSE /\ rpc = "out"
  /\ order = <<>> /\ outOfOrder = FALSE /\ shared = FALSE /\ staleNode = FALSE

\* The nodes a walk from pending_head meets.
Chain == LET from[n \in 0 .. Cardinality(Ops), o \in Ops \cup {Nil}] ==
               IF n = 0 \/ o = Nil THEN <<>> ELSE <<o>> \o from[n - 1, nxt[o]]
         IN from[Cardinality(Ops), head]

\* The walk stops at the first node that passes; it must not meet a freed one.
Found(T) == \E i \in DOMAIN Chain : Chain[i] \in T
First(T) == SelectSeq(Chain, LAMBDA o : o \in T)[1]
WalkStale(T) ==
  \E i \in DOMAIN Chain : /\ Chain[i] \in freedOps
                          /\ \A j \in 1 .. i - 1 : Chain[j] \notin T

-----------------------------------------------------------------------------
(* The pending list *)

Append2List(o, kind, fd) ==
  /\ req' = [req EXCEPT ![o] = [kind |-> kind, fd |-> fd]]
  /\ nxt' = IF tail = Nil THEN nxt ELSE [nxt EXCEPT ![tail] = o]
  /\ head' = IF tail = Nil THEN o ELSE head
  /\ tail' = o
  /\ count' = count + 1
  /\ live' = live \cup {o}
  /\ order' = Append(order, o)

\* qd_ep_remove_pending and the free that follows it: prev is null, so the list
\* starts after the removed node, whatever came before it.
RemoveAndFree(o) ==
  /\ head' = nxt[o]
  /\ tail' = IF nxt[o] = Nil THEN Nil ELSE tail
  /\ count' = count - 1
  /\ live' = live \ {o} /\ freedOps' = freedOps \cup {o}
  /\ order' = SelectSeq(order, LAMBDA x : x # o)
  /\ outOfOrder' = (outOfOrder \/ (o \in live /\ head # o))
  /\ UNCHANGED <<req, nxt>>

AppTurn == rpc \in {"out", "callback"}
Fresh(o) == o \notin live \cup freedOps

\* qd_ep_submit of an operation on fd: MOD when an earlier node has the fd, or
\* after ADD found it registered.  MOD fails on a descriptor that was closed.
Submit(o, kind, fd) ==
  LET earlier == {x \in Ops : \E i \in DOMAIN Chain :
                               Chain[i] = x /\ req[x].fd = fd}
      fails == Found(earlier) /\ epoll[fd] = Nil
  IN
  /\ AppTurn /\ Fresh(o) /\ OpToEvents(kind) # {}
  /\ shared' = (shared \/ \E x \in live : req[x].fd = fd)
  /\ \/ /\ ~fails
        /\ Append2List(o, kind, fd)
        /\ epoll' = [epoll EXCEPT ![fd] = o]
        /\ staleNode' = (staleNode \/ WalkStale(earlier))
        /\ UNCHANGED <<freedOps, outOfOrder>>
     \/ \* the node is appended and removed again: it is the last one
        /\ fails
        /\ nxt' = [nxt EXCEPT ![tail] = o]
        /\ head' = Nil /\ tail' = Nil
        /\ freedOps' = freedOps \cup {o}
        /\ outOfOrder' = TRUE /\ staleNode' = (staleNode \/ WalkStale(earlier))
        /\ UNCHANGED <<req, count, live, order, epoll>>
  /\ UNCHANGED <<running, rpc>>

\* A timeout gets a timerfd of its own that is never added to epoll.
SubmitTimeout(o) ==
  /\ AppTurn /\ Fresh(o) /\ OpToEvents("TIMEOUT") = {}
  /\ Append2List(o, "TIMEOUT", Nil)
  /\ UNCHANGED <<freedOps, outOfOrder, staleNode, epoll, running, rpc, shared>>

\* Close is done at once; epoll forgets the descriptor, the node stays.
SubmitClose(fd) ==
  /\ AppTurn
  /\ epoll' = [epoll EXCEPT ![fd] = Nil]
  /\ shared' = (shared \/ \E x \in live : req[x].fd = fd)
  /\ UNCHANGED <<listVars, running, rpc>>

\* Cancel looks for the user_data from the head of the list.
SubmitCancel(o) ==
  /\ AppTurn
  /\ \/ /\ Found({o})
        /\ epoll' = IF req[o].fd = Nil THEN epoll
                    ELSE [epoll EXCEPT ![req[o].fd] = Nil]
        /\ RemoveAndFree(o)
        /\ staleNode' = (staleNode \/ WalkStale({o}) \/ o \in freedOps
                           \/ nxt[o] \in freedOps)
     \/ /\ ~Found({o})
        /\ staleNode' = (staleNode \/ WalkStale({o}))
        /\ UNCHANGED <<req, nxt, head, tail, count, live, freedOps, order,
                       outOfOrder, epoll>>
  /\ UNCHANGED <<running, rpc, shared>>

\* qd_ep_watch_fd: ADD, which fails on a registered descriptor; the node then
\* leaves the list again
WatchFd(o, fd) ==
  /\ AppTurn /\ Fresh(o) /\ epoll[fd] = Nil
  /\ Append2List(o, "WATCH", fd)
  /\ epoll' = [epoll EXCEPT ![fd] = o]
  /\ shared' = (shared \/ \E x \in live : req[x].fd = fd)
  /\ UNCHANGED <<freedOps, outOfOrder, staleNode, running, rpc>>

UnwatchFd(fd) ==
  LET watches == {x \in Ops : req[x].fd = fd /\ req[x].kind = "WATCH"} IN
  /\ AppTurn /\ Found(watches)
  /\ RemoveAndFree(First(watches))
  /\ epoll' = [epoll EXCEPT ![fd] = Nil]
  /\ staleNode' = (staleNode \/ WalkStale(watches) \/ First(watches) \in freedOps
                     \/ nxt[First(watches)] \in freedOps)
  /\ UNCHANGED <<running, rpc, shared>>

-----------------------------------------------------------------------------
(* qd_aio_run, run_once and qd_ep_wait *)

RunCall ==
  /\ rpc = "out" /\ running' = TRUE /\ rpc' = "check"
  /\ UNCHANGED <<listVars, epoll, shared>>

RunCheck ==
  /\ rpc = "check" /\ rpc' = IF running THEN "wait" ELSE "out"
  /\ UNCHANGED <<listVars, epoll, running, shared>>

\* The one second of the wait is over.
WaitTimeout ==
  /\ rpc = "wait" /\ rpc' = "check"
  /\ UNCHANGED <<listVars, epoll, running, shared>>

\* epoll may report a registered descriptor at any time.  A watched one stays
\* registered.
WaitWatch(fd) ==
  LET o == epoll[fd] IN
  /\ rpc = "wait" /\ o # Nil /\ req[o].kind = "WATCH"
  /\ rpc' = "callback"
  /\ staleNode' = (staleNode \/ o \in freedOps)
  /\ UNCHANGED <<req, nxt, head, tail, count, live, freedOps, order, outOfOrder,
                 epoll, running, shared>>

\* Any other operation is performed, taken out of epoll and freed.
WaitComplete(fd) ==
  LET o == epoll[fd] IN
  /\ rpc = "wait" /\ o # Nil /\ req[o].kind # "WATCH"
  /\ epoll' = [epoll EXCEPT ![fd] = Nil]
  /\ RemoveAndFree(o)
  /\ staleNode' = (staleNode \/ o \in freedOps \/ nxt[o] \in freedOps)
  /\ rpc' = "callback"
  /\ UNCHANGED <<running, shared>>

CallbackReturns ==
  /\ rpc = "callback" /\ rpc' = "check"
  /\ UNCHANGED <<listVars, epoll, running, shared>>

AioStop ==
  /\ running' = FALSE
  /\ UNCHANGED <<listVars, epoll, rpc, shared>>

EPApp ==
  \/ \E o \in Ops : \/ \E k \in OpKinds, f \in Fds : Submit(o, k, f)
                    \/ \E f \in Fds : WatchFd(o, f)
                    \/ SubmitTimeout(o) \/ SubmitCancel(o)
  \/ \E f \in Fds : SubmitClose(f) \/ UnwatchFd(f)
  \/ RunCall \/ AioStop

EPLoop == RunCheck \/ WaitTimeout \/ CallbackReturns
            \/ \E f \in Fds : WaitWatch(f) \/ WaitComplete(f)

\* After a freed node was used anything may happen.
EPNext == ~staleNode /\ (EPApp \/ EPLoop)

EPFairSpec == EPInit /\ [][EPNext]_epVars /\ WF_epVars(EPNext /\ EPLoop)

-----------------------------------------------------------------------------

EPTypeOK ==
  /\ head \in Ops \cup {Nil} /\ tail \in Ops \cup {Nil}
  /\ nxt \in [Ops -> Ops \cup {Nil}] /\ count \in Int
  /\ \A o \in Ops : req[o].kind \in Kinds
  /\ rpc \in {"out", "check", "wait", "callback"}

\* As long as nodes leave in the order they came, the pending list is what it
\* should be: every live node once, oldest first, and the tail at its end.
PendingListExact ==
  ~outOfOrder => /\ Chain = order
                 /\ tail = (IF order = <<>> THEN Nil ELSE Last(order))

\* ... and no freed node is met by a walk, written to, or handed out by epoll.
NoStaleNode == ~outOfOrder => ~staleNode

\* pending_count, which qd_aio_stats reports, counts the live nodes on every
\* path, also after the list has lost some of them.
PendingCounted == ~staleNode => count = Cardinality(live)

\* While no descriptor is used twice, each operation that waits for one is the
\* node epoll has for it: none waits for ever unseen.
NoOrphan ==
  ~shared => \A o \in live : req[o].kind # "TIMEOUT" => epoll[req[o].fd] = o

\* qd_aio_run returns after qd_aio_stop, with nothing pending as well.
AioStopReturns == (~running /\ rpc # "out") ~> (rpc = "out" \/ running \/ staleNode)
=============================================================================
