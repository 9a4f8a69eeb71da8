------------------------------ MODULE AioUring ------------------------------
(***************************************************************************)
(* src/core/backend/qd_backend_uring.c.  A request is prepared in an entry *)
(* of the submission queue (sq), io_uring_submit hands every entry of the  *)
(* queue to the kernel, and the kernel posts completions in any order.     *)
(* An entry is <<user_data, role>>; its role is op, multi (multishot),     *)
(* cancel, poll (of a watch) or junk: an entry that was taken from the     *)
(* queue but left unprepared, which the next submit sends along.           *)
(***************************************************************************)
EXTENDS Integers, Sequences, FiniteSets, SequencesExt

CONSTANTS
  UrOps,       \* requests, known to the backend by their user_data
  Tried,       \* those that are also made multishot, and cancelled
  UrWatches,   \* watch entries
  UrFds,       \* descriptors that are watched
  Depth        \* queue_depth

VARIABLES
  sq, inflight, cq,   \* submission queue, requests in the kernel, completions
  urPending,          \* ur->pending
  used,               \* entries the application has asked for
  watches,            \* the watch list, oldest first
  watchFd, active,    \* fields of qd_ur_watch_t
  silenced,           \* history: descriptors unwatched and not watched since
  rewatched,          \* history: a descriptor was watched a second time
  failed,             \* history: a submit failed or left a junk entry behind
  spoken              \* history: a silenced descriptor was reported

urVars == <<sq, inflight, cq, urPending, used, watches, watchFd, active,
            silenced, rewatched, failed, spoken>>
watchVars == <<watches, watchFd, active, silenced, rewatched>>

URInit ==
  /\ sq = <<>> /\ inflight = {} /\ cq = <<>> /\ urPending = 0 /\ used = {}
  /\ watches = <<>> /\ active = {}
  /\ watchFd \in [UrWatches -> UrFds]
  /\ silenced = {} /\ rewatched = FALSE /\ failed = FALSE /\ spoken = FALSE

Junk == <<"junk", "junk">>

\* io_uring_get_sqe and io_uring_submit around the entry e: the queue is full,
\* the system call fails and the entry stays queued (bound: once), or everything
\* is sent.
Busy      == Len(sq) = Depth /\ UNCHANGED <<sq, inflight>>
Refused(e) == ~failed /\ Len(sq) < Depth /\ sq' = Append(sq, e) /\ UNCHANGED inflight
Sent(e)    == /\ Len(sq) < Depth
              /\ sq' = <<>> /\ inflight' = inflight \cup Range(Append(sq, e))

-----------------------------------------------------------------------------
(* Requests *)

UrSubmit(e) ==
  /\ e \notin used
  /\ UNCHANGED <<cq, watchVars, spoken>>
  /\ \/ Busy /\ UNCHANGED <<urPending, used, failed>>
     \/ Refused(e) /\ used' = used \cup {e} /\ failed' = TRUE /\ UNCHANGED urPending
     \/ Sent(e) /\ used' = used \cup {e} /\ urPending' = urPending + 1 /\ UNCHANGED failed

\* qd_aio_timeout passes no buffer: the request is refused after its entry was
\* taken from the queue.  An unsupported operation ends the same way.
UrTimeout ==
  /\ Junk \notin used                       \* bound: one junk entry
  /\ Refused(Junk) /\ failed' = TRUE /\ used' = used \cup {Junk}
  /\ UNCHANGED <<cq, urPending, watchVars, spoken>>

\* qd_ur_submit_batch of reads and writes, one submit for all
UrSubmitBatch(S) ==
  LET E == {<<o, "op">> : o \in S} IN
  /\ S # {} /\ E \cap used = {} /\ Len(sq) + Cardinality(S) <= Depth
  /\ used' = used \cup E
  /\ \/ /\ sq' = <<>> /\ inflight' = inflight \cup Range(sq) \cup E
        /\ urPending' = urPending + Cardinality(S) /\ UNCHANGED failed
     \/ /\ ~failed /\ sq' = sq \o SetToSeq(E) /\ failed' = TRUE
        /\ UNCHANGED <<inflight, urPending>>
  /\ UNCHANGED <<cq, watchVars, spoken>>

\* The kernel completes a request; a cancel completes its target as well; a
\* multishot request may complete again.
KernelCompletes(e) ==
  /\ e \in inflight /\ UNCHANGED <<sq, urPending, used, watchVars, failed, spoken>>
  /\ \/ /\ e[2] # "cancel"
        /\ inflight' = inflight \ {e} /\ cq' = Append(cq, [entry |-> e, more |-> FALSE])
     \/ /\ e[2] = "multi" /\ Len(cq) < Depth
        /\ inflight' = inflight /\ cq' = Append(cq, [entry |-> e, more |-> TRUE])
     \/ /\ e[2] = "cancel"
        /\ LET victims == {v \in inflight : v[1] = e[1] /\ v # e} IN
             /\ inflight' = inflight \ ({e} \cup victims)
             /\ cq' = cq \o SetToSeq({[entry |-> v, more |-> FALSE] : v \in {e} \cup victims})

-----------------------------------------------------------------------------
(* Watches *)

\* qd_ur_watch_fd: a watch whose first poll cannot be submitted is freed; its
\* entry may still be in the queue.
UrWatch(w) ==
  LET e == <<w, "poll">> IN
  /\ e \notin used /\ used' = used \cup {e}
  /\ UNCHANGED <<cq, urPending, watchFd, spoken>>
  /\ \/ Busy /\ UNCHANGED <<watches, active, silenced, rewatched, failed>>
     \/ Refused(e) /\ failed' = TRUE /\ UNCHANGED <<watches, active, silenced, rewatched>>
     \/ /\ Sent(e) /\ UNCHANGED failed
        /\ watches' = Append(watches, w) /\ active' = active \cup {w}
        /\ silenced' = silenced \ {watchFd[w]}
        /\ rewatched' = (rewatched \/ \E v \in Range(watches) : watchFd[v] = watchFd[w])

\* qd_ur_unwatch_fd deactivates the first watch of the descriptor; the entry
\* stays on the list until the backend is destroyed.
UrUnwatch(fd) ==
  LET ws == SelectSeq(watches, LAMBDA w : watchFd[w] = fd) IN
  /\ ws # <<>>
  /\ active' = active \ {Head(ws)}
  /\ silenced' = silenced \cup {fd}
  /\ UNCHANGED <<sq, inflight, cq, urPending, used, watches, watchFd, rewatched,
                 failed, spoken>>

-----------------------------------------------------------------------------
(* qd_ur_wait takes the completions one by one: qd_ur_handle_cqe *)

HandleRequest ==
  LET c == Head(cq) IN
  /\ cq # <<>> /\ c.entry[1] \notin Range(watches)
  /\ cq' = Tail(cq)
  /\ urPending' = IF c.more THEN urPending ELSE urPending - 1
  /\ UNCHANGED <<sq, inflight, used, watchVars, failed, spoken>>

\* Defect: the watch is not polled again.
HandleWatchOnce ==
  LET w == Head(cq).entry[1] IN
  /\ cq # <<>> /\ w \in Range(watches)
  /\ cq' = Tail(cq)
  /\ spoken' = (spoken \/ (w \in active /\ watchFd[w] \in silenced))
  /\ UNCHANGED <<sq, inflight, failed, urPending, used, watchVars>>

\* An inactive watch is dropped; an active one is reported and polled again,
\* and a failure to do so goes unnoticed.
HandleWatch ==
  LET w == Head(cq).entry[1] IN
  /\ cq # <<>> /\ w \in Range(watches)
  /\ cq' = Tail(cq)
  /\ \/ w \notin active /\ UNCHANGED <<sq, inflight, failed, spoken>>
     \/ /\ w \in active
        /\ spoken' = (spoken \/ watchFd[w] \in silenced)
        /\ \/ Sent(<<w, "poll">>) /\ UNCHANGED failed
           \/ Refused(<<w, "poll">>) /\ failed' = TRUE
           \/ Busy /\ failed' = TRUE
  /\ UNCHANGED <<urPending, used, watchVars>>

URNext ==
  \/ \E o \in UrOps : UrSubmit(<<o, "op">>)
  \/ \E o \in Tried : UrSubmit(<<o, "multi">>)
  \/ \E o \in Tried : <<o, "op">> \in used /\ UrSubmit(<<o, "cancel">>)
  \/ UrTimeout
  \/ \E S \in SUBSET UrOps : UrSubmitBatch(S)
  \/ \E e \in inflight : KernelCompletes(e)
  \/ \E w \in UrWatches : UrWatch(w)
  \/ \E fd \in UrFds : UrUnwatch(fd)
  \/ HandleRequest \/ HandleWatch

URSpec == URInit /\ [][URNext]_urVars

-----------------------------------------------------------------------------

Entries == (UrOps \X {"op", "multi", "cancel"}) \cup (UrWatches \X {"poll"}) \cup {Junk}

URTypeOK ==
  /\ sq \in Seq(Entries) /\ Len(sq) <= Depth /\ inflight \subseteq Entries
  /\ urPending \in Int /\ Range(watches) \subseteq UrWatches /\ active \subseteq UrWatches

Requests(S) == {e \in S : e[2] \in {"op", "multi", "cancel"}}

\* ur->pending is the number of requests the kernel has or has finished and the
\* loop has not seen, as long as every submit succeeded.
UrPendingExact ==
  ~failed => urPending = Cardinality(Requests(inflight))
               + Cardinality({i \in DOMAIN cq : ~cq[i].more /\ cq[i].entry[2] # "poll"})

\* As long as every submit succeeded, an active watch always has one poll: in
\* the kernel or as a completion the loop will see; no notification is lost.
WatchArmed ==
  ~failed => \A w \in active :
    Cardinality({i \in DOMAIN cq : cq[i].entry = <<w, "poll">>})
      + (IF <<w, "poll">> \in inflight THEN 1 ELSE 0) = 1

\* After qd_aio_channel_unwatch no completion of the channel is delivered,
\* unless its descriptor was watched, unwatched and watched again.
UnwatchSilences == ~rewatched => ~spoken
=============================================================================
