------------------------------- MODULE Handler -------------------------------
(***************************************************************************)
(* The handler tables of the core library.  qd_handler.c: a hash table of  *)
(* message handlers, dispatch with its hooks and counters, where the       *)
(* handler may itself change the table, and the response buffer of a       *)
(* handler context.  qd_signal.c: the table of signal handlers.            *)
(***************************************************************************)
EXTENDS Naturals, Sequences, SequencesExt, FiniteSetsExt

CONSTANTS Cmds, Buckets, Hash(_), MaxEntries, MaxCalls, Lengths, MaxCap

VARIABLES buckets,   \* bucket to chain of commands
          count,     \* num_handlers
          calls, unknown, errors,     \* counters of the table
          nodeCalls,                  \* call_count of a command's node
          busy,      \* the command whose handler runs, or NoCmd
          cut,       \* history: the running handler's node was freed
          skipped, past,  \* history: calls a hook refused; of nodes that are gone
          resp       \* response buffer: len, cap, and the bytes allocated

hdVars == <<buckets, count, calls, unknown, errors, nodeCalls, busy, cut, skipped, past, resp>>
tableVars == <<buckets, count>>
countVars == <<calls, unknown, errors, nodeCalls, skipped, past>>

NoCmd == 0   \* not a command

HDInit == /\ buckets = [b \in Buckets |-> <<>>] /\ count = 0
          /\ calls = 0 /\ unknown = 0 /\ errors = 0 /\ nodeCalls = [c \in Cmds |-> 0]
          /\ busy = NoCmd /\ cut = FALSE /\ skipped = 0 /\ past = 0
          /\ resp = [len |-> 0, cap |-> 0, alloc |-> 0]

Chain(c) == buckets[Hash(c)]
FindHandler(c) == Contains(Chain(c), c)

\* Defect: the search for the command is left out.
RegisterFnBlind(c) ==
  /\ count < MaxEntries
  /\ buckets' = [buckets EXCEPT ![Hash(c)] = <<c>> \o @] /\ count' = count + 1
  /\ nodeCalls' = [nodeCalls EXCEPT ![c] = 0]
  /\ UNCHANGED <<calls, unknown, errors, busy, cut, skipped, past, resp>>

\* A full table is refused before the search; a command that is there is
\* replaced in place and keeps its counters; a new one goes to the head.
RegisterFn(c) ==
  /\ count < MaxEntries
  /\ IF FindHandler(c) THEN UNCHANGED <<buckets, count, nodeCalls>>
     ELSE /\ buckets' = [buckets EXCEPT ![Hash(c)] = <<c>> \o @] /\ count' = count + 1
          /\ nodeCalls' = [nodeCalls EXCEPT ![c] = 0]
  /\ UNCHANGED <<calls, unknown, errors, busy, cut, skipped, past, resp>>

HandlerUnregister(c) ==
  /\ FindHandler(c)
  /\ buckets' = [buckets EXCEPT ![Hash(c)] = RemoveFirst(@, c)] /\ count' = count - 1
  /\ past' = past + nodeCalls[c] /\ nodeCalls' = [nodeCalls EXCEPT ![c] = 0]
  /\ cut' = (cut \/ busy = c)
  /\ UNCHANGED <<calls, unknown, errors, busy, skipped, resp>>

\* qd_handler_dispatch_cmd up to the call of the handler: the pre-hook may
\* refuse; without an entry the default handler, if any, is called.
Dispatch(c) ==
  /\ busy = NoCmd /\ calls < MaxCalls /\ calls' = calls + 1
  /\ \/ skipped' = skipped + 1 /\ UNCHANGED <<unknown, busy>>
     \/ IF FindHandler(c) THEN busy' = c /\ UNCHANGED <<unknown, skipped>>
        ELSE unknown' = unknown + 1 /\ UNCHANGED <<busy, skipped>>
  /\ UNCHANGED <<tableVars, errors, nodeCalls, cut, past, resp>>

\* The handler has returned: its node is counted.  When the handler freed the
\* node, the counters of a freed node are written.
DispatchEnd(failed) ==
  /\ busy # NoCmd /\ busy' = NoCmd /\ cut' = FALSE
  /\ errors' = IF failed THEN errors + 1 ELSE errors
  /\ IF cut THEN past' = past + 1 /\ UNCHANGED nodeCalls
     ELSE nodeCalls' = [nodeCalls EXCEPT ![busy] = @ + 1] /\ UNCHANGED past
  /\ UNCHANGED <<tableVars, calls, unknown, skipped, resp>>

-----------------------------------------------------------------------------
(* Response buffer *)

Rest == UNCHANGED <<tableVars, countVars, busy, cut>>

SetResponse(n) ==
  /\ busy # NoCmd /\ Rest
  /\ resp' = IF resp.cap > 0 THEN [resp EXCEPT !.len = IF n > resp.cap THEN resp.cap ELSE n]
             ELSE [len |-> n, cap |-> n, alloc |-> n]

\* Doubling from a first size of 2 (256 in the code) until it fits
Grown(cap, need) == LET start == IF cap = 0 THEN 2 ELSE cap * 2 IN
  Min({start * k : k \in {1, 2, 4, 8, 16}} \cap need..(64 * need + 64))

AppendResponse(n) ==
  /\ busy # NoCmd /\ Rest /\ resp.len + n <= MaxCap
  /\ LET new == resp.len + n IN
     resp' = IF new > resp.cap THEN [len |-> new, cap |-> Grown(resp.cap, new), alloc |-> Grown(resp.cap, new)]
             ELSE [resp EXCEPT !.len = new]

AllocResponse(n) ==
  /\ busy # NoCmd /\ Rest
  /\ resp' = IF resp.cap >= n THEN [resp EXCEPT !.len = n] ELSE [len |-> n, cap |-> n, alloc |-> n]

HDNext == \/ \E c \in Cmds : RegisterFn(c) \/ HandlerUnregister(c) \/ Dispatch(c)
          \/ \E failed \in BOOLEAN : DispatchEnd(failed)
          \/ \E n \in Lengths : SetResponse(n) \/ AppendResponse(n) \/ AllocResponse(n)

-----------------------------------------------------------------------------

\* A command is in the chain of its hash and there once, and num_handlers
\* counts the entries, also when a handler changes the table it is called from.
ChainExact ==
  /\ \A b \in Buckets : /\ \A i \in DOMAIN buckets[b] : Hash(buckets[b][i]) = b
                        /\ IsInjective(buckets[b])
  /\ count = FoldFunction(LAMBDA s, n : Len(s) + n, 0, buckets)

\* Every dispatch is accounted for: refused by the hook, unknown, counted by
\* a node or still running.
CallsAdd ==
  calls = skipped + unknown + past + FoldFunction(+, 0, nodeCalls)
          + (IF busy = NoCmd THEN 0 ELSE 1)

\* The response never claims more bytes than are allocated.
ResponseFits == resp.len <= resp.cap /\ resp.cap = resp.alloc

-----------------------------------------------------------------------------
(* The table of qd_signal.c: qd_signal_register, _unregister, _init,       *)
(* _shutdown and the dispatch of qd_signal_process, each under             *)
(* g_signal.lock and so one step.  A handler is a name; "default" is the   *)
(* one qd_signal_init installs for the signals of Defaults.                *)

CONSTANTS Signo, TableSize,
          Defaults   \* the signals of qd_signal_init, in its order

VARIABLES handlers,     \* g_signal.handlers: [signo, handler]
          initialized,
          want,         \* history: what the last successful call asked for
          foreign,      \* history: a handler was there before qd_signal_init
          ran           \* history: handlers the last signal was given to

stVars == <<handlers, initialized, want, foreign, ran>>

NoHandler == "none"
Entry(s, h) == [signo |-> s, handler |-> h]

STInit == /\ handlers = <<>> /\ initialized = FALSE /\ foreign = FALSE /\ ran = <<>>
          /\ want = [s \in Signo |-> NoHandler]

Places(s) == {i \in DOMAIN handlers : handlers[i].signo = s}

\* qd_signal_init appends its handlers without looking at the table.
TableInit ==
  /\ ~initialized /\ initialized' = TRUE
  /\ Len(handlers) + Len(Defaults) <= TableSize
  /\ handlers' = handlers \o [i \in DOMAIN Defaults |-> Entry(Defaults[i], "default")]
  /\ want' = [s \in Signo |-> IF \E i \in DOMAIN Defaults : Defaults[i] = s
                              THEN "default" ELSE want[s]]
  /\ foreign' = (foreign \/ handlers # <<>>) /\ UNCHANGED ran

TableShutdown ==
  /\ initialized /\ initialized' = FALSE /\ handlers' = <<>> /\ foreign' = FALSE
  /\ want' = [s \in Signo |-> NoHandler] /\ UNCHANGED ran

\* A full table refuses also the replacement of an entry.
Register(s, h) ==
  /\ IF Len(handlers) >= TableSize THEN UNCHANGED <<handlers, want>>
     ELSE /\ handlers' = IF Places(s) = {} THEN Append(handlers, Entry(s, h))
                         ELSE LET i == CHOOSE i \in Places(s) : \A j \in Places(s) : i <= j
                              IN [handlers EXCEPT ![i] = Entry(s, h)]
          /\ want' = [want EXCEPT ![s] = h]
  /\ UNCHANGED <<initialized, foreign, ran>>

\* The first entry is taken out and the rest moved down.
Unregister(s) ==
  /\ Places(s) # {}
  /\ LET i == CHOOSE i \in Places(s) : \A j \in Places(s) : i <= j IN
     handlers' = SubSeq(handlers, 1, i - 1) \o SubSeq(handlers, i + 1, Len(handlers))
  /\ want' = [want EXCEPT ![s] = NoHandler] /\ UNCHANGED <<initialized, foreign, ran>>

\* Every entry of the signal is called, in order.
TableDispatch(s) ==
  /\ initialized
  /\ LET mine == SelectSeq(handlers, LAMBDA e : e.signo = s) IN
     ran' = [i \in DOMAIN mine |-> mine[i].handler]
  /\ UNCHANGED <<handlers, initialized, want, foreign>>

STNext == \/ TableInit \/ TableShutdown
          \/ \E s \in Signo : \/ Unregister(s) \/ TableDispatch(s)
                              \/ \E h \in {"h1", "h2"} : Register(s, h)

-----------------------------------------------------------------------------

\* A signal is given to the handler registered last for it and to no other,
\* through any sequence of replacements, removals, shutdowns and starts; as
\* long as the table was empty when qd_signal_init filled it.
HandlerExact ==
  foreign \/ \A s \in Signo :
    LET mine == SelectSeq(handlers, LAMBDA e : e.signo = s) IN
    mine = IF want[s] = NoHandler THEN <<>> ELSE <<Entry(s, want[s])>>
=============================================================================
