------------------------------ MODULE QdcClient ------------------------------
(***************************************************************************)
(* The client library (client/src): threads that share one qdc_client_t    *)
(* and its blocking requests, and the table of asynchronous requests.  A   *)
(* response is three cells on the socket, its header, the service name and *)
(* the payload, each read by one recv_full.  The server (external)         *)
(* answers requests in order and may broadcast events in between.          *)
(***************************************************************************)
EXTENDS Naturals, Sequences, FiniteSets

CONSTANTS Threads,
          MaxCalls,     \* calls made, over all threads
          MaxEvents,    \* broadcasts of the server
          MAX_PENDING

VARIABLES connected, mutex, next_msg_id,   \* of the qdc_client_t; mutex is client->lock
          pending, count, plock,           \* g_pending
          call,      \* per thread: pc, kind, number of the call, id, cells it read
          coming,    \* cells the server has still to write
          socket,    \* cells to be read
          calls, events,
          torn,      \* history: a call left the stream in the middle of a message
          raced,     \* history: threads that had passed the connected test when a
                     \* timeout of another thread closed the connection
          owed,      \* history: asynchronous calls that were accepted and returned
          answered   \* history: callbacks made for each call

qcVars == <<connected, mutex, next_msg_id, pending, count, plock, call, coming, socket,
            calls, events, torn, raced, owed, answered>>

NoOne == 0
Slots == 1..MAX_PENDING
NoCall == [pc |-> "idle", kind |-> "none", n |-> 0, id |-> 0, header |-> 0, payload |-> 0]
Parts(id, type) == << [part |-> "header", id |-> id, type |-> type],
                        [part |-> "name", id |-> id, type |-> type],
                        [part |-> "payload", id |-> id, type |-> type] >>
Active == {s \in Slots : pending[s] # NoOne}

\* qdc_connect_ex and do_connect.  pending[s] is the call whose callback slot
\* s holds; msg_id of a slot is never set, so it is always 0.
QCInit ==
  /\ connected = TRUE /\ mutex = NoOne /\ next_msg_id = 0
  /\ pending = [s \in Slots |-> NoOne] /\ count = 0 /\ plock = NoOne
  /\ call = [t \in Threads |-> NoCall] /\ coming = <<>> /\ socket = <<>>
  /\ calls = 0 /\ events = 0 /\ torn = FALSE /\ raced = {} /\ owed = {}
  /\ answered = [n \in 1..MaxCalls |-> 0]

At(t, pc) == call[t].pc = pc
Goto(t, pc) == call' = [call EXCEPT ![t].pc = pc]
TableSame == UNCHANGED <<pending, count, plock, owed, answered>>
WireSame == UNCHANGED <<coming, socket, events>>

-----------------------------------------------------------------------------
(* qdc_request_timeout and qdc_notify *)

Begin(t, kind, pc) ==
  /\ At(t, "idle") /\ calls < MaxCalls /\ calls' = calls + 1
  /\ call' = [call EXCEPT ![t] = [NoCall EXCEPT !.pc = pc, !.kind = kind, !.n = calls + 1]]

QdcCall(t, kind) ==
  /\ kind \in {"request", "notify"} /\ Begin(t, kind, "check")
  /\ UNCHANGED <<connected, mutex, next_msg_id, torn, raced>> /\ TableSame /\ WireSame

\* `connected` is tested before the lock is taken.
CheckConnected(t) ==
  /\ At(t, "check")
  /\ Goto(t, IF connected THEN "wait" ELSE "null")
  /\ raced' = IF \E u \in Threads : At(u, "drop") THEN raced \cup {t} ELSE raced
  /\ UNCHANGED <<connected, mutex, next_msg_id, calls, torn>> /\ TableSame /\ WireSame

\* The lock is taken, the message is numbered and send_full writes all of it.
SendRequest(t) ==
  /\ At(t, "wait") /\ mutex = NoOne
  /\ next_msg_id' = next_msg_id + 1
  /\ IF call[t].kind = "notify"
     THEN mutex' = NoOne /\ Goto(t, "null") /\ UNCHANGED coming
     ELSE /\ mutex' = t /\ coming' = coming \o Parts(next_msg_id + 1, "response")
          /\ call' = [call EXCEPT ![t].pc = "header", ![t].id = next_msg_id + 1]
  /\ UNCHANGED <<connected, socket, calls, events, torn, raced>> /\ TableSame

\* send_full fails: a request clears `connected` after the unlock, a
\* notification before.
SendFails(t) ==
  /\ At(t, "wait") /\ mutex = NoOne
  /\ next_msg_id' = next_msg_id + 1
  /\ IF call[t].kind = "notify"
     THEN connected' = FALSE /\ Goto(t, "null")
     ELSE Goto(t, "drop") /\ UNCHANGED connected
  /\ raced' = raced \cup {u \in Threads \ {t} : At(u, "wait")}
  /\ UNCHANGED <<mutex, calls, torn>> /\ TableSame /\ WireSame

\* The response header; one of another kind, or what is not a header, ends
\* the call with the rest of its message unread.
RecvHeader(t) ==
  /\ At(t, "header") /\ socket # <<>> /\ socket' = Tail(socket)
  /\ LET cell == Head(socket) IN
     IF cell.part = "header" /\ cell.type = "response"
     THEN /\ call' = [call EXCEPT ![t].pc = "name", ![t].header = cell.id]
          /\ UNCHANGED <<mutex, torn>>
     ELSE Goto(t, "null") /\ mutex' = NoOne /\ torn' = TRUE
  /\ UNCHANGED <<connected, next_msg_id, calls, raced, coming, events>> /\ TableSame

\* A bug: the connection stays in use after the timeout.
RecvTimeoutStays(t) ==
  /\ At(t, "header") /\ socket = <<>>
  /\ mutex' = NoOne /\ Goto(t, "null")
  /\ UNCHANGED <<connected, next_msg_id, calls, torn, raced>> /\ TableSame /\ WireSame

\* recv_full of the header fails: the lock is released before `connected` is
\* cleared.
RecvTimeout(t) ==
  /\ At(t, "header") /\ socket = <<>>
  /\ mutex' = NoOne /\ Goto(t, "drop")
  /\ raced' = raced \cup {u \in Threads : At(u, "wait")}
  /\ UNCHANGED <<connected, next_msg_id, calls, torn>> /\ TableSame /\ WireSame

Drop(t) ==
  /\ At(t, "drop") /\ connected' = FALSE /\ Goto(t, "null")
  /\ UNCHANGED <<mutex, next_msg_id, calls, torn, raced>> /\ TableSame /\ WireSame

\* The service name is skipped; that it was not there is not noticed.
RecvName(t) ==
  /\ At(t, "name") /\ Goto(t, "payload")
  /\ IF socket = <<>> THEN torn' = TRUE /\ UNCHANGED socket
     ELSE socket' = Tail(socket) /\ UNCHANGED torn
  /\ UNCHANGED <<connected, mutex, next_msg_id, calls, raced, coming, events>> /\ TableSame

\* The payload; without it (or without memory for it) the call fails and
\* leaves `connected` set.
RecvPayload(t) ==
  /\ At(t, "payload") /\ mutex' = NoOne
  /\ \/ /\ socket # <<>> /\ socket' = Tail(socket)
        /\ call' = [call EXCEPT ![t].pc = "answer", ![t].payload = Head(socket).id]
        /\ UNCHANGED torn
     \/ Goto(t, "null") /\ torn' = TRUE /\ UNCHANGED socket
  /\ UNCHANGED <<connected, next_msg_id, calls, raced, coming, events>> /\ TableSame

\* A blocking call returns.
CallReturns(t) ==
  /\ At(t, "null") \/ At(t, "answer")
  /\ call[t].kind # "async" /\ call' = [call EXCEPT ![t] = NoCall]
  /\ UNCHANGED <<connected, mutex, next_msg_id, calls, torn, raced>> /\ TableSame /\ WireSame

\* External: the server writes a cell, or decides to broadcast.
ServerWrites ==
  /\ coming # <<>> /\ coming' = Tail(coming) /\ socket' = Append(socket, Head(coming))
  /\ UNCHANGED <<connected, mutex, next_msg_id, call, calls, events, torn, raced>> /\ TableSame

ServerEvent ==
  /\ events < MaxEvents /\ events' = events + 1
  /\ coming' = coming \o Parts(0, "event")
  /\ UNCHANGED <<connected, mutex, next_msg_id, call, socket, calls, torn, raced>> /\ TableSame

-----------------------------------------------------------------------------
(* The table of asynchronous requests *)

ClientSame == UNCHANGED <<connected, mutex, next_msg_id, torn, raced, coming, socket, events>>
FreeSlot == CHOOSE s \in Slots : pending[s] = NoOne /\ \A u \in Slots : u < s => pending[u] # NoOne

\* qdc_request_async holds g_pending.lock over the blocking request.
AsyncCall(t) ==
  /\ plock = NoOne /\ Begin(t, "async", "check")
  /\ count < MAX_PENDING /\ plock' = t
  /\ ClientSame /\ UNCHANGED <<pending, count, owed, answered>>

AsyncRefused(t) ==
  /\ At(t, "idle") /\ calls < MaxCalls /\ plock = NoOne /\ count >= MAX_PENDING
  /\ calls' = calls + 1 /\ ClientSame /\ TableSame /\ UNCHANGED call

\* With a response the callback runs at once; without one it is stored.
AsyncReturn(t) ==
  /\ call[t].kind = "async" /\ plock' = NoOne /\ call' = [call EXCEPT ![t] = NoCall]
  /\ owed' = owed \cup {call[t].n}
  /\ \/ /\ At(t, "answer") /\ answered' = [answered EXCEPT ![call[t].n] = @ + 1]
        /\ UNCHANGED <<pending, count>>
     \/ /\ At(t, "null") /\ pending' = [pending EXCEPT ![FreeSlot] = call[t].n]
        /\ count' = count + 1 /\ UNCHANGED answered
  /\ ClientSame /\ UNCHANGED calls

\* qdc_async_complete of message id 0, the only one a slot ever has
AsyncComplete ==
  /\ plock = NoOne /\ Active # {}
  /\ LET s == CHOOSE s \in Active : \A u \in Active : s <= u IN
     /\ answered' = [answered EXCEPT ![pending[s]] = @ + 1]
     /\ pending' = [pending EXCEPT ![s] = NoOne]
  /\ count' = count - 1
  /\ ClientSame /\ UNCHANGED <<plock, call, calls, owed>>

CallBack(S) == answered' = [n \in 1..MaxCalls |->
                              IF \E s \in S : pending[s] = n THEN answered[n] + 1 ELSE answered[n]]

\* qdc_async_cancel_all; every callback runs with the lock held.
AsyncCancelAll ==
  /\ plock = NoOne /\ CallBack(Active)
  /\ pending' = [s \in Slots |-> NoOne] /\ count' = 0
  /\ ClientSame /\ UNCHANGED <<plock, call, calls, owed>>

QCNext ==
  \/ \E t \in Threads : \/ QdcCall(t, "request") \/ QdcCall(t, "notify") \/ CheckConnected(t) \/ SendRequest(t)
                        \/ SendFails(t) \/ RecvHeader(t) \/ RecvTimeout(t) \/ Drop(t)
                        \/ RecvName(t) \/ RecvPayload(t) \/ CallReturns(t) \/ AsyncCall(t)
                        \/ AsyncRefused(t) \/ AsyncReturn(t)
  \/ ServerWrites \/ ServerEvent \/ AsyncComplete \/ AsyncCancelAll

-----------------------------------------------------------------------------
(* Properties *)

\* qdc_request_timeout compares no message ids.  A response it returns is
\* nevertheless the one to its own request, unless an earlier call left the
\* stream in the middle of a message or a timeout closed the connection after
\* this call had tested `connected`.
OwnResponse ==
  \A t \in Threads :
    (At(t, "answer") /\ ~torn /\ t \notin raced) =>
       call[t].header = call[t].id /\ call[t].payload = call[t].id

\* An asynchronous call is answered once: when it has returned its callback
\* has run and its slot is free, or it has not and the slot is held, and
\* g_pending.count counts the slots that are held.
AnsweredOnce ==
  /\ count = Cardinality(Active)
  /\ \A n \in owed : answered[n] + Cardinality({s \in Slots : pending[s] = n}) = 1

\* A caller of the library gets the answer to its own request, and gets it once.
ClientExact == OwnResponse /\ AnsweredOnce
=============================================================================
