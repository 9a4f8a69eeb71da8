------------------------------- MODULE IpcUnix -------------------------------
(***************************************************************************)
(* The Unix-socket server and client of qd_ipc_unix.c, with the framing of *)
(* qd_ipc_protocol.c.  The byte stream is a sequence of cells: a message m *)
(* of Size(m) cells is <<m, 1>>, ..., <<m, Size(m)>>, its first two cells  *)
(* being the header, which tells the size.  Reads and writes move any      *)
(* number of cells that fits.  The server runs on one event loop,          *)
(* which sees a connection's socket edge-triggered; other threads may      *)
(* broadcast and change the services.  A client is used by one thread.     *)
(***************************************************************************)
EXTENDS Naturals, Sequences, SequencesExt, FiniteSets

CONSTANTS Clients,
          MaxConnections,
          MaxRequests(_),  \* requests and notifications a client makes
          MaxBroadcasts,
          RecvCap,         \* receive buffers, in cells
          WireCap,         \* socket buffers, in cells
          Size(_)          \* size of a message in cells, at least 3

VARIABLES backlog,   \* clients waiting to be accepted
          conns,     \* server->connections, newest first
          up, down,  \* socket buffers to and from the server
          edge,      \* an edge of the server's socket is to be reported
          inbuf,     \* conn->recv_buf
          at,        \* connection whose callback runs, or NoConn
          service,   \* a service is registered
          gone,      \* history: undefined behaviour was met
          full,      \* history: the last read stopped at a full buffer
          cut,       \* history: a message to this client was cut off
          sent,      \* history: messages a client has sent, in order
          handled,   \* history: messages the server has processed
          news,      \* broadcasts so far
          cl         \* the client side: state, id, out, buf, asked, fresh (has read), result

serverVars == <<backlog, conns, edge, inbuf, at, service, full, handled, news>>
ipcVars == <<backlog, conns, up, down, edge, inbuf, at, service, gone, full, cut,
             sent, handled, news, cl>>

NoConn == "none"
Msg(kind, id) == [kind |-> kind, id |-> id]
Cells(m) == [i \in 1..Size(m) |-> <<m, i>>]
None == Msg("none", 0)

IPCInit ==
  /\ backlog = <<>> /\ conns = <<>> /\ at = NoConn /\ service = FALSE /\ gone = FALSE /\ news = 0
  /\ up = [c \in Clients |-> <<>>] /\ down = [c \in Clients |-> <<>>]
  /\ edge = [c \in Clients |-> FALSE] /\ inbuf = [c \in Clients |-> <<>>]
  /\ full = [c \in Clients |-> FALSE] /\ cut = [c \in Clients |-> FALSE]
  /\ sent = [c \in Clients |-> <<>>] /\ handled = [c \in Clients |-> <<>>]
  /\ cl = [c \in Clients |-> [state |-> "new", id |-> 0, out |-> <<>>, buf |-> <<>>,
                              asked |-> 0, fresh |-> FALSE, result |-> None]]

Connected(c) == c \in ToSet(conns)

-----------------------------------------------------------------------------
(* Framing: qd_ipc_msg_serialize and the parsing loops of both sides *)

\* What a reader makes of a buffer: the header cell gives the size, whatever
\* the cells after it are.
Complete(buf) == Len(buf) >= 2 /\ Len(buf) >= Size(buf[1][1])
BadHeader(buf) == Len(buf) >= 2 /\ buf[1][2] # 1
Frame(buf) == SubSeq(buf, 1, Size(buf[1][1]))
Intact(frame) == frame = Cells(frame[1][1])
Remaining(buf) == SubSeq(buf, Size(buf[1][1]) + 1, Len(buf))

-----------------------------------------------------------------------------
(* Clients *)

Client(c, new) == cl' = [cl EXCEPT ![c] = new]
ServerSame == UNCHANGED <<serverVars, gone>>

\* qd_ipc_client_connect
ClientConnect(c) ==
  /\ cl[c].state = "new" /\ Client(c, [cl[c] EXCEPT !.state = "idle"])
  /\ backlog' = Append(backlog, c)
  /\ UNCHANGED <<conns, up, down, edge, inbuf, at, service, gone, full, cut, sent, handled, news>>

\* qd_ipc_client_request and qd_ipc_client_notify, up to the first write
ClientCall(c, kind) ==
  /\ cl[c].state = "idle" /\ cl[c].id < MaxRequests(c)
  /\ LET m == Msg(kind, cl[c].id + 1) IN
     /\ Client(c, [cl[c] EXCEPT !.state = "sending", !.id = @ + 1, !.out = Cells(m), !.result = None,
                                !.fresh = FALSE,
                                !.asked = IF kind = "request" THEN m.id ELSE 0])
     /\ sent' = [sent EXCEPT ![c] = Append(@, m)]
  /\ UNCHANGED <<up, down, cut>> /\ ServerSame

\* One write of qd_ipc_client_send; after the last one a request waits.
ClientWrite(c) ==
  /\ cl[c].state = "sending" /\ cl[c].out # <<>>
  /\ \E n \in 1..Len(cl[c].out) :
       /\ Len(up[c]) + n <= WireCap
       /\ up' = [up EXCEPT ![c] = @ \o SubSeq(cl[c].out, 1, n)]
       /\ LET left == SubSeq(cl[c].out, n + 1, Len(cl[c].out)) IN
          Client(c, [cl[c] EXCEPT !.out = left,
                     !.state = IF left # <<>> THEN "sending"
                               ELSE IF cl[c].asked # 0 THEN "waiting" ELSE "idle"])
  /\ edge' = [edge EXCEPT ![c] = Connected(c)]
  /\ UNCHANGED <<backlog, conns, down, inbuf, at, service, gone, full, cut, sent, handled, news>>

\* One read of qd_ipc_client_recv.  What an earlier call left in the buffer is
\* looked at after a read only, unless there is no room to read.
Looks(c) == cl[c].fresh \/ Len(cl[c].buf) = RecvCap
ClientRead(c) ==
  /\ cl[c].state = "waiting" /\ down[c] # <<>> /\ Len(cl[c].buf) < RecvCap
  /\ ~(cl[c].fresh /\ Complete(cl[c].buf))
  /\ \E n \in 1..Len(down[c]) :
       /\ Len(cl[c].buf) + n <= RecvCap
       /\ Client(c, [cl[c] EXCEPT !.buf = @ \o SubSeq(down[c], 1, n), !.fresh = TRUE])
       /\ down' = [down EXCEPT ![c] = SubSeq(@, n + 1, Len(@))]
  /\ UNCHANGED <<up, cut, sent>> /\ ServerSame

\* The message that is complete: anything but the response to this request
\* makes the request fail, and is consumed.
ClientRecv(c) ==
  /\ cl[c].state = "waiting" /\ Looks(c) /\ Complete(cl[c].buf) /\ ~BadHeader(cl[c].buf)
  /\ LET m == cl[c].buf[1][1] IN
     Client(c, [cl[c] EXCEPT !.state = "idle", !.buf = Remaining(@),
                             !.result = IF m.id # cl[c].asked THEN None
                                        ELSE IF Intact(Frame(cl[c].buf)) THEN m
                                        ELSE Msg("torn", m.id)])
  /\ UNCHANGED <<up, down, cut, sent>> /\ ServerSame

\* QD_ERR_TIMEOUT, QD_ERR_PROTO and QD_ERR_IO: the request fails and the buffer
\* stays.
ClientFails(c) ==
  /\ cl[c].state = "waiting" /\ Client(c, [cl[c] EXCEPT !.state = "idle", !.result = None])
  /\ UNCHANGED <<up, down, cut, sent>> /\ ServerSame

\* qd_ipc_client_disconnect
ClientDisconnect(c) ==
  /\ cl[c].state = "idle" /\ Client(c, [cl[c] EXCEPT !.state = "closed"])
  /\ edge' = [edge EXCEPT ![c] = Connected(c)]
  /\ UNCHANGED <<backlog, conns, up, down, inbuf, at, service, gone, full, cut, sent, handled, news>>

-----------------------------------------------------------------------------
(* Server *)

\* server_accept_callback for one client; what is over the limit is closed.
Accept ==
  /\ at = NoConn /\ backlog # <<>> /\ backlog' = Tail(backlog)
  /\ LET c == Head(backlog) IN
     IF Len(conns) >= MaxConnections
     THEN /\ cl' = [cl EXCEPT ![c].state = "closed"] /\ UNCHANGED <<conns, edge>>
     ELSE /\ conns' = <<c>> \o conns /\ UNCHANGED cl
          /\ edge' = [edge EXCEPT ![c] = up[c] # <<>> \/ cl[c].state = "closed"]
  /\ UNCHANGED <<up, down, inbuf, at, service, gone, full, cut, sent, handled, news>>

\* qd_ipc_server_disconnect: unlinked, closed and freed; the peer is closed.
Disconnected(c) ==
  /\ conns' = SelectSeq(conns, LAMBDA d : d # c)
  /\ inbuf' = [inbuf EXCEPT ![c] = <<>>] /\ edge' = [edge EXCEPT ![c] = FALSE]
  /\ up' = [up EXCEPT ![c] = <<>>] /\ cl' = [cl EXCEPT ![c].state = "closed"]

\* Defect: one read, of at most two cells, and no loop around it.
ReadOnce(c) ==
  /\ at = NoConn /\ Connected(c) /\ edge[c] /\ cl[c].state # "closed"
  /\ LET n == IF Len(up[c]) > 2 THEN 2 ELSE Len(up[c]) IN
     /\ inbuf' = [inbuf EXCEPT ![c] = @ \o SubSeq(up[c], 1, n)]
     /\ up' = [up EXCEPT ![c] = SubSeq(@, n + 1, Len(@))]
  /\ at' = c /\ edge' = [edge EXCEPT ![c] = FALSE]
  /\ UNCHANGED <<backlog, conns, down, service, gone, full, cut, sent, handled, news, cl>>

\* conn_read_callback: everything that is there and fits is read.
Read(c) ==
  /\ at = NoConn /\ Connected(c) /\ edge[c] /\ cl[c].state # "closed"
  /\ LET space == RecvCap - Len(inbuf[c])
         n == IF Len(up[c]) > space THEN space ELSE Len(up[c]) IN
     /\ inbuf' = [inbuf EXCEPT ![c] = @ \o SubSeq(up[c], 1, n)]
     /\ up' = [up EXCEPT ![c] = SubSeq(@, n + 1, Len(@))]
     /\ full' = [full EXCEPT ![c] = n = space]
  /\ at' = c /\ edge' = [edge EXCEPT ![c] = FALSE]
  /\ UNCHANGED <<backlog, conns, down, service, gone, cut, sent, handled, news, cl>>

\* A hangup is looked at before the data.
ReadHangup(c) ==
  /\ at = NoConn /\ Connected(c) /\ edge[c] /\ cl[c].state = "closed" /\ Disconnected(c)
  /\ UNCHANGED <<backlog, down, at, service, gone, full, cut, sent, handled, news>>

\* qd_ipc_server_send of cells to a socket buffer: what does not fit is dropped.
Sent(s, wire, c) ==
  LET room == WireCap - Len(wire)
      n == IF Len(s) > room THEN room ELSE Len(s) IN
  [wire |-> wire \o SubSeq(s, 1, n), cut |-> cut[c] \/ n < Len(s)]

\* One message of the buffer: its handler may reply, and the rest is moved to
\* the front.
Process(c) ==
  /\ at = c /\ Complete(inbuf[c]) /\ ~BadHeader(inbuf[c])
  /\ LET m == inbuf[c][1][1]
         r == Sent(Cells(Msg("response", m.id)), down[c], c) IN
     /\ handled' = [handled EXCEPT ![c] = Append(@, IF Intact(Frame(inbuf[c])) THEN m ELSE None)]
     /\ IF service /\ m.kind = "request" /\ cl[c].state # "closed"
        THEN down' = [down EXCEPT ![c] = r.wire] /\ cut' = [cut EXCEPT ![c] = r.cut]
        ELSE UNCHANGED <<down, cut>>
  /\ inbuf' = [inbuf EXCEPT ![c] = Remaining(@)]
  /\ UNCHANGED <<backlog, conns, up, edge, at, service, gone, full, sent, news, cl>>

\* The handler disconnects the connection whose buffer is being worked on: the
\* buffer is used after it was freed.
ProcessDisconnects(c) ==
  /\ at = c /\ Complete(inbuf[c]) /\ service /\ gone' = TRUE
  /\ UNCHANGED <<up, down, cut, sent, cl>> /\ UNCHANGED serverVars

ProcessDone(c) ==
  /\ at = c /\ ~Complete(inbuf[c]) /\ ~BadHeader(inbuf[c]) /\ at' = NoConn
  /\ UNCHANGED <<backlog, conns, up, down, edge, inbuf, service, gone, full, cut, sent, handled, news, cl>>

\* What is not a header ends the connection.
ProcessBad(c) ==
  /\ at = c /\ BadHeader(inbuf[c]) /\ Disconnected(c) /\ at' = NoConn
  /\ UNCHANGED <<backlog, down, service, gone, full, cut, sent, handled, news>>

\* qd_ipc_server_broadcast, under the lock, by any thread
Broadcast ==
  /\ news < MaxBroadcasts /\ news' = news + 1
  /\ LET s(c) == Sent(Cells(Msg("event", 0)), down[c], c) IN
     /\ down' = [c \in Clients |-> IF Connected(c) THEN s(c).wire ELSE down[c]]
     /\ cut' = [c \in Clients |-> IF Connected(c) THEN s(c).cut ELSE cut[c]]
  /\ UNCHANGED <<backlog, conns, up, edge, inbuf, at, service, gone, full, sent, handled, cl>>

\* qd_ipc_server_register_service and _unregister_service
SetService ==
  /\ service' = ~service
  /\ UNCHANGED <<backlog, conns, up, down, edge, inbuf, at, gone, full, cut, sent, handled, news, cl>>

IPCClient(c) == \/ ClientConnect(c) \/ ClientWrite(c) \/ ClientRead(c) \/ ClientRecv(c)
                \/ ClientFails(c) \/ ClientDisconnect(c)
                \/ \E kind \in {"request", "notify"} : ClientCall(c, kind)
IPCServer == \/ Accept
             \/ \E c \in Clients : \/ Read(c) \/ ReadHangup(c) \/ Process(c)
                                   \/ ProcessDisconnects(c) \/ ProcessDone(c) \/ ProcessBad(c)

IPCNext == /\ ~gone
           /\ (Broadcast \/ SetService \/ IPCServer \/ \E c \in Clients : IPCClient(c))

-----------------------------------------------------------------------------

\* However the stream is split into reads and writes, the server processes the
\* messages of a client whole, in order and once.
FramesInOrder == \A c \in Clients : IsPrefix(handled[c], sent[c])

\* When the server's loop is idle, data that is waiting will be reported, or
\* was left behind by a callback that filled its buffer: with edge-triggered
\* sockets nothing else may be left unread.
NoLostEdge ==
  \A c \in Clients : (at = NoConn /\ Connected(c) /\ up[c] # <<>>) => (edge[c] \/ full[c])

\* A request that succeeds has the whole response to this very request, also
\* after earlier requests timed out and between broadcasts; unless the server
\* has cut a message off at a full socket.
RequestMatched ==
  \A c \in Clients : \/ cl[c].result = None \/ cut[c]
                     \/ cl[c].result = Msg("response", cl[c].asked)

\* The stream between client and server is read whole, in order, without a
\* lost edge, and a request gets its own response.
UnixExact == FramesInOrder /\ NoLostEdge /\ RequestMatched

-----------------------------------------------------------------------------
(***************************************************************************)
(* The message format: how qd_ipc_protocol.c writes a message and reads it *)
(* back, and the header the client library (client/src/qdc_connect.c)      *)
(* writes for the same server.  A buffer is a sequence of 16-bit words; an *)
(* integer of several words has its lowest word first.                     *)
(***************************************************************************)

CONSTANTS WireIds, WireLens, WireServices,
          NAME_LEN,        \* QD_IPC_MAX_NAME_LEN, in words
          MAX_MSG_SIZE,
          Word             \* values of a word: 65536, or less for small instances

VARIABLES bytes,   \* what the client has written
          meant,   \* history: the message the client meant
          by,      \* who wrote it: the daemon's own client, or the client library
          read     \* what qd_ipc_msg_deserialize made of it

wireVars == <<bytes, meant, by, read>>

MAGIC == 20804          \* the words of QD_IPC_MAGIC do not matter
VERSION == 1
REQUEST == 4

\* struct qd_ipc_header: the words of each field, in order
ServerFields == << <<"magic", 2>>, <<"version", 1>>, <<"msg_type", 1>>, <<"msg_id", 2>>,
                   <<"payload_len", 2>>, <<"flags", 2>>, <<"timestamp", 4>> >>

\* struct qdc_header_t
LibraryFields == << <<"magic", 2>>, <<"version", 2>>, <<"msg_type", 2>>, <<"msg_id", 2>>,
                    <<"payload_len", 2>>, <<"flags", 2>>, <<"timestamp", 4>> >>

Words(v, n) == [i \in 1..n |-> (v \div Word^(i - 1)) % Word]
Value(ws) == FoldRight(LAMBDA x, acc : x + Word * acc, ws, 0)

Encode(header, fields) == FlattenSeq([i \in 1..Len(fields) |->
                                        Words(header[fields[i][1]], fields[i][2])])
Start(fields, i) == FoldLeft(LAMBDA acc, f : acc + f[2], 1, SubSeq(fields, 1, i - 1))
HeaderSize(fields) == Start(fields, Len(fields) + 1) - 1
Field(buf, fields, f) ==
  LET i == CHOOSE i \in 1..Len(fields) : fields[i][1] = f IN
  Value(SubSeq(buf, Start(fields, i), Start(fields, i) + fields[i][2] - 1))

Header(id, len) == [magic |-> MAGIC, version |-> VERSION, msg_type |-> REQUEST, msg_id |-> id,
                    payload_len |-> len, flags |-> 0, timestamp |-> 0]
Name(s) == [i \in 1..NAME_LEN |-> IF i = 1 THEN s ELSE 0]
Payload(n) == [i \in 1..n |-> 7]

\* A bug: the payload follows the header at once.
SerializeNoName(m) == Encode(Header(m.id, m.len), ServerFields) \o Payload(m.len)

\* qd_ipc_msg_serialize: header, service name, payload
Serialize(m) == Encode(Header(m.id, m.len), ServerFields) \o Name(m.service) \o Payload(m.len)

\* The three send_full calls of qdc_request_timeout
LibrarySerialize(m) ==
  Encode(Header(m.id, m.len), LibraryFields) \o Name(m.service) \o Payload(m.len)

Rejected == [type |-> 0, id |-> 0, service |-> 0, payload |-> <<>>]

\* qd_ipc_msg_deserialize
Deserialize(buf) ==
  LET H(f) == Field(buf, ServerFields, f)
      min_len == HeaderSize(ServerFields) + NAME_LEN IN
  IF \/ Len(buf) < min_len
     \/ H("magic") # MAGIC \/ H("version") # VERSION
     \/ H("payload_len") > MAX_MSG_SIZE
     \/ Len(buf) < min_len + H("payload_len")
  THEN Rejected
  ELSE [type |-> H("msg_type"), id |-> H("msg_id"),
        service |-> buf[HeaderSize(ServerFields) + 1],
        payload |-> SubSeq(buf, min_len + 1, min_len + H("payload_len"))]

Meanings == [id : WireIds, len : WireLens, service : WireServices]
NotRead == [Rejected EXCEPT !.type = 99]

WRInit == bytes = <<>> /\ meant \in Meanings /\ by = "none" /\ read = NotRead

\* qd_ipc_client_request builds a message with qd_ipc_msg_init and
\* qd_ipc_msg_set_payload, which refuses too long a payload.
ClientWrites ==
  /\ by = "none" /\ meant.len <= MAX_MSG_SIZE
  /\ by' = "client" /\ bytes' = Serialize(meant) /\ UNCHANGED <<meant, read>>

LibraryWrites ==
  /\ by = "none" /\ by' = "library" /\ bytes' = LibrarySerialize(meant)
  /\ UNCHANGED <<meant, read>>

ServerReads ==
  /\ by # "none" /\ read = NotRead /\ read' = Deserialize(bytes)
  /\ UNCHANGED <<bytes, meant, by>>

WRNext == ClientWrites \/ LibraryWrites \/ ServerReads
WRSpec == WRInit /\ [][WRNext]_wireVars

AsMeant == [type |-> REQUEST, id |-> meant.id, service |-> meant.service,
            payload |-> Payload(meant.len)]

\* The server reads from the daemon's own client the message it meant, for
\* every message id and payload length the format can hold.
WireRoundTrip == (by = "client" /\ read # NotRead) => read = AsMeant

\* "IPC protocol header - must match server": the server reads from the client
\* library the request it meant.
LibraryMatches == (by = "library" /\ read # NotRead) => read = AsMeant
=============================================================================
