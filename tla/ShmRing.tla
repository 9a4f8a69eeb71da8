------------------------------- MODULE ShmRing -------------------------------
(***************************************************************************)
(* The shared-memory ring of qd_ipc_shm.c between the process that created *)
(* it, which writes, and one that attaches, which reads.  Bytes are        *)
(* numbered in the order they are written.  Every access to the header is  *)
(* a step; the copies are one step each, which CopiesApart justifies.  A   *)
(* call asks for any number of bytes at once and waits, polling every      *)
(* millisecond at least, until all of it fits or is there.                 *)
(***************************************************************************)
EXTENDS Integers

CONSTANTS N,          \* data_size
          Lens,       \* lengths calls ask for
          MaxBytes    \* bytes written in a behaviour; bound of the model

ASSUME ShmAssumption == N \in Nat \ {0, 1} /\ Lens \subseteq 1..(N - 1) /\ MaxBytes \in Nat

VARIABLES header,    \* how far qd_shm_ring_create has come
          data, wpos, rpos, wwait, rwait,
          w,         \* writer: pc, the length, the write position it saw
          r,         \* reader: pc, the length, the read position it saw
          written, taken   \* history: bytes written and read

shmVars == <<header, data, wpos, rpos, wwait, rwait, w, r, written, taken>>

ShmInit == /\ header = "none" /\ data = [i \in 0..(N - 1) |-> 0]
           /\ wpos = 0 /\ rpos = 0 /\ wwait = 0 /\ rwait = 0 /\ written = 0 /\ taken = 0
           /\ w = [pc |-> "idle", len |-> 0, pos |-> 0]
           /\ r = [pc |-> "absent", len |-> 0, pos |-> 0]

Writer(pc) == w' = [w EXCEPT !.pc = pc]
Reader(pc) == r' = [r EXCEPT !.pc = pc]
DataSame == UNCHANGED <<header, data, wpos, rpos, written, taken>>

-----------------------------------------------------------------------------
(* qd_shm_ring_create and qd_shm_ring_attach *)

\* shm_open and ftruncate; magic and version; the size
ShmCreate ==
  /\ header # "ready"
  /\ header' = CASE header = "none" -> "zero" [] header = "zero" -> "magic"
                 [] header = "magic" -> "ready"
  /\ UNCHANGED <<data, wpos, rpos, wwait, rwait, w, r, written, taken>>

\* The size is read before the magic number is checked.
AttachSize ==
  /\ r.pc = "absent" /\ header # "none" /\ Reader(IF header = "ready" THEN "sized" ELSE "unsized")
  /\ DataSame /\ UNCHANGED <<wwait, rwait, w>>

\* A ring without a magic number is refused.  One whose size was read too
\* early is accepted with a size of 0 and cannot be used ("broken").
AttachCheck ==
  /\ r.pc \in {"sized", "unsized"}
  /\ Reader(IF header = "zero" THEN "absent" ELSE IF r.pc = "sized" THEN "idle" ELSE "broken")
  /\ DataSame /\ UNCHANGED <<wwait, rwait, w>>

-----------------------------------------------------------------------------
(* Positions *)

\* qd_shm_ring_write_available and qd_shm_ring_read_available
Free(wp, rp) == IF wp >= rp THEN N - (wp - rp) - 1 ELSE rp - wp - 1
Unread(wp, rp) == IF wp >= rp THEN wp - rp ELSE N - rp + wp

\* Defect: a full ring is not told from an empty one.
FreeAll(wp, rp) == IF wp >= rp THEN N - (wp - rp) ELSE rp - wp

\* The bytes a copy of len bytes from pos touches, around the end
Span(pos, len) == {(pos + k) % N : k \in 0..(len - 1)}
Offset(pos, i) == IF i >= pos THEN i - pos ELSE N - pos + i

-----------------------------------------------------------------------------
(* qd_shm_ring_write_timeout *)

WCall(len) ==
  /\ header = "ready" /\ w.pc = "idle" /\ written + len <= MaxBytes
  /\ w' = [pc |-> "look", len |-> len, pos |-> wpos]
  /\ DataSame /\ UNCHANGED <<wwait, rwait, r>>

\* Defect: see FreeAll.
WLookFull ==
  /\ w.pc = "look"
  /\ Writer(IF FreeAll(wpos, rpos) >= w.len THEN "copy" ELSE "wait")
  /\ DataSame /\ UNCHANGED <<wwait, rwait, r>>

WLook ==
  /\ w.pc = "look"
  /\ Writer(IF Free(wpos, rpos) >= w.len THEN "copy" ELSE "wait")
  /\ DataSame /\ UNCHANGED <<wwait, rwait, r>>

WCopy ==
  /\ w.pc = "copy" /\ Writer("store")
  /\ data' = [i \in 0..(N - 1) |-> IF i \in Span(w.pos, w.len)
                                   THEN written + Offset(w.pos, i) + 1 ELSE data[i]]
  /\ UNCHANGED <<header, wpos, rpos, wwait, rwait, r, written, taken>>

WStore ==
  /\ w.pc = "store" /\ Writer("wake")
  /\ wpos' = (w.pos + w.len) % N /\ written' = written + w.len
  /\ UNCHANGED <<header, data, rpos, wwait, rwait, r, taken>>

\* futex_wake, when the reader has said that it waits
WWake ==
  /\ w.pc = "wake" /\ Writer("idle")
  /\ IF rwait = 1 /\ r.pc = "sleep" THEN Reader("awake") ELSE UNCHANGED r
  /\ DataSame /\ UNCHANGED <<wwait, rwait>>

\* No room: QD_ERR_AGAIN or QD_ERR_TIMEOUT, or the writer says it waits.
WWait ==
  /\ w.pc = "wait" /\ \/ Writer("idle") /\ UNCHANGED wwait
                      \/ Writer("sleep") /\ wwait' = 1
  /\ DataSame /\ UNCHANGED <<rwait, r>>

\* futex_wait returns when woken, and after a millisecond.
WSleep == /\ w.pc = "sleep" /\ Writer("awake") /\ DataSame /\ UNCHANGED <<wwait, rwait, r>>

WAwake == /\ w.pc = "awake" /\ Writer("look") /\ wwait' = 0 /\ DataSame /\ UNCHANGED <<rwait, r>>

-----------------------------------------------------------------------------
(* qd_shm_ring_read_timeout *)

RCall(len) ==
  /\ r.pc = "idle" /\ r' = [pc |-> "look", len |-> len, pos |-> rpos]
  /\ DataSame /\ UNCHANGED <<wwait, rwait, w>>

RLook ==
  /\ r.pc = "look" /\ Reader(IF Unread(wpos, rpos) >= r.len THEN "copy" ELSE "wait")
  /\ DataSame /\ UNCHANGED <<wwait, rwait, w>>

RCopy ==
  /\ r.pc = "copy" /\ Reader("store")
  /\ DataSame /\ UNCHANGED <<wwait, rwait, w>>

RStore ==
  /\ r.pc = "store" /\ Reader("wake")
  /\ rpos' = (r.pos + r.len) % N /\ taken' = taken + r.len
  /\ UNCHANGED <<header, data, wpos, wwait, rwait, w, written>>

RWake ==
  /\ r.pc = "wake" /\ Reader("idle")
  /\ IF wwait = 1 /\ w.pc = "sleep" THEN Writer("awake") ELSE UNCHANGED w
  /\ DataSame /\ UNCHANGED <<wwait, rwait>>

RWait ==
  /\ r.pc = "wait" /\ \/ Reader("idle") /\ UNCHANGED rwait
                      \/ Reader("sleep") /\ rwait' = 1
  /\ DataSame /\ UNCHANGED <<wwait, w>>

RSleep == /\ r.pc = "sleep" /\ Reader("awake") /\ DataSame /\ UNCHANGED <<wwait, rwait, w>>

RAwake == /\ r.pc = "awake" /\ Reader("look") /\ rwait' = 0 /\ DataSame /\ UNCHANGED <<wwait, w>>

ShmWriter == \/ WLook \/ WCopy \/ WStore \/ WWake \/ WWait \/ WSleep \/ WAwake
ShmReader == \/ RLook \/ RCopy \/ RStore \/ RWake \/ RWait \/ RSleep \/ RAwake
ShmNext == \/ ShmCreate \/ AttachSize \/ AttachCheck \/ ShmWriter \/ ShmReader
           \/ \E len \in Lens : WCall(len) \/ RCall(len)

ShmSpec == ShmInit /\ [][ShmNext]_shmVars

-----------------------------------------------------------------------------

\* The ring holds exactly the bytes written and not yet read, in their order
\* from the read position on, across the end of the buffer; so a read returns
\* the next bytes of the stream.
RingExact ==
  /\ written - taken = Unread(wpos, rpos)
  /\ \A i \in 0..(N - 1) : Offset(rpos, i) < written - taken => data[i] = taken + Offset(rpos, i) + 1

\* A reader and a writer that copy at the same time touch different bytes.
CopiesApart ==
  (w.pc = "copy" /\ r.pc \in {"copy", "store"}) => Span(w.pos, w.len) \cap Span(r.pos, r.len) = {}

\* A reader and a writer that ask for no more than the size together never
\* wait for one another: there is room, or there are bytes.
SomeoneCanGo ==
  (w.pc \in {"sleep", "awake"} /\ r.pc \in {"sleep", "awake"} /\ w.len + r.len <= N) =>
    (Free(wpos, rpos) >= w.len \/ Unread(wpos, rpos) >= r.len)

\* The ring is an exact stream whose two ends neither collide nor block each
\* other.
ShmExact == RingExact /\ CopiesApart /\ SomeoneCanGo
=============================================================================
