----------------------------- MODULE BoundedFifo -----------------------------
(***************************************************************************)
(* What a bounded FIFO queue promises, in one atomic step per operation:   *)
(* accepted items are delivered once each, in the order they were          *)
(* accepted, and at most Capacity of them are held at a time.  The         *)
(* channel, whose operations are many steps of several threads, is shown   *)
(* to implement it.                                                        *)
(***************************************************************************)
EXTENDS Naturals, Sequences

CONSTANTS Items, Capacity

VARIABLES queue, delivered

fifoVars == <<queue, delivered>>

Init == queue = <<>> /\ delivered = <<>>

Put(v) ==
  /\ Len(queue) < Capacity
  /\ queue' = Append(queue, v)
  /\ UNCHANGED delivered

Take(n) ==
  /\ n <= Len(queue)
  /\ delivered' = delivered \o SubSeq(queue, 1, n)
  /\ queue' = SubSeq(queue, n + 1, Len(queue))

Next == (\E v \in Items : Put(v)) \/ (\E n \in 1 .. Capacity : Take(n))

Spec == Init /\ [][Next]_fifoVars
=============================================================================
