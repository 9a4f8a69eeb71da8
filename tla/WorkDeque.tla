----------------------------- MODULE WorkDeque ------------------------------
(***************************************************************************)
(* What the work-stealing deque of a worker promises: tasks are added and  *)
(* taken by the owner at the back and taken by thieves at the front, each  *)
(* task is given out once and none is lost.                                *)
(***************************************************************************)
EXTENDS Naturals, Sequences

CONSTANTS Tasks, Bound

VARIABLES deque, given

Push(t) == Len(deque) < Bound /\ deque' = Append(deque, t) /\ UNCHANGED given

Pop ==
  /\ deque # <<>>
  /\ given' = Append(given, deque[Len(deque)])
  /\ deque' = SubSeq(deque, 1, Len(deque) - 1)

Steal ==
  /\ deque # <<>>
  /\ given' = Append(given, Head(deque))
  /\ deque' = Tail(deque)

Spec ==
  /\ deque = <<>> /\ given = <<>>
  /\ [][(\E t \in Tasks : Push(t)) \/ Pop \/ Steal]_<<deque, given>>
=============================================================================
