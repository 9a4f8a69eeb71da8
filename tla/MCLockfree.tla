----------------------------- MODULE MCLockfree -----------------------------
(***************************************************************************)
(* The primitives under everything else: the lock-free paths of the        *)
(* channel (two senders, one consumer), the work-stealing deque (its       *)
(* owner, two thieves), the containers and the locks, one of them in each  *)
(* behaviour: `part` is chosen at the start and never changes.             *)
(***************************************************************************)
EXTENDS Channel, WsDeque, Containers, Locks, TLC

VARIABLE part

MCMapHash == [k \in MapKeys |-> IF k = "c" THEN 1 ELSE 0]

treeVars == <<tree, keys>>
queues   == <<vars, wsVars>>
boxes    == <<treeVars, hmVars>>
lockVars == <<spinVars, rwVars, seqVars>>

LFInit == /\ part \in {"channel", "deque", "tree", "map", "spin", "rw", "seq"}
          /\ Init /\ WSInit /\ RBInit /\ HMInit /\ SpinInit /\ RWInit /\ SeqInit

\* A step of the part p
Of(p, A) == part = p /\ A /\ UNCHANGED part

Queue ==
  \/ Of("channel", Next) /\ UNCHANGED wsVars
  \/ Of("deque", WSNext) /\ UNCHANGED vars

Container ==
  \/ Of("tree", RBNext) /\ UNCHANGED hmVars
  \/ Of("map", HMNext) /\ UNCHANGED treeVars

AnyLock ==
  \/ Of("spin", SpinNext) /\ UNCHANGED <<rwVars, seqVars>>
  \/ Of("rw", RWNext) /\ UNCHANGED <<spinVars, seqVars>>
  \/ Of("seq", SeqNext) /\ UNCHANGED <<spinVars, rwVars>>

LFNext ==
  \/ Queue /\ UNCHANGED <<boxes, lockVars>>
  \/ Container /\ UNCHANGED <<queues, lockVars>>
  \/ AnyLock /\ UNCHANGED <<queues, boxes>>

LFSpec == LFInit /\ [][LFNext]_<<part, queues, boxes, lockVars>>

Symmetry == Permutations(Producers) \cup Permutations(Thieves)
=============================================================================
