------------------------------- MODULE MCWheel ------------------------------
(***************************************************************************)
(* The timer wheel, the epoll backend or the io_uring backend: `part` is   *)
(* chosen at the start and never changes.                                  *)
(***************************************************************************)
EXTENDS TimerWheel, AioEpoll, AioUring

VARIABLE part

WheelInit == part \in {"wheel", "epoll", "uring"} /\ TWInit /\ EPInit /\ URInit

WheelNext ==
  \/ part = "wheel" /\ TWSound /\ UNCHANGED <<part, epVars, urVars>>
  \/ part = "epoll" /\ EPNext /\ UNCHANGED <<part, twVars, urVars>>
  \/ part = "uring" /\ URNext /\ UNCHANGED <<part, twVars, epVars>>

WheelSpec == WheelInit /\ [][WheelNext]_<<part, twVars, epVars, urVars>>

\* What a backend has pending is what was submitted and has not completed: the
\* epoll backend's list, count and registrations, the uring backend's count
\* and its polls for watched channels.
BackendsExact ==
  /\ EPTypeOK /\ PendingListExact /\ NoStaleNode /\ PendingCounted /\ NoOrphan
  /\ URTypeOK /\ UrPendingExact /\ WatchArmed /\ UnwatchSilences
=============================================================================
