-------------------------------- MODULE MCIpc --------------------------------
(***************************************************************************)
(* The ways to talk to the daemon, one of them in each behaviour: `part`   *)
(* is chosen at the start and never changes.                               *)
(***************************************************************************)
EXTENDS IpcUnix, ShmRing, QdcClient, Netlink

CONSTANTS cli1, cli2
VARIABLE part

MCSize(m) == CASE m.kind = "notify" -> 7 [] m.kind = "event" -> 4 [] OTHER -> 3
MCRequests(c) == IF c = cli1 THEN 3 ELSE 0

ICInit == /\ part \in {"unix", "shm", "library", "netlink", "wire"}
          /\ IPCInit /\ ShmInit /\ QCInit /\ NLInit /\ WRInit
          /\ part # "netlink" => family = 0
          /\ part # "wire" => meant = CHOOSE m \in Meanings : TRUE

\* A step of the part p, which leaves the others alone
Of(p, A) == part = p /\ A /\ UNCHANGED part

ICNext ==
  \/ Of("unix", IPCNext) /\ UNCHANGED <<shmVars, qcVars, nlVars, wireVars>>
  \/ Of("shm", ShmNext) /\ UNCHANGED <<ipcVars, qcVars, nlVars, wireVars>>
  \/ Of("library", QCNext) /\ UNCHANGED <<ipcVars, shmVars, nlVars, wireVars>>
  \/ Of("netlink", NLNext) /\ UNCHANGED <<ipcVars, shmVars, qcVars, wireVars>>
  \/ Of("wire", WRNext) /\ UNCHANGED <<ipcVars, shmVars, qcVars, nlVars>>

ICSpec == ICInit /\ [][ICNext]_<<part, ipcVars, shmVars, qcVars, nlVars, wireVars>>
=============================================================================
