----------------------------- MODULE MCServices -----------------------------
(***************************************************************************)
(* The daemon's services and the allocators, one of them in each           *)
(* behaviour: `part` is chosen at the start and never changes.             *)
(***************************************************************************)
EXTENDS Daemon, Log, Config, Handler, FileOps, Memory

CONSTANTS term, hup, usr
VARIABLE part

MCDefaults == <<term, hup>>
MCHash(c)  == c % 2

services == <<dmVars, stVars, lgVars, cfVars, hdVars, fsVars>>
heap     == <<memVars, arenaVars, poolVars>>

SVInit == /\ part \in {"daemon", "signals", "log", "config", "handler", "fs",
                       "slab", "arena", "pool"}
          /\ DMInit /\ STInit /\ LGInit /\ CFInit /\ HDInit /\ FSInit
          /\ MemInit /\ ArenaInit

\* A step of the part p
Of(p, A) == part = p /\ A /\ UNCHANGED part

Service ==
  \/ Of("daemon", DMNext) /\ UNCHANGED <<stVars, lgVars, cfVars, hdVars, fsVars>>
  \/ Of("signals", STNext) /\ UNCHANGED <<dmVars, lgVars, cfVars, hdVars, fsVars>>
  \/ Of("log", LGNext) /\ UNCHANGED <<dmVars, stVars, cfVars, hdVars, fsVars>>
  \/ Of("config", CFNext) /\ UNCHANGED <<dmVars, stVars, lgVars, hdVars, fsVars>>
  \/ Of("handler", HDNext) /\ UNCHANGED <<dmVars, stVars, lgVars, cfVars, fsVars>>
  \/ Of("fs", FSNext) /\ UNCHANGED <<dmVars, stVars, lgVars, cfVars, hdVars>>

Allocators ==
  \/ Of("slab", MemNext) /\ UNCHANGED <<arenaVars, poolVars>>
  \/ Of("arena", ArenaNext) /\ UNCHANGED <<memVars, poolVars>>
  \/ Of("pool", PoolNext) /\ UNCHANGED <<memVars, arenaVars>>

SVNext == \/ Service /\ UNCHANGED heap
          \/ Allocators /\ UNCHANGED services

SVSpec == SVInit /\ [][SVNext]_<<part, services, heap>>

\* The tables of signal handlers and of message handlers find exactly what was
\* registered last, and the message handlers' counters add up.
HandlersExact == HandlerExact /\ ChainExact /\ CallsAdd /\ ResponseFits
=============================================================================
