------------------------------- MODULE MCDhcp -------------------------------
(***************************************************************************)
(* The DHCP daemon's own state for TLC: four independent models in one     *)
(* run.  `part' is chosen in the initial state and says which of them      *)
(* moves; the others keep their initial state.                             *)
(***************************************************************************)
EXTENDS DhcpServer, DhcpLease, DhcpStorage, DhcpRelay, TLC

CONSTANTS a, b, c

VARIABLE part

\* Addresses of the daemon's pool and of one that may be added
MCRanges == <<[lo |-> 1, hi |-> 2], [lo |-> 3, hi |-> 3]>>
MCRequests == {[rq |-> x, ci |-> 0] : x \in 0 .. 3} \cup {[rq |-> 0, ci |-> x] : x \in 1 .. 3}
              \cup {[rq |-> 1, ci |-> 2]}
MCExclusions == {[lo |-> 2, hi |-> 2]}

\* Two hardware addresses in one bucket, one in another; 0 is a wiped lease.
MCHash == <<0, 0, 1>> @@ (0 :> 0)

\* An option without data and one with data
MCOptions == {<<1, <<>>>>, <<2, <<0>>>>}
MCInterfaces == {[idx |-> 1, gi |-> 1], [idx |-> 2, gi |-> 2], [idx |-> 3, gi |-> 1]}

Symmetry == Permutations({a, b, c})

dhcpVars == <<part, dsVars, leaseVars, stVars, rlVars>>

MCInit ==
    /\ part \in {"server", "lease", "storage", "relay"}
    /\ DSInit /\ LDInit /\ STInit /\ RLInit
    /\ part # "server" => pools = <<dhcp_pool_create(Ranges[1].lo, Ranges[1].hi)>>
    /\ part # "relay" => conf = [insert |-> FALSE, replace |-> FALSE]

\* The server is followed up to the first step after which Exclusive says nothing.
MCNext ==
    /\ part' = part
    /\ \/ part = "server" /\ orderly /\ DSNext /\ UNCHANGED <<leaseVars, stVars, rlVars>>
       \/ part = "lease" /\ LDNext /\ UNCHANGED <<dsVars, stVars, rlVars>>
       \/ part = "storage" /\ STNext /\ UNCHANGED <<dsVars, leaseVars, rlVars>>
       \/ part = "relay" /\ RLNext /\ UNCHANGED <<dsVars, leaseVars, stVars>>

MCSpec == MCInit /\ [][MCNext]_dhcpVars
=============================================================================
