---------------------------- MODULE MCDhcpKernel ----------------------------
(***************************************************************************)
(* The DHCP kernel modules and the library that talks to them, for TLC:    *)
(* three independent models in one run.  `part' is chosen in the initial   *)
(* state and says which of them moves; the others keep their initial       *)
(* state.                                                                  *)
(***************************************************************************)
EXTENDS DhcpMsg, DhcpBde

VARIABLE part

MCAdd(m, i) == [op |-> "add", k |-> <<m>>, v |-> <<i>>]
MCDel(m) == [op |-> "del", k |-> <<m>>, v |-> <<>>]
MCIfAdd(i) == [op |-> "ifadd", k |-> <<i>>, v |-> <<>>]
MCUserCmds == {MCAdd(1, 1), MCDel(1)}
MCBatches == {<<MCAdd(1, 2), MCDel(1)>>, <<MCDel(1), MCIfAdd(11)>>}

kernelVars == <<part, msAll, bdVars>>

MCInit ==
    /\ part \in {"kmod", "msg", "bde"}
    /\ MSInit /\ BDInit
    /\ part # "bde" => side = "rx"

MCNext ==
    /\ part' = part
    /\ \/ part = "kmod" /\ KMNext /\ UNCHANGED <<msVars, bdVars>>
       \/ part = "msg" /\ MSNext /\ UNCHANGED bdVars
       \/ part = "bde" /\ BDNext /\ UNCHANGED msAll

MCSpec == MCInit /\ [][MCNext]_kernelVars
=============================================================================
