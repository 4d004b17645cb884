----------------------------- MODULE MCMainClient -----------------------------
(* Two VMs, the other paths, three sockets and three navigations.         *)
EXTENDS MainClient, TLC

CONSTANTS v1, v2

MCVms == {v1, v2}
MCMessages == {ConnectRequest(v) : v \in MCVms} \cup {VmListRequest, ValidateInvite}
MCEvents == {ConnectReply(t, v) : t \in {"connect", "connectFail"}, v \in MCVms} \cup {VmInfo}
    \cup {InviteValidation(ok) : ok \in BOOLEAN}
MCSymmetry == Permutations(MCVms)
=============================================================================
