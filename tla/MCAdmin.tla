-------------------------------- MODULE MCAdmin --------------------------------
(* Two VM ids, one session id.                                             *)
EXTENDS Admin

CONSTANTS v1, v2, s1

MCVms == {v1, v2}
MCMessages ==
    {LoginRequest, ServerConfigRequest, ReadVmsRequest, CreateVmRequest, CreateInviteRequest}
    \cup {ReadVmConfig(v) : v \in MCVms} \cup {VmSettings(v) : v \in MCVms \cup {NoVm}}
    \cup {DeleteVmRequest(v) : v \in MCVms \cup {NoVm}} \cup {VmsCommand(S) : S \in SUBSET MCVms}
MCEvents ==
    {LoginSucceeded(s1), LoginFailed, ServerConfig}
    \cup {AdminVms(S) : S \in SUBSET MCVms} \cup {VmConfig(v) : v \in MCVms}
    \cup {VmCreated(v) : v \in MCVms} \cup {InviteResult(ok) : ok \in BOOLEAN}
=============================================================================
