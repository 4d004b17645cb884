\* A navigation during a reconnect: does the VM view on screen match the VM
\* the server joined this client to?
CONSTANTS
    v1 = v1
    v2 = v2
    Vms <- MCVms
    NoVm = NoVm
    Home = Home
    LoginPath = LoginPath
    RegisterPath = RegisterPath
    InvitePath = InvitePath
    OtherPath = OtherPath
    NoHandler = NoHandler
    Messages <- MCMessages
    Events <- MCEvents
    MaxSockets = 3
    MaxNavs = 3

SPECIFICATION ClientSpec

INVARIANT ViewMatchesServer
SYMMETRY MCSymmetry

CHECK_DEADLOCK FALSE
