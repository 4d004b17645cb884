\* The user leaves a VM page for another path: can the VM view come back?
CONSTANTS
    v1 = v1
    v2 = v2
    Vms <- MCVms
    NoVm = NoVm
    Home = Home
    LoginPath = LoginPath
    RegisterPath = RegisterPath
    InvitePath = InvitePath
    OtherPath = OtherPath
    NoHandler = NoHandler
    Messages <- MCMessages
    Events <- MCEvents
    MaxSockets = 3
    MaxNavs = 3

SPECIFICATION ClientSpec

INVARIANT ViewOnUrlVm
SYMMETRY MCSymmetry

CHECK_DEADLOCK FALSE
