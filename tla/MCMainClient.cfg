\* The main page over the reconnection loop: the loop keeps its promises.
CONSTANTS
    v1 = v1
    v2 = v2
    Vms <- MCVms
    NoVm = NoVm
    Home = Home
    LoginPath = LoginPath
    RegisterPath = RegisterPath
    InvitePath = InvitePath
    OtherPath = OtherPath
    NoHandler = NoHandler
    Messages <- MCMessages
    Events <- MCEvents
    MaxSockets = 3
    MaxNavs = 3

SPECIFICATION ClientSpec

INVARIANT ClientTypeOK
PROPERTY ImplementsReconnectPolicy
PROPERTY EventuallyReconnected
PROPERTY HomeListEventuallyShown

\* With every bound used up and every frame handled the page waits for the
\* user: the client really may stop here.
CHECK_DEADLOCK FALSE
