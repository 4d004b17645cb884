\* The admin console over the transport: #loading always gives way.
CONSTANTS
    v1 = v1
    v2 = v2
    s1 = s1
    Vms <- MCVms
    NoVm = NoVm
    Sids = {s1}
    NoSid = NoSid
    Messages <- MCMessages
    Events <- MCEvents
    MaxSockets = 3
    MaxClicks = 7

SPECIFICATION AdminSpec

INVARIANT AdminTypeOK
PROPERTY LoadingEventuallyEnds
 

\* With the bounds used up and every frame handled the page waits for the
\* admin.
CHECK_DEADLOCK FALSE
