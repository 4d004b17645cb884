\* The chat send button over the transport: rate limit, resend timers,
\* captcha detour, page changes and drops.
CONSTANTS
    m1 = m1
    empty = empty
    Msgs <- MCMsgs
    Empty = empty
    Messages <- MCMessages
    Events <- MCEvents
    RateLimit = 2
    MaxNow = 6
    MaxTyped = 3
    MaxClicks = 3
    MaxPushes = 2
    MaxNavs = 2
    MaxSockets = 3

SPECIFICATION ChatSpec

INVARIANT ChatTypeOK
INVARIANT NoGatedChat
PROPERTY SendsRateLimited
PROPERTY SendButtonEventuallyEnabled

\* Once the bounds are used up and every timer has fired the page waits
\* for the user.
CHECK_DEADLOCK FALSE
