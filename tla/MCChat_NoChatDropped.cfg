\* A deferred chat send fires after the socket dropped and the next
\* attempt failed: the message is taken from the input and lost.
CONSTANTS
    m1 = m1
    empty = empty
    Msgs <- MCMsgs
    Empty = empty
    Messages <- MCMessages
    Events <- MCEvents
    RateLimit = 2
    MaxNow = 6
    MaxTyped = 3
    MaxClicks = 4
    MaxPushes = 2
    MaxNavs = 2
    MaxSockets = 3

SPECIFICATION ChatSpec

INVARIANT NoChatDropped

\* Once the bounds are used up and every timer has fired the page waits
\* for the user.
CHECK_DEADLOCK FALSE
