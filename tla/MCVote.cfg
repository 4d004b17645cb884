\* The vote panel, its captcha detour and its countdown over the
\* transport, against a server whose vote phases move on by themselves.
CONSTANTS
    VoteTimesMs <- MCTimes
    Messages <- MCMessages
    Events <- MCEvents
    MaxSockets = 2
    MaxPushes = 4
    MaxClicks = 2

SPECIFICATION VoteSpec

INVARIANT VoteTypeOK
INVARIANT NoGatedVote
INVARIANT CountdownOnlyWhileActive
PROPERTY VoteCountdownEventuallyStops

\* Once the bounds are used up and every countdown has ended the page
\* waits for the user.
CHECK_DEADLOCK FALSE
