\* The turn countdowns and hasTurn over the transport: one countdown at a
\* time, the one the last list calls for, and every countdown ends.
CONSTANTS
    me = me
    o1 = o1
    Me = me
    Users <- MCUsers
    TimesMs <- MCTimes
    Messages <- MCMessages
    Events <- MCEvents
    MaxSockets = 2
    MaxPushes = 3
    MaxInputs = 2

SPECIFICATION TurnSpec

INVARIANT TurnTypeOK
INVARIANT AtMostOneCountdown
INVARIANT StatusMatchesQueue
PROPERTY CountdownEventuallyCleared

\* Once the bounds are used up and every countdown has ended the page
\* waits for the user.
CHECK_DEADLOCK FALSE
