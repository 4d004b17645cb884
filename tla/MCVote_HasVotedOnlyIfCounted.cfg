\* hasVoted survives a reconnect: onConnect does not reset it, so after a
\* dropped connection the client refuses to vote in a vote the server has
\* no vote of this connection for.
CONSTANTS
    VoteTimesMs <- MCTimes
    Messages <- MCMessages
    Events <- MCEvents
    MaxSockets = 2
    MaxPushes = 4
    MaxClicks = 2

SPECIFICATION VoteSpec

INVARIANT HasVotedOnlyIfCounted

CHECK_DEADLOCK FALSE
