\* The session handlers over the transport: the shown name follows the
\* server's.
CONSTANTS
    g1 = g1
    a1 = a1
    n1 = n1
    o1 = o1
    o2 = o2
    s1 = s1
    s2 = s2
    Names <- MCNames
    Guests = {g1}
    Accounts = {a1}
    AdminAccounts = {a1}
    Others <- MCOthers
    Sids <- MCSids
    NoName = NoName
    NoSid = NoSid
    Messages <- MCMessages
    Events <- MCEvents
    MaxSockets = 2
    MaxClicks = 4

SPECIFICATION SessionSpec

INVARIANT SessionTypeOK
INVARIANT UsernameTracksServer
INVARIANT UserListMatchesServer

\* With the bounds used up and every frame handled the page waits for the
\* user.
CHECK_DEADLOCK FALSE
