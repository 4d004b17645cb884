------------------------------ MODULE MCSession ------------------------------
(* One guest name, one admin account, one free name, two other users.     *)
EXTENDS Session

CONSTANTS g1, a1, n1, o1, o2, s1, s2

MCOthers == {o1, o2}

MCNames == {g1, a1, n1}
MCSids == {s1, s2}
MCMessages ==
    {ConnectRequest} \cup {LoginRequest(a) : a \in {a1}}
    \cup {RegisterRequest(n) : n \in MCNames} \cup {ChangeUsernameRequest(n) : n \in MCNames}
MCEvents ==
    [type : {"connect"}, name : MCNames \cup {NoName}]
    \cup [type : {"loginSucceeded"}, sid : MCSids, name : {a1}, admin : BOOLEAN]
    \cup [type : {"registerSucceeded"}, sid : MCSids, name : MCNames]
    \cup [type : {"usernameChange"}, old : MCNames \cup MCOthers, new : MCNames \cup MCOthers]
    \cup [type : {"userList"}, names : {SetToSeq(S) \o <<m>> : S \in SUBSET MCOthers, m \in MCNames}]
    \cup [type : {"userListAdd", "userListRemove"}, name : MCOthers]
    \cup {Failed}
=============================================================================
