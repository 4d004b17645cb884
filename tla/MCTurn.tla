-------------------------------- MODULE MCTurn --------------------------------
(* The user and one other user; a push carries 400 ms or 1600 ms.          *)
EXTENDS Turn

CONSTANTS me, o1

MCUsers == {me, o1}
MCTimes == {400, 1600}
MCMessages == {ConnectRequest, TurnRequest, Input}
MCEvents == {ConnectReply} \cup
            {TurnInfo(l, t, p) : l \in Lists, t \in MCTimes, p \in BOOLEAN}
=============================================================================
