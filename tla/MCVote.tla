-------------------------------- MODULE MCVote --------------------------------
(* A vote push carries no time left, 400 ms or 1600 ms.                    *)
EXTENDS Vote

MCTimes == {0, 400, 1600}
MCMessages == {ConnectRequest, CaptchaCompleted} \cup
              {VoteRequest(b, i) : b \in BOOLEAN, i \in BOOLEAN}
MCEvents == {ConnectReply(c) : c \in BOOLEAN} \cup {CaptchaPush(c) : c \in BOOLEAN} \cup
            {PhasePush(ph) : ph \in Phases \ {"Active"}} \cup {ResultPush} \cup
            {StatusPush(t) : t \in MCTimes}
=============================================================================
