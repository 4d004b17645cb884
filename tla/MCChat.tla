-------------------------------- MODULE MCChat --------------------------------
(* One chat text; a rate limit of two time units.                          *)
EXTENDS Chat

CONSTANTS m1, empty

MCMsgs == {m1}
MCMessages == {ConnectRequest, CaptchaCompleted} \cup
              {ChatRequest(m, i) : m \in MCMsgs, i \in BOOLEAN}
MCEvents == {ConnectReply(c) : c \in BOOLEAN} \cup {CaptchaPush(c) : c \in BOOLEAN}
=============================================================================
