--------------------------- MODULE ReconnectPolicy ---------------------------
(***************************************************************************)
(* What the reconnection loop of the client promises (spec section 4.3),   *)
(* independent of WebSocket objects and timers:                            *)
(*  - a dropped connection is retried at once, with no delay;              *)
(*  - an attempt that never opened is retried after a fixed back-off;      *)
(*  - failure is never terminal: there is always an attempt or a back-off. *)
(***************************************************************************)

VARIABLE conn

States == {"Connecting", "Connected", "Waiting"}

Init == conn = "Connecting"

\* The pending attempt opens.
Opened == conn = "Connecting" /\ conn' = "Connected"

\* The pending attempt closes before it opened: wait for the back-off.
AttemptFailed == conn = "Connecting" /\ conn' = "Waiting"

\* The back-off elapsed: a new attempt starts.
BackoffElapsed == conn = "Waiting" /\ conn' = "Connecting"

\* An open connection drops: a new attempt starts immediately.
Dropped == conn = "Connected" /\ conn' = "Connecting"

Next == Opened \/ AttemptFailed \/ BackoffElapsed \/ Dropped

Spec == Init /\ [][Next]_conn
=============================================================================
