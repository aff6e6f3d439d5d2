------------------------------ MODULE MCRelay ------------------------------
(* Small instances of Relay for TLC.                                       *)
EXTENDS Relay, TLC

CONSTANTS c1, c2, d1

\* One TCP client sends two frames, the WebSocket client one, the other TCP
\* client only receives.
TwoOneNone == [c \in Conn |-> IF c = c1 THEN 2 ELSE IF c = d1 THEN 1 ELSE 0]
=============================================================================
