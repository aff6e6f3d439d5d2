--------------------------- MODULE MCWinPublisher ---------------------------
(* A small instance of WinPublisher for TLC.                               *)
EXTENDS WinPublisher, TLC

CONSTANTS r1, r2, d1, d2, v1, v2
=============================================================================
