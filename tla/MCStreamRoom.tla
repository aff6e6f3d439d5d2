---------------------------- MODULE MCStreamRoom ----------------------------
(* Small instances of StreamRoom for TLC.                                  *)
EXTENDS StreamRoom, TLC

CONSTANTS p1, p2, v1, v2

OneCodec == [p \in Publishers |-> "Hevc"]

Two == [p \in Publishers |-> 2]

\* The second publisher connects and leaves without a frame.
SixThenNone == [p \in Publishers |-> IF p = p1 THEN 6 ELSE 0]
=============================================================================
