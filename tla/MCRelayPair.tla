---------------------------- MODULE MCRelayPair ----------------------------
(* Small instances of RelayPair for TLC.                                   *)
EXTENDS RelayPair, TLC

CONSTANTS c1, c2, d1
=============================================================================
