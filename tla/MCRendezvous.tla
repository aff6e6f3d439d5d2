---------------------------- MODULE MCRendezvous ----------------------------
(* Small instances of Rendezvous for TLC.                                  *)
EXTENDS Rendezvous, TLC

CONSTANTS w1, t1, t2, u1, i1
=============================================================================
