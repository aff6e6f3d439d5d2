----------------------------- MODULE MCControl -----------------------------
(* A small instance of Control for TLC.                                    *)
EXTENDS Control, TLC

CONSTANTS u1, u2, c1, c2, c3, i1, i2, e1

\* Two calls for one user, one for the other.
TwoForOne == [c \in Calls |-> IF c = c3 THEN u2 ELSE u1]
=============================================================================
