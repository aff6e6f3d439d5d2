----------------------------- MODULE MCCapturer -----------------------------
(* Bounded inputs for Capturer: one setting to start with, and for each      *)
(* setter another value, the rate and the size such that are clamped.        *)
EXTENDS Capturer

Defaults == {[size |-> <<1920, 1080>>, fps |-> 30, kbps |-> 4000, display |-> 1]}
WrongSize == {<<100, 9000>>}
=============================================================================
