------------------------------ MODULE MCCodec ------------------------------
(* Small instances of Codec for TLC: payload lengths on both sides of every *)
(* boundary of the header's width and of the limit.                        *)
EXTENDS Codec, TLC

Boundaries == {0, 63, 64, 16383, 16384, 4194304, 67108864, 67108865}
=============================================================================
