---------------------------- MODULE H264Encoder ----------------------------
(***************************************************************************)
(* The Windows encoder's pure parts: which frames submit_frame takes, the  *)
(* NV12 conversion, and how the bytes of one encoded sample become NALs.   *)
(*                                                                         *)
(* A sample is an access unit in one of the two formats an encoder may     *)
(* write.  Its bytes are read through ByteAt and never laid out: a NAL is  *)
(* its length, its header byte and bytes that are not zero (emulation      *)
(* prevention keeps start codes out of a NAL, and no NAL ends in a zero).  *)
(***************************************************************************)
EXTENDS Integers, Sequences, SequencesExt

\* configure: (n + 1) & !1.
RoundUp(n) == n + (n % 2)

\* submit_frame: the frame is packed, width * height * 4 bytes of BGRA; it is
\* compared with the size the encoder was configured for.
Accepts(width, height) ==
  width * height * 4 >= RoundUp(width) * RoundUp(height) * 4
-----------------------------------------------------------------------------
(* bgra_to_nv12, BT.601 limited range in fixed point; >> 8 rounds down.    *)

Clamp(n) == IF n < 0 THEN 0 ELSE IF n > 255 THEN 255 ELSE n

RawLuma(r, g, b) == ((66 * r + 129 * g + 25 * b + 128) \div 256) + 16
RawU(r, g, b) == ((-38 * r - 74 * g + 112 * b + 128) \div 256) + 128
RawV(r, g, b) == ((112 * r - 94 * g - 18 * b + 128) \div 256) + 128

Luma(r, g, b) == Clamp(RawLuma(r, g, b))
ChromaU(r, g, b) == Clamp(RawU(r, g, b))
ChromaV(r, g, b) == Clamp(RawV(r, g, b))

\* The first byte of pixel (x, y) in the frame; where its luma goes; where the
\* chroma pair of the square whose corner is (x, y) goes.
Source(x, y, width) == (y * width + x) * 4
LumaIndex(x, y, width) == y * width + x
ChromaIndex(x, y, width, height) == width * height + (y \div 2) * width + x
Nv12Len(width, height) == width * height + (width * height) \div 2
-----------------------------------------------------------------------------
(* The layout of a sample: before each NAL a start code of 3 or 4 bytes     *)
(* (annexb), or its length in 4 bytes, most significant first (avcc).       *)

Inner == 128      \* a byte of a NAL that is not its header

Weight == <<16777216, 65536, 256, 1>>
BeByte(n, i) == (n \div Weight[i + 1]) % 256
Prefix(unit, k) == IF unit.format = "avcc" THEN 4 ELSE unit.nals[k].code
PrefixByte(unit, k, i) ==
  IF unit.format = "avcc" THEN BeByte(unit.nals[k].len, i)
  ELSE IF i = Prefix(unit, k) - 1 THEN 1 ELSE 0

\* Where each NAL starts, and the size of the sample.
NalStart(unit) ==
  LET at[k \in 1..Len(unit.nals)] ==
        Prefix(unit, k) + (IF k = 1 THEN 0 ELSE at[k - 1] + unit.nals[k - 1].len)
  IN at
SizeOf(unit) == LET last == Len(unit.nals)
                IN NalStart(unit)[last] + unit.nals[last].len
Interval(unit, k) == [from |-> NalStart(unit)[k],
                      to |-> NalStart(unit)[k] + unit.nals[k].len]

ByteAt(unit, p) ==
  LET at == NalStart(unit)
      k == CHOOSE k \in 1..Len(unit.nals) :
             at[k] - Prefix(unit, k) <= p /\ p < at[k] + unit.nals[k].len
  IN IF p < at[k] THEN PrefixByte(unit, k, p - (at[k] - Prefix(unit, k)))
     ELSE IF p = at[k] THEN unit.nals[k].first ELSE Inner

Zero(unit, p) == ByteAt(unit, p) = 0
-----------------------------------------------------------------------------
(* avcc_to_annexb.  A NAL that comes out is an interval of the sample; it   *)
(* is sent behind a start code of its own.                                 *)

StartsWithCode(b0, b1, b2, b3) ==
  \/ <<b0, b1, b2, b3>> = <<0, 0, 0, 1>>
  \/ <<b0, b1, b2>> = <<0, 0, 1>>

is_annexb(unit) == StartsWithCode(ByteAt(unit, 0), ByteAt(unit, 1),
                                  ByteAt(unit, 2), ByteAt(unit, 3))

\* The ones that end a start code.  The scan tries four bytes before three, and
\* a code it has passed ends in a one, so a zero before 00 00 01 always belongs
\* to the code that follows.
Ones(unit) == {p \in 2..SizeOf(unit) - 1 :
                 ByteAt(unit, p) = 1 /\ Zero(unit, p - 1) /\ Zero(unit, p - 2)}

\* Fault: every start code is taken to be the shorter one.
AlwaysThree(unit, p) == 3

CodeLen(unit, p) == IF p > 2 /\ Zero(unit, p - 3) THEN 4 ELSE 3

\* From one start code to the next, or to the end; what is empty is left out.
annexb_split(unit) ==
  LET ones == Ones(unit)
      beyond(p) == {q \in ones : q > p}
      end(p) == IF beyond(p) = {} THEN SizeOf(unit)
                ELSE Min(beyond(p)) + 1 - CodeLen(unit, Min(beyond(p)))
      piece(p) == IF p + 1 < end(p) THEN <<[from |-> p + 1, to |-> end(p)]>> ELSE << >>
      from[p \in ones] ==
        IF beyond(p) = {} THEN piece(p) ELSE piece(p) \o from[Min(beyond(p))]
  IN IF ones = {} THEN << >> ELSE from[Min(ones)]

LengthAt(unit, p) == 16777216 * ByteAt(unit, p) + 65536 * ByteAt(unit, p + 1)
                     + 256 * ByteAt(unit, p + 2) + ByteAt(unit, p + 3)

\* Lengths are followed until one of them points past the end.
avcc_walk(unit) ==
  LET size == SizeOf(unit)
      from[p \in 0..size] ==
        IF p + 4 > size THEN << >>
        ELSE LET to == p + 4 + LengthAt(unit, p)
             IN IF to > size THEN << >>
                ELSE <<[from |-> p + 4, to |-> to]>> \o from[to]
  IN from[0]

avcc_to_annexb(unit) ==
  IF is_annexb(unit) THEN annexb_split(unit) ELSE avcc_walk(unit)
=============================================================================
