------------------------------- MODULE Codec -------------------------------
(***************************************************************************)
(* The length-delimited framing of RustDesk (RustDeskCodec) on one         *)
(* direction of a TCP connection: a peer that encodes, bytes that arrive   *)
(* in pieces, a decoder that keeps a header between its calls.             *)
(*                                                                         *)
(* Bytes are not enumerated.  The stream is the layout of the frames the   *)
(* peer wrote: mark[k] is the position of frame k's header.  The decoder   *)
(* reads it through ByteAt, at whatever position it has got to; a frame    *)
(* it hands up is the interval of the stream that split_to() cut off.      *)
(***************************************************************************)
EXTENDS Integers, Sequences

CONSTANTS None,
          MAX_PACKET,    \* 64 * 1024 * 1024
          Sizes,         \* payload lengths the peers use
          Widths,        \* header widths that foreign encoders choose
          Payload,       \* the byte a payload is full of
          MaxFrames,     \* bound: frames written
          Reach          \* bound: pieces end at most this far into a frame

ASSUME CodecAssumption ==
  /\ None \notin Nat
  /\ MAX_PACKET \in Nat /\ MAX_PACKET < 1073741824
  /\ Sizes \subseteq Nat /\ Widths \subseteq 1..4 /\ Payload \in 0..255
  /\ MaxFrames \in Nat /\ Reach \in Nat

VARIABLES sent,     \* history: length and header width of each frame written
          mark,     \* where each of them starts, and where the next one will
          got,      \* bytes that have arrived at the decoder
          pos,      \* bytes the decoder has taken: its buffer is pos..got
          body,     \* State: None is Head, n is Body(n)
          raw,      \* set_raw was called
          failed,   \* decode returned an error, which ends the Framed stream
          out,      \* history: frames handed up, as intervals of the stream
          framed    \* history: how many of them before set_raw

written == <<sent, mark>>
decoder == <<pos, body, raw, failed, out, framed>>
vars == <<written, got, decoder>>

Init == /\ sent = << >> /\ mark = <<0>>
        /\ got = 0 /\ pos = 0 /\ body = None
        /\ raw = FALSE /\ failed = FALSE
        /\ out = << >> /\ framed = 0
-----------------------------------------------------------------------------
(* The header: width - 1 in its low two bits, the length above them, little  *)
(* end first.                                                              *)

Shift8 == <<1, 256, 65536, 16777216>>        \* 1 << (8 * i)

\* Fault: a length on the boundary takes the shorter header.
HeadLenShort(n) == CASE n <= 64 -> 1
                     [] n > 64 /\ n < 16384 -> 2
                     [] n >= 16384 /\ n < 4194304 -> 3
                     [] n >= 4194304 -> 4

HeadLen(n) == CASE n < 64 -> 1
                [] n >= 64 /\ n < 16384 -> 2
                [] n >= 16384 /\ n < 4194304 -> 3
                [] n >= 4194304 -> 4

\* header >> (i * 8) & 0xff: `width' of these bytes are written.
HeaderByte(n, width, i) == ((n * 4 + (width - 1)) \div Shift8[i + 1]) % 256

\* What a decoder makes of four bytes.
WidthOf(b0) == (b0 % 4) + 1

\* Fault: the width is left in the length.
LengthUnshifted(b0, b1, b2, b3) ==
  LET width == WidthOf(b0)
  IN b0 + (IF width > 1 THEN b1 * 256 ELSE 0)
        + (IF width > 2 THEN b2 * 65536 ELSE 0)
        + (IF width > 3 THEN b3 * 16777216 ELSE 0)

LengthOf(b0, b1, b2, b3) ==
  LET width == WidthOf(b0)
  IN (b0 + (IF width > 1 THEN b1 * 256 ELSE 0)
         + (IF width > 2 THEN b2 * 65536 ELSE 0)
         + (IF width > 3 THEN b3 * 16777216 ELSE 0)) \div 4

\* The byte at a position of the stream.
HeaderAt(p) == {k \in 1..Len(sent) : mark[k] <= p /\ p < mark[k] + sent[k].width}
ByteAt(p) == IF HeaderAt(p) = {} THEN Payload
             ELSE LET k == CHOOSE k \in HeaderAt(p) : TRUE
                  IN HeaderByte(sent[k].len, sent[k].width, p - mark[k])
-----------------------------------------------------------------------------
(* The peer and the network.                                               *)

Put(n, width) ==
  /\ Len(sent) < MaxFrames
  /\ sent' = Append(sent, [len |-> n, width |-> width])
  /\ mark' = Append(mark, mark[Len(mark)] + width + n)
  /\ UNCHANGED <<got, decoder>>

\* encode: a frame above the limit is refused and nothing is written.
Encode(n) == n <= MAX_PACKET /\ Put(n, HeadLen(n))

\* A client with an encoder of its own: a header wider than it need be, and a
\* frame longer than this side accepts.
ForeignEncode(n, width) == n < 64 * Shift8[width] /\ Put(n, width)

\* The socket delivers up to any position.
Arrive(p) == /\ got < p /\ p <= mark[Len(mark)]
             /\ got' = p
             /\ UNCHANGED <<written, decoder>>
-----------------------------------------------------------------------------
(* decode: one call, as the reader makes them while bytes are left.         *)

Buffered == got - pos
Width == WidthOf(ByteAt(pos))
Announced == LengthOf(ByteAt(pos), ByteAt(pos+1), ByteAt(pos+2), ByteAt(pos+3))

\* State::Head with a whole header in the buffer.
HeadReady == body = None /\ Buffered > 0 /\ Buffered >= Width

\* Too long: an error, with the header left where it is.
Refuse == /\ HeadReady /\ Announced > MAX_PACKET
          /\ failed' = TRUE
          /\ UNCHANGED <<pos, body, out, framed>>

\* Fault: the payload is handed up once a byte of the next frame is there.
HandUpLate(from, n) ==
  IF got > from + n
  THEN /\ out' = Append(out, [from |-> from, to |-> from + n])
       /\ pos' = from + n /\ body' = None /\ framed' = framed + 1
  ELSE pos' = from /\ body' = n /\ UNCHANGED <<out, framed>>

\* The payload of n bytes starts at from: it is handed up if it is there, and
\* waited for in State::Body if it is not.
HandUp(from, n) ==
  IF got >= from + n
  THEN /\ out' = Append(out, [from |-> from, to |-> from + n])
       /\ pos' = from + n /\ body' = None /\ framed' = framed + 1
  ELSE pos' = from /\ body' = n /\ UNCHANGED <<out, framed>>

Decode ==
  /\ ~failed /\ ~raw
  /\ \/ Refuse
     \/ /\ HeadReady /\ Announced <= MAX_PACKET
        /\ HandUp(pos + Width, Announced) /\ UNCHANGED failed
     \/ /\ body # None /\ Buffered >= body
        /\ HandUp(pos, body) /\ UNCHANGED failed
  /\ UNCHANGED <<written, got, raw>>

\* set_raw, and decode after it: whatever is in the buffer.
set_raw == /\ ~raw /\ raw' = TRUE
           /\ UNCHANGED <<written, got, pos, body, failed, out, framed>>

DecodeRaw == /\ ~failed /\ raw /\ Buffered > 0
             /\ out' = Append(out, [from |-> pos, to |-> got])
             /\ pos' = got
             /\ UNCHANGED <<written, got, body, raw, failed, framed>>

Next == \/ \E n \in Sizes : Encode(n) \/ \E width \in Widths : ForeignEncode(n, width)
        \/ \E k \in 1..Len(mark), d \in -1..Reach : Arrive(mark[k] + d)
        \/ Decode \/ set_raw \/ DecodeRaw

\* The task that owns the connection calls decode while there is input.
Spec == Init /\ [][Next]_vars /\ WF_vars(Decode) /\ WF_vars(DecodeRaw)
-----------------------------------------------------------------------------
Start(k) == mark[k] + sent[k].width
End(k) == mark[k + 1]

TypeOK ==
  /\ sent \in Seq([len : Nat, width : 1..4])
  /\ mark \in Seq(Nat) /\ Len(mark) = Len(sent) + 1
  /\ got \in Nat /\ pos \in Nat /\ body \in Nat \cup {None}
  /\ raw \in BOOLEAN /\ failed \in BOOLEAN
  /\ out \in Seq([from : Nat, to : Nat]) /\ framed \in 0..Len(out)

\* What is handed up are the payloads the peer wrote.
PayloadsWhole ==
  \A k \in 1..framed : /\ k <= Len(sent)
                       /\ out[k] = [from |-> Start(k), to |-> End(k)]

\* After set_raw the rest of the stream is handed up without a gap: it goes on
\* where the last payload ended, or inside the frame whose header was read.
RawGoesOn ==
  \A k \in framed + 1..Len(out) :
    out[k].from = IF k > framed + 1 THEN out[k - 1].to
                  ELSE IF body # None THEN Start(k) ELSE mark[k]

\* decode: however the stream was cut into pieces, the payloads come out whole,
\* once each and in order, and nothing is skipped when the decoder goes raw.
StreamInOrder == PayloadsWhole /\ RawGoesOn

\* "frame exceeds max packet length": the only stream decode gives up on is
\* one whose next frame is longer than the limit.
OnlyTooLongFails ==
  failed => /\ framed + 1 <= Len(sent)
            /\ sent[framed + 1].len > MAX_PACKET

\* A frame whose last byte has arrived is handed up, unless the decoder went
\* raw or met a frame that is too long before.
WholeFramesAreDecoded ==
  \A k \in 1..MaxFrames :
    (k <= Len(sent) /\ got >= End(k)) ~> (framed >= k \/ raw \/ failed)
=============================================================================
