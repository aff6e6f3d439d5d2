---------------------------- MODULE CodecProofs ----------------------------
(***************************************************************************)
(* Codec, for every limit, every set of lengths and every way the bytes    *)
(* may arrive.  The header is read back as it was written by arithmetic    *)
(* alone; the rest is that the decoder always stands where a frame starts, *)
(* or where the payload of the frame whose header it holds does.           *)
(***************************************************************************)
EXTENDS Codec, TLAPS

Fits(n, width) == n < 64 * Shift8[width]

LEMMA Shifts == /\ Shift8[1] = 1 /\ Shift8[2] = 256
                /\ Shift8[3] = 65536 /\ Shift8[4] = 16777216
  BY DEF Shift8

\* The four bytes of a header as they are shifted out, for each width.
LEMMA Digits ==
  ASSUME NEW h \in Nat
  PROVE  /\ h < 256 => h % 256 = h
         /\ h < 65536 => (h % 256) + 256 * ((h \div 256) % 256) = h
         /\ h < 16777216 => (h % 256) + 256 * ((h \div 256) % 256)
                              + 65536 * ((h \div 65536) % 256) = h
         /\ h < 4294967296 => (h % 256) + 256 * ((h \div 256) % 256)
                                + 65536 * ((h \div 65536) % 256)
                                + 16777216 * ((h \div 16777216) % 256) = h
<1>1. h < 256 => h % 256 = h
  OBVIOUS
<1>2. h = 256 * (h \div 256) + (h % 256)
  OBVIOUS
<1>3. (h \div 256) = 256 * (h \div 65536) + ((h \div 256) % 256)
  OBVIOUS
<1>4. (h \div 65536) = 256 * (h \div 16777216) + ((h \div 65536) % 256)
  OBVIOUS
<1>5. /\ h < 65536 => h \div 65536 = 0
      /\ h < 16777216 => h \div 16777216 = 0
      /\ h < 4294967296 => (h \div 16777216) % 256 = h \div 16777216
  OBVIOUS
<1> QED
  BY <1>1, <1>2, <1>3, <1>4, <1>5

\* encode then decode: the width and the length are read back from the header,
\* whatever follows it, for every width a length fits in.
THEOREM HeaderRoundTrip ==
  ASSUME NEW n \in Nat, NEW width \in 1..4, Fits(n, width),
         NEW b1 \in Nat, NEW b2 \in Nat, NEW b3 \in Nat,
         width > 1 => b1 = HeaderByte(n, width, 1),
         width > 2 => b2 = HeaderByte(n, width, 2),
         width > 3 => b3 = HeaderByte(n, width, 3)
  PROVE  /\ WidthOf(HeaderByte(n, width, 0)) = width
         /\ LengthOf(HeaderByte(n, width, 0), b1, b2, b3) = n
<1> DEFINE h == n * 4 + (width - 1)
           b0 == HeaderByte(n, width, 0)
<1>1. h \in Nat /\ h % 4 = width - 1 /\ h \div 4 = n
  OBVIOUS
<1>2. b0 = h % 256
  BY <1>1, Shifts DEF HeaderByte
<1>3. (h % 256) % 4 = h % 4
  BY <1>1
<1>4. WidthOf(b0) = width
  BY <1>1, <1>2, <1>3 DEF WidthOf
<1>5. /\ width = 1 => h < 256
      /\ width = 2 => h < 65536
      /\ width = 3 => h < 16777216
      /\ width = 4 => h < 4294967296
  BY Shifts DEF Fits
<1>6. /\ width > 1 => b1 = (h \div 256) % 256
      /\ width > 2 => b2 = (h \div 65536) % 256
      /\ width > 3 => b3 = (h \div 16777216) % 256
  BY Shifts DEF HeaderByte
<1> HIDE DEF h, b0
<1>7. (b0 + (IF width > 1 THEN b1 * 256 ELSE 0)
          + (IF width > 2 THEN b2 * 65536 ELSE 0)
          + (IF width > 3 THEN b3 * 16777216 ELSE 0)) = h
  <2>1. CASE width = 1
    BY <2>1, <1>1, <1>2, <1>5, Digits
  <2>2. CASE width = 2
    BY <2>2, <1>1, <1>2, <1>5, <1>6, Digits
  <2>3. CASE width = 3
    BY <2>3, <1>1, <1>2, <1>5, <1>6, Digits
  <2>4. CASE width = 4
    BY <2>4, <1>1, <1>2, <1>5, <1>6, Digits
  <2> QED
    BY <2>1, <2>2, <2>3, <2>4
<1>8. LengthOf(b0, b1, b2, b3) = h \div 4
  BY <1>4, <1>7 DEF LengthOf
<1> QED
  BY <1>1, <1>4, <1>8 DEF b0

\* head_len: the width that encode chooses holds the length.
LEMMA EncoderFits ==
  ASSUME NEW n \in Nat, n < 1073741824
  PROVE  HeadLen(n) \in 1..4 /\ Fits(n, HeadLen(n))
  BY Shifts DEF HeadLen, Fits
-----------------------------------------------------------------------------
(* The invariant.                                                          *)

Last == mark[Len(mark)]

\* Frames lie one after the other.
Laid == /\ mark[1] = 0
        /\ \A k \in 1..Len(sent) :
             /\ mark[k + 1] = mark[k] + sent[k].width + sent[k].len
             /\ Fits(sent[k].len, sent[k].width)
        /\ \A j, k \in 1..Len(mark) : j < k => mark[j] < mark[k]

\* Where the decoder stands, as long as it reads frames.
Aligned == /\ framed + 1 <= Len(mark)
           /\ ~raw => framed = Len(out)
           /\ body # None => framed + 1 <= Len(sent) /\ body = sent[framed + 1].len
           /\ framed = Len(out) =>
                pos = IF body = None THEN mark[framed + 1] ELSE Start(framed + 1)
           /\ framed < Len(out) => pos = out[Len(out)].to

Bounds == pos <= got /\ got <= Last

CodecInv == TypeOK /\ Laid /\ Aligned /\ Bounds /\ PayloadsWhole /\ RawGoesOn
              /\ OnlyTooLongFails

LEMMA InitInv == Init => CodecInv
<1> SUFFICES ASSUME Init PROVE CodecInv
  OBVIOUS
<1> USE DEF Init
<1>1. TypeOK
  <2>1. sent \in Seq([len : Nat, width : 1..4]) /\ out \in Seq([from : Nat, to : Nat])
    OBVIOUS
  <2>2. mark \in Seq(Nat) /\ Len(mark) = 1 /\ Len(sent) = 0 /\ Len(out) = 0
    OBVIOUS
  <2>3. got \in Nat /\ pos \in Nat /\ body \in Nat \cup {None} /\ framed = 0
    OBVIOUS
  <2>4. raw \in BOOLEAN /\ failed \in BOOLEAN
    OBVIOUS
  <2> HIDE DEF Init
  <2> QED
    BY <2>1, <2>2, <2>3, <2>4 DEF TypeOK
<1>2. Len(mark) = 1 /\ Len(sent) = 0 /\ Len(out) = 0 /\ mark[1] = 0
  OBVIOUS
<1>3. Laid
  <2>1. 1..Len(sent) = {} /\ 1..Len(mark) = {1}
    BY <1>2
  <2> HIDE DEF Init
  <2>2. \A j, k \in 1..Len(mark) : j < k => mark[j] < mark[k]
    BY <2>1
  <2> QED
    BY <1>2, <2>1, <2>2 DEF Laid
<1>4. Aligned /\ Bounds
  BY <1>2 DEF Aligned, Bounds, Last
<1>5. PayloadsWhole /\ RawGoesOn /\ OnlyTooLongFails
  BY <1>2 DEF PayloadsWhole, RawGoesOn, OnlyTooLongFails
<1> QED
  BY <1>1, <1>3, <1>4, <1>5 DEF CodecInv

\* What the layout says of one frame.
LEMMA Frame ==
  ASSUME TypeOK, Laid, NEW k \in 1..Len(sent)
  PROVE  /\ k \in 1..Len(mark) /\ k + 1 \in 1..Len(mark)
         /\ sent[k].len \in Nat /\ sent[k].width \in 1..4
         /\ mark[k] \in Nat /\ mark[k + 1] \in Nat
         /\ mark[k + 1] = mark[k] + sent[k].width + sent[k].len
         /\ Fits(sent[k].len, sent[k].width)
<1>1. sent[k] \in [len : Nat, width : 1..4]
  <2> DEFINE Written == [len : Nat, width : 1..4]
  <2>1. sent \in Seq(Written)
    BY DEF TypeOK
  <2> HIDE DEF Written
  <2>2. sent[k] \in Written
    BY <2>1
  <2> QED
    BY <2>2 DEF Written
<1>2. Len(sent) \in Nat /\ Len(mark) = Len(sent) + 1
  BY DEF TypeOK
<1>3. k \in 1..Len(mark) /\ k + 1 \in 1..Len(mark)
  BY <1>2
<1>4. mark[k] \in Nat /\ mark[k + 1] \in Nat
  <2>1. mark \in Seq(Nat)
    BY DEF TypeOK
  <2> QED
    BY <1>3, <2>1
<1>5. sent[k].len \in Nat /\ sent[k].width \in 1..4
  BY <1>1
<1>6. /\ mark[k + 1] = mark[k] + sent[k].width + sent[k].len
      /\ Fits(sent[k].len, sent[k].width)
  BY DEF Laid
<1> QED
  BY <1>3, <1>4, <1>5, <1>6

\* Frames do not overlap.
LEMMA Apart ==
  ASSUME TypeOK, Laid, NEW j \in 1..Len(sent), NEW k \in 1..Len(sent), j < k
  PROVE  mark[j + 1] <= mark[k]
<1>1. j + 1 \in 1..Len(mark) /\ k \in 1..Len(mark)
  BY Frame
<1>2. mark[j + 1] \in Nat /\ mark[k] \in Nat
  BY Frame
<1>3. CASE j + 1 = k
  BY <1>2, <1>3
<1>4. CASE j + 1 < k
  BY <1>1, <1>2, <1>4 DEF Laid
<1> QED
  BY <1>3, <1>4

\* The bytes at the start of a frame are those of its header.
LEMMA HeaderBytes ==
  ASSUME TypeOK, Laid, NEW k \in 1..Len(sent), NEW i \in 0..sent[k].width - 1
  PROVE  ByteAt(mark[k] + i) = HeaderByte(sent[k].len, sent[k].width, i)
<1> DEFINE p == mark[k] + i
<1>0. /\ sent[k].len \in Nat /\ sent[k].width \in 1..4 /\ mark[k] \in Nat
      /\ mark[k + 1] \in Nat
      /\ mark[k + 1] = mark[k] + sent[k].width + sent[k].len
  BY Frame
<1>1. p \in Nat /\ mark[k] <= p /\ p < mark[k] + sent[k].width /\ p < mark[k + 1]
      /\ p - mark[k] = i
  <2>1. i \in Nat /\ i < sent[k].width
    BY <1>0
  <2>2. mark[k] + i < mark[k] + sent[k].width
    BY <1>0, <2>1
  <2>3. mark[k] + sent[k].width <= mark[k + 1]
    BY <1>0
  <2> QED
    BY <1>0, <2>1, <2>2, <2>3, SMTT(30)
<1> HIDE DEF p
<1>2. k \in HeaderAt(p)
  BY <1>1 DEF HeaderAt
<1>3. ASSUME NEW j \in HeaderAt(p) PROVE j = k
  <2>1. j \in 1..Len(sent) /\ mark[j] <= p /\ p < mark[j] + sent[j].width
    BY <1>3 DEF HeaderAt
  <2>2. /\ sent[j].len \in Nat /\ sent[j].width \in 1..4 /\ mark[j] \in Nat
        /\ mark[j + 1] \in Nat
        /\ mark[j + 1] = mark[j] + sent[j].width + sent[j].len
    BY <2>1, Frame
  <2>3. p < mark[j + 1]
    BY <1>1, <2>1, <2>2, SMTT(30)
  <2>4. ~(j < k)
    <3> SUFFICES ASSUME j < k PROVE FALSE
      OBVIOUS
    <3>1. mark[j + 1] <= mark[k]
      BY <2>1, Apart
    <3> QED
      BY <1>0, <1>1, <2>2, <2>3, <3>1
  <2>5. ~(k < j)
    <3> SUFFICES ASSUME k < j PROVE FALSE
      OBVIOUS
    <3>1. mark[k + 1] <= mark[j]
      BY <2>1, Apart
    <3> QED
      BY <1>0, <1>1, <2>1, <2>2, <3>1
  <2> QED
    BY <2>1, <2>4, <2>5
<1>4. (CHOOSE j \in HeaderAt(p) : TRUE) = k
  BY <1>2, <1>3
<1>5. ByteAt(p) = HeaderByte(sent[k].len, sent[k].width, i)
  BY <1>1, <1>2, <1>4 DEF ByteAt
<1> QED
  BY <1>5 DEF p

\* Every byte is a number, the payloads' included.
LEMMA BytesAreNat ==
  ASSUME TypeOK, Laid, NEW p \in Int
  PROVE  ByteAt(p) \in Nat
<1>1. CASE HeaderAt(p) = {}
  BY <1>1, CodecAssumption DEF ByteAt
<1>2. CASE HeaderAt(p) # {}
  <2> DEFINE j == CHOOSE l \in HeaderAt(p) : TRUE
             i == p - mark[j]
  <2>1. j \in 1..Len(sent) /\ mark[j] <= p /\ p < mark[j] + sent[j].width
    BY <1>2 DEF HeaderAt
  <2>2. sent[j].len \in Nat /\ sent[j].width \in 1..4 /\ mark[j] \in Nat
    BY <2>1, Frame
  <2>3. i \in {0, 1, 2, 3}
    BY <2>1, <2>2
  <2>4. ByteAt(p) = HeaderByte(sent[j].len, sent[j].width, i)
    BY <1>2 DEF ByteAt
  <2> HIDE DEF i, j
  <2>5. (sent[j].len * 4 + (sent[j].width - 1)) \in Nat
    BY <2>2
  <2>6. Shift8[i + 1] \in {1, 256, 65536, 16777216}
    BY <2>3, Shifts
  <2>7. ((sent[j].len * 4 + (sent[j].width - 1)) \div Shift8[i + 1]) \in Nat
    BY <2>5, <2>6
  <2> QED
    BY <2>4, <2>7 DEF HeaderByte
<1> QED
  BY <1>1, <1>2

\* With a whole header in the buffer, a frame starts here and its header says
\* its width and its length.
LEMMA HeaderIsRead ==
  ASSUME CodecInv, ~raw, HeadReady
  PROVE  LET k == framed + 1
         IN k \in 1..Len(sent) /\ pos = mark[k]
              /\ Width = sent[k].width /\ Announced = sent[k].len
<1> DEFINE k == framed + 1
<1>1. TypeOK /\ Laid /\ Aligned /\ Bounds
  BY DEF CodecInv
<1>2. pos \in Nat /\ got \in Nat /\ framed \in Nat /\ Len(mark) = Len(sent) + 1
      /\ Len(sent) \in Nat
  BY <1>1 DEF TypeOK
<1>3. body = None /\ pos = mark[k] /\ pos < got
  BY <1>1, <1>2 DEF HeadReady, Aligned, Buffered
<1>4. k \in 1..Len(sent)
  <2>1. k \in 1..Len(mark)
    BY <1>1, <1>2 DEF Aligned
  <2>2. mark[Len(mark)] \in Nat
    BY <1>1, <1>2 DEF TypeOK
  <2>3. k # Len(mark)
    BY <1>1, <1>2, <1>3, <2>2 DEF Bounds, Last
  <2> QED
    BY <1>2, <2>1, <2>3
<1> HIDE DEF k
<1> DEFINE B(i) == HeaderByte(sent[k].len, sent[k].width, i)
<1>5. /\ sent[k].width \in 1..4 /\ sent[k].len \in Nat /\ mark[k] \in Nat
      /\ Fits(sent[k].len, sent[k].width)
  BY <1>1, <1>4, Frame
<1>6. ASSUME NEW i \in 0..3, i < sent[k].width
      PROVE  ByteAt(pos + i) = B(i)
  <2>1. i \in 0..sent[k].width - 1
    BY <1>5, <1>6
  <2> QED
    BY <1>1, <1>3, <1>4, <2>1, HeaderBytes
<1>7. /\ ByteAt(pos) = B(0)
      /\ sent[k].width > 1 => ByteAt(pos + 1) = B(1)
      /\ sent[k].width > 2 => ByteAt(pos + 2) = B(2)
      /\ sent[k].width > 3 => ByteAt(pos + 3) = B(3)
  <2>1. pos = pos + 0
    BY <1>2
  <2> QED
    BY <1>5, <1>6, <2>1
<1>8. /\ ByteAt(pos + 1) \in Nat /\ ByteAt(pos + 2) \in Nat /\ ByteAt(pos + 3) \in Nat
  <2>1. /\ pos + 1 \in Int /\ pos + 2 \in Int /\ pos + 3 \in Int
    BY <1>2
  <2> QED
    BY <1>1, <2>1, BytesAreNat
<1>9. Width = sent[k].width /\ Announced = sent[k].len
  <2> HIDE DEF B
  <2>1. /\ WidthOf(B(0)) = sent[k].width
        /\ LengthOf(B(0), ByteAt(pos + 1), ByteAt(pos + 2), ByteAt(pos + 3)) = sent[k].len
    BY <1>5, <1>7, <1>8, HeaderRoundTrip DEF B
  <2> QED
    BY <1>7, <2>1 DEF Width, Announced
<1> QED
  BY <1>3, <1>4, <1>9 DEF k
-----------------------------------------------------------------------------
(* The steps.                                                              *)

\* encode and the other client's encoder: a frame is laid after the last.
LEMMA PutInv ==
  ASSUME CodecInv, NEW n \in Nat, NEW width \in 1..4, Fits(n, width), Put(n, width)
  PROVE  CodecInv'
<1> DEFINE Written == [len : Nat, width : 1..4]
           new == [len |-> n, width |-> width]
           next == mark[Len(mark)] + width + n
<1>1. TypeOK /\ Laid /\ Aligned /\ Bounds
  BY DEF CodecInv
<1>2. /\ sent' = Append(sent, new) /\ mark' = Append(mark, next)
      /\ UNCHANGED <<got, decoder>>
  BY DEF Put
<1>3. /\ sent \in Seq(Written) /\ mark \in Seq(Nat) /\ Len(mark) = Len(sent) + 1
      /\ new \in Written
  BY <1>1 DEF TypeOK
<1>4. mark[Len(mark)] \in Nat /\ next \in Nat
  BY <1>3
<1> HIDE DEF Written, new, next
<1>5. sent' \in Seq(Written) /\ mark' \in Seq(Nat) /\ Len(mark') = Len(sent') + 1
      /\ Len(sent') = Len(sent) + 1
  BY <1>2, <1>3, <1>4
<1>6. /\ \A k \in 1..Len(sent) : sent'[k] = sent[k]
      /\ \A k \in 1..Len(mark) : mark'[k] = mark[k]
      /\ sent'[Len(sent')] = new /\ mark'[Len(mark')] = next
  BY <1>2, <1>3
<1>7. TypeOK'
  BY <1>1, <1>2, <1>5 DEF TypeOK, decoder, Written
<1>8. Laid'
  <2>1. mark'[1] = 0
    BY <1>1, <1>3, <1>6 DEF Laid
  <2>2. ASSUME NEW k \in 1..Len(sent')
        PROVE  /\ mark'[k + 1] = mark'[k] + sent'[k].width + sent'[k].len
               /\ Fits(sent'[k].len, sent'[k].width)
    <3>1. CASE k \in 1..Len(sent)
      <4>1. k \in 1..Len(mark) /\ k + 1 \in 1..Len(mark)
        BY <3>1, <1>1, Frame
      <4> QED
        BY <3>1, <4>1, <1>1, <1>6 DEF Laid
    <3>2. CASE k = Len(sent')
      <4>1. k = Len(mark) /\ k + 1 = Len(mark') /\ k \in 1..Len(mark)
        BY <3>2, <1>3, <1>5
      <4>2. mark'[k] = mark[Len(mark)] /\ mark'[k + 1] = next /\ sent'[k] = new
        BY <3>2, <4>1, <1>6
      <4> QED
        BY <4>2 DEF new, next
    <3> QED
      BY <3>1, <3>2, <1>3, <1>5
  <2>3. ASSUME NEW j \in 1..Len(mark'), NEW k \in 1..Len(mark'), j < k
        PROVE  mark'[j] < mark'[k]
    <3>1. j \in 1..Len(mark)
      BY <2>3, <1>3, <1>5
    <3>2. mark'[j] = mark[j] /\ mark[j] \in Nat
      BY <3>1, <1>3, <1>6
    <3>3. CASE k \in 1..Len(mark)
      BY <2>3, <3>1, <3>2, <3>3, <1>1, <1>6 DEF Laid
    <3>4. CASE k = Len(mark')
      <4>1. mark'[k] = next
        BY <3>4, <1>6
      <4>2. mark[j] <= mark[Len(mark)]
        <5>1. CASE j = Len(mark)
          BY <5>1, <1>4
        <5>2. CASE j < Len(mark)
          <6>1. Len(mark) \in 1..Len(mark)
            BY <1>3
          <6> QED
            BY <5>2, <6>1, <3>1, <3>2, <1>1, <1>4 DEF Laid
        <5> QED
          BY <3>1, <5>1, <5>2, <1>3
      <4>3. mark[Len(mark)] < next
        BY <1>4 DEF next
      <4> QED
        BY <3>2, <4>1, <4>2, <4>3, <1>4
    <3> QED
      BY <3>3, <3>4, <1>3, <1>5
  <2> QED
    BY <2>1, <2>2, <2>3 DEF Laid
<1>9. framed \in Nat /\ framed + 1 \in 1..Len(mark) /\ framed' = framed /\ out' = out
      /\ body' = body
  BY <1>1, <1>2 DEF Aligned, TypeOK, decoder
<1>10. body # None => framed + 1 \in 1..Len(sent) /\ Start(framed + 1)' = Start(framed + 1)
  <2> SUFFICES ASSUME body # None
               PROVE  framed + 1 \in 1..Len(sent) /\ Start(framed + 1)' = Start(framed + 1)
    OBVIOUS
  <2>1. framed + 1 \in 1..Len(sent)
    BY <1>1, <1>3, <1>9 DEF Aligned
  <2> QED
    BY <2>1, <1>6, <1>9 DEF Start
<1>11. Aligned'
  BY <1>1, <1>2, <1>3, <1>5, <1>6, <1>9, <1>10 DEF Aligned, decoder
<1>12. Bounds'
  BY <1>1, <1>2, <1>4, <1>6, SMTT(30) DEF Bounds, Last, TypeOK, decoder, next
<1>13. PayloadsWhole'
  <2> SUFFICES ASSUME NEW k \in 1..framed
               PROVE  k <= Len(sent') /\ out[k] = [from |-> Start(k)', to |-> End(k)']
    BY <1>2, <1>9 DEF PayloadsWhole
  <2>1. k <= Len(sent) /\ out[k] = [from |-> Start(k), to |-> End(k)]
    BY DEF CodecInv, PayloadsWhole
  <2>2. k \in 1..Len(sent) /\ k \in 1..Len(mark) /\ k + 1 \in 1..Len(mark)
    BY <2>1, <1>3, <1>9
  <2>3. Start(k)' = Start(k) /\ End(k)' = End(k)
    BY <2>2, <1>6 DEF Start, End
  <2>4. k <= Len(sent')
    BY <2>1, <2>2, <1>3, <1>5
  <2> QED
    BY <2>1, <2>3, <2>4
<1>14. RawGoesOn'
  <2> SUFFICES ASSUME NEW k \in framed + 1..Len(out)
               PROVE  out[k].from = IF k > framed + 1 THEN out[k - 1].to
                                    ELSE IF body # None THEN Start(k)' ELSE mark'[k]
    BY <1>9 DEF RawGoesOn
  <2>1. out[k].from = IF k > framed + 1 THEN out[k - 1].to
                      ELSE IF body # None THEN Start(k) ELSE mark[k]
    BY DEF CodecInv, RawGoesOn
  <2>2. CASE k > framed + 1
    BY <2>1, <2>2
  <2>3. CASE k = framed + 1
    <3>1. mark'[k] = mark[k]
      BY <2>3, <1>6, <1>9
    <3> QED
      BY <2>1, <2>3, <3>1, <1>9, <1>10
  <2> QED
    BY <2>2, <2>3, <1>9
<1>15. OnlyTooLongFails'
  <2> SUFFICES ASSUME failed'
               PROVE  framed + 1 <= Len(sent') /\ sent'[framed + 1].len > MAX_PACKET
    BY <1>9 DEF OnlyTooLongFails
  <2>1. framed + 1 <= Len(sent) /\ sent[framed + 1].len > MAX_PACKET
    BY <1>2 DEF CodecInv, OnlyTooLongFails, decoder
  <2>2. framed + 1 \in 1..Len(sent)
    BY <2>1, <1>3, <1>9
  <2> QED
    BY <2>1, <2>2, <1>3, <1>5, <1>6
<1> QED
  BY <1>7, <1>8, <1>11, <1>12, <1>13, <1>14, <1>15 DEF CodecInv

\* More of the stream arrives: the decoder has not looked at it yet.
LEMMA ArriveInv ==
  ASSUME CodecInv, NEW p \in Int, Arrive(p)
  PROVE  CodecInv'
<1>1. TypeOK /\ Laid /\ Aligned /\ Bounds
  BY DEF CodecInv
<1>2. got < p /\ p <= Last /\ got' = p
  BY DEF Arrive, Last
<1>3. UNCHANGED <<sent, mark, pos, body, raw, failed, out, framed>>
  BY DEF Arrive, written, decoder
<1>4. TypeOK' /\ Bounds'
  BY <1>1, <1>2, <1>3 DEF TypeOK, Bounds, Last
<1>5. Laid' /\ Aligned'
  BY <1>1, <1>3 DEF Laid, Aligned, Start
<1>6. PayloadsWhole' /\ RawGoesOn' /\ OnlyTooLongFails'
  BY <1>3 DEF CodecInv, PayloadsWhole, RawGoesOn, OnlyTooLongFails, Start, End
<1> QED
  BY <1>4, <1>5, <1>6 DEF CodecInv

\* The payload of the next frame is handed up, or waited for.
LEMMA HandUpInv ==
  ASSUME CodecInv, ~raw, ~failed, framed + 1 \in 1..Len(sent),
         Start(framed + 1) <= got,
         HandUp(Start(framed + 1), sent[framed + 1].len),
         UNCHANGED <<written, got, raw, failed>>
  PROVE  CodecInv'
<1> DEFINE k == framed + 1
           Cut == [from : Nat, to : Nat]
           cut == [from |-> Start(k), to |-> End(k)]
<1>1. TypeOK /\ Laid /\ Aligned /\ Bounds /\ PayloadsWhole
  BY DEF CodecInv
<1>2. /\ k \in 1..Len(mark) /\ k + 1 \in 1..Len(mark)
      /\ sent[k].len \in Nat /\ Start(k) \in Nat /\ End(k) \in Nat
      /\ End(k) = Start(k) + sent[k].len
      /\ mark[Len(mark)] \in Nat
  <2>1. mark[Len(mark)] \in Nat
    BY <1>1 DEF TypeOK
  <2>2. /\ k \in 1..Len(mark) /\ k + 1 \in 1..Len(mark)
        /\ sent[k].len \in Nat /\ sent[k].width \in 1..4
        /\ mark[k] \in Nat /\ mark[k + 1] \in Nat
        /\ mark[k + 1] = mark[k] + sent[k].width + sent[k].len
    BY <1>1, Frame
  <2>3. Start(k) = mark[k] + sent[k].width /\ End(k) = mark[k + 1]
    BY DEF Start, End
  <2> HIDE DEF k
  <2>4. Start(k) \in Nat /\ End(k) \in Nat /\ End(k) = Start(k) + sent[k].len
    BY <2>2, <2>3, SMTT(30)
  <2> QED
    BY <2>1, <2>2, <2>4
<1>3. framed \in Nat /\ framed = Len(out) /\ out \in Seq(Cut) /\ got \in Nat
      /\ Len(mark) \in Nat
  BY <1>1 DEF TypeOK, Aligned
<1>4. sent' = sent /\ mark' = mark /\ got' = got /\ raw' = raw /\ failed' = failed
  BY DEF written
<1>5. \A i \in Nat : Start(i)' = Start(i) /\ End(i)' = End(i)
  BY <1>4 DEF Start, End
<1>6. Laid'
  BY <1>1, <1>4 DEF Laid
<1>7. OnlyTooLongFails'
  BY <1>4 DEF OnlyTooLongFails
<1>8. CASE got >= End(k)
  <2>1. /\ out' = Append(out, cut)
        /\ pos' = End(k) /\ body' = None /\ framed' = k
    BY <1>2, <1>8 DEF HandUp
  <2>2. cut \in Cut
    BY <1>2
  <2> HIDE DEF cut, Cut
  <2>3. /\ out' \in Seq(Cut) /\ Len(out') = k /\ out'[k] = cut
        /\ \A i \in 1..framed : out'[i] = out[i]
    BY <1>3, <2>1, <2>2
  <2>4. TypeOK'
    BY <1>1, <1>2, <1>3, <1>4, <2>1, <2>3 DEF TypeOK, Cut
  <2>5. Aligned'
    BY <1>2, <1>3, <1>4, <2>1, <2>3, CodecAssumption DEF Aligned, End
  <2>6. Bounds'
    BY <1>1, <1>4, <1>8, <2>1, <1>2, <1>3 DEF Bounds, Last
  <2>7. PayloadsWhole'
    <3> SUFFICES ASSUME NEW i \in 1..k
                 PROVE  i <= Len(sent) /\ out'[i] = [from |-> Start(i), to |-> End(i)]
      BY <1>3, <1>4, <1>5, <2>1 DEF PayloadsWhole
    <3>1. CASE i = k
      BY <3>1, <2>3 DEF cut
    <3>2. CASE i \in 1..framed
      BY <3>2, <1>1, <2>3 DEF PayloadsWhole
    <3> QED
      BY <3>1, <3>2, <1>3
  <2>8. RawGoesOn'
    <3>1. framed' + 1..Len(out') = {}
      BY <1>3, <2>1, <2>3
    <3> QED
      BY <3>1 DEF RawGoesOn
  <2> QED
    BY <1>6, <1>7, <2>4, <2>5, <2>6, <2>7, <2>8 DEF CodecInv
<1>9. CASE ~(got >= End(k))
  <2>1. /\ pos' = Start(k) /\ body' = sent[k].len
        /\ out' = out /\ framed' = framed
    BY <1>2, <1>9 DEF HandUp
  <2>2. TypeOK'
    BY <1>1, <1>2, <1>4, <2>1 DEF TypeOK
  <2>3. Aligned'
    <3>1. framed + 1 <= Len(mark) /\ framed + 1 <= Len(sent) /\ ~(framed < Len(out))
      BY <1>1, <1>2, <1>3 DEF TypeOK
    <3>2. sent[k].len # None
      BY <1>2, CodecAssumption
    <3>3. Start(framed + 1)' = Start(k)
      BY <1>4, <2>1 DEF Start
    <3> QED
      BY <1>3, <1>4, <2>1, <3>1, <3>2, <3>3 DEF Aligned
  <2>4. Bounds'
    BY <1>1, <1>4, <2>1 DEF Bounds, Last
  <2>5. PayloadsWhole'
    BY <1>1, <1>4, <2>1 DEF PayloadsWhole, Start, End
  <2>6. RawGoesOn'
    <3>1. framed' + 1..Len(out') = {}
      BY <1>3, <2>1
    <3> QED
      BY <3>1 DEF RawGoesOn
  <2> QED
    BY <1>6, <1>7, <2>2, <2>3, <2>4, <2>5, <2>6 DEF CodecInv
<1> QED
  BY <1>8, <1>9

LEMMA DecodeInv ==
  ASSUME CodecInv, Decode
  PROVE  CodecInv'
<1> DEFINE k == framed + 1
<1>1. TypeOK /\ Laid /\ Aligned /\ Bounds
  BY DEF CodecInv
<1>2. ~raw /\ ~failed /\ UNCHANGED <<written, got, raw>>
  BY DEF Decode
<1>3. framed \in Nat /\ framed = Len(out) /\ pos \in Nat /\ got \in Nat
      /\ Len(sent) \in Nat
  BY <1>1, <1>2 DEF TypeOK, Aligned
<1>4. CASE Refuse
  <2>1. k \in 1..Len(sent) /\ sent[k].len > MAX_PACKET
    BY <1>2, <1>4, HeaderIsRead DEF Refuse
  <2>2. UNCHANGED <<sent, mark, got, pos, body, raw, out, framed>> /\ failed' = TRUE
    BY <1>2, <1>4 DEF Refuse, written
  <2>3. TypeOK'
    BY <1>1, <2>2 DEF TypeOK
  <2>4. Laid' /\ Aligned' /\ Bounds'
    BY <1>1, <2>2 DEF Laid, Aligned, Bounds, Last, Start
  <2>5. PayloadsWhole' /\ RawGoesOn'
    BY <2>2 DEF CodecInv, PayloadsWhole, RawGoesOn, Start, End
  <2>6. OnlyTooLongFails'
    BY <2>1, <2>2, <1>3 DEF OnlyTooLongFails
  <2> QED
    BY <2>3, <2>4, <2>5, <2>6 DEF CodecInv
<1>5. CASE HeadReady /\ HandUp(pos + Width, Announced) /\ UNCHANGED failed
  <2>1. /\ k \in 1..Len(sent) /\ pos = mark[k]
        /\ Width = sent[k].width /\ Announced = sent[k].len
    BY <1>2, <1>5, HeaderIsRead
  <2>2. sent[k].width \in 1..4
    BY <1>1, <2>1, Frame
  <2>3. pos + Width = Start(k) /\ Start(k) <= got
    BY <1>3, <1>5, <2>1, <2>2 DEF HeadReady, Buffered, Start
  <2> QED
    BY <1>2, <1>5, <2>1, <2>3, HandUpInv
<1>6. CASE body # None /\ HandUp(pos, body) /\ UNCHANGED failed
  <2>1. k \in 1..Len(sent) /\ body = sent[k].len /\ pos = Start(k)
    BY <1>1, <1>2, <1>3, <1>6 DEF Aligned
  <2>2. Start(k) <= got
    BY <1>1, <2>1 DEF Bounds
  <2> QED
    BY <1>2, <1>6, <2>1, <2>2, HandUpInv
<1> QED
  BY <1>4, <1>5, <1>6 DEF Decode

LEMMA SetRawInv ==
  ASSUME CodecInv, set_raw
  PROVE  CodecInv'
<1>1. TypeOK /\ Laid /\ Aligned /\ Bounds
  BY DEF CodecInv
<1>2. UNCHANGED <<sent, mark, got, pos, body, failed, out, framed>> /\ raw' = TRUE
  BY DEF set_raw, written
<1>3. TypeOK'
  BY <1>1, <1>2 DEF TypeOK
<1>4. Laid' /\ Aligned' /\ Bounds'
  BY <1>1, <1>2 DEF Laid, Aligned, Bounds, Last, Start
<1>5. PayloadsWhole' /\ RawGoesOn' /\ OnlyTooLongFails'
  BY <1>2 DEF CodecInv, PayloadsWhole, RawGoesOn, OnlyTooLongFails, Start, End
<1> QED
  BY <1>3, <1>4, <1>5 DEF CodecInv

LEMMA DecodeRawInv ==
  ASSUME CodecInv, DecodeRaw
  PROVE  CodecInv'
<1> DEFINE Cut == [from : Nat, to : Nat]
           cut == [from |-> pos, to |-> got]
<1>1. TypeOK /\ Laid /\ Aligned /\ Bounds
  BY DEF CodecInv
<1>2. /\ out' = Append(out, cut) /\ pos' = got /\ raw
      /\ UNCHANGED <<sent, mark, got, body, raw, failed, framed>>
  BY DEF DecodeRaw, written
<1>3. out \in Seq(Cut) /\ pos \in Nat /\ got \in Nat /\ framed \in Nat
      /\ Len(out) \in Nat /\ framed <= Len(out) /\ cut \in Cut
  BY <1>1 DEF TypeOK
<1>4. cut.from = pos /\ cut.to = got
  OBVIOUS
<1> HIDE DEF Cut, cut
<1>5. /\ out' \in Seq(Cut) /\ Len(out') = Len(out) + 1 /\ out'[Len(out')] = cut
      /\ \A i \in 1..Len(out) : out'[i] = out[i]
  BY <1>2, <1>3
<1>6. TypeOK'
  BY <1>1, <1>2, <1>3, <1>5 DEF TypeOK, Cut
<1>7. Laid' /\ Bounds'
  BY <1>1, <1>2, <1>3 DEF Laid, Bounds, Last
<1>8. Aligned'
  BY <1>1, <1>2, <1>3, <1>4, <1>5 DEF Aligned
<1>9. PayloadsWhole'
  <2> SUFFICES ASSUME NEW k \in 1..framed
               PROVE  k <= Len(sent) /\ out'[k] = [from |-> Start(k), to |-> End(k)]
    BY <1>2 DEF PayloadsWhole, Start, End
  <2>1. out'[k] = out[k]
    BY <1>3, <1>5
  <2> QED
    BY <2>1 DEF CodecInv, PayloadsWhole
<1>10. RawGoesOn'
  <2> SUFFICES ASSUME NEW k \in framed + 1..Len(out')
               PROVE  out'[k].from = IF k > framed + 1 THEN out'[k - 1].to
                                     ELSE IF body # None THEN Start(k) ELSE mark[k]
    BY <1>2 DEF RawGoesOn, Start
  <2>1. CASE k \in framed + 1..Len(out)
    <3>1. out[k].from = IF k > framed + 1 THEN out[k - 1].to
                        ELSE IF body # None THEN Start(k) ELSE mark[k]
      BY <2>1 DEF CodecInv, RawGoesOn
    <3>2. k \in 1..Len(out) /\ (k > framed + 1 => k - 1 \in 1..Len(out))
      BY <2>1, <1>3
    <3> QED
      BY <3>1, <3>2, <1>5
  <2>2. CASE k = Len(out) + 1
    <3>1. out'[k].from = pos
      BY <2>2, <1>4, <1>5
    <3>2. CASE framed = Len(out)
      BY <3>1, <3>2, <2>2, <1>1, <1>3 DEF Aligned
    <3>3. CASE framed < Len(out)
      <4>1. k > framed + 1 /\ k - 1 = Len(out) /\ Len(out) \in 1..Len(out)
        BY <3>3, <2>2, <1>3
      <4> QED
        BY <3>1, <3>3, <4>1, <1>1, <1>5 DEF Aligned
    <3> QED
      BY <3>2, <3>3, <1>3
  <2> QED
    BY <2>1, <2>2, <1>3, <1>5
<1>11. OnlyTooLongFails'
  BY <1>2 DEF CodecInv, OnlyTooLongFails
<1> QED
  BY <1>6, <1>7, <1>8, <1>9, <1>10, <1>11 DEF CodecInv

LEMMA NextInv ==
  ASSUME CodecInv, [Next]_vars
  PROVE  CodecInv'
<1>1. ASSUME NEW n \in Sizes, Encode(n) PROVE CodecInv'
  <2>1. n \in Nat /\ n < 1073741824 /\ Put(n, HeadLen(n))
    BY <1>1, CodecAssumption DEF Encode
  <2>2. HeadLen(n) \in 1..4 /\ Fits(n, HeadLen(n))
    BY <2>1, EncoderFits
  <2> QED
    BY <2>1, <2>2, PutInv
<1>2. ASSUME NEW n \in Sizes, NEW width \in Widths, ForeignEncode(n, width)
      PROVE  CodecInv'
  <2>1. n \in Nat /\ width \in 1..4
    BY CodecAssumption
  <2> QED
    BY <1>2, <2>1, PutInv DEF ForeignEncode, Fits
<1>3. ASSUME NEW k \in 1..Len(mark), NEW d \in -1..Reach, Arrive(mark[k] + d)
      PROVE  CodecInv'
  <2>1. mark \in Seq(Nat)
    BY DEF CodecInv, TypeOK
  <2>2. mark[k] + d \in Int
    BY <2>1, CodecAssumption
  <2> QED
    BY <1>3, <2>2, ArriveInv
<1>4. CASE UNCHANGED vars
  <2>1. UNCHANGED <<sent, mark, got, pos, body, raw, failed, out, framed>>
    BY <1>4 DEF vars, written, decoder
  <2> QED
    BY <2>1 DEF CodecInv, TypeOK, Laid, Aligned, Bounds, Last, PayloadsWhole,
                RawGoesOn, OnlyTooLongFails, Start, End
<1> QED
  BY <1>1, <1>2, <1>3, <1>4, DecodeInv, SetRawInv, DecodeRawInv DEF Next
-----------------------------------------------------------------------------
(* The theorems.                                                           *)

LEMMA Inductive == Spec => []CodecInv
<1>1. CodecInv /\ [Next]_vars => CodecInv'
  BY NextInv
<1> QED
  BY InitInv, <1>1, PTL DEF Spec

\* Every state has the types TypeOK gives it.
THEOREM TypeCorrect == Spec => []TypeOK
<1>1. CodecInv => TypeOK
  BY DEF CodecInv
<1> QED
  BY <1>1, Inductive, PTL

\* decode: for any limit, any lengths and any pieces, the payloads come out
\* whole and in order, and a decoder that goes raw goes on where it stands.
THEOREM InOrder == Spec => []StreamInOrder
<1>1. CodecInv => StreamInOrder
  BY DEF CodecInv, StreamInOrder
<1> QED
  BY <1>1, Inductive, PTL

\* decode gives up only on a frame that is longer than the limit.
THEOREM OnlyTooLong == Spec => []OnlyTooLongFails
<1>1. CodecInv => OnlyTooLongFails
  BY DEF CodecInv
<1> QED
  BY <1>1, Inductive, PTL
=============================================================================
