----------------------------- MODULE NalProofs -----------------------------
(***************************************************************************)
(* Proofs about the way of a picture: the Windows encoder's arithmetic,    *)
(* for displays of every size and pixels of every colour; what drain makes *)
(* of a sample, for any number of NALs of any length; the warm-up window   *)
(* of a room, for any caps and any frames; and the two together.           *)
(***************************************************************************)
EXTENDS NalPath, SequenceTheorems, FiniteSetTheorems, WellFoundedInduction, TLAPS

(* The encoder's arithmetic.                                               *)

Even(n) == n % 2 = 0

LEMMA Rounding ==
  ASSUME NEW n \in Nat
  PROVE  /\ RoundUp(n) \in Nat
         /\ Even(n) => RoundUp(n) = n
         /\ ~Even(n) => RoundUp(n) = n + 1
  BY DEF RoundUp, Even

\* submit_frame: the frame of a display is taken exactly if both its sides are
\* even; of any other display every frame is refused, and nothing is encoded.
THEOREM OnlyEvenDisplaysAreEncoded ==
  ASSUME NEW width \in Nat \ {0}, NEW height \in Nat \ {0}
  PROVE  Accepts(width, height) <=> Even(width) /\ Even(height)
<1> DEFINE size == width * height
           rounded == RoundUp(width) * RoundUp(height)
<1>1. size \in Nat /\ rounded \in Nat
  BY Rounding
<1>2. Accepts(width, height) <=> size >= rounded
  BY <1>1 DEF Accepts
<1>3. Even(width) /\ Even(height) => rounded = size
  BY Rounding
<1>4. ASSUME ~Even(width), Even(height) PROVE rounded = size + height
  <2>1. rounded = (width + 1) * height
    BY <1>4, Rounding
  <2> QED
    BY <2>1
<1>5. ASSUME Even(width), ~Even(height) PROVE rounded = size + width
  <2>1. rounded = width * (height + 1)
    BY <1>5, Rounding
  <2> QED
    BY <2>1
<1>6. ASSUME ~Even(width), ~Even(height) PROVE rounded = size + width + height + 1
  <2>1. rounded = (width + 1) * (height + 1)
    BY <1>6, Rounding
  <2> QED
    BY <2>1
<1> HIDE DEF size, rounded
<1> QED
  BY <1>1, <1>2, <1>3, <1>4, <1>5, <1>6

\* bgra_to_nv12: for every colour the results are in the limited range, so the
\* clamp never changes one.
THEOREM NeverClamped ==
  ASSUME NEW r \in 0..255, NEW g \in 0..255, NEW b \in 0..255
  PROVE  /\ Luma(r, g, b) \in 16..235 /\ Luma(r, g, b) = RawLuma(r, g, b)
         /\ ChromaU(r, g, b) \in 16..240 /\ ChromaU(r, g, b) = RawU(r, g, b)
         /\ ChromaV(r, g, b) \in 16..240 /\ ChromaV(r, g, b) = RawV(r, g, b)
<1>1. RawLuma(r, g, b) \in 16..235
  BY DEF RawLuma
<1>2. RawU(r, g, b) \in 16..240
  BY DEF RawU
<1>3. RawV(r, g, b) \in 16..240
  BY DEF RawV
<1> QED
  BY <1>1, <1>2, <1>3 DEF Luma, ChromaU, ChromaV, Clamp

\* bgra_to_nv12: with both sides even, every read and every write is inside the
\* buffers, the four pixels of a square included.
THEOREM ConversionStaysInside ==
  ASSUME NEW width \in Nat, NEW height \in Nat, Even(width), Even(height),
         NEW x \in 0..width - 1, NEW y \in 0..height - 1
  PROVE  /\ Source(x, y, width) + 3 < width * height * 4
         /\ LumaIndex(x, y, width) < Nv12Len(width, height)
         /\ Even(x) /\ Even(y) =>
              /\ Source(x + 1, y + 1, width) + 3 < width * height * 4
              /\ ChromaIndex(x, y, width, height) + 1 < Nv12Len(width, height)
<1> DEFINE size == width * height
<1>1. size \in Nat
  OBVIOUS
<1>2. ASSUME NEW a \in 0..width - 1, NEW c \in 0..height - 1
      PROVE  c * width + a \in Nat /\ c * width + a < size
  <2>1. c \in Nat /\ c + 1 <= height /\ a \in Nat /\ a + 1 <= width
    OBVIOUS
  <2>2. (c + 1) * width <= height * width
    BY <2>1
  <2>3. (c + 1) * width = c * width + width /\ c * width \in Nat
    BY <2>1
  <2>4. height * width = size
    OBVIOUS
  <2> HIDE DEF size
  <2> QED
    BY <2>1, <2>2, <2>3, <2>4
<1>3. Source(x, y, width) + 3 < size * 4 /\ LumaIndex(x, y, width) < size
  BY <1>1, <1>2 DEF Source, LumaIndex
<1>4. size <= Nv12Len(width, height)
  BY <1>1 DEF Nv12Len
<1>5. ASSUME Even(x), Even(y)
      PROVE  /\ Source(x + 1, y + 1, width) + 3 < size * 4
             /\ ChromaIndex(x, y, width, height) + 1 < Nv12Len(width, height)
  <2>1. x + 1 \in 0..width - 1 /\ y + 1 \in 0..height - 1
    BY <1>5 DEF Even
  <2>2. Source(x + 1, y + 1, width) + 3 < size * 4
    BY <1>1, <1>2, <2>1 DEF Source
  <2> DEFINE half == height \div 2
             row == y \div 2
  <2>3. half \in Nat /\ row \in Nat /\ height = 2 * half /\ row + 1 <= half
    BY <1>5, <2>1 DEF Even
  <2>4. size \div 2 = half * width
    <3>1. size = 2 * (half * width)
      BY <2>3
    <3>2. half * width \in Nat
      BY <2>3
    <3> HIDE DEF size, half
    <3> QED
      BY <3>1, <3>2
  <2>5. row * width + x + 1 < half * width
    <3> HIDE DEF half, row
    <3>1. (row + 1) * width <= half * width
      BY <2>3
    <3>2. (row + 1) * width = row * width + width /\ row * width \in Nat
      BY <2>3
    <3>3. half * width \in Nat
      BY <2>3
    <3> QED
      BY <2>1, <3>1, <3>2, <3>3
  <2>6. row * width \in Nat /\ half * width \in Nat
    BY <2>3
  <2> QED
    BY <1>1, <2>2, <2>4, <2>5, <2>6 DEF ChromaIndex, Nv12Len
<1>6. width * height * 4 = size * 4
  OBVIOUS
<1> HIDE DEF size
<1>7. LumaIndex(x, y, width) < Nv12Len(width, height)
  <2>1. LumaIndex(x, y, width) \in Nat /\ Nv12Len(width, height) \in Nat
    BY <1>1 DEF LumaIndex, Nv12Len, size
  <2> QED
    BY <1>1, <1>3, <1>4, <2>1
<1> QED
  BY <1>3, <1>5, <1>6, <1>7
-----------------------------------------------------------------------------
(* Induction.  The library's theorems about it take an operator; these say *)
(* it of sets.                                                             *)

LEMMA LeastOf ==
  ASSUME NEW S \in SUBSET Nat, S # {}
  PROVE  \E n \in S : \A m \in S : n <= m
<1>1. \A T : T \subseteq Nat /\ T # {} =>
        \E x \in T : \A y \in T : ~(<<y, x>> \in OpToRel(<, Nat))
  BY NatLessThanWellFounded, WFMin
<1>2. PICK n \in S : \A m \in S : ~(<<m, n>> \in OpToRel(<, Nat))
  BY <1>1
<1>3. ASSUME NEW m \in S PROVE n <= m
  <2>1. m \in Nat /\ n \in Nat
    OBVIOUS
  <2>2. m < n => <<m, n>> \in OpToRel(<, Nat)
    BY <2>1 DEF OpToRel
  <2>3. ~(m < n)
    BY <1>2, <2>2
  <2> QED
    BY <2>1, <2>3
<1> QED
  BY <1>3

LEMMA ByInduction ==
  ASSUME NEW S, 0 \in S, \A n \in Nat : n \in S => n + 1 \in S
  PROVE  \A n \in Nat : n \in S
<1> SUFFICES ASSUME NEW k \in Nat, k \notin S PROVE FALSE
  OBVIOUS
<1> DEFINE T == {n \in Nat : n \notin S}
<1>1. PICK n \in T : \A m \in T : n <= m
  <2>1. T \in SUBSET Nat /\ T # {}
    OBVIOUS
  <2> HIDE DEF T
  <2> QED
    BY <2>1, LeastOf
<1>2. n \in Nat /\ n # 0 /\ n \notin S
  OBVIOUS
<1>3. n - 1 \in Nat /\ n - 1 < n /\ (n - 1) + 1 = n
  BY <1>2
<1>4. n - 1 \in S
  BY <1>1, <1>3
<1> QED
  BY <1>2, <1>3, <1>4

LEMMA ByDescent ==
  ASSUME NEW N \in Nat, NEW S,
         \A n \in 0..N : (\A m \in 0..N : m > n => m \in S) => n \in S
  PROVE  \A n \in 0..N : n \in S
<1> DEFINE T == {k \in Nat : \A m \in 0..N : m + k > N => m \in S}
<1>1. 0 \in T
  OBVIOUS
<1>2. ASSUME NEW k \in Nat, k \in T PROVE k + 1 \in T
  <2> SUFFICES ASSUME NEW m \in 0..N, m + (k + 1) > N PROVE m \in S
    OBVIOUS
  <2>1. \A l \in 0..N : l > m => l + k > N
    OBVIOUS
  <2>2. \A l \in 0..N : l > m => l \in S
    BY <1>2, <2>1
  <2> QED
    BY <2>2
<1>3. N + 1 \in Nat
  OBVIOUS
<1> HIDE DEF T
<1>4. N + 1 \in T
  BY <1>1, <1>2, <1>3, ByInduction
<1>5. \A m \in 0..N : m + (N + 1) > N => m \in S
  BY <1>4 DEF T
<1>6. \A m \in 0..N : m + (N + 1) > N
  OBVIOUS
<1> QED
  BY <1>5, <1>6

\* A function that appends to its head at a position what it is at a later one,
\* as the two ways to cut a sample do.
Onward(D, stop, next, head, f) ==
  f = [p \in D |-> IF p \in stop THEN head[p] ELSE head[p] \o f[next[p]]]

Advances(D, N, stop, next) ==
  D \subseteq 0..N /\ \A p \in D \ stop : next[p] \in D /\ p < next[p]

LEMMA OnwardExists ==
  ASSUME NEW N \in Nat, NEW D, NEW stop, NEW next, NEW head, Advances(D, N, stop, next)
  PROVE  \E f : Onward(D, stop, next, head, f)
<1> DEFINE Upper(k) == {p \in D : p + k > N}
           T == {k \in Nat : \E f : Onward(Upper(k), stop, next, head, f)}
<1>0. D \subseteq 0..N /\ \A p \in D \ stop : next[p] \in D /\ p < next[p]
  BY DEF Advances
<1>5. \A p \in D : p \in Nat /\ p <= N
  BY <1>0
<1>1. 0 \in T
  <2>1. Upper(0) = {}
    <3>1. \A p \in D : ~(p + 0 > N)
      BY <1>5
    <3> QED
      BY <3>1
  <2> DEFINE g == [p \in {} |-> 0]
  <2>2. Onward({}, stop, next, head, g)
    BY DEF Onward
  <2> HIDE DEF Upper, g
  <2> QED
    BY <2>1, <2>2
<1>2. ASSUME NEW k \in Nat, k \in T PROVE k + 1 \in T
  <2>1. PICK g : Onward(Upper(k), stop, next, head, g)
    BY <1>2
  <2> DEFINE rest(p) == IF p \in stop THEN head[p] ELSE head[p] \o g[next[p]]
             f == [p \in Upper(k + 1) |-> rest(p)]
  <2>2. Upper(k) \subseteq Upper(k + 1)
    <3>1. \A p \in D : p + k > N => p + (k + 1) > N
      BY <1>5
    <3> QED
      BY <3>1
  <2>3. \A p \in Upper(k + 1) \ stop : next[p] \in Upper(k)
    <3> TAKE p \in Upper(k + 1) \ stop
    <3>1. p \in 0..N /\ p + (k + 1) > N /\ next[p] \in 0..N /\ p < next[p] /\ next[p] \in D
      BY <1>0
    <3>2. next[p] + k > N
      BY <3>1
    <3> QED
      BY <3>1, <3>2
  <2> HIDE DEF Upper
  <2>4. \A p \in Upper(k) : g[p] = rest(p)
    BY <2>1 DEF Onward
  <2>5. \A p \in Upper(k) : f[p] = g[p]
    BY <2>2, <2>4
  <2>6. \A p \in Upper(k + 1) : rest(p) = IF p \in stop THEN head[p] ELSE head[p] \o f[next[p]]
    BY <2>3, <2>5
  <2>7. f = [p \in Upper(k + 1) |-> IF p \in stop THEN head[p] ELSE head[p] \o f[next[p]]]
    BY <2>6
  <2>8. Onward(Upper(k + 1), stop, next, head, f)
    BY <2>7 DEF Onward
  <2> HIDE DEF f
  <2> QED
    BY <2>8
<1>3. N + 1 \in Nat /\ Upper(N + 1) = D
  <2>1. \A p \in D : p + (N + 1) > N
    BY <1>5
  <2> QED
    BY <2>1
<1> HIDE DEF T, Upper
<1>4. N + 1 \in T
  BY <1>1, <1>2, <1>3, ByInduction
<1>6. \E f : Onward(Upper(N + 1), stop, next, head, f)
  BY <1>4 DEF T
<1> QED
  BY <1>3, <1>6

LEMMA OnwardIs ==
  ASSUME NEW D, NEW stop, NEW next, NEW head, NEW f, Onward(D, stop, next, head, f), NEW p \in D
  PROVE  f[p] = IF p \in stop THEN head[p] ELSE head[p] \o f[next[p]]
  BY DEF Onward

LEMMA OnwardType ==
  ASSUME NEW N \in Nat, NEW D, NEW stop, NEW next, NEW head, Advances(D, N, stop, next),
         NEW f, Onward(D, stop, next, head, f),
         NEW X, \A p \in D : head[p] \in Seq(X)
  PROVE  \A p \in D : f[p] \in Seq(X)
<1> DEFINE S == {p \in Nat : p \in D => f[p] \in Seq(X)}
<1>0. D \subseteq 0..N /\ \A p \in D \ stop : next[p] \in D /\ p < next[p]
  BY DEF Advances
<1>1. ASSUME NEW p \in 0..N, \A m \in 0..N : m > p => m \in S PROVE p \in S
  <2> SUFFICES ASSUME p \in D PROVE f[p] \in Seq(X)
    OBVIOUS
  <2>1. f[p] = IF p \in stop THEN head[p] ELSE head[p] \o f[next[p]]
    BY OnwardIs
  <2>2. CASE p \in stop
    BY <2>1, <2>2
  <2>3. CASE p \notin stop
    <3>1. next[p] \in D /\ next[p] \in 0..N /\ next[p] > p
      BY <1>0, <2>3
    <3>2. f[next[p]] \in Seq(X)
      BY <1>1, <3>1
    <3>3. \A a, b \in Seq(X) : a \o b \in Seq(X)
      OBVIOUS
    <3> QED
      BY <2>1, <2>3, <3>2, <3>3
  <2> QED
    BY <2>2, <2>3
<1> HIDE DEF S
<1>2. \A p \in 0..N : p \in S
  BY <1>1, ByDescent
<1> QED
  BY <1>0, <1>2 DEF S
-----------------------------------------------------------------------------
(* Lengths and the bytes they are written in.                              *)

LEMMA Weights == /\ Weight[1] = 16777216 /\ Weight[2] = 65536
                 /\ Weight[3] = 256 /\ Weight[4] = 1
  BY DEF Weight

\* The four bytes of a length give it back.
LEMMA LengthOfBytes ==
  ASSUME NEW n \in Nat, n < 4294967296
  PROVE  /\ BeByte(n, 0) \in 0..255 /\ BeByte(n, 1) \in 0..255
         /\ BeByte(n, 2) \in 0..255 /\ BeByte(n, 3) \in 0..255
         /\ n = 16777216 * BeByte(n, 0) + 65536 * BeByte(n, 1)
                + 256 * BeByte(n, 2) + BeByte(n, 3)
<1> DEFINE b0 == BeByte(n, 0)
           b1 == BeByte(n, 1)
           b2 == BeByte(n, 2)
           b3 == BeByte(n, 3)
<1>1. /\ b0 = (n \div 16777216) % 256 /\ b1 = (n \div 65536) % 256
      /\ b2 = (n \div 256) % 256 /\ b3 = (n \div 1) % 256
  BY Weights, SMT DEF BeByte
<1>2. /\ n \div 256 = 256 * (n \div 65536) + ((n \div 256) % 256)
      /\ n \div 65536 = 256 * (n \div 16777216) + ((n \div 65536) % 256)
      /\ n = 256 * (n \div 256) + (n % 256)
      /\ (n \div 16777216) % 256 = n \div 16777216
      /\ n \div 1 = n
  <2>1. n \div 256 = 256 * (n \div 65536) + ((n \div 256) % 256)
    BY SMT
  <2>2. n \div 65536 = 256 * (n \div 16777216) + ((n \div 65536) % 256)
    BY SMT
  <2>3. n = 256 * (n \div 256) + (n % 256) /\ n \div 1 = n
    BY SMT
  <2>4. (n \div 16777216) % 256 = n \div 16777216
    BY SMT
  <2> QED
    BY <2>1, <2>2, <2>3, <2>4
<1>3. n = 16777216 * b0 + 65536 * b1 + 256 * b2 + b3
  <2>1. /\ n \div 16777216 = b0
        /\ n \div 65536 = 256 * (n \div 16777216) + b1
        /\ n \div 256 = 256 * (n \div 65536) + b2
        /\ n = 256 * (n \div 256) + b3
    BY <1>1, <1>2, SMT
  <2>2. PICK c \in Nat, d \in Nat, e \in Nat :
          c = n \div 16777216 /\ d = n \div 65536 /\ e = n \div 256
    BY SMT
  <2>3. c = b0 /\ d = 256 * c + b1 /\ e = 256 * d + b2 /\ n = 256 * e + b3
    BY <2>1, <2>2, SMT
  <2>4. b0 \in Int /\ b1 \in Int /\ b2 \in Int /\ b3 \in Int
    BY <1>1, SMT
  <2> HIDE DEF b0, b1, b2, b3
  <2> QED
    BY <2>3, <2>4, SMT
<1>4. b0 \in 0..255 /\ b1 \in 0..255 /\ b2 \in 0..255 /\ b3 \in 0..255
  BY <1>1, SMT
<1> QED
  BY <1>3, <1>4, SMT

\* is_annexb on a sample that begins with a length: of all 32-bit lengths, it
\* takes 1 and the ones from 256 to 511 for a start code.
THEOREM SniffedLengths ==
  ASSUME NEW n \in Nat, n < 4294967296
  PROVE  StartsWithCode(BeByte(n, 0), BeByte(n, 1), BeByte(n, 2), BeByte(n, 3))
           <=> n = 1 \/ n \in 256..511
<1> DEFINE b0 == BeByte(n, 0)
           b1 == BeByte(n, 1)
           b2 == BeByte(n, 2)
           b3 == BeByte(n, 3)
<1>1. n = 16777216 * b0 + 65536 * b1 + 256 * b2 + b3
  BY LengthOfBytes, SMT
<1>2. b0 \in 0..255 /\ b1 \in 0..255 /\ b2 \in 0..255 /\ b3 \in 0..255
  BY LengthOfBytes, SMT
<1> HIDE DEF b0, b1, b2, b3
<1>3. <<b0, b1, b2, b3>> = <<0, 0, 0, 1>> <=> n = 1
  BY <1>1, <1>2, SMT
<1>4. <<b0, b1, b2>> = <<0, 0, 1>> <=> n \in 256..511
  BY <1>1, <1>2, SMT
<1>5. StartsWithCode(b0, b1, b2, b3) <=> n = 1 \/ n \in 256..511
  BY <1>3, <1>4, SMT DEF StartsWithCode
<1> QED
  BY <1>5, SMT DEF b0, b1, b2, b3

LEMMA ShortEnough ==
  ASSUME NEW n \in Nat, n <= LongestNal
  PROVE  n < 4294967296
  BY SMT DEF LongestNal
-----------------------------------------------------------------------------
(* A room that records whatever comes: the frames of WarmupHistory as well *)
(* as the NALs of a capturer.  What is proved of it holds of both.         *)

Stamped == Frames \cup StampedNal
RoomWindow == [codec : Codec \cup {None},
               param_sets : [ParamType -> Stamped \cup {None}],
               keyframe : Seq(Stamped),
               keyframe_total_bytes : Nat,
               since_keyframe : Seq(Stamped),
               since_keyframe_total_bytes : Nat]
RoomTypeOK == w \in RoomWindow /\ seen \in Seq(Stamped)

Recorded(f) == w' = record(w, f) /\ seen' = Append(seen, f)
RoomNext == \E f \in Stamped : Recorded(f)
RoomSpec == Init /\ [][RoomNext]_vars

LEMMA StampedFrames ==
  \A f \in Stamped : f.first \in 0..255 \cup {None} /\ f.len \in Nat
  BY FramesAssumption DEF Stamped, StampedNal

LEMMA NoneNotStamped == None \notin Stamped
  BY NoneAssumption, StampedAssumption DEF Stamped

(* What a frame is, and what record does with it.                          *)

Others == {"Delta", "Unknown"}

LEMMA ParamSetFields ==
  ASSUME NEW c, NEW t
  PROVE  /\ ParamSet(c, t).kind = "ParamSet"
         /\ ParamSet(c, t).codec = c /\ ParamSet(c, t).nal_type = t
BY DEF ParamSet

LEMMA Classes ==
  ASSUME NEW f \in Stamped, NEW c \in Codec \cup {None}
  PROVE  LET class == classify_nal(f, c)
         IN /\ class.kind \in {"ParamSet", "Keyframe", "Delta", "Unknown"}
            /\ class.kind = "ParamSet" =>
                 /\ class.codec \in Codec /\ class.nal_type \in ParamType
                 /\ c = None => classify_nal(f, class.codec).kind = "ParamSet"
            /\ class.kind = "Keyframe" => c # None
<1> USE NoneAssumption DEF ParamSet, Kind, Codec
<1>1. CASE f.first = None
  BY <1>1 DEF classify_nal
<1>2. CASE f.first # None /\ c = "Hevc"
  BY <1>2 DEF classify_nal, HevcKind, ParamType
<1>3. CASE f.first # None /\ c = "H264"
  BY <1>3 DEF classify_nal, H264Kind, ParamType
<1>4. CASE f.first # None /\ c = None
  <2>1. classify_nal(f, c) = Discover(f.first)
    BY <1>4 DEF classify_nal
  <2>2. classify_nal(f, "Hevc") = HevcKind(f.first)
    BY <1>4 DEF classify_nal
  <2>3. classify_nal(f, "H264") = H264Kind(f.first)
    BY <1>4 DEF classify_nal
  <2>4. CASE hevc_type(f.first) \in HevcParam
    <3>1. /\ Discover(f.first) = ParamSet("Hevc", hevc_type(f.first))
          /\ HevcKind(f.first) = ParamSet("Hevc", hevc_type(f.first))
      BY <2>4 DEF Discover, HevcKind, HevcParam
    <3>2. hevc_type(f.first) \in ParamType
      BY <2>4 DEF ParamType
    <3> HIDE DEF ParamSet
    <3>3. QED
      BY <1>4, <2>1, <2>2, <3>1, <3>2, ParamSetFields
  <2>5. CASE hevc_type(f.first) \notin HevcParam /\ h264_type(f.first) \in H264Param
    <3>1. /\ Discover(f.first) = ParamSet("H264", h264_type(f.first))
          /\ H264Kind(f.first) = ParamSet("H264", h264_type(f.first))
      BY <2>5 DEF Discover, H264Kind, H264Param
    <3>2. h264_type(f.first) \in ParamType
      BY <2>5 DEF ParamType
    <3> HIDE DEF ParamSet
    <3>3. QED
      BY <1>4, <2>1, <2>3, <3>1, <3>2, ParamSetFields
  <2>6. CASE hevc_type(f.first) \notin HevcParam /\ h264_type(f.first) \notin H264Param
    BY <1>4, <2>1, <2>6 DEF Discover
  <2>7. QED
    BY <2>4, <2>5, <2>6
<1>5. QED
  BY <1>1, <1>2, <1>3, <1>4

\* What a first byte is under a codec, and which parameter set.
KindUnder(codec, byte) ==
  LET class == IF codec = "Hevc" THEN HevcKind(byte) ELSE H264Kind(byte)
  IN class.kind
TypeUnder(codec, byte) ==
  IF codec = "Hevc" THEN hevc_type(byte) ELSE h264_type(byte)

LEMMA KnownCodec ==
  ASSUME NEW f \in Stamped, NEW c \in Codec
  PROVE  LET class == classify_nal(f, c)
         IN /\ \A k \in {"ParamSet", "Keyframe"} :
                 class.kind = k <=> f.first # None /\ KindUnder(c, f.first) = k
            /\ class.kind = "ParamSet" => class.nal_type = TypeUnder(c, f.first)
<1> USE NoneAssumption DEF Codec
<1>1. CASE f.first = None
  BY <1>1 DEF classify_nal, Kind
<1>2. CASE f.first # None /\ c = "Hevc"
  <2>1. classify_nal(f, c) = HevcKind(f.first)
    BY <1>2 DEF classify_nal
  <2>2. HevcKind(f.first).kind = "ParamSet" => HevcKind(f.first).nal_type = hevc_type(f.first)
    BY DEF HevcKind, ParamSet, Kind
  <2> QED
    BY <1>2, <2>1, <2>2 DEF KindUnder, TypeUnder
<1>3. CASE f.first # None /\ c = "H264"
  <2>1. classify_nal(f, c) = H264Kind(f.first)
    BY <1>3 DEF classify_nal
  <2>2. H264Kind(f.first).kind = "ParamSet" => H264Kind(f.first).nal_type = h264_type(f.first)
    BY DEF H264Kind, ParamSet, Kind
  <2> QED
    BY <1>3, <2>1, <2>2 DEF KindUnder, TypeUnder
<1> QED
  BY <1>1, <1>2, <1>3

LEMMA NoCodecYet ==
  ASSUME NEW f \in Stamped
  PROVE  LET class == classify_nal(f, None)
         IN /\ class.kind = "ParamSet" <=>
                 f.first # None /\ Discover(f.first).kind = "ParamSet"
            /\ class.kind \in {"ParamSet", "Unknown"}
            /\ class.kind = "ParamSet" =>
                 /\ class.codec \in Codec /\ class.codec = Discover(f.first).codec
                 /\ KindUnder(class.codec, f.first) = "ParamSet"
                 /\ class.nal_type = TypeUnder(class.codec, f.first)
<1> USE NoneAssumption DEF Codec
<1>1. CASE f.first = None
  BY <1>1 DEF classify_nal, Kind
<1>2. CASE f.first # None
  <2> DEFINE b == f.first
  <2>1. classify_nal(f, None) = Discover(b)
    BY <1>2 DEF classify_nal
  <2>2. CASE hevc_type(b) \in HevcParam
    <3>1. /\ Discover(b) = ParamSet("Hevc", hevc_type(b))
          /\ HevcKind(b) = ParamSet("Hevc", hevc_type(b))
      BY <2>2 DEF Discover, HevcKind, HevcParam
    <3> QED
      BY <1>2, <2>1, <3>1, ParamSetFields DEF KindUnder, TypeUnder
  <2>3. CASE hevc_type(b) \notin HevcParam /\ h264_type(b) \in H264Param
    <3>1. /\ Discover(b) = ParamSet("H264", h264_type(b))
          /\ H264Kind(b) = ParamSet("H264", h264_type(b))
      BY <2>3 DEF Discover, H264Kind, H264Param
    <3> QED
      BY <1>2, <2>1, <3>1, ParamSetFields DEF KindUnder, TypeUnder
  <2>4. CASE hevc_type(b) \notin HevcParam /\ h264_type(b) \notin H264Param
    BY <1>2, <2>1, <2>4 DEF Discover, Kind
  <2> QED
    BY <2>2, <2>3, <2>4
<1> QED
  BY <1>1, <1>2

LEMMA AppendIs ==
  ASSUME NEW T, NEW s \in Seq(T), NEW x \in T, NEW n, n = Len(s)
  PROVE  Append(s, x) = [k \in 1..n + 1 |-> IF k = n + 1 THEN x ELSE s[k]]
<1> DEFINE z == Append(s, x)
<1>1. n \in Nat /\ z \in Seq(T) /\ Len(z) = n + 1
      /\ z[n + 1] = x /\ \A k \in 1..n : z[k] = s[k]
  BY AppendProperties
<1> HIDE DEF z
<1>2. z = [k \in 1..n + 1 |-> z[k]]
  BY <1>1, LenProperties
<1> QED
  BY <1>1, <1>2 DEF z

\* What record does, field by field.
Effects(v, f, class, z) ==
  /\ z \in RoomWindow
  /\ class.kind = "ParamSet" =>
       /\ z.codec = IF v.codec = None THEN class.codec ELSE v.codec
       /\ \A t \in ParamType : z.param_sets[t] = IF t = class.nal_type THEN f
                                                 ELSE v.param_sets[t]
       /\ z.keyframe = v.keyframe
       /\ z.keyframe_total_bytes = v.keyframe_total_bytes
       /\ z.since_keyframe = v.since_keyframe
       /\ z.since_keyframe_total_bytes = v.since_keyframe_total_bytes
  /\ class.kind # "ParamSet" => z.codec = v.codec /\ z.param_sets = v.param_sets
  /\ class.kind = "Keyframe" =>
       /\ z.keyframe = IF f.len <= WARMUP_KEY_MAX_BYTES THEN <<f>> ELSE << >>
       /\ z.keyframe_total_bytes = IF f.len <= WARMUP_KEY_MAX_BYTES THEN f.len ELSE 0
       /\ z.since_keyframe = << >> /\ z.since_keyframe_total_bytes = 0
  /\ class.kind \in Others /\ v.keyframe = << >> => z = v
  /\ class.kind \in Others /\ v.keyframe # << >> =>
       LET projected == v.since_keyframe_total_bytes + f.len
           fits == projected <= WARMUP_DELTA_MAX_BYTES
       IN /\ z.keyframe = IF fits THEN v.keyframe ELSE << >>
          /\ z.keyframe_total_bytes = IF fits THEN v.keyframe_total_bytes ELSE 0
          /\ z.since_keyframe = IF fits THEN Append(v.since_keyframe, f) ELSE << >>
          /\ z.since_keyframe_total_bytes = IF fits THEN projected ELSE 0

LEMMA RecordEffects ==
  ASSUME NEW v \in RoomWindow, NEW f \in Stamped, NEW class, class = classify_nal(f, v.codec),
         NEW z, z = record(v, f)
  PROVE  Effects(v, f, class, z)
<1> USE DEF Effects
<1>0. v.codec \in Codec \cup {None}
  BY DEF RoomWindow
<1>1. CASE class.kind = "ParamSet"
  <2> DEFINE c == IF v.codec = None THEN class.codec ELSE v.codec
             t == class.nal_type
  <2>1. z = [v EXCEPT !.codec = c, !.param_sets[t] = f]
    BY <1>1 DEF record, RecordParamSet
  <2>5. c \in Codec \cup {None} /\ t \in ParamType
    BY <1>0, <1>1, Classes DEF RoomWindow
  <2> HIDE DEF c, t
  <2>2. /\ z.codec = c /\ z \in RoomWindow
        /\ z.param_sets = [v.param_sets EXCEPT ![t] = f]
        /\ z.keyframe = v.keyframe
        /\ z.keyframe_total_bytes = v.keyframe_total_bytes
        /\ z.since_keyframe = v.since_keyframe
        /\ z.since_keyframe_total_bytes = v.since_keyframe_total_bytes
    BY <2>1, <2>5 DEF RoomWindow
  <2>3. v.param_sets \in [ParamType -> Stamped \cup {None}]
    BY DEF RoomWindow
  <2>4. \A u \in ParamType : z.param_sets[u] = IF u = t THEN f ELSE v.param_sets[u]
    BY <2>2, <2>3
  <2> QED
    BY <1>1, <2>2, <2>4 DEF c, t, Others
<1>2. CASE class.kind = "Keyframe"
  <2> DEFINE key == IF f.len <= WARMUP_KEY_MAX_BYTES THEN <<f>> ELSE << >>
             size == IF f.len <= WARMUP_KEY_MAX_BYTES THEN f.len ELSE 0
             none == << >>
  <2>1. z = RecordKeyframe(v, f)
    BY <1>2 DEF record
  <2>2. z = [v EXCEPT !.keyframe = key, !.keyframe_total_bytes = size,
                      !.since_keyframe = none, !.since_keyframe_total_bytes = 0]
    BY <2>1 DEF RecordKeyframe
  <2>4. key \in Seq(Stamped) /\ size \in Nat /\ none \in Seq(Stamped)
    BY StampedFrames
  <2> HIDE DEF key, size, none
  <2>3. /\ z.codec = v.codec /\ z.param_sets = v.param_sets
        /\ z.keyframe = key /\ z.keyframe_total_bytes = size
        /\ z.since_keyframe = none /\ z.since_keyframe_total_bytes = 0
    BY <2>2 DEF RoomWindow
  <2>5. z \in RoomWindow
    <3>1. z = [codec |-> v.codec, param_sets |-> v.param_sets,
               keyframe |-> key, keyframe_total_bytes |-> size,
               since_keyframe |-> none, since_keyframe_total_bytes |-> 0]
      BY <2>2 DEF RoomWindow
    <3>2. v.codec \in Codec \cup {None} /\ v.param_sets \in [ParamType -> Stamped \cup {None}]
      BY DEF RoomWindow
    <3> QED
      BY <2>4, <3>1, <3>2 DEF RoomWindow
  <2> QED
    BY <1>2, <2>3, <2>5 DEF key, size, none, Others
<1>3. CASE class.kind \in Others
  <2> DEFINE projected == v.since_keyframe_total_bytes + f.len
             none == << >>
             longer == Append(v.since_keyframe, f)
  <2>1. z = RecordDelta(v, f)
    BY <1>3 DEF record, Others
  <2>2. CASE v.keyframe = << >>
    BY <1>3, <2>1, <2>2 DEF RecordDelta, Others
  <2>3. projected \in Nat
    BY StampedFrames DEF RoomWindow
  <2>4. CASE v.keyframe # << >> /\ projected <= WARMUP_DELTA_MAX_BYTES
    <3>1. ~(projected > WARMUP_DELTA_MAX_BYTES)
      BY <2>3, <2>4, CapsAssumption
    <3>2. z = [v EXCEPT !.since_keyframe = longer, !.since_keyframe_total_bytes = projected]
      BY <2>1, <2>4, <3>1 DEF RecordDelta
    <3>4. longer \in Seq(Stamped)
      BY DEF RoomWindow
    <3> HIDE DEF projected, longer
    <3>3. /\ z \in RoomWindow /\ z.codec = v.codec /\ z.param_sets = v.param_sets
          /\ z.keyframe = v.keyframe
          /\ z.keyframe_total_bytes = v.keyframe_total_bytes
          /\ z.since_keyframe = longer /\ z.since_keyframe_total_bytes = projected
      BY <2>3, <3>2, <3>4 DEF RoomWindow
    <3> QED
      BY <1>3, <2>4, <3>3 DEF Others, projected, longer
  <2>5. CASE v.keyframe # << >> /\ ~(projected <= WARMUP_DELTA_MAX_BYTES)
    <3>1. projected > WARMUP_DELTA_MAX_BYTES
      BY <2>3, <2>5, CapsAssumption
    <3>2. z = [v EXCEPT !.keyframe = none, !.keyframe_total_bytes = 0,
                        !.since_keyframe = none, !.since_keyframe_total_bytes = 0]
      BY <2>1, <2>5, <3>1 DEF RecordDelta
    <3>4. none \in Seq(Stamped)
      OBVIOUS
    <3> HIDE DEF projected, none
    <3>3. /\ z.codec = v.codec /\ z.param_sets = v.param_sets
          /\ z.keyframe = none /\ z.keyframe_total_bytes = 0
          /\ z.since_keyframe = none /\ z.since_keyframe_total_bytes = 0
      BY <3>2 DEF RoomWindow
    <3>5. z \in RoomWindow
      <4>1. z = [codec |-> v.codec, param_sets |-> v.param_sets,
                 keyframe |-> none, keyframe_total_bytes |-> 0,
                 since_keyframe |-> none, since_keyframe_total_bytes |-> 0]
        BY <3>2 DEF RoomWindow
      <4>2. v.codec \in Codec \cup {None} /\ v.param_sets \in [ParamType -> Stamped \cup {None}]
        BY DEF RoomWindow
      <4> QED
        BY <3>4, <4>1, <4>2 DEF RoomWindow
    <3> QED
      BY <1>3, <2>5, <3>3, <3>5 DEF Others, projected, none
  <2> QED
    BY <2>2, <2>4, <2>5
<1>4. class.kind \in {"ParamSet", "Keyframe"} \cup Others
  BY <1>0, Classes DEF Others
<1> QED
  BY <1>1, <1>2, <1>3, <1>4
-----------------------------------------------------------------------------
(* What a window may hold.                                                 *)

\* The codec is locked with the first parameter set, a key frame needs the
\* codec, deltas need a key frame; and everything cached is still classified,
\* under the codec of the room, as what it was recorded as.
CacheOK ==
  /\ w.codec = None => w.keyframe = << >> /\ \A t \in ParamType : w.param_sets[t] = None
  /\ w.codec # None => \E t \in ParamType : w.param_sets[t] # None
  /\ w.keyframe = << >> => w.since_keyframe = << >>
  /\ Len(w.keyframe) <= 1
  /\ \A t \in ParamType : w.param_sets[t] # None => KindOf(w.param_sets[t]) = "ParamSet"
  /\ \A i \in 1..Len(w.keyframe) : KindOf(w.keyframe[i]) = "Keyframe"
  /\ \A i \in 1..Len(w.since_keyframe) : KindOf(w.since_keyframe[i]) \in Others

WindowInv == RoomTypeOK /\ CapsHold /\ CacheOK

LEMMA WindowInvariant == RoomSpec => []WindowInv
<1> USE CapsAssumption, NoneAssumption, NoneNotStamped
<1>1. Init => WindowInv
  BY DEF Init, WindowInv, RoomTypeOK, CapsHold, CacheOK, EmptyWindow, RoomWindow
<1>2. WindowInv /\ [RoomNext]_vars => WindowInv'
  <2> SUFFICES ASSUME WindowInv, [RoomNext]_vars PROVE WindowInv'
    OBVIOUS
  <2>1. ASSUME NEW f \in Stamped, Recorded(f) PROVE WindowInv'
    <3> DEFINE class == classify_nal(f, w.codec)
               KindNow(g) == classify_nal(g, w'.codec).kind
    <3>1. /\ w' = record(w, f) /\ seen' = Append(seen, f)
          /\ w \in RoomWindow /\ seen \in Seq(Stamped)
      BY <2>1 DEF Recorded, WindowInv, RoomTypeOK
    <3>2. Effects(w, f, class, w')
      BY <3>1, RecordEffects
    <3>3. w.codec \in Codec \cup {None}
      BY <3>1 DEF RoomWindow
    <3>4. /\ class.kind \in {"ParamSet", "Keyframe"} \cup Others
          /\ class.kind = "ParamSet" =>
               /\ class.codec \in Codec /\ class.nal_type \in ParamType
               /\ w.codec = None => classify_nal(f, class.codec).kind = "ParamSet"
          /\ class.kind = "Keyframe" => w.codec # None
      BY <3>3, Classes DEF Others
    <3>5. w' \in RoomWindow
      BY <3>2 DEF Effects
    <3>6. RoomTypeOK'
      BY <3>1, <3>5 DEF RoomTypeOK
    <3>7. /\ \A t \in ParamType : w.param_sets[t] # None => KindOf(w.param_sets[t]) = "ParamSet"
          /\ \A i \in 1..Len(w.keyframe) : KindOf(w.keyframe[i]) = "Keyframe"
          /\ \A i \in 1..Len(w.since_keyframe) : KindOf(w.since_keyframe[i]) \in Others
      BY DEF WindowInv, CacheOK
    <3>8. CacheOK' <=>
            /\ w'.codec = None => w'.keyframe = << >> /\ \A t \in ParamType : w'.param_sets[t] = None
            /\ w'.codec # None => \E t \in ParamType : w'.param_sets[t] # None
            /\ w'.keyframe = << >> => w'.since_keyframe = << >>
            /\ Len(w'.keyframe) <= 1
            /\ \A t \in ParamType : w'.param_sets[t] # None => KindNow(w'.param_sets[t]) = "ParamSet"
            /\ \A i \in 1..Len(w'.keyframe) : KindNow(w'.keyframe[i]) = "Keyframe"
            /\ \A i \in 1..Len(w'.since_keyframe) : KindNow(w'.since_keyframe[i]) \in Others
      BY DEF CacheOK, KindOf
    <3>9. w'.codec = w.codec => \A g : KindNow(g) = KindOf(g)
      BY DEF KindOf
    <3>10. KindNow(f) = IF w'.codec = w.codec THEN class.kind
                        ELSE classify_nal(f, w'.codec).kind
      OBVIOUS
    <3> HIDE DEF class, KindNow
    <3>11. CASE class.kind = "ParamSet"
      <4>1. /\ w'.codec = IF w.codec = None THEN class.codec ELSE w.codec
            /\ \A t \in ParamType : w'.param_sets[t] = IF t = class.nal_type THEN f
                                                       ELSE w.param_sets[t]
            /\ w'.keyframe = w.keyframe /\ w'.since_keyframe = w.since_keyframe
            /\ w'.keyframe_total_bytes = w.keyframe_total_bytes
            /\ w'.since_keyframe_total_bytes = w.since_keyframe_total_bytes
        BY <3>2, <3>11 DEF Effects
      <4>2. CapsHold'
        BY <4>1 DEF CapsHold, WindowInv
      <4>3. w'.codec # None
        BY <3>4, <3>11, <4>1
      <4>4. KindNow(f) = "ParamSet"
        BY <3>4, <3>10, <3>11, <4>1
      <4>5. \A t \in ParamType : w'.param_sets[t] # None => KindNow(w'.param_sets[t]) = "ParamSet"
        <5> SUFFICES ASSUME NEW t \in ParamType, t # class.nal_type, w'.param_sets[t] # None
                     PROVE  KindNow(w'.param_sets[t]) = "ParamSet"
          BY <4>1, <4>4
        <5>1. w'.param_sets[t] = w.param_sets[t]
          BY <4>1
        <5>2. w.codec # None
          BY <5>1 DEF WindowInv, CacheOK
        <5>3. w'.codec = w.codec
          BY <4>1, <5>2
        <5>4. KindNow(w.param_sets[t]) = KindOf(w.param_sets[t])
          BY <3>9, <5>3
        <5> QED
          BY <3>7, <5>1, <5>4
      <4>6. \E t \in ParamType : w'.param_sets[t] # None
        BY <3>4, <3>11, <4>1
      <4>7. /\ \A i \in 1..Len(w'.keyframe) : KindNow(w'.keyframe[i]) = "Keyframe"
            /\ \A i \in 1..Len(w'.since_keyframe) : KindNow(w'.since_keyframe[i]) \in Others
        <5>1. CASE w.codec = None
          <6>1. w'.keyframe = << >> /\ w'.since_keyframe = << >>
            BY <4>1, <5>1 DEF WindowInv, CacheOK
          <6> QED
            BY <6>1
        <5>2. CASE w.codec # None
          <6>1. /\ w'.codec = w.codec
                /\ w'.keyframe = w.keyframe /\ w'.since_keyframe = w.since_keyframe
            BY <4>1, <5>2
          <6>2. \A g : KindNow(g) = KindOf(g)
            BY <3>9, <6>1
          <6> QED
            BY <3>7, <6>1, <6>2
        <5> QED
          BY <5>1, <5>2
      <4>8. w'.keyframe = << >> => w'.since_keyframe = << >>
        BY <4>1 DEF WindowInv, CacheOK
      <4>9. Len(w'.keyframe) <= 1
        BY <4>1 DEF WindowInv, CacheOK
      <4>10. CacheOK'
        BY <3>8, <4>3, <4>5, <4>6, <4>7, <4>8, <4>9
      <4> QED
        BY <3>6, <4>2, <4>10 DEF WindowInv
    <3>12. ASSUME w'.codec = w.codec, w'.param_sets = w.param_sets
           PROVE  /\ w'.codec # None => \E t \in ParamType : w'.param_sets[t] # None
                  /\ \A t \in ParamType : w'.param_sets[t] # None => KindNow(w'.param_sets[t]) = "ParamSet"
      BY <3>7, <3>9, <3>12 DEF WindowInv, CacheOK
    <3>13. CASE class.kind = "Keyframe"
      <4>1. /\ w'.codec = w.codec /\ w'.param_sets = w.param_sets
            /\ w'.keyframe = IF f.len <= WARMUP_KEY_MAX_BYTES THEN <<f>> ELSE << >>
            /\ w'.keyframe_total_bytes = IF f.len <= WARMUP_KEY_MAX_BYTES THEN f.len ELSE 0
            /\ w'.since_keyframe = << >> /\ w'.since_keyframe_total_bytes = 0
        BY <3>2, <3>13 DEF Effects
      <4>2. CapsHold'
        BY <4>1 DEF CapsHold
      <4>3. KindNow(f) = "Keyframe"
        BY <3>10, <3>13, <4>1
      <4>4. Len(w'.keyframe) <= 1 /\ \A i \in 1..Len(w'.keyframe) : KindNow(w'.keyframe[i]) = "Keyframe"
        <5>1. CASE w'.keyframe = << >>
          BY <5>1
        <5>2. CASE w'.keyframe = <<f>>
          BY <4>3, <5>2
        <5> QED
          BY <4>1, <5>1, <5>2
      <4>5. \A i \in 1..Len(w'.since_keyframe) : KindNow(w'.since_keyframe[i]) \in Others
        BY <4>1
      <4>6. CacheOK'
        BY <3>4, <3>8, <3>12, <3>13, <4>1, <4>4, <4>5
      <4> QED
        BY <3>6, <4>2, <4>6 DEF WindowInv
    <3>14. CASE class.kind \in Others
      <4> DEFINE s == w.since_keyframe
                 projected == w.since_keyframe_total_bytes + f.len
                 fits == projected <= WARMUP_DELTA_MAX_BYTES
      <4>1. class.kind # "ParamSet"
        BY <3>14 DEF Others
      <4>2. w'.codec = w.codec /\ w'.param_sets = w.param_sets
        BY <3>2, <4>1 DEF Effects
      <4>3. w.codec = None => w.keyframe = << >> /\ \A t \in ParamType : w.param_sets[t] = None
        BY DEF WindowInv, CacheOK
      <4>4. CASE w.keyframe = << >>
        <5>1. w' = w
          BY <3>2, <3>14, <4>4 DEF Effects
        <5> QED
          BY <3>6, <5>1 DEF WindowInv, CapsHold, CacheOK, KindOf
      <4>5. CASE w.keyframe # << >>
        <5>1. /\ w'.keyframe = IF fits THEN w.keyframe ELSE << >>
              /\ w'.keyframe_total_bytes = IF fits THEN w.keyframe_total_bytes ELSE 0
              /\ w'.since_keyframe = IF fits THEN Append(s, f) ELSE << >>
              /\ w'.since_keyframe_total_bytes = IF fits THEN projected ELSE 0
          BY <3>2, <3>14, <4>5 DEF Effects
        <5> HIDE DEF projected
        <5>2. CASE ~fits
          <6>1. CapsHold'
            BY <5>1, <5>2 DEF CapsHold
          <6>2. /\ w'.keyframe = << >> /\ w'.since_keyframe = << >>
                /\ Len(w'.keyframe) = 0 /\ Len(w'.since_keyframe) = 0
            BY <5>1, <5>2
          <6>3. CacheOK'
            BY <3>8, <3>12, <4>2, <4>3, <6>2
          <6> QED
            BY <3>6, <6>1, <6>3 DEF WindowInv
        <5>3. CASE fits
          <6>1. /\ w'.keyframe = w.keyframe /\ w'.since_keyframe = Append(s, f)
                /\ w'.keyframe_total_bytes = w.keyframe_total_bytes
                /\ w'.since_keyframe_total_bytes = projected
            BY <5>1, <5>3
          <6>2. CapsHold'
            BY <5>3, <6>1 DEF CapsHold, WindowInv
          <6>3. s \in Seq(Stamped)
            BY <3>1 DEF RoomWindow
          <6>4. \A i \in 1..Len(s) : KindNow(s[i]) \in Others
            BY <3>7, <3>9, <4>2
          <6>5. KindNow(f) \in Others
            BY <3>10, <3>14, <4>2
          <6> HIDE DEF s, fits
          <6>6. \A i \in 1..Len(w'.since_keyframe) : KindNow(w'.since_keyframe[i]) \in Others
            <7>0. PICK q \in Seq(Stamped) : q = s
              BY <6>3
            <7>1. PICK z : q = s /\ z = Append(q, f)
              BY <7>0
            <7>2. \A i \in 1..Len(z) : z[i] = f \/ \E j \in 1..Len(q) : z[i] = q[j]
              <8>1. PICK n : n = Len(q)
                OBVIOUS
              <8>2. n \in Nat /\ Len(z) = n + 1
                BY <7>1, <8>1
              <8>5. z[n + 1] = f
                BY <7>1, <8>1
              <8>3. \A j \in 1..n : z[j] = q[j]
                BY <7>1, <8>1
              <8>4. \A i \in 1..Len(z) : i \in 1..n \/ i = n + 1
                BY <8>2
              <8> QED
                BY <8>1, <8>3, <8>4, <8>5, Zenon
            <7>3. w'.since_keyframe = z
              BY <6>1, <7>1
            <7>4. \A j \in 1..Len(q) : KindNow(q[j]) \in Others
              BY <6>4, <7>1
            <7>5. \A i \in 1..Len(z) : KindNow(z[i]) \in Others
              BY <6>5, <7>2, <7>4, Zenon
            <7> QED
              BY <7>3, <7>5
          <6>7. Len(w'.keyframe) <= 1 /\ \A i \in 1..Len(w'.keyframe) : KindNow(w'.keyframe[i]) = "Keyframe"
            <7>1. \A g : KindNow(g) = KindOf(g)
              BY <3>9, <4>2
            <7>2. Len(w.keyframe) <= 1
              BY DEF WindowInv, CacheOK
            <7> QED
              BY <3>7, <6>1, <7>1, <7>2
          <6>8. CacheOK'
            BY <3>8, <3>12, <4>2, <4>3, <4>5, <6>1, <6>6, <6>7
          <6> QED
            BY <3>6, <6>2, <6>8 DEF WindowInv
        <5> QED
          BY <5>2, <5>3
      <4> QED
        BY <4>4, <4>5
    <3> QED
      BY <3>4, <3>11, <3>13, <3>14
  <2>2. CASE UNCHANGED vars
    BY <2>2 DEF vars, WindowInv, RoomTypeOK, CapsHold, CacheOK, KindOf
  <2> QED
    BY <2>1, <2>2 DEF RoomNext
<1> QED
  BY <1>1, <1>2, PTL DEF RoomSpec
-----------------------------------------------------------------------------
Kinds(c, kinds) == {f \in Stamped : classify_nal(f, c).kind \in kinds}

\* A sum of five sizes, one of which is one.
LEMMA OneOfFive ==
  ASSUME NEW a \in Nat, NEW b \in Nat, NEW c \in Nat, NEW d \in Nat, NEW e \in Nat,
         a = 1 \/ b = 1 \/ c = 1 \/ d = 1 \/ e = 1
  PROVE  a + b + c + d + e >= 1
OBVIOUS

\* The cached parameter sets form a sequence of parameter sets, and there is
\* one as soon as the codec is known.
LEMMA CachedParamsAre ==
  ASSUME WindowInv
  PROVE  LET params == Kinds(w.codec, {"ParamSet"})
         IN /\ CachedParams(w) \in Seq(params)
            /\ w.codec # None => Len(CachedParams(w)) >= 1
<1> USE NoneAssumption, NoneNotStamped
<1> DEFINE params == Kinds(w.codec, {"ParamSet"})
           One(t) == CachedParam(w, t)
<1>1. \A t \in ParamType : /\ One(t) \in Seq(params)
                           /\ Len(One(t)) = IF w.param_sets[t] = None THEN 0 ELSE 1
  <2> TAKE t \in ParamType
  <2>1. CASE w.param_sets[t] = None
    <3>1. One(t) = << >>
      BY <2>1 DEF CachedParam
    <3>2. QED
      BY <2>1, <3>1
  <2>2. CASE w.param_sets[t] # None
    <3> DEFINE x == w.param_sets[t]
    <3>1. One(t) = <<x>>
      BY <2>2 DEF CachedParam
    <3>4. x \in Stamped
      BY <2>2 DEF WindowInv, RoomTypeOK, RoomWindow
    <3>5. classify_nal(x, w.codec).kind = "ParamSet"
      BY <2>2 DEF WindowInv, CacheOK, KindOf
    <3>2. x \in params
      BY <3>4, <3>5 DEF Kinds
    <3> HIDE DEF x, params, One
    <3>3. <<x>> \in Seq(params) /\ Len(<<x>>) = 1
      BY <3>2
    <3>6. QED
      BY <2>2, <3>1, <3>3
  <2>3. QED
    BY <2>1, <2>2
<1>2. ParamType = {7, 8, 32, 33, 34}
  BY DEF ParamType, H264Param, HevcParam
<1>3. CachedParams(w) = One(7) \o One(8) \o One(32) \o One(33) \o One(34)
  BY DEF CachedParams
<1>4. w.codec # None => \E t \in ParamType : w.param_sets[t] # None
  BY DEF WindowInv, CacheOK
<1> HIDE DEF params, One
<1>5. /\ One(7) \in Seq(params) /\ One(8) \in Seq(params) /\ One(32) \in Seq(params)
      /\ One(33) \in Seq(params) /\ One(34) \in Seq(params)
  BY <1>1, <1>2
<1>6. CachedParams(w) \in Seq(params)
  BY <1>3, <1>5, ConcatProperties
<1>7. Len(CachedParams(w)) = Len(One(7)) + Len(One(8)) + Len(One(32)) + Len(One(33)) + Len(One(34))
  BY <1>3, <1>5, ConcatProperties
<1>8. ASSUME w.codec # None PROVE Len(CachedParams(w)) >= 1
  <2>1. PICK t \in ParamType : w.param_sets[t] # None
    BY <1>4, <1>8
  <2>2. Len(One(t)) = 1
    BY <1>1, <2>1
  <2>3. \A u \in ParamType : Len(One(u)) \in Nat
    BY <1>1
  <2> DEFINE n(u) == Len(One(u))
  <2>4. /\ n(7) \in Nat /\ n(8) \in Nat /\ n(32) \in Nat /\ n(33) \in Nat /\ n(34) \in Nat
        /\ n(7) = 1 \/ n(8) = 1 \/ n(32) = 1 \/ n(33) = 1 \/ n(34) = 1
        /\ Len(CachedParams(w)) = n(7) + n(8) + n(32) + n(33) + n(34)
    <3>1. t \in {7, 8, 32, 33, 34}
      BY <1>2
    <3>2. t = 7 \/ t = 8 \/ t = 32 \/ t = 33 \/ t = 34
      BY <3>1
    <3>3. n(7) = 1 \/ n(8) = 1 \/ n(32) = 1 \/ n(33) = 1 \/ n(34) = 1
      BY <2>2, <3>2, Zenon
    <3>4. /\ 7 \in ParamType /\ 8 \in ParamType /\ 32 \in ParamType
          /\ 33 \in ParamType /\ 34 \in ParamType
      BY <1>2
    <3>5. QED
      BY <1>7, <2>3, <3>3, <3>4, Zenon
  <2> HIDE DEF n
  <2> DEFINE a == n(7)
             b == n(8)
             c == n(32)
             d == n(33)
             e == n(34)
  <2>5. /\ a \in Nat /\ b \in Nat /\ c \in Nat /\ d \in Nat /\ e \in Nat
        /\ a = 1 \/ b = 1 \/ c = 1 \/ d = 1 \/ e = 1
        /\ Len(CachedParams(w)) = a + b + c + d + e
    BY <2>4, Zenon
  <2> HIDE DEF a, b, c, d, e
  <2>7. a + b + c + d + e >= 1
    BY <2>5, OneOfFive
  <2>6. QED
    BY <2>5, <2>7
<1>9. QED
  BY <1>6, <1>8 DEF params

\* A viewer that joins is sent a parameter set first, then one key frame, then
\* only what depends on it - or nothing.
LEMMA ReplayDecodes == WindowInv => ReplayIsDecodable
<1> SUFFICES ASSUME WindowInv, w.keyframe # << >>
             PROVE  ReplayIsDecodable
  BY DEF ReplayIsDecodable, snapshot
<1> DEFINE P == CachedParams(w)
           K == w.keyframe
           D == w.since_keyframe
           params == Kinds(w.codec, {"ParamSet"})
           keys == Kinds(w.codec, {"Keyframe"})
           others == Kinds(w.codec, Others)
           s == P \o K \o D
           k == Len(P) + 1
<1>1. snapshot(w) = s
  BY DEF snapshot
<1>2. P \in Seq(params) /\ Len(P) >= 1
  BY CachedParamsAre DEF WindowInv, CacheOK
<1>3. K \in Seq(Stamped) /\ D \in Seq(Stamped)
  BY DEF WindowInv, RoomTypeOK, RoomWindow
<1>4. /\ \A i \in 1..Len(K) : K[i] \in keys
      /\ \A i \in 1..Len(D) : D[i] \in others
  BY <1>3, ElementOfSeq DEF WindowInv, CacheOK, Kinds, KindOf
<1>5. /\ \A f \in params : KindOf(f) = "ParamSet"
      /\ \A f \in keys : KindOf(f) = "Keyframe"
      /\ \A f \in others : KindOf(f) \in {"Delta", "Unknown"}
      /\ params \subseteq Stamped
  BY DEF Kinds, KindOf, Others
<1>6. Len(K) <= 1 /\ K # << >>
  BY DEF WindowInv, CacheOK
<1> HIDE DEF P, K, D, params, keys, others
<1>7. Len(K) = 1
  <2>1. Len(K) \in Nat
    BY <1>3
  <2>2. Len(K) # 0
    BY <1>3, <1>6
  <2> DEFINE n == Len(K)
  <2>3. n \in Nat /\ n <= 1 /\ n # 0
    BY <1>6, <2>1, <2>2, Zenon
  <2> HIDE DEF n
  <2>4. n = 1
    BY <2>3
  <2>5. QED
    BY <2>4 DEF n
<1>14. P \in Seq(Stamped)
  BY <1>2, <1>5
<1>8. Len(P) \in Nat /\ Len(D) \in Nat /\ Len(s) = Len(P) + 1 + Len(D)
  <2>1. Len(s) = Len(P) + Len(K) + Len(D)
    BY <1>3, <1>14
  <2> DEFINE p == Len(P)
             d == Len(D)
             n == Len(s)
  <2>2. p \in Nat /\ d \in Nat /\ n = p + 1 + d
    BY <1>3, <1>7, <1>14, <2>1
  <2>3. QED
    BY <2>2
<1>9. /\ \A i \in 1..Len(P) : s[i] = P[i]
      /\ s[Len(P) + 1] = K[1]
      /\ \A i \in 1..Len(s) : i > Len(P) + 1 => s[i] = D[i - (Len(P) + 1)]
  BY <1>3, <1>7, <1>8, <1>14
<1>10. KindOf(s[k]) = "Keyframe" /\ k \in 2..Len(s)
  BY <1>2, <1>4, <1>5, <1>7, <1>8, <1>9
<1>11. ASSUME NEW i \in 1..Len(s), i < k PROVE KindOf(s[i]) = "ParamSet"
  BY <1>2, <1>5, <1>8, <1>9, <1>11, ElementOfSeq
<1>12. ASSUME NEW i \in 1..Len(s), i > k PROVE KindOf(s[i]) \in {"Delta", "Unknown"}
  <2>1. s[i] = D[i - k] /\ i - k \in 1..Len(D)
    BY <1>2, <1>8, <1>9, <1>12
  <2>2. QED
    BY <1>4, <1>5, <2>1
<1> HIDE DEF s, k
<1>13. QED
  BY <1>1, <1>10, <1>11, <1>12 DEF ReplayIsDecodable
-----------------------------------------------------------------------------
(* The window as a function of what the room has seen.  The extrema the      *)
(* function speaks of, the ranks of the frames after the last key frame and  *)
(* the sum of their sizes are shown to exist step by step, along with it.    *)

IsLeast(S, m) == m \in S /\ \A j \in S : m <= j
IsLargest(S, m) == m \in S /\ \A j \in S : j <= m

\* f gives the size of every prefix of s.
Sums(s, f) == f = [i \in 0..Len(s) |-> IF i = 0 THEN 0 ELSE f[i-1] + s[i].len]
Summed(s) == \E f : Sums(s, f) /\ \A g : Sums(s, g) => g = f

\* Every rank is taken by exactly one member.
Placed(S) == \A k \in 1..Cardinality(S) :
               \E i \in S : Rank(S, i) = k /\ \A j \in S : Rank(S, j) = k => j = i

LEMMA LeastIs ==
  ASSUME NEW S \in SUBSET Nat, NEW m, IsLeast(S, m)
  PROVE  Least(S) = m
<1>1. \A j \in S : m <= j
  BY DEF IsLeast
<1>2. m \in S
  BY DEF IsLeast
<1>3. \A j \in S : Least(S) <= j /\ Least(S) \in S
  BY <1>1, <1>2 DEF Least
<1>4. Least(S) <= m /\ m <= Least(S) /\ Least(S) \in Nat /\ m \in Nat
  BY <1>1, <1>2, <1>3
<1> QED
  BY <1>4

LEMMA LargestIs ==
  ASSUME NEW S \in SUBSET Nat, NEW m, IsLargest(S, m)
  PROVE  Largest(S) = m
<1>1. \A j \in S : j <= m
  BY DEF IsLargest
<1>2. m \in S
  BY DEF IsLargest
<1>3. \A j \in S : j <= Largest(S) /\ Largest(S) \in S
  BY <1>1, <1>2 DEF Largest
<1>4. Largest(S) <= m /\ m <= Largest(S) /\ Largest(S) \in Nat /\ m \in Nat
  BY <1>1, <1>2, <1>3
<1> QED
  BY <1>4

LEMMA SizeIs ==
  ASSUME NEW s, NEW f, Sums(s, f), \A g : Sums(s, g) => g = f
  PROVE  Size(s) = f[Len(s)]
<1> DEFINE u == CHOOSE g : g = [i \in 0..Len(s) |-> IF i = 0 THEN 0 ELSE g[i-1] + s[i].len]
<1>1. Size(s) = u[Len(s)]
  BY DEF Size
<1>2. u = f
  BY Zenon DEF Sums
<1> QED
  BY <1>1, <1>2

LEMMA NothingSummed == Summed(<< >>) /\ Size(<< >>) = 0
<1> DEFINE f == [i \in 0..0 |-> 0]
<1>1. Sums(<< >>, f)
  BY DEF Sums
<1>2. ASSUME NEW g, Sums(<< >>, g) PROVE g = f
  BY <1>2 DEF Sums
<1> HIDE DEF f
<1>3. Size(<< >>) = f[Len(<< >>)]
  BY <1>1, <1>2, SizeIs
<1>4. f[0] = 0 /\ Len(<< >>) = 0
  BY DEF f
<1> QED
  BY <1>1, <1>2, <1>3, <1>4 DEF Summed

\* One more frame adds its length.
LEMMA SizeOfAppend ==
  ASSUME NEW T, \A e \in T : e.len \in Nat,
         NEW s \in Seq(T), NEW x \in T, Summed(s)
  PROVE  /\ Summed(Append(s, x))
         /\ Size(Append(s, x)) = Size(s) + x.len
<1> DEFINE n == Len(s)
           z == Append(s, x)
<1>1. n \in Nat /\ Len(z) = n + 1 /\ z[n + 1] = x /\ \A i \in 1..n : z[i] = s[i]
  OBVIOUS
<1>2. PICK f : Sums(s, f) /\ \A g : Sums(s, g) => g = f
  BY DEF Summed
<1> DEFINE h == [i \in 0..n + 1 |-> IF i = n + 1 THEN f[n] + x.len ELSE f[i]]
<1>3. f = [i \in 0..n |-> IF i = 0 THEN 0 ELSE f[i - 1] + s[i].len]
  BY <1>2 DEF Sums
<1> HIDE DEF z, n
<1>4. h = [i \in 0..n + 1 |-> IF i = 0 THEN 0 ELSE h[i - 1] + z[i].len]
  <2>1. \A i \in 0..n + 1 : h[i] = IF i = 0 THEN 0 ELSE h[i - 1] + z[i].len
    <3> TAKE i \in 0..n + 1
    <3>1. CASE i = 0
      BY <1>1, <1>3, <3>1
    <3>2. CASE i = n + 1
      BY <1>1, <3>2
    <3>3. CASE i # 0 /\ i # n + 1
      <4>1. i \in 1..n /\ i - 1 \in 0..n /\ i \in 0..n /\ i - 1 # n + 1
        BY <1>1, <3>3
      <4>2. h[i] = f[i] /\ h[i - 1] = f[i - 1] /\ z[i] = s[i]
        BY <1>1, <4>1
      <4>3. f[i] = f[i - 1] + s[i].len
        BY <1>3, <3>3, <4>1
      <4> QED
        BY <3>3, <4>2, <4>3
    <3> QED
      BY <3>1, <3>2, <3>3
  <2> QED
    BY <2>1
<1>5. ASSUME NEW g, Sums(z, g) PROVE g = h
  <2>1. g = [i \in 0..n + 1 |-> IF i = 0 THEN 0 ELSE g[i - 1] + z[i].len]
    BY <1>1, <1>5 DEF Sums
  <2> DEFINE r == [i \in 0..n |-> g[i]]
  <2>2. r = [i \in 0..n |-> IF i = 0 THEN 0 ELSE r[i - 1] + s[i].len]
    <3>1. \A i \in 0..n : r[i] = IF i = 0 THEN 0 ELSE r[i - 1] + s[i].len
      <4> TAKE i \in 0..n
      <4>1. CASE i = 0
        BY <1>1, <2>1, <4>1
      <4>2. CASE i # 0
        <5>1. i \in 1..n /\ i - 1 \in 0..n /\ i \in 0..n + 1
          BY <1>1, <4>2
        <5>2. g[i] = g[i - 1] + z[i].len
          BY <2>1, <4>2, <5>1
        <5> QED
          BY <1>1, <4>2, <5>1, <5>2
      <4> QED
        BY <4>1, <4>2
    <3> QED
      BY <3>1
  <2> HIDE DEF r
  <2>3. r = f
    BY <1>2, <2>2 DEF Sums, n
  <2>4. \A i \in 0..n : g[i] = f[i]
    BY <2>3 DEF r
  <2>5. g[n + 1] = f[n] + x.len
    <3>1. n + 1 \in 0..n + 1 /\ n + 1 # 0 /\ n + 1 - 1 = n /\ n \in 0..n
      BY <1>1
    <3>2. g[n + 1] = g[n + 1 - 1] + z[n + 1].len
      BY <2>1, <3>1
    <3> QED
      BY <1>1, <2>4, <3>1, <3>2
  <2>6. \A i \in 0..n + 1 : g[i] = h[i]
    BY <1>1, <2>4, <2>5
  <2> QED
    BY <2>1, <2>6
<1> HIDE DEF h
<1>6. Sums(z, h)
  BY <1>1, <1>4 DEF Sums
<1>7. Size(z) = h[n + 1] /\ Size(s) = f[n]
  BY <1>1, <1>2, <1>5, <1>6, SizeIs DEF n
<1>8. h[n + 1] = f[n] + x.len
  BY <1>1 DEF h
<1>9. Summed(z)
  BY <1>5, <1>6 DEF Summed
<1> QED
  BY <1>7, <1>8, <1>9 DEF z

LEMMA RankOfNext ==
  ASSUME NEW S \in SUBSET Nat, IsFiniteSet(S), NEW m \in Nat, \A j \in S : j < m,
         Placed(S)
  PROVE  LET T == S \cup {m}
         IN /\ Cardinality(S) \in Nat /\ Cardinality(T) = Cardinality(S) + 1
            /\ Placed(T)
            /\ \A k \in 1..Cardinality(S) : Nth(T, k) = Nth(S, k) /\ Nth(S, k) \in S
            /\ Nth(T, Cardinality(T)) = m
<1> DEFINE T == S \cup {m}
           c == Cardinality(S)
<1>1. c \in Nat /\ Cardinality(T) = c + 1 /\ m \notin S
  BY FS_CardinalityType, FS_AddElement
<1>2. \A i \in S : Rank(T, i) = Rank(S, i)
  <2> TAKE i \in S
  <2>1. {j \in T : j <= i} = {j \in S : j <= i}
    OBVIOUS
  <2> QED
    BY <2>1 DEF Rank
<1>3. Rank(T, m) = c + 1
  <2>1. \A j \in T : j <= m
    OBVIOUS
  <2> HIDE DEF T
  <2>2. {j \in T : j <= m} = T
    BY <2>1
  <2> QED
    BY <1>1, <2>2 DEF Rank
<1>4. \A i \in S : Rank(S, i) \in Nat /\ Rank(S, i) <= c
  <2> TAKE i \in S
  <2>1. {j \in S : j <= i} \in SUBSET S
    OBVIOUS
  <2> QED
    BY <2>1, FS_Subset, FS_CardinalityType DEF Rank
<1> HIDE DEF c
<1>5. ASSUME NEW k \in 1..c
      PROVE  \E i \in S : /\ Rank(T, i) = k /\ \A j \in T : Rank(T, j) = k => j = i
                          /\ Rank(S, i) = k /\ \A j \in S : Rank(S, j) = k => j = i
  <2>1. PICK i \in S : Rank(S, i) = k /\ \A j \in S : Rank(S, j) = k => j = i
    BY DEF Placed, c
  <2>2. c + 1 # k
    BY <1>1
  <2>3. ASSUME NEW j \in T, Rank(T, j) = k PROVE j = i
    BY <1>2, <1>3, <2>1, <2>2, <2>3
  <2> QED
    BY <1>2, <2>1, <2>3
<1>6. \A j \in T : Rank(T, j) = c + 1 => j = m
  <2> SUFFICES ASSUME NEW j \in S, Rank(T, j) = c + 1 PROVE FALSE
    OBVIOUS
  <2>1. Rank(S, j) = c + 1 /\ Rank(S, j) <= c
    BY <1>2, <1>4
  <2> QED
    BY <1>1, <2>1
<1>7. Placed(T)
  <2> SUFFICES ASSUME NEW k \in 1..c + 1
               PROVE  \E i \in T : Rank(T, i) = k /\ \A j \in T : Rank(T, j) = k => j = i
    BY <1>1 DEF Placed
  <2>1. CASE k = c + 1
    BY <1>3, <1>6, <2>1
  <2>2. CASE k \in 1..c
    <3>1. PICK i \in S : Rank(T, i) = k /\ \A j \in T : Rank(T, j) = k => j = i
      BY <1>5, <2>2
    <3> QED
      BY <3>1
  <2> QED
    BY <1>1, <2>1, <2>2
<1>8. ASSUME NEW k \in 1..c PROVE Nth(T, k) = Nth(S, k) /\ Nth(S, k) \in S
  <2>1. PICK i \in S : /\ Rank(T, i) = k /\ \A j \in T : Rank(T, j) = k => j = i
                       /\ Rank(S, i) = k /\ \A j \in S : Rank(S, j) = k => j = i
    BY <1>5
  <2>2. Nth(S, k) = i
    BY <2>1 DEF Nth
  <2>3. i \in T
    OBVIOUS
  <2> HIDE DEF T
  <2>4. Nth(T, k) = i
    BY <2>1, <2>3 DEF Nth
  <2> QED
    BY <2>2, <2>4
<1>9. Nth(T, c + 1) = m
  <2>1. m \in T
    OBVIOUS
  <2> HIDE DEF T
  <2> QED
    BY <1>3, <1>6, <2>1 DEF Nth
<1> QED
  BY <1>1, <1>7, <1>8, <1>9 DEF c
-----------------------------------------------------------------------------
\* A record is a window with these fields exactly if it has each of them.
LEMMA WindowIs ==
  ASSUME NEW v \in RoomWindow, NEW codec, NEW sets, NEW key, NEW keyBytes,
         NEW since, NEW sinceBytes
  PROVE  v = [codec |-> codec, param_sets |-> sets,
              keyframe |-> key, keyframe_total_bytes |-> keyBytes,
              since_keyframe |-> since, since_keyframe_total_bytes |-> sinceBytes]
         <=> /\ v.codec = codec /\ v.param_sets = sets
             /\ v.keyframe = key /\ v.keyframe_total_bytes = keyBytes
             /\ v.since_keyframe = since
             /\ v.since_keyframe_total_bytes = sinceBytes
BY DEF RoomWindow

\* The six parts of WindowMatchesHistory, and the extrema they speak of.
CodecMatches == w.codec = RoomCodec
ParamsMatch == \A t \in ParamType :
  w.param_sets[t] = IF ParamsOf(t) = {} THEN None ELSE seen[Largest(ParamsOf(t))]
KeyMatches ==
  /\ w.keyframe = IF Anchored THEN <<seen[Largest(Keys)]>> ELSE << >>
  /\ w.keyframe_total_bytes = IF Anchored THEN seen[Largest(Keys)].len ELSE 0
DeltasMatch ==
  /\ w.since_keyframe = IF Anchored THEN After ELSE << >>
  /\ w.since_keyframe_total_bytes = IF Anchored THEN Size(After) ELSE 0

LEMMA Matches ==
  ASSUME RoomTypeOK
  PROVE  WindowMatchesHistory <=>
           CodecMatches /\ ParamsMatch /\ KeyMatches /\ DeltasMatch
<1> DEFINE sets == [t \in ParamType |-> IF ParamsOf(t) = {} THEN None
                                       ELSE seen[Largest(ParamsOf(t))]]
           key == IF Anchored THEN <<seen[Largest(Keys)]>> ELSE << >>
           keyBytes == IF Anchored THEN seen[Largest(Keys)].len ELSE 0
           since == IF Anchored THEN After ELSE << >>
           sinceBytes == IF Anchored THEN Size(After) ELSE 0
<1>1. w \in RoomWindow /\ w.param_sets \in [ParamType -> Stamped \cup {None}]
  BY DEF RoomTypeOK, RoomWindow
<1>2. w.param_sets = sets <=> ParamsMatch
  BY <1>1 DEF ParamsMatch
<1>3. WindowMatchesHistory <=>
        w = [codec |-> RoomCodec, param_sets |-> sets,
             keyframe |-> key, keyframe_total_bytes |-> keyBytes,
             since_keyframe |-> since, since_keyframe_total_bytes |-> sinceBytes]
  BY DEF WindowMatchesHistory
<1>4. /\ KeyMatches <=> w.keyframe = key /\ w.keyframe_total_bytes = keyBytes
      /\ DeltasMatch <=> w.since_keyframe = since
                         /\ w.since_keyframe_total_bytes = sinceBytes
      /\ CodecMatches <=> w.codec = RoomCodec
  BY DEF KeyMatches, DeltasMatch, CodecMatches
<1> HIDE DEF sets, key, keyBytes, since, sinceBytes
<1> QED
  BY <1>1, <1>2, <1>3, <1>4, WindowIs
-----------------------------------------------------------------------------
\* What a new frame changes in the sets the history is read through.
New(f, kind) == IF classify_nal(f, w.codec).kind = kind THEN {Len(seen) + 1} ELSE {}
NewParam(f, t) == IF classify_nal(f, w.codec).nal_type = t THEN New(f, "ParamSet")
                                                          ELSE {}
Extrema ==
  /\ Told # {} => \E i \in Told : IsLeast(Told, i)
  /\ \A t \in ParamType :
       ParamsOf(t) # {} => \E i \in ParamsOf(t) : IsLargest(ParamsOf(t), i)
  /\ Keys # {} => \E i \in Keys : IsLargest(Keys, i)

LEMMA SeenGrows ==
  ASSUME RoomTypeOK, NEW f \in Stamped, Recorded(f)
  PROVE  LET m == Len(seen) + 1
         IN /\ Len(seen) \in Nat /\ m \in Nat /\ m \notin Indices
            /\ Indices \subseteq Nat /\ \A i \in Indices : i < m
            /\ Indices' = Indices \cup {m}
            /\ \A i \in Indices : seen[i] \in Stamped /\ seen'[i] = seen[i]
            /\ seen'[m] = f
BY DEF RoomTypeOK, Recorded, Indices

LEMMA ToldGrows ==
  ASSUME RoomTypeOK, NEW f \in Stamped, Recorded(f)
  PROVE  Told' = Told \cup IF f.first # None /\ Discover(f.first).kind = "ParamSet"
                           THEN {Len(seen) + 1} ELSE {}
<1> DEFINE m == Len(seen) + 1
<1>1. /\ Indices' = Indices \cup {m} /\ m \notin Indices
      /\ \A i \in Indices : seen'[i] = seen[i]
      /\ seen'[m] = f
  BY SeenGrows
<1> HIDE DEF m
<1> QED
  BY <1>1 DEF Told, m

\* A frame that comes before anything told the codec.
LEMMA StillUnknown ==
  ASSUME RoomTypeOK, Extrema, CodecMatches, NEW f \in Stamped, Recorded(f), w.codec = None
  PROVE  /\ Told = {} /\ Told' = New(f, "ParamSet")
         /\ RoomCodec' = IF New(f, "ParamSet") = {} THEN None
                         ELSE classify_nal(f, None).codec
<1>1. Told = {}
  <2> SUFFICES ASSUME Told # {} PROVE FALSE
    OBVIOUS
  <2>1. PICK i \in Told : IsLeast(Told, i)
    BY DEF Extrema
  <2>2. Told \in SUBSET Nat
    BY DEF Told, Indices
  <2>3. Least(Told) = i
    BY <2>1, <2>2, LeastIs
  <2>4. seen[i] \in Stamped /\ seen[i].first # None
        /\ Discover(seen[i].first).kind = "ParamSet"
    BY DEF Told, Indices, RoomTypeOK
  <2>5. Discover(seen[i].first).codec \in Codec
    BY <2>4, NoCodecYet
  <2>6. RoomCodec = Discover(seen[i].first).codec
    BY <2>3 DEF RoomCodec
  <2> QED
    BY <2>5, <2>6, NoneAssumption DEF CodecMatches
<1> DEFINE m == Len(seen) + 1
<1>2. Told' = New(f, "ParamSet")
  BY <1>1, ToldGrows, NoCodecYet DEF New
<1>3. m \in Nat /\ seen'[m] = f
  BY SeenGrows
<1>4. New(f, "ParamSet") \in {{}, {m}}
  BY DEF New
<1> HIDE DEF m
<1>5. ASSUME New(f, "ParamSet") = {m} PROVE RoomCodec' = classify_nal(f, None).codec
  <2>1. Told' = {m}
    BY <1>2, <1>5
  <2>2. IsLeast({m}, m)
    BY <1>3 DEF IsLeast
  <2>3. Least({m}) = m
    BY <1>3, <2>2, LeastIs
  <2>4. Least(Told)' = m
    BY <2>1, <2>3 DEF Least
  <2>5. RoomCodec' = Discover(f.first).codec
    BY <1>3, <2>1, <2>4 DEF RoomCodec
  <2>6. classify_nal(f, None).kind = "ParamSet"
    BY <1>5 DEF New
  <2> QED
    BY <2>5, <2>6, NoCodecYet
<1>6. ASSUME New(f, "ParamSet") = {} PROVE RoomCodec' = None
  BY <1>2, <1>6 DEF RoomCodec
<1> QED
  BY <1>1, <1>2, <1>4, <1>5, <1>6

\* A frame that comes once the codec is known.
LEMMA AlreadyKnown ==
  ASSUME RoomTypeOK, Extrema, CodecMatches, NEW f \in Stamped, Recorded(f), w.codec # None
  PROVE  /\ Told # {} /\ Told' # {} /\ RoomCodec' = RoomCodec
         /\ Least(Told)' = Least(Told) /\ Least(Told) \in Indices
         /\ IsLeast(Told', Least(Told)) /\ Least(Told) \in Told'
<1> DEFINE m == Len(seen) + 1
<1>1. Told # {}
  BY DEF CodecMatches, RoomCodec
<1>2. PICK i \in Told : IsLeast(Told, i)
  BY <1>1 DEF Extrema
<1>3. Told \in SUBSET Nat /\ Told \subseteq Indices
  BY DEF Told, Indices
<1>4. Least(Told) = i
  BY <1>2, <1>3, LeastIs
<1>5. /\ m \in Nat /\ \A j \in Indices : j < m
      /\ \A j \in Indices : seen'[j] = seen[j]
  BY SeenGrows
<1>6. Told' = Told \cup {m} \/ Told' = Told
  BY ToldGrows
<1> HIDE DEF m
<1>7. i < m /\ i \in Nat
  BY <1>2, <1>3, <1>5
<1> DEFINE T == Told'
           S == Told
<1>8. T \in SUBSET Nat /\ i \in T /\ IsLeast(T, i)
  <2>1. /\ S \in SUBSET Nat /\ i \in S /\ \A j \in S : i <= j
        /\ T = S \cup {m} \/ T = S
    BY <1>2, <1>3, <1>6 DEF IsLeast
  <2> HIDE DEF S, T
  <2>2. i <= m
    BY <1>5, <1>7
  <2> QED
    BY <1>5, <2>1, <2>2 DEF IsLeast
<1>9. Least(T) = i
  <2> HIDE DEF T
  <2>1. T \in SUBSET Nat /\ IsLeast(T, i)
    BY <1>8 DEF T
  <2> QED
    BY <2>1, LeastIs
<1>10. Least(Told)' = Least(T)
  BY DEF Least
<1>11. RoomCodec' = RoomCodec
  BY <1>1, <1>3, <1>4, <1>5, <1>8, <1>9, <1>10 DEF RoomCodec
<1> QED
  BY <1>1, <1>3, <1>4, <1>8, <1>9, <1>10, <1>11

\* What the frames of the history are does not change, and the new one is what
\* record takes it for.
LEMMA KindsGrow ==
  ASSUME RoomTypeOK, Extrema, CodecMatches, NEW f \in Stamped, Recorded(f),
         NEW k \in {"ParamSet", "Keyframe"}, NEW m, m = Len(seen) + 1
  PROVE  /\ \A i \in Indices : IsA(i, k)' <=> IsA(i, k)
         /\ IsA(m, k)' <=> classify_nal(f, w.codec).kind = k
<1>1. /\ m \in Nat /\ \A i \in Indices : i < m /\ i \in Nat
      /\ \A i \in Indices : seen'[i] = seen[i]
      /\ seen'[m] = f
  BY SeenGrows
<1>2. w.codec \in Codec \cup {None}
  BY DEF RoomTypeOK, RoomWindow
<1>3. CASE w.codec = None
  <2>1. Told = {} /\ Told' \in {{}, {m}}
    BY <1>3, StillUnknown DEF New
  <2>2. \A i \in Indices : ~IsA(i, k)
    BY <2>1 DEF IsA
  <2>3. CASE Told' = {}
    <3>1. \A i : ~IsA(i, k)'
      BY <2>3 DEF IsA
    <3>2. classify_nal(f, w.codec).kind # k
      <4>1. New(f, "ParamSet") = {}
        BY <1>3, <2>3, StillUnknown
      <4>2. classify_nal(f, None).kind = "Unknown"
        BY <1>3, <4>1, NoCodecYet DEF New
      <4> QED
        BY <1>3, <4>2
    <3> QED
      BY <2>2, <3>1, <3>2
  <2>4. CASE Told' = {m}
    <3>1. New(f, "ParamSet") = {m} /\ RoomCodec' = classify_nal(f, None).codec
      BY <1>3, <2>4, StillUnknown
    <3>2. classify_nal(f, None).kind = "ParamSet"
      BY <1>3, <3>1 DEF New
    <3>3. f.first # None /\ KindUnder(RoomCodec', f.first) = "ParamSet"
      BY <3>1, <3>2, NoCodecYet
    <3> DEFINE T == Told'
    <3>4. Least(T) = m
      <4>1. T = {m}
        BY <2>4
      <4> HIDE DEF T
      <4>2. IsLeast(T, m) /\ T \in SUBSET Nat
        BY <1>1, <4>1 DEF IsLeast
      <4> QED
        BY <4>2, LeastIs
    <3>5. \A i : IsA(i, k)' <=> i >= m /\ seen'[i].first # None
                              /\ KindUnder(RoomCodec', seen'[i].first) = k
      BY <2>4, <3>4 DEF IsA, KindUnder
    <3>6. \A i \in Indices : ~(i >= m)
      BY <1>1
    <3>7. IsA(m, k)' <=> k = "ParamSet"
      BY <1>1, <3>3, <3>5
    <3> QED
      BY <1>3, <2>2, <3>2, <3>5, <3>6, <3>7
  <2> QED
    BY <2>1, <2>3, <2>4
<1>4. CASE w.codec # None
  <2> DEFINE l == Least(Told)
             r == RoomCodec
  <2>1. /\ Told # {} /\ Told' # {} /\ RoomCodec' = r /\ Least(Told)' = l
        /\ l \in Indices
    BY <1>4, AlreadyKnown
  <2>2. r = w.codec /\ r \in Codec
    BY <1>2, <1>4 DEF CodecMatches
  <2>3. \A i : IsA(i, k) <=> i >= l /\ seen[i].first # None
                           /\ KindUnder(r, seen[i].first) = k
    BY <2>1 DEF IsA, KindUnder
  <2>4. \A i : IsA(i, k)' <=> i >= l /\ seen'[i].first # None
                            /\ KindUnder(r, seen'[i].first) = k
    BY <2>1 DEF IsA, KindUnder
  <2> HIDE DEF l, r
  <2>5. m >= l
    BY <1>1, <2>1
  <2>6. IsA(m, k)' <=> f.first # None /\ KindUnder(r, f.first) = k
    BY <1>1, <2>4, <2>5
  <2>7. classify_nal(f, r).kind = k <=> f.first # None /\ KindUnder(r, f.first) = k
    BY <2>2, KnownCodec
  <2> QED
    BY <1>1, <2>2, <2>3, <2>4, <2>6, <2>7
<1> QED
  BY <1>2, <1>3, <1>4

LEMMA KeysGrow ==
  ASSUME RoomTypeOK, Extrema, CodecMatches, NEW f \in Stamped, Recorded(f)
  PROVE  Keys' = Keys \cup New(f, "Keyframe")
<1>0. PICK m : m = Len(seen) + 1
  OBVIOUS
<1>1. Indices' = Indices \cup {m} /\ m \notin Indices
  BY <1>0, SeenGrows
<1>2. /\ \A i \in Indices : IsA(i, "Keyframe")' <=> IsA(i, "Keyframe")
      /\ IsA(m, "Keyframe")' <=> classify_nal(f, w.codec).kind = "Keyframe"
  BY <1>0, KindsGrow
<1>3. Keys' = {i \in Indices' : IsA(i, "Keyframe")'}
  BY DEF Keys
<1>4. Keys = {i \in Indices : IsA(i, "Keyframe")}
  BY DEF Keys
<1>5. New(f, "Keyframe") = IF classify_nal(f, w.codec).kind = "Keyframe" THEN {m} ELSE {}
  BY <1>0 DEF New
<1> QED
  BY <1>1, <1>2, <1>3, <1>4, <1>5

LEMMA ParamsGrow ==
  ASSUME RoomTypeOK, Extrema, CodecMatches, NEW f \in Stamped, Recorded(f), NEW t \in ParamType
  PROVE  ParamsOf(t)' = ParamsOf(t) \cup NewParam(f, t)
<1> DEFINE class == classify_nal(f, w.codec)
<1>0. PICK m : m = Len(seen) + 1
  OBVIOUS
<1>1. /\ Indices' = Indices \cup {m} /\ m \notin Indices
      /\ \A i \in Indices : seen'[i] = seen[i]
      /\ seen'[m] = f
  BY <1>0, SeenGrows
<1>2. /\ \A i \in Indices : IsA(i, "ParamSet")' <=> IsA(i, "ParamSet")
      /\ IsA(m, "ParamSet")' <=> class.kind = "ParamSet"
  BY <1>0, KindsGrow
<1>3. w.codec \in Codec \cup {None}
  BY DEF RoomTypeOK, RoomWindow
<1>4. ParamsOf(t) = {i \in Indices : IsA(i, "ParamSet")
                                     /\ t = TypeUnder(RoomCodec, seen[i].first)}
  BY DEF ParamsOf, TypeUnder
<1>5. ParamsOf(t)' = {i \in Indices' : IsA(i, "ParamSet")'
                                      /\ t = TypeUnder(RoomCodec', seen'[i].first)}
  BY DEF ParamsOf, TypeUnder
<1>6. NewParam(f, t) = IF class.kind = "ParamSet" /\ t = class.nal_type THEN {m} ELSE {}
  BY <1>0 DEF NewParam, New
<1>7. \A i \in Indices : IsA(i, "ParamSet") => RoomCodec' = RoomCodec
  <2> SUFFICES ASSUME NEW i \in Indices, IsA(i, "ParamSet") PROVE RoomCodec' = RoomCodec
    OBVIOUS
  <2>1. Told # {}
    BY DEF IsA
  <2>2. w.codec # None
    BY <2>1, StillUnknown
  <2> QED
    BY <2>2, AlreadyKnown
<1>8. class.kind = "ParamSet" => class.nal_type = TypeUnder(RoomCodec', f.first)
  <2> SUFFICES ASSUME class.kind = "ParamSet"
               PROVE  class.nal_type = TypeUnder(RoomCodec', f.first)
    OBVIOUS
  <2>1. CASE w.codec = None
    <3>1. RoomCodec' = class.codec
      BY <2>1, StillUnknown DEF New
    <3> QED
      BY <2>1, <3>1, NoCodecYet
  <2>2. CASE w.codec # None
    <3>1. RoomCodec' = w.codec /\ w.codec \in Codec
      BY <1>3, <2>2, AlreadyKnown DEF CodecMatches
    <3> QED
      BY <3>1, KnownCodec
  <2> QED
    BY <2>1, <2>2
<1> HIDE DEF class
<1> QED
  BY <1>1, <1>2, <1>4, <1>5, <1>6, <1>7, <1>8

\* A set of naturals that gets a member beyond all others.
LEMMA LargestGrows ==
  ASSUME NEW S \in SUBSET Nat, NEW m \in Nat, \A j \in S : j < m
  PROVE  Largest(S \cup {m}) = m /\ IsLargest(S \cup {m}, m)
<1> DEFINE T == S \cup {m}
<1>1. T \in SUBSET Nat /\ IsLargest(T, m)
  BY DEF IsLargest
<1> HIDE DEF T
<1>2. Largest(T) = m
  BY <1>1, LargestIs
<1> QED
  BY <1>1, <1>2 DEF T

LEMMA ExtremaStay ==
  ASSUME RoomTypeOK, Extrema, CodecMatches, NEW f \in Stamped, Recorded(f)
  PROVE  Extrema'
<1> DEFINE m == Len(seen) + 1
<1>1. m \in Nat /\ \A i \in Indices : i < m /\ i \in Nat
  BY SeenGrows
<1>2. \A k : New(f, k) \in {{}, {m}}
  BY DEF New
<1>3. \A t : NewParam(f, t) \in {{}, {m}}
  BY <1>2 DEF NewParam
<1> HIDE DEF m
<1>4. ASSUME NEW S \in SUBSET Indices, S # {} => \E i \in S : IsLargest(S, i),
             NEW N \in {{}, {m}}, NEW T, T = S \cup N, T # {}
      PROVE  \E i \in T : IsLargest(T, i)
  <2>1. CASE N = {}
    BY <1>4, <2>1
  <2>2. CASE N = {m}
    <3>1. S \in SUBSET Nat /\ \A j \in S : j < m
      BY <1>1
    <3> QED
      BY <1>1, <1>4, <2>2, <3>1, LargestGrows
  <2> QED
    BY <2>1, <2>2
<1>5. Told' # {} => \E i \in Told' : IsLeast(Told', i)
  <2>1. CASE w.codec = None
    <3>1. Told' \in {{}, {m}}
      BY <1>2, <2>1, StillUnknown
    <3>2. IsLeast({m}, m)
      BY <1>1 DEF IsLeast
    <3> QED
      BY <3>1, <3>2
  <2>2. CASE w.codec # None
    BY <2>2, AlreadyKnown
  <2> QED
    BY <2>1, <2>2
<1>6. Keys' # {} => \E i \in Keys' : IsLargest(Keys', i)
  <2>1. Keys \in SUBSET Indices
    BY DEF Keys
  <2>2. Keys # {} => \E i \in Keys : IsLargest(Keys, i)
    BY DEF Extrema
  <2> QED
    BY <1>2, <1>4, <2>1, <2>2, KeysGrow
<1>7. ASSUME NEW t \in ParamType
      PROVE  ParamsOf(t)' # {} => \E i \in ParamsOf(t)' : IsLargest(ParamsOf(t)', i)
  <2>1. ParamsOf(t) \in SUBSET Indices
    BY DEF ParamsOf
  <2>2. ParamsOf(t) # {} => \E i \in ParamsOf(t) : IsLargest(ParamsOf(t), i)
    BY DEF Extrema
  <2> QED
    BY <1>3, <1>4, <2>1, <2>2, ParamsGrow
<1> QED
  BY <1>5, <1>6, <1>7 DEF Extrema, IsLeast, IsLargest

LEMMA NthIsIn ==
  ASSUME NEW S, Placed(S), NEW k \in 1..Cardinality(S)
  PROVE  Nth(S, k) \in S
<1>1. \E i \in S : Rank(S, i) = k
  BY DEF Placed
<1> QED
  BY <1>1 DEF Nth

LEMMA NothingPlaced == Placed({}) /\ Cardinality({}) = 0
BY FS_EmptySet DEF Placed

\* The frames after the last key frame, as a sequence.
LEMMA AfterIs ==
  ASSUME RoomTypeOK, Placed(Later)
  PROVE  /\ Later \subseteq Indices /\ IsFiniteSet(Later)
         /\ Cardinality(Later) \in Nat /\ Len(After) = Cardinality(Later)
         /\ After \in Seq(Stamped)
         /\ \A k \in 1..Cardinality(Later) :
              Nth(Later, k) \in Indices /\ After[k] = seen[Nth(Later, k)]
<1>1. Later \subseteq Indices
  BY DEF Later
<1>2. IsFiniteSet(Indices)
  BY FS_Interval DEF Indices, RoomTypeOK
<1>3. IsFiniteSet(Later) /\ Cardinality(Later) \in Nat
  BY <1>1, <1>2, FS_Subset, FS_CardinalityType
<1>4. \A k \in 1..Cardinality(Later) : Nth(Later, k) \in Indices
  BY <1>1, NthIsIn
<1>5. \A i \in Indices : seen[i] \in Stamped
  BY DEF RoomTypeOK, Indices
<1> DEFINE c == Cardinality(Later)
           at(k) == seen[Nth(Later, k)]
<1>6. After = [k \in 1..c |-> at(k)]
  BY DEF After
<1>7. \A k \in 1..c : at(k) \in Stamped
  BY <1>4, <1>5
<1>8. c \in Nat
  BY <1>3
<1> HIDE DEF c, at
<1>9. After \in Seq(Stamped) /\ Len(After) = c /\ \A k \in 1..c : After[k] = at(k)
  BY <1>6, <1>7, <1>8
<1> QED
  BY <1>1, <1>3, <1>4, <1>9 DEF c, at

\* A new key frame starts an empty sequence of deltas.
LEMMA KeyStarts ==
  ASSUME RoomTypeOK, Extrema, CodecMatches, NEW f \in Stamped, Recorded(f),
         NEW m, m = Len(seen) + 1, classify_nal(f, w.codec).kind = "Keyframe"
  PROVE  Keys' # {} /\ Largest(Keys)' = m /\ Later' = {} /\ After' = << >>
<1>1. Keys' = Keys \cup {m}
  BY KeysGrow DEF New
<1>2. /\ m \in Nat /\ Indices' = Indices \cup {m}
      /\ \A i \in Indices : i < m /\ i \in Nat
  BY SeenGrows
<1>3. Keys \subseteq Indices
  BY DEF Keys
<1>4. Largest(Keys \cup {m}) = m
  BY <1>2, <1>3, LargestGrows
<1>5. Largest(Keys)' = m
  BY <1>1, <1>4 DEF Largest
<1>6. \A i \in Indices' : ~(i > m)
  BY <1>2
<1>7. Later' = {}
  BY <1>5, <1>6 DEF Later
<1>8. After' = [n \in 1..0 |-> seen'[Nth({}, n)]]
  BY <1>7, NothingPlaced DEF After, Nth
<1>9. After' = << >>
  BY <1>8
<1> QED
  BY <1>1, <1>5, <1>7, <1>9

\* A delta joins the frames after the last key frame, a parameter set does not.
LEMMA LaterGrows ==
  ASSUME RoomTypeOK, Extrema, CodecMatches, NEW f \in Stamped, Recorded(f),
         NEW m, m = Len(seen) + 1, classify_nal(f, w.codec).kind # "Keyframe",
         Keys # {}
  PROVE  /\ Keys' = Keys /\ Largest(Keys)' = Largest(Keys)
         /\ Largest(Keys) \in Indices /\ Later \subseteq Indices
         /\ Later' = IF classify_nal(f, w.codec).kind = "ParamSet" THEN Later
                     ELSE Later \cup {m}
<1> DEFINE class == classify_nal(f, w.codec)
<1>1. Keys' = Keys
  BY KeysGrow DEF New
<1>2. /\ m \in Nat /\ Indices' = Indices \cup {m} /\ m \notin Indices
      /\ \A i \in Indices : i < m /\ i \in Nat
  BY SeenGrows
<1>3. Keys \subseteq Indices
  BY DEF Keys
<1>4. Largest(Keys) \in Indices
  <2>1. PICK i \in Keys : IsLargest(Keys, i)
    BY DEF Extrema
  <2>2. Keys \in SUBSET Nat
    BY <1>2, <1>3
  <2>3. Largest(Keys) = i
    BY <2>1, <2>2, LargestIs
  <2> QED
    BY <1>3, <2>3
<1>5. Largest(Keys)' = Largest(Keys)
  BY <1>1 DEF Largest
<1>6. /\ \A i \in Indices : IsA(i, "ParamSet")' <=> IsA(i, "ParamSet")
      /\ IsA(m, "ParamSet")' <=> class.kind = "ParamSet"
  BY KindsGrow
<1>7. Later' = {i \in Indices' : i > Largest(Keys) /\ ~IsA(i, "ParamSet")'}
  BY <1>5 DEF Later
<1>8. Later = {i \in Indices : i > Largest(Keys) /\ ~IsA(i, "ParamSet")}
  BY DEF Later
<1> DEFINE l == Largest(Keys)
<1>9. m > l
  BY <1>2, <1>4
<1> HIDE DEF l, class
<1>10. Later' = IF class.kind = "ParamSet" THEN Later ELSE Later \cup {m}
  BY <1>2, <1>6, <1>7, <1>8, <1>9 DEF l
<1> QED
  BY <1>1, <1>4, <1>5, <1>8, <1>10 DEF class

LEMMA AfterStays ==
  ASSUME RoomTypeOK, Extrema, CodecMatches, NEW f \in Stamped, Recorded(f),
         classify_nal(f, w.codec).kind = "ParamSet", Keys # {}, Placed(Later)
  PROVE  Later' = Later /\ After' = After
<1>1. Later' = Later
  BY LaterGrows
<1>2. \A i \in Indices : seen'[i] = seen[i]
  BY SeenGrows
<1>3. \A k \in 1..Cardinality(Later) : Nth(Later, k) \in Indices
  BY AfterIs
<1> DEFINE L == Later
<1>4. After' = [n \in 1..Cardinality(L) |-> seen'[Nth(L, n)]]
  BY <1>1 DEF After, Nth, Rank
<1>5. After = [n \in 1..Cardinality(L) |-> seen[Nth(L, n)]]
  BY DEF After
<1> HIDE DEF L
<1> QED
  BY <1>1, <1>2, <1>3, <1>4, <1>5 DEF L

LEMMA AfterGrows ==
  ASSUME RoomTypeOK, Extrema, CodecMatches, NEW f \in Stamped, Recorded(f),
         classify_nal(f, w.codec).kind \in Others, Keys # {}, Placed(Later)
  PROVE  Placed(Later)' /\ After' = Append(After, f)
<1> DEFINE S == Later
           c == Cardinality(S)
           A == After
<1>0. PICK m : m = Len(seen) + 1
  OBVIOUS
<1>1. Later' = S \cup {m}
  BY <1>0, LaterGrows DEF Others
<1>2. /\ S \subseteq Indices /\ IsFiniteSet(S) /\ c \in Nat
      /\ A \in Seq(Stamped) /\ Len(A) = c
      /\ \A k \in 1..c : Nth(S, k) \in Indices /\ A[k] = seen[Nth(S, k)]
  BY AfterIs
<1>3. /\ m \in Nat /\ \A i \in Indices : i < m /\ i \in Nat
      /\ \A i \in Indices : seen'[i] = seen[i]
      /\ seen'[m] = f
  BY <1>0, SeenGrows
<1>4. PICK T : T = S \cup {m}
  OBVIOUS
<1>5. S \in SUBSET Nat /\ \A j \in S : j < m
  BY <1>2, <1>3
<1>6. /\ Cardinality(T) = c + 1 /\ Placed(T)
      /\ \A k \in 1..c : Nth(T, k) = Nth(S, k)
      /\ Nth(T, c + 1) = m
  BY <1>2, <1>3, <1>4, <1>5, RankOfNext
<1>7. Later' = T
  BY <1>1, <1>4
<1>8. After' = [k \in 1..Cardinality(T) |-> seen'[Nth(T, k)]]
  BY <1>7 DEF After, Nth, Rank
<1>9. Placed(Later)'
  <2>1. Placed(T)
    BY <1>6
  <2> HIDE DEF S
  <2> QED
    BY <1>7, <2>1, SMTT(30) DEF Placed, Rank
<1> HIDE DEF S, c, A
<1>10. After' = [k \in 1..c + 1 |-> IF k = c + 1 THEN f ELSE A[k]]
  <2>1. \A k \in 1..c + 1 : seen'[Nth(T, k)] = IF k = c + 1 THEN f ELSE A[k]
    <3> TAKE k \in 1..c + 1
    <3>1. CASE k = c + 1
      BY <1>3, <1>6, <3>1
    <3>2. CASE k # c + 1
      <4>1. k \in 1..c
        BY <1>2, <3>2
      <4> QED
        BY <1>2, <1>3, <1>6, <3>2, <4>1
    <3> QED
      BY <3>1, <3>2
  <2> QED
    BY <1>6, <1>8, <2>1
<1>11. Append(A, f) = [k \in 1..c + 1 |-> IF k = c + 1 THEN f ELSE A[k]]
  <2>1. A \in Seq(Stamped) /\ c = Len(A)
    BY <1>2
  <2> QED
    BY <2>1, AppendIs
<1> QED
  BY <1>9, <1>10, <1>11 DEF A
-----------------------------------------------------------------------------
\* While there is a key frame, the frames after it can be counted and summed.
AfterOK == Keys # {} => Placed(Later) /\ Summed(After) /\ Size(After) \in Nat

HistoryInv == Extrema /\ AfterOK
              /\ CodecMatches /\ ParamsMatch /\ KeyMatches /\ DeltasMatch

LEMMA CodecStillMatches ==
  ASSUME RoomTypeOK, Extrema, CodecMatches, NEW f \in Stamped, Recorded(f)
  PROVE  CodecMatches'
<1> DEFINE class == classify_nal(f, w.codec)
<1>1. w \in RoomWindow /\ w' = record(w, f)
  BY DEF RoomTypeOK, Recorded
<1>9. Effects(w, f, class, w')
  BY <1>1, RecordEffects
<1>2. /\ class.kind = "ParamSet" =>
           w'.codec = IF w.codec = None THEN class.codec ELSE w.codec
      /\ class.kind # "ParamSet" => w'.codec = w.codec
  BY <1>9 DEF Effects
<1>3. CASE w.codec = None
  BY <1>2, <1>3, StillUnknown DEF CodecMatches, New
<1>4. CASE w.codec # None
  BY <1>2, <1>4, AlreadyKnown DEF CodecMatches
<1> QED
  BY <1>3, <1>4

LEMMA ParamsStillMatch ==
  ASSUME RoomTypeOK, Extrema, CodecMatches, ParamsMatch, NEW f \in Stamped, Recorded(f)
  PROVE  ParamsMatch'
<1> SUFFICES ASSUME NEW t \in ParamType
             PROVE  w'.param_sets[t] = IF ParamsOf(t)' = {} THEN None
                                       ELSE seen'[Largest(ParamsOf(t)')]
  BY DEF ParamsMatch, Largest
<1> DEFINE class == classify_nal(f, w.codec)
<1>0. PICK m : m = Len(seen) + 1
  OBVIOUS
<1>1. w \in RoomWindow /\ w' = record(w, f)
  BY DEF RoomTypeOK, Recorded
<1>9. Effects(w, f, class, w')
  BY <1>1, RecordEffects
<1>2. w'.param_sets[t] = IF class.kind = "ParamSet" /\ t = class.nal_type
                         THEN f ELSE w.param_sets[t]
  <2>1. CASE class.kind = "ParamSet"
    <3>1. w'.param_sets[t] = IF t = class.nal_type THEN f ELSE w.param_sets[t]
      BY <1>9, <2>1 DEF Effects
    <3> QED
      BY <2>1, <3>1
  <2>2. CASE class.kind # "ParamSet"
    <3>1. w'.param_sets = w.param_sets
      BY <1>9, <2>2 DEF Effects
    <3> QED
      BY <2>2, <3>1
  <2> QED
    BY <2>1, <2>2
<1>3. ParamsOf(t)' = ParamsOf(t) \cup IF class.kind = "ParamSet" /\ t = class.nal_type
                                     THEN {m} ELSE {}
  BY <1>0, ParamsGrow DEF NewParam, New
<1>4. /\ m \in Nat /\ \A i \in Indices : i < m /\ i \in Nat
      /\ \A i \in Indices : seen'[i] = seen[i]
      /\ seen'[m] = f
  BY <1>0, SeenGrows
<1>5. ParamsOf(t) \subseteq Indices
  BY DEF ParamsOf
<1>6. w.param_sets[t] = IF ParamsOf(t) = {} THEN None ELSE seen[Largest(ParamsOf(t))]
  BY DEF ParamsMatch
<1>7. CASE class.kind = "ParamSet" /\ t = class.nal_type
  <2>1. ParamsOf(t)' = ParamsOf(t) \cup {m}
    BY <1>3, <1>7
  <2>2. Largest(ParamsOf(t) \cup {m}) = m
    BY <1>4, <1>5, LargestGrows
  <2> QED
    BY <1>2, <1>4, <1>7, <2>1, <2>2
<1>8. CASE ~(class.kind = "ParamSet" /\ t = class.nal_type)
  <2>1. ParamsOf(t)' = ParamsOf(t)
    BY <1>3, <1>8
  <2>2. ParamsOf(t) # {} => Largest(ParamsOf(t)) \in Indices
    <3> SUFFICES ASSUME ParamsOf(t) # {} PROVE Largest(ParamsOf(t)) \in Indices
      OBVIOUS
    <3>1. PICK i \in ParamsOf(t) : IsLargest(ParamsOf(t), i)
      BY DEF Extrema
    <3>2. ParamsOf(t) \in SUBSET Nat
      BY <1>4, <1>5
    <3>3. Largest(ParamsOf(t)) = i
      BY <3>1, <3>2, LargestIs
    <3> QED
      BY <1>5, <3>3
  <2> QED
    BY <1>2, <1>4, <1>6, <1>8, <2>1, <2>2
<1> QED
  BY <1>7, <1>8

\* The size of what comes after the last key frame.
LEMMA AfterSize ==
  ASSUME RoomTypeOK, Extrema, CodecMatches, AfterOK, NEW f \in Stamped, Recorded(f)
  PROVE  /\ AfterOK'
         /\ classify_nal(f, w.codec).kind = "Keyframe" =>
              Keys' # {} /\ After' = << >> /\ Size(After') = 0
         /\ classify_nal(f, w.codec).kind # "Keyframe" => Keys' = Keys
         /\ classify_nal(f, w.codec).kind = "ParamSet" /\ Keys # {} => After' = After
         /\ classify_nal(f, w.codec).kind \in Others /\ Keys # {} =>
              After' = Append(After, f) /\ Size(After') = Size(After) + f.len
<1> DEFINE class == classify_nal(f, w.codec)
<1>0. PICK m : m = Len(seen) + 1
  OBVIOUS
<1>1. f.len \in Nat /\ \A e \in Stamped : e.len \in Nat
  BY StampedFrames
<1>2. class.kind \in {"ParamSet", "Keyframe", "Delta", "Unknown"}
  <2>1. w.codec \in Codec \cup {None}
    BY DEF RoomTypeOK, RoomWindow
  <2> QED
    BY <2>1, Classes
<1>3. AfterOK' <=> (Keys' # {} => Placed(Later)' /\ Summed(After') /\ Size(After') \in Nat)
  BY DEF AfterOK, Summed, Sums, Size
<1>4. ASSUME class.kind = "Keyframe"
      PROVE  /\ Keys' # {} /\ After' = << >> /\ Size(After') = 0
             /\ AfterOK'
  <2>1. Keys' # {} /\ Later' = {} /\ After' = << >>
    BY <1>0, <1>4, KeyStarts
  <2>2. Placed(Later)'
    BY <2>1, NothingPlaced DEF Placed, Rank
  <2>3. Summed(After') /\ Size(After') = 0
    BY <2>1, NothingSummed
  <2> QED
    BY <1>3, <2>1, <2>2, <2>3
<1>5. ASSUME class.kind # "Keyframe" PROVE Keys' = Keys
  BY <1>5, KeysGrow DEF New
<1>6. ASSUME class.kind = "ParamSet", Keys # {}
      PROVE  After' = After /\ AfterOK'
  <2>1. Placed(Later) /\ Summed(After) /\ Size(After) \in Nat
    BY <1>6 DEF AfterOK
  <2>2. Later' = Later /\ After' = After
    BY <1>6, <2>1, AfterStays
  <2>3. Placed(Later)'
    BY <2>1, <2>2, ZenonT(60) DEF Placed, Rank
  <2> QED
    BY <1>3, <2>1, <2>2, <2>3
<1>7. ASSUME class.kind \in Others, Keys # {}
      PROVE  /\ After' = Append(After, f) /\ Size(After') = Size(After) + f.len
             /\ AfterOK'
  <2>1. Placed(Later) /\ Summed(After) /\ Size(After) \in Nat
    BY <1>7 DEF AfterOK
  <2>2. Placed(Later)' /\ After' = Append(After, f)
    BY <1>7, <2>1, AfterGrows
  <2>3. After \in Seq(Stamped)
    BY <2>1, AfterIs
  <2>4. Summed(After') /\ Size(After') = Size(After) + f.len
    BY <1>1, <2>1, <2>2, <2>3, SizeOfAppend
  <2>5. Size(After') \in Nat
    BY <1>1, <2>1, <2>4
  <2> QED
    BY <1>3, <2>2, <2>4, <2>5
<1>8. ASSUME class.kind # "Keyframe", Keys = {} PROVE AfterOK'
  BY <1>3, <1>5, <1>8
<1>9. AfterOK'
  BY <1>2, <1>4, <1>6, <1>7, <1>8 DEF Others
<1> HIDE DEF class
<1> QED
  BY <1>4, <1>5, <1>6, <1>7, <1>9 DEF class

LEMMA CacheStillMatches ==
  ASSUME RoomTypeOK, Extrema, CodecMatches, AfterOK, KeyMatches, DeltasMatch,
         NEW f \in Stamped, Recorded(f)
  PROVE  KeyMatches' /\ DeltasMatch'
<1> DEFINE class == classify_nal(f, w.codec)
           key == seen[Largest(Keys)]
<1>0. PICK m : m = Len(seen) + 1
  OBVIOUS
<1>1. w \in RoomWindow /\ w' = record(w, f)
  BY DEF RoomTypeOK, Recorded
<1>2. Effects(w, f, class, w')
  BY <1>1, RecordEffects
<1>3. class.kind \in {"ParamSet", "Keyframe"} \cup Others
  <2>1. w.codec \in Codec \cup {None}
    BY DEF RoomTypeOK, RoomWindow
  <2> QED
    BY <2>1, Classes DEF Others
<1>4. /\ \A i \in Indices : seen'[i] = seen[i] /\ seen[i] \in Stamped
      /\ seen'[m] = f
  BY <1>0, SeenGrows
<1>5. Anchored <=> Keys # {} /\ key.len <= WARMUP_KEY_MAX_BYTES
                   /\ Size(After) <= WARMUP_DELTA_MAX_BYTES
  BY DEF Anchored
<1>6. Anchored' <=> Keys' # {} /\ seen'[Largest(Keys)'].len <= WARMUP_KEY_MAX_BYTES
                    /\ Size(After') <= WARMUP_DELTA_MAX_BYTES
  BY DEF Anchored, Size
<1>7. /\ w.keyframe = IF Anchored THEN <<key>> ELSE << >>
      /\ w.keyframe_total_bytes = IF Anchored THEN key.len ELSE 0
      /\ w.since_keyframe = IF Anchored THEN After ELSE << >>
      /\ w.since_keyframe_total_bytes = IF Anchored THEN Size(After) ELSE 0
  BY DEF KeyMatches, DeltasMatch
<1>8. SUFFICES
        /\ w'.keyframe = IF Anchored' THEN <<seen'[Largest(Keys)']>> ELSE << >>
        /\ w'.keyframe_total_bytes = IF Anchored' THEN seen'[Largest(Keys)'].len ELSE 0
        /\ w'.since_keyframe = IF Anchored' THEN After' ELSE << >>
        /\ w'.since_keyframe_total_bytes = IF Anchored' THEN Size(After') ELSE 0
  BY DEF KeyMatches, DeltasMatch, Size
<1>9. ASSUME class.kind # "Keyframe", Keys # {}
      PROVE  Keys' = Keys /\ seen'[Largest(Keys)'] = key
  <2>1. Keys' = Keys /\ Largest(Keys)' = Largest(Keys) /\ Largest(Keys) \in Indices
    BY <1>0, <1>9, LaterGrows
  <2> QED
    BY <1>4, <2>1
<1>10. ASSUME class.kind # "Keyframe", Keys = {}
       PROVE  Keys' = {} /\ ~Anchored /\ ~Anchored'
  <2>1. Keys' = {}
    BY <1>10, AfterSize
  <2> QED
    BY <1>5, <1>6, <1>10, <2>1
<1> HIDE DEF class, key
<1>11. CASE class.kind = "ParamSet"
  <2>1. /\ w'.keyframe = w.keyframe
        /\ w'.keyframe_total_bytes = w.keyframe_total_bytes
        /\ w'.since_keyframe = w.since_keyframe
        /\ w'.since_keyframe_total_bytes = w.since_keyframe_total_bytes
    BY <1>2, <1>11 DEF Effects
  <2>2. CASE Keys = {}
    BY <1>7, <1>10, <1>11, <2>1, <2>2
  <2>3. CASE Keys # {}
    <3>1. After' = After
      BY <1>11, <2>3, AfterSize DEF class
    <3>2. Keys' = Keys /\ seen'[Largest(Keys)'] = key
      BY <1>9, <1>11, <2>3
    <3>3. Anchored' <=> Anchored
      BY <1>5, <1>6, <3>1, <3>2
    <3> QED
      BY <1>7, <2>1, <3>1, <3>2, <3>3
  <2> QED
    BY <2>2, <2>3
<1>12. CASE class.kind = "Keyframe"
  <2>1. Keys' # {} /\ After' = << >> /\ Size(After') = 0
    BY <1>12, AfterSize DEF class
  <2>2. seen'[Largest(Keys)'] = f
    BY <1>0, <1>4, <1>12, KeyStarts DEF class
  <2>3. Anchored' <=> f.len <= WARMUP_KEY_MAX_BYTES
    BY <1>6, <2>1, <2>2, CapsAssumption
  <2>4. /\ w'.keyframe = IF f.len <= WARMUP_KEY_MAX_BYTES THEN <<f>> ELSE << >>
        /\ w'.keyframe_total_bytes = IF f.len <= WARMUP_KEY_MAX_BYTES THEN f.len ELSE 0
        /\ w'.since_keyframe = << >> /\ w'.since_keyframe_total_bytes = 0
    BY <1>2, <1>12 DEF Effects
  <2> QED
    BY <2>1, <2>2, <2>3, <2>4
<1>13. CASE class.kind \in Others
  <2>1. class.kind # "Keyframe" /\ class.kind # "ParamSet"
    BY <1>13 DEF Others
  <2>2. CASE Keys = {}
    <3>1. w.keyframe = << >>
      BY <1>7, <1>10, <2>1, <2>2
    <3>2. w' = w
      BY <1>2, <1>13, <3>1 DEF Effects
    <3> QED
      BY <1>7, <1>10, <2>1, <2>2, <3>2
  <2>3. CASE Keys # {}
    <3>1. After' = Append(After, f) /\ Size(After') = Size(After) + f.len
      BY <1>13, <2>3, AfterSize DEF class
    <3>2. Keys' # {} /\ seen'[Largest(Keys)'] = key
      BY <1>9, <2>1, <2>3
    <3>3. Size(After) \in Nat /\ f.len \in Nat
      BY <2>3, StampedFrames DEF AfterOK
    <3>4. CASE ~Anchored
      <4>1. w.keyframe = << >>
        BY <1>7, <3>4
      <4>2. w' = w
        BY <1>2, <1>13, <4>1 DEF Effects
      <4>3. ~Anchored'
        <5>1. CASE ~(key.len <= WARMUP_KEY_MAX_BYTES)
          BY <1>6, <3>2, <5>1
        <5>2. CASE ~(Size(After) <= WARMUP_DELTA_MAX_BYTES)
          <6>1. ~(Size(After) + f.len <= WARMUP_DELTA_MAX_BYTES)
            BY <3>3, <5>2, CapsAssumption
          <6> QED
            BY <1>6, <3>1, <6>1
        <5> QED
          BY <1>5, <2>3, <3>4, <5>1, <5>2
      <4> QED
        BY <1>7, <3>4, <4>2, <4>3
    <3>5. CASE Anchored
      <4>1. /\ w.keyframe = <<key>> /\ w.keyframe_total_bytes = key.len
            /\ w.since_keyframe = After /\ w.since_keyframe_total_bytes = Size(After)
        BY <1>7, <3>5
      <4>2. w.keyframe # << >>
        BY <4>1
      <4> DEFINE fits == Size(After) + f.len <= WARMUP_DELTA_MAX_BYTES
      <4>3. /\ w'.keyframe = IF fits THEN <<key>> ELSE << >>
            /\ w'.keyframe_total_bytes = IF fits THEN key.len ELSE 0
            /\ w'.since_keyframe = IF fits THEN Append(After, f) ELSE << >>
            /\ w'.since_keyframe_total_bytes = IF fits THEN Size(After) + f.len ELSE 0
        BY <1>2, <1>13, <4>1, <4>2 DEF Effects
      <4>4. Anchored' <=> fits
        BY <1>5, <1>6, <3>1, <3>2, <3>5
      <4> HIDE DEF fits
      <4> QED
        BY <3>1, <3>2, <4>3, <4>4
    <3> QED
      BY <3>4, <3>5
  <2> QED
    BY <2>2, <2>3
<1> QED
  BY <1>3, <1>11, <1>12, <1>13

LEMMA RoomTypeCorrect == RoomSpec => []RoomTypeOK
<1>1. WindowInv => RoomTypeOK
  BY DEF WindowInv
<1> QED
  BY <1>1, WindowInvariant, PTL

\* The window is a function of everything the room has seen: the codec it told
\* first, the latest of each parameter set, and the last key frame, one NAL, with
\* all that came after it, or neither if one of them exceeds its cap.
LEMMA RoomFollowsHistory == RoomSpec => []WindowMatchesHistory
<1>1. Init => HistoryInv
  <2> SUFFICES ASSUME Init PROVE HistoryInv
    OBVIOUS
  <2>1. w = EmptyWindow /\ Indices = {}
    BY DEF Init, Indices
  <2>2. Told = {} /\ Keys = {} /\ \A t \in ParamType : ParamsOf(t) = {}
    BY <2>1 DEF Told, Keys, ParamsOf
  <2>3. RoomCodec = None /\ ~Anchored
    BY <2>2 DEF RoomCodec, Anchored
  <2> QED
    BY <2>1, <2>2, <2>3 DEF HistoryInv, Extrema, AfterOK, CodecMatches, ParamsMatch,
       KeyMatches, DeltasMatch, EmptyWindow
<1>2. RoomTypeOK /\ HistoryInv /\ [RoomNext]_vars => HistoryInv'
  <2> SUFFICES ASSUME RoomTypeOK, HistoryInv, [RoomNext]_vars PROVE HistoryInv'
    OBVIOUS
  <2>1. ASSUME NEW f \in Stamped, Recorded(f) PROVE HistoryInv'
    BY <2>1, ExtremaStay, AfterSize, CodecStillMatches, ParamsStillMatch,
       CacheStillMatches DEF HistoryInv
  <2>2. CASE UNCHANGED vars
    <3>1. w' = w /\ seen' = seen
      BY <2>2 DEF vars
    <3>2. Indices' = Indices /\ Told' = Told
      BY <3>1 DEF Told, Indices
    <3>3. RoomCodec' = RoomCodec
      BY <3>1, <3>2 DEF RoomCodec, Least
    <3>4. /\ Keys' = Keys /\ \A t \in ParamType : ParamsOf(t)' = ParamsOf(t)
          /\ \A i : IsA(i, "ParamSet")' <=> IsA(i, "ParamSet")
      BY <3>1, <3>2, <3>3 DEF Keys, ParamsOf, IsA, Least
    <3>5. Largest(Keys)' = Largest(Keys)
          /\ \A t \in ParamType : Largest(ParamsOf(t))' = Largest(ParamsOf(t))
      BY <3>4 DEF Largest
    <3>6. Later' = Later
      BY <3>2, <3>4, <3>5 DEF Later
    <3>7. After' = After
      BY <3>1, <3>6 DEF After, Nth, Rank
    <3>8. Size(After)' = Size(After)
      BY <3>7 DEF Size
    <3>9. Anchored' <=> Anchored
      BY <3>1, <3>4, <3>5, <3>8 DEF Anchored
    <3>10. Extrema'
      BY <3>2, <3>4 DEF HistoryInv, Extrema, IsLeast, IsLargest
    <3>11. AfterOK'
      BY <3>4, <3>6, <3>7, <3>8 DEF HistoryInv, AfterOK, Placed, Rank, Summed, Sums
    <3>12. CodecMatches' /\ ParamsMatch'
      BY <3>1, <3>3, <3>4, <3>5 DEF HistoryInv, CodecMatches, ParamsMatch
    <3>13. KeyMatches' /\ DeltasMatch'
      BY <3>1, <3>5, <3>7, <3>8, <3>9 DEF HistoryInv, KeyMatches, DeltasMatch
    <3> QED
      BY <3>10, <3>11, <3>12, <3>13 DEF HistoryInv
  <2> QED
    BY <2>1, <2>2 DEF RoomNext
<1>3. RoomTypeOK /\ HistoryInv => WindowMatchesHistory
  BY Matches DEF HistoryInv
<1> QED
  BY <1>1, <1>2, <1>3, RoomTypeCorrect, PTL DEF RoomSpec
-----------------------------------------------------------------------------
(* How a sample is laid out.                                               *)

AccessUnit == [format : {"annexb", "avcc"}, nals : Seq(MadeNal) \ {<< >>}]

Count(u) == Len(u.nals)
At(u, k) == NalStart(u)[k]
Begin(u, k) == At(u, k) - Prefix(u, k)
Finish(u, k) == At(u, k) + u.nals[k].len

LEMMA LongestIs == LongestNal \in Nat
  BY SMT DEF LongestNal

LEMMA UnitFields ==
  ASSUME NEW u \in AccessUnit
  PROVE  /\ u.format \in {"annexb", "avcc"} /\ Count(u) \in Nat /\ Count(u) >= 1
         /\ \A k \in 1..Count(u) :
              /\ u.nals[k].len \in Nat /\ u.nals[k].len >= 2
              /\ u.nals[k].len <= LongestNal /\ u.nals[k].first \in 1..127
              /\ Prefix(u, k) \in {3, 4}
              /\ u.format = "avcc" => Prefix(u, k) = 4
<1>1. u.format \in {"annexb", "avcc"} /\ u.nals \in Seq(MadeNal) /\ u.nals # << >>
  BY DEF AccessUnit
<1> DEFINE s == u.nals
           n == Len(s)
<1>2. s \in Seq(MadeNal) /\ s # << >>
  BY <1>1
<1> HIDE DEF s
<1>3. n \in Nat /\ n # 0 /\ \A k \in 1..n : s[k] \in MadeNal
  BY <1>2
<1> HIDE DEF n
<1>4. n >= 1
  BY <1>3
<1>5. ASSUME NEW x \in MadeNal
      PROVE  /\ x.len \in 2..LongestNal /\ x.first \in 1..127 /\ x.code \in {3, 4}
  BY DEF MadeNal
<1>6. ASSUME NEW m \in 2..LongestNal PROVE m \in Nat /\ m >= 2 /\ m <= LongestNal
  BY LongestIs
<1>7. ASSUME NEW k \in 1..n
      PROVE  /\ s[k].len \in Nat /\ s[k].len >= 2 /\ s[k].len <= LongestNal
             /\ s[k].first \in 1..127 /\ s[k].code \in {3, 4}
  BY <1>3, <1>5, <1>6
<1>8. \A k \in 1..n : /\ Prefix(u, k) \in {3, 4}
                      /\ u.format = "avcc" => Prefix(u, k) = 4
  BY <1>7 DEF Prefix, s
<1> QED
  BY <1>1, <1>3, <1>4, <1>7, <1>8 DEF Count, s, n

Starts(u, m, f) ==
  f = [k \in 1..m |-> Prefix(u, k) + (IF k = 1 THEN 0 ELSE f[k - 1] + u.nals[k - 1].len)]

LEMMA StartsExist ==
  ASSUME NEW u
  PROVE  \A m \in Nat : \E f : Starts(u, m, f)
<1> DEFINE S == {m \in Nat : \E f : Starts(u, m, f)}
<1>1. 0 \in S
  <2> DEFINE g == [k \in 1..0 |-> 0]
  <2>1. 1..0 = {}
    OBVIOUS
  <2>2. Starts(u, 0, g)
    BY <2>1 DEF Starts
  <2> HIDE DEF g
  <2> QED
    BY <2>2
<1>2. ASSUME NEW m \in Nat, m \in S PROVE m + 1 \in S
  <2>1. PICK g : Starts(u, m, g)
    BY <1>2
  <2> DEFINE start(k) == Prefix(u, k) + (IF k = 1 THEN 0 ELSE g[k - 1] + u.nals[k - 1].len)
             f == [k \in 1..m + 1 |-> start(k)]
  <2>2. /\ \A k \in 1..m : k \in 1..m + 1
        /\ \A k \in 1..m + 1 : k # 1 => k - 1 \in 1..m
    OBVIOUS
  <2>3. \A k \in 1..m : g[k] = start(k)
    BY <2>1 DEF Starts
  <2>4. \A k \in 1..m : f[k] = g[k]
    BY <2>2, <2>3
  <2>5. \A k \in 1..m + 1 :
          start(k) = Prefix(u, k) + (IF k = 1 THEN 0 ELSE f[k - 1] + u.nals[k - 1].len)
    BY <2>2, <2>4
  <2>6. Starts(u, m + 1, f)
    BY <2>5 DEF Starts
  <2> HIDE DEF f
  <2> QED
    BY <2>6
<1> HIDE DEF S
<1>3. \A m \in Nat : m \in S
  BY <1>1, <1>2, ByInduction
<1> QED
  BY <1>3 DEF S

LEMMA StartsFollow ==
  ASSUME NEW u \in AccessUnit
  PROVE  \A k \in 1..Count(u) :
           /\ At(u, k) \in Nat
           /\ At(u, k) = Prefix(u, k) + (IF k = 1 THEN 0 ELSE Finish(u, k - 1))
<1> DEFINE n == Count(u)
           at == NalStart(u)
<1>1. n \in Nat /\ \A k \in 1..n : u.nals[k].len \in Nat /\ Prefix(u, k) \in Nat
  BY UnitFields
<1>2. \E f : Starts(u, n, f)
  BY <1>1, StartsExist
<1>3. at = CHOOSE f : Starts(u, n, f)
  BY DEF NalStart, Starts, Count
<1>4. Starts(u, n, at)
  BY <1>2, <1>3
<1> HIDE DEF n, at
<1>5. \A k \in 1..n : at[k] = Prefix(u, k) + (IF k = 1 THEN 0 ELSE at[k - 1] + u.nals[k - 1].len)
  BY <1>4 DEF Starts
<1> DEFINE S == {k \in Nat : k \in 1..n => at[k] \in Nat}
<1>6. 0 \in S
  OBVIOUS
<1>7. ASSUME NEW k \in Nat, k \in S PROVE k + 1 \in S
  <2> SUFFICES ASSUME k + 1 \in 1..n PROVE at[k + 1] \in Nat
    OBVIOUS
  <2>1. at[k + 1] = Prefix(u, k + 1) + (IF k + 1 = 1 THEN 0 ELSE at[(k + 1) - 1] + u.nals[(k + 1) - 1].len)
    BY <1>5
  <2>2. Prefix(u, k + 1) \in Nat
    BY <1>1
  <2>3. CASE k = 0
    BY <2>1, <2>2, <2>3
  <2>4. CASE k # 0
    <3>1. k \in 1..n /\ (k + 1) - 1 = k /\ k + 1 # 1
      BY <1>1, <2>4
    <3>2. at[k] \in Nat /\ u.nals[k].len \in Nat
      BY <1>1, <1>7, <3>1
    <3> QED
      BY <2>1, <2>2, <3>1, <3>2
  <2> QED
    BY <2>3, <2>4
<1> HIDE DEF S
<1>8. \A k \in Nat : k \in S
  BY <1>6, <1>7, ByInduction
<1>9. \A k \in 1..n : at[k] \in Nat
  BY <1>1, <1>8 DEF S
<1> QED
  BY <1>5, <1>9 DEF At, Finish, n, at
-----------------------------------------------------------------------------
(* Each byte of a sample is in one zone: a NAL with what goes before it.   *)

LEMMA Layout ==
  ASSUME NEW u \in AccessUnit
  PROVE  /\ SizeOf(u) \in Nat /\ SizeOf(u) = Finish(u, Count(u))
         /\ \A k \in 1..Count(u) :
              /\ Begin(u, k) \in Nat /\ At(u, k) \in Nat /\ Finish(u, k) \in Nat
              /\ At(u, k) = Begin(u, k) + Prefix(u, k)
              /\ Finish(u, k) = At(u, k) + u.nals[k].len
              /\ Begin(u, k) + 3 <= At(u, k) /\ At(u, k) + 2 <= Finish(u, k)
              /\ Begin(u, k) = IF k = 1 THEN 0 ELSE Finish(u, k - 1)
<1>1. /\ Count(u) \in Nat /\ Count(u) >= 1
      /\ \A k \in 1..Count(u) : /\ u.nals[k].len \in Nat /\ u.nals[k].len >= 2
                                /\ Prefix(u, k) \in {3, 4}
  BY UnitFields
<1>2. ASSUME NEW k \in 1..Count(u)
      PROVE  /\ Begin(u, k) \in Nat /\ At(u, k) \in Nat /\ Finish(u, k) \in Nat
             /\ At(u, k) = Begin(u, k) + Prefix(u, k)
             /\ Finish(u, k) = At(u, k) + u.nals[k].len
             /\ Begin(u, k) + 3 <= At(u, k) /\ At(u, k) + 2 <= Finish(u, k)
             /\ Begin(u, k) = IF k = 1 THEN 0 ELSE Finish(u, k - 1)
  <2>1. /\ At(u, k) \in Nat
        /\ At(u, k) = Prefix(u, k) + (IF k = 1 THEN 0 ELSE Finish(u, k - 1))
    BY StartsFollow
  <2>2. /\ u.nals[k].len \in Nat /\ u.nals[k].len >= 2
        /\ Prefix(u, k) \in Nat /\ Prefix(u, k) >= 3
    BY <1>1
  <2>3. k # 1 => k - 1 \in 1..Count(u) /\ Finish(u, k - 1) \in Nat
    <3> SUFFICES ASSUME k # 1 PROVE k - 1 \in 1..Count(u) /\ Finish(u, k - 1) \in Nat
      OBVIOUS
    <3>1. k - 1 \in 1..Count(u)
      BY <1>1
    <3>2. At(u, k - 1) \in Nat /\ u.nals[k - 1].len \in Nat
      BY <1>1, <3>1, StartsFollow
    <3> QED
      BY <3>1, <3>2 DEF Finish
  <2>4. Finish(u, k) = At(u, k) + u.nals[k].len /\ Begin(u, k) = At(u, k) - Prefix(u, k)
    BY DEF Finish, Begin
  <2> QED
    BY <2>1, <2>2, <2>3, <2>4
<1>3. SizeOf(u) = Finish(u, Count(u))
  BY DEF SizeOf, Finish, At, Count
<1>4. Count(u) \in 1..Count(u)
  BY <1>1
<1> QED
  BY <1>2, <1>3, <1>4

LEMMA ZonesInOrder ==
  ASSUME NEW u \in AccessUnit
  PROVE  \A j, k \in 1..Count(u) : j < k => Finish(u, j) <= Begin(u, k)
<1> DEFINE n == Count(u)
           S == {k \in Nat : \A j \in 1..n : k \in 1..n /\ j < k => Finish(u, j) <= Begin(u, k)}
<1>1. n \in Nat
  BY UnitFields
<1>2. \A k \in 1..n : /\ Begin(u, k) \in Nat /\ Finish(u, k) \in Nat
                      /\ Begin(u, k) <= Finish(u, k)
                      /\ Begin(u, k) = IF k = 1 THEN 0 ELSE Finish(u, k - 1)
  <2> TAKE k \in 1..n
  <2>1. /\ Begin(u, k) \in Nat /\ Finish(u, k) \in Nat /\ At(u, k) \in Nat
        /\ Begin(u, k) + 3 <= At(u, k) /\ At(u, k) + 2 <= Finish(u, k)
        /\ Begin(u, k) = IF k = 1 THEN 0 ELSE Finish(u, k - 1)
    BY Layout
  <2> QED
    BY <2>1
<1> HIDE DEF n
<1>3. 0 \in S
  OBVIOUS
<1>4. ASSUME NEW k \in Nat, k \in S PROVE k + 1 \in S
  <2> SUFFICES ASSUME NEW j \in 1..n, k + 1 \in 1..n, j < k + 1
               PROVE  Finish(u, j) <= Begin(u, k + 1)
    OBVIOUS
  <2>1. k \in 1..n /\ k + 1 # 1 /\ (k + 1) - 1 = k
    BY <1>1
  <2>2. Begin(u, k + 1) = Finish(u, k)
    BY <1>2, <2>1
  <2>3. CASE j = k
    BY <1>2, <2>1, <2>2, <2>3
  <2>4. CASE j # k
    <3>1. j < k
      BY <2>4
    <3>2. Finish(u, j) <= Begin(u, k)
      BY <1>4, <2>1, <3>1
    <3>3. /\ Begin(u, k) <= Finish(u, k) /\ Finish(u, j) \in Nat
          /\ Begin(u, k) \in Nat /\ Finish(u, k) \in Nat
      BY <1>2, <2>1
    <3> QED
      BY <2>2, <3>2, <3>3
  <2> QED
    BY <2>3, <2>4
<1> HIDE DEF S
<1>5. \A k \in Nat : k \in S
  BY <1>3, <1>4, ByInduction
<1>6. ASSUME NEW j \in 1..n, NEW k \in 1..n, j < k PROVE Finish(u, j) <= Begin(u, k)
  <2>1. k \in S
    BY <1>5
  <2> QED
    BY <1>6, <2>1 DEF S
<1> QED
  BY <1>6 DEF n

InZone(u, k, p) == Begin(u, k) <= p /\ p < Finish(u, k)

LEMMA OneZone ==
  ASSUME NEW u \in AccessUnit, NEW p \in Nat,
         NEW j \in 1..Count(u), NEW k \in 1..Count(u), InZone(u, j, p), InZone(u, k, p)
  PROVE  j = k
<1>1. /\ Begin(u, j) \in Nat /\ Finish(u, j) \in Nat
      /\ Begin(u, k) \in Nat /\ Finish(u, k) \in Nat
      /\ Begin(u, j) <= p /\ p < Finish(u, j) /\ Begin(u, k) <= p /\ p < Finish(u, k)
  BY Layout DEF InZone
<1>2. ~(j < k)
  <2>1. j < k => Finish(u, j) <= Begin(u, k)
    BY ZonesInOrder
  <2> QED
    BY <1>1, <2>1
<1>3. ~(k < j)
  <2>1. k < j => Finish(u, k) <= Begin(u, j)
    BY ZonesInOrder
  <2> QED
    BY <1>1, <2>1
<1>4. j \in Nat /\ k \in Nat
  BY UnitFields
<1> QED
  BY <1>2, <1>3, <1>4

LEMMA SomeZone ==
  ASSUME NEW u \in AccessUnit, NEW p \in Nat, p < SizeOf(u)
  PROVE  \E k \in 1..Count(u) : InZone(u, k, p)
<1> DEFINE S == {k \in 1..Count(u) : p < Finish(u, k)}
<1>1. Count(u) \in Nat /\ Count(u) \in 1..Count(u)
  <2>1. Count(u) \in Nat /\ Count(u) >= 1
    BY UnitFields
  <2> QED
    BY <2>1
<1>2. Count(u) \in S /\ S \in SUBSET Nat
  BY <1>1, Layout
<1> HIDE DEF S
<1>3. PICK k \in S : \A m \in S : k <= m
  BY <1>2, LeastOf
<1>4. k \in 1..Count(u) /\ p < Finish(u, k)
  BY <1>3 DEF S
<1>5. Begin(u, k) = IF k = 1 THEN 0 ELSE Finish(u, k - 1)
  BY <1>4, Layout
<1>6. Begin(u, k) <= p
  <2>1. CASE k = 1
    BY <1>5, <2>1
  <2>2. CASE k # 1
    <3>1. k - 1 \in 1..Count(u) /\ ~(k <= k - 1)
      BY <1>1, <1>4, <2>2
    <3>2. k - 1 \notin S
      BY <1>3, <3>1
    <3>3. ~(p < Finish(u, k - 1))
      BY <3>1, <3>2 DEF S
    <3>4. Finish(u, k - 1) \in Nat
      BY <3>1, Layout
    <3> QED
      BY <1>5, <2>2, <3>3, <3>4
  <2> QED
    BY <2>1, <2>2
<1> QED
  BY <1>4, <1>6 DEF InZone

LEMMA ByteIs ==
  ASSUME NEW u \in AccessUnit, NEW p \in Nat, NEW k \in 1..Count(u), InZone(u, k, p)
  PROVE  ByteAt(u, p) = IF p < At(u, k) THEN PrefixByte(u, k, p - Begin(u, k))
                        ELSE IF p = At(u, k) THEN u.nals[k].first ELSE Inner
<1> DEFINE z == CHOOSE j \in 1..Count(u) : InZone(u, j, p)
<1>1. z \in 1..Count(u) /\ InZone(u, z, p)
  OBVIOUS
<1> HIDE DEF z
<1>2. z = k
  BY <1>1, OneZone
<1>3. z = CHOOSE j \in 1..Len(u.nals) :
            NalStart(u)[j] - Prefix(u, j) <= p /\ p < NalStart(u)[j] + u.nals[j].len
  BY DEF z, Count, InZone, Begin, Finish, At
<1>4. ByteAt(u, p) = IF p < NalStart(u)[z] THEN PrefixByte(u, z, p - (NalStart(u)[z] - Prefix(u, z)))
                     ELSE IF p = NalStart(u)[z] THEN u.nals[z].first ELSE Inner
  BY <1>3 DEF ByteAt
<1> QED
  BY <1>2, <1>4 DEF Begin, At
-----------------------------------------------------------------------------
(* What the bytes of a sample are.                                         *)

LEMMA InsideSample ==
  ASSUME NEW u \in AccessUnit, NEW k \in 1..Count(u)
  PROVE  Finish(u, k) <= SizeOf(u)
<1>1. /\ SizeOf(u) = Finish(u, Count(u)) /\ Count(u) \in Nat /\ Count(u) >= 1
  BY Layout, UnitFields
<1>2. Count(u) \in 1..Count(u) /\ k \in Nat
  BY <1>1
<1>3. CASE k = Count(u)
  BY <1>1, <1>2, <1>3, Layout
<1>4. CASE k # Count(u)
  <2>1. k < Count(u)
    BY <1>1, <1>2, <1>4
  <2>2. Finish(u, k) <= Begin(u, Count(u))
    BY <1>2, <2>1, ZonesInOrder
  <2>3. /\ Begin(u, Count(u)) \in Nat /\ At(u, Count(u)) \in Nat /\ Finish(u, Count(u)) \in Nat
        /\ Begin(u, Count(u)) + 3 <= At(u, Count(u))
        /\ At(u, Count(u)) + 2 <= Finish(u, Count(u))
        /\ Finish(u, k) \in Nat
    BY <1>2, Layout
  <2> QED
    BY <1>1, <2>2, <2>3
<1> QED
  BY <1>3, <1>4

LEMMA BodyBytes ==
  ASSUME NEW u \in AccessUnit, NEW k \in 1..Count(u), NEW p \in Nat,
         At(u, k) <= p, p < Finish(u, k)
  PROVE  /\ ByteAt(u, p) = IF p = At(u, k) THEN u.nals[k].first ELSE 128
         /\ ByteAt(u, p) \in 1..255
         /\ p # At(u, k) => ByteAt(u, p) # 1
<1>1. /\ Begin(u, k) \in Nat /\ At(u, k) \in Nat /\ Begin(u, k) + 3 <= At(u, k)
  BY Layout
<1>2. InZone(u, k, p) /\ ~(p < At(u, k))
  BY <1>1 DEF InZone
<1>3. ByteAt(u, p) = IF p = At(u, k) THEN u.nals[k].first ELSE 128
  BY <1>2, ByteIs DEF Inner
<1>4. u.nals[k].first \in 1..127
  BY UnitFields
<1> QED
  BY <1>3, <1>4

LEMMA PrefixBytes ==
  ASSUME NEW u \in AccessUnit, NEW k \in 1..Count(u), NEW i \in Nat, i < Prefix(u, k)
  PROVE  ByteAt(u, Begin(u, k) + i) = PrefixByte(u, k, i)
<1>1. /\ Begin(u, k) \in Nat /\ At(u, k) = Begin(u, k) + Prefix(u, k)
      /\ At(u, k) + 2 <= Finish(u, k) /\ Finish(u, k) \in Nat /\ At(u, k) \in Nat
  BY Layout
<1>2. Prefix(u, k) \in Nat
  BY UnitFields
<1> DEFINE p == Begin(u, k) + i
<1>3. p \in Nat /\ Begin(u, k) <= p /\ p < At(u, k) /\ p < Finish(u, k) /\ p - Begin(u, k) = i
  BY <1>1, <1>2
<1>4. InZone(u, k, p)
  BY <1>3 DEF InZone
<1> HIDE DEF p
<1>5. ByteAt(u, p) = PrefixByte(u, k, p - Begin(u, k))
  BY <1>3, <1>4, ByteIs
<1> QED
  BY <1>3, <1>5 DEF p

LEMMA AnnexbBytes ==
  ASSUME NEW u \in AccessUnit, u.format = "annexb", NEW k \in 1..Count(u),
         NEW p \in Nat, Begin(u, k) <= p, p < At(u, k)
  PROVE  ByteAt(u, p) = IF p + 1 = At(u, k) THEN 1 ELSE 0
<1>1. /\ Begin(u, k) \in Nat /\ At(u, k) = Begin(u, k) + Prefix(u, k) /\ At(u, k) \in Nat
  BY Layout
<1>2. Prefix(u, k) \in Nat
  BY UnitFields
<1> DEFINE i == p - Begin(u, k)
<1>3. i \in Nat /\ i < Prefix(u, k) /\ Begin(u, k) + i = p
      /\ (i = Prefix(u, k) - 1 <=> p + 1 = At(u, k))
  BY <1>1, <1>2
<1> HIDE DEF i
<1>4. ByteAt(u, p) = PrefixByte(u, k, i)
  BY <1>3, PrefixBytes
<1>5. PrefixByte(u, k, i) = IF i = Prefix(u, k) - 1 THEN 1 ELSE 0
  BY DEF PrefixByte
<1> QED
  BY <1>3, <1>4, <1>5

\* The sample starts with a start code.
LEMMA AnnexbSniffed ==
  ASSUME NEW u \in AccessUnit, u.format = "annexb"
  PROVE  is_annexb(u)
<1>1. Count(u) \in Nat /\ Count(u) >= 1
  BY UnitFields
<1>2. 1 \in 1..Count(u)
  BY <1>1
<1>3. /\ Begin(u, 1) = 0 /\ At(u, 1) = Begin(u, 1) + Prefix(u, 1) /\ Prefix(u, 1) \in {3, 4}
  BY <1>2, Layout, UnitFields
<1>4. At(u, 1) \in {3, 4}
  BY <1>3
<1>5. \A p \in Nat : 0 <= p /\ p < At(u, 1) => ByteAt(u, p) = IF p + 1 = At(u, 1) THEN 1 ELSE 0
  BY <1>2, <1>3, AnnexbBytes
<1>6. CASE At(u, 1) = 3
  <2>1. ByteAt(u, 0) = 0 /\ ByteAt(u, 1) = 0 /\ ByteAt(u, 2) = 1
    BY <1>5, <1>6
  <2> QED
    BY <2>1 DEF is_annexb, StartsWithCode
<1>7. CASE At(u, 1) = 4
  <2>1. ByteAt(u, 0) = 0 /\ ByteAt(u, 1) = 0 /\ ByteAt(u, 2) = 0 /\ ByteAt(u, 3) = 1
    BY <1>5, <1>7
  <2> QED
    BY <2>1 DEF is_annexb, StartsWithCode
<1> QED
  BY <1>4, <1>6, <1>7

\* The start codes that are found are the ones before the NALs.
LEMMA OnesAre ==
  ASSUME NEW u \in AccessUnit, u.format = "annexb"
  PROVE  Ones(u) = {At(u, k) - 1 : k \in 1..Count(u)}
<1>1. SizeOf(u) \in Nat
  BY Layout
<1>2. ASSUME NEW k \in 1..Count(u) PROVE At(u, k) - 1 \in Ones(u)
  <2>1. /\ Begin(u, k) \in Nat /\ At(u, k) \in Nat /\ Finish(u, k) \in Nat
        /\ Begin(u, k) + 3 <= At(u, k) /\ At(u, k) + 2 <= Finish(u, k)
        /\ Finish(u, k) <= SizeOf(u)
    BY Layout, InsideSample
  <2> DEFINE p == At(u, k) - 1
  <2>2. /\ p \in Nat /\ p - 1 \in Nat /\ p - 2 \in Nat /\ p \in 2..SizeOf(u) - 1
        /\ Begin(u, k) <= p /\ p < At(u, k) /\ p + 1 = At(u, k)
        /\ Begin(u, k) <= p - 1 /\ p - 1 < At(u, k) /\ (p - 1) + 1 # At(u, k)
        /\ Begin(u, k) <= p - 2 /\ p - 2 < At(u, k) /\ (p - 2) + 1 # At(u, k)
    BY <1>1, <2>1
  <2> HIDE DEF p
  <2>3. ByteAt(u, p) = 1 /\ ByteAt(u, p - 1) = 0 /\ ByteAt(u, p - 2) = 0
    BY <2>2, AnnexbBytes
  <2>4. p \in Ones(u)
    BY <2>2, <2>3 DEF Ones, Zero
  <2> QED
    BY <2>4 DEF p
<1>3. ASSUME NEW p \in Ones(u) PROVE \E k \in 1..Count(u) : p = At(u, k) - 1
  <2>1. /\ p \in 2..SizeOf(u) - 1 /\ ByteAt(u, p) = 1 /\ ByteAt(u, p - 1) = 0
    BY DEF Ones, Zero
  <2>2. p \in Nat /\ p < SizeOf(u) /\ p - 1 \in Nat
    BY <1>1, <2>1
  <2>3. PICK k \in 1..Count(u) : InZone(u, k, p)
    BY <2>2, SomeZone
  <2>4. /\ Begin(u, k) \in Nat /\ At(u, k) \in Nat /\ Begin(u, k) + 3 <= At(u, k)
        /\ Begin(u, k) <= p /\ p < Finish(u, k) /\ Finish(u, k) \in Nat
    BY <2>3, Layout DEF InZone
  <2>5. CASE p < At(u, k)
    <3>1. p + 1 = At(u, k)
      BY <2>1, <2>2, <2>4, <2>5, AnnexbBytes
    <3> QED
      BY <2>2, <2>4, <3>1
  <2>6. CASE p = At(u, k)
    <3>1. /\ Begin(u, k) <= p - 1 /\ p - 1 < At(u, k) /\ (p - 1) + 1 = At(u, k)
      BY <2>2, <2>4, <2>6
    <3>2. ByteAt(u, p - 1) = 1
      BY <2>2, <3>1, AnnexbBytes
    <3> QED
      BY <2>1, <3>2
  <2>7. CASE At(u, k) < p
    <3>1. At(u, k) <= p /\ p # At(u, k)
      BY <2>2, <2>4, <2>7
    <3>2. ByteAt(u, p) # 1
      BY <2>2, <2>4, <3>1, BodyBytes
    <3> QED
      BY <2>1, <3>2
  <2> QED
    BY <2>2, <2>4, <2>5, <2>6, <2>7
<1> QED
  BY <1>2, <1>3

LEMMA CodeLenIs ==
  ASSUME NEW u \in AccessUnit, u.format = "annexb", NEW k \in 1..Count(u)
  PROVE  CodeLen(u, At(u, k) - 1) = Prefix(u, k)
<1> DEFINE p == At(u, k) - 1
<1>1. /\ Begin(u, k) \in Nat /\ At(u, k) \in Nat
      /\ At(u, k) = Begin(u, k) + Prefix(u, k) /\ Prefix(u, k) \in {3, 4}
      /\ Begin(u, k) = IF k = 1 THEN 0 ELSE Finish(u, k - 1)
  BY Layout, UnitFields
<1>2. CASE Prefix(u, k) = 4
  <2>1. /\ p \in Nat /\ p > 2 /\ p - 3 \in Nat /\ p - 3 = Begin(u, k)
        /\ Begin(u, k) < At(u, k) /\ Begin(u, k) + 1 # At(u, k) /\ Begin(u, k) <= Begin(u, k)
    BY <1>1, <1>2
  <2>2. ByteAt(u, Begin(u, k)) = 0
    BY <1>1, <2>1, AnnexbBytes
  <2> HIDE DEF p
  <2>3. CodeLen(u, p) = 4
    BY <2>1, <2>2 DEF CodeLen, Zero
  <2> QED
    BY <1>2, <2>3 DEF p
<1>3. CASE Prefix(u, k) = 3
  <2>1. CASE k = 1
    <3>1. p = 2
      BY <1>1, <1>3, <2>1
    <3> HIDE DEF p
    <3>2. CodeLen(u, p) = 3
      BY <3>1 DEF CodeLen
    <3> QED
      BY <1>3, <3>2 DEF p
  <2>2. CASE k # 1
    <3> DEFINE j == k - 1
    <3>1. j \in 1..Count(u)
      <4>1. Count(u) \in Nat
        BY UnitFields
      <4> QED
        BY <2>2, <4>1
    <3> HIDE DEF j
    <3>2. /\ At(u, j) \in Nat /\ Finish(u, j) \in Nat /\ At(u, j) + 2 <= Finish(u, j)
      BY <3>1, Layout
    <3>3. Begin(u, k) = Finish(u, j)
      BY <1>1, <2>2 DEF j
    <3>4. /\ p - 3 \in Nat /\ At(u, j) <= p - 3 /\ p - 3 < Finish(u, j)
      BY <1>1, <1>3, <3>2, <3>3
    <3>5. ByteAt(u, p - 3) # 0
      <4> HIDE DEF p
      <4> DEFINE q == p - 3
      <4>1. q \in Nat /\ At(u, j) <= q /\ q < Finish(u, j)
        BY <3>4
      <4> HIDE DEF q
      <4>2. ByteAt(u, q) \in 1..255
        BY <3>1, <4>1, BodyBytes
      <4> QED
        BY <4>2 DEF q
    <3> HIDE DEF p
    <3>6. CodeLen(u, p) = 3
      BY <3>5 DEF CodeLen, Zero
    <3> QED
      BY <1>3, <3>6 DEF p
  <2> QED
    BY <2>1, <2>2
<1> QED
  BY <1>1, <1>2, <1>3

LEMMA ByteIsByte ==
  ASSUME NEW u \in AccessUnit, NEW p \in Nat, p < SizeOf(u)
  PROVE  ByteAt(u, p) \in 0..255
<1>1. PICK k \in 1..Count(u) : InZone(u, k, p)
  BY SomeZone
<1>2. /\ Begin(u, k) \in Nat /\ At(u, k) \in Nat /\ Finish(u, k) \in Nat
      /\ At(u, k) = Begin(u, k) + Prefix(u, k) /\ Begin(u, k) <= p /\ p < Finish(u, k)
  BY <1>1, Layout DEF InZone
<1>3. CASE At(u, k) <= p
  <2>1. ByteAt(u, p) \in 1..255
    BY <1>2, <1>3, BodyBytes
  <2> QED
    BY <2>1
<1>4. CASE p < At(u, k) /\ u.format = "annexb"
  BY <1>2, <1>4, AnnexbBytes
<1>5. CASE p < At(u, k) /\ u.format = "avcc"
  <2> DEFINE i == p - Begin(u, k)
             n == u.nals[k].len
  <2>1. Prefix(u, k) = 4 /\ n \in Nat /\ n <= LongestNal
    BY <1>5, UnitFields
  <2>2. i \in {0, 1, 2, 3} /\ i \in Nat /\ i < Prefix(u, k) /\ Begin(u, k) + i = p
    BY <1>2, <1>5, <2>1
  <2>3. ByteAt(u, p) = PrefixByte(u, k, i)
    <3> HIDE DEF i
    <3> QED
      BY <2>2, PrefixBytes
  <2>4. PrefixByte(u, k, i) = BeByte(n, i)
    BY <1>5 DEF PrefixByte
  <2> HIDE DEF i, n
  <2>5. n < 4294967296
    BY <2>1, ShortEnough
  <2>6. /\ BeByte(n, 0) \in 0..255 /\ BeByte(n, 1) \in 0..255
        /\ BeByte(n, 2) \in 0..255 /\ BeByte(n, 3) \in 0..255
    BY <2>1, <2>5, LengthOfBytes, SMT
  <2> QED
    BY <2>2, <2>3, <2>4, <2>6
<1> QED
  BY <1>2, <1>3, <1>4, <1>5, UnitFields

LEMMA LengthIsNat ==
  ASSUME NEW u \in AccessUnit, NEW p \in Nat, p + 4 <= SizeOf(u)
  PROVE  LengthAt(u, p) \in Nat
<1>1. SizeOf(u) \in Nat
  BY Layout
<1>2. /\ p < SizeOf(u) /\ p + 1 < SizeOf(u) /\ p + 2 < SizeOf(u) /\ p + 3 < SizeOf(u)
      /\ p + 1 \in Nat /\ p + 2 \in Nat /\ p + 3 \in Nat
  BY <1>1
<1>3. /\ ByteAt(u, p) \in 0..255 /\ ByteAt(u, p + 1) \in 0..255
      /\ ByteAt(u, p + 2) \in 0..255 /\ ByteAt(u, p + 3) \in 0..255
  BY <1>2, ByteIsByte
<1> DEFINE a == ByteAt(u, p)
           b == ByteAt(u, p + 1)
           c == ByteAt(u, p + 2)
           d == ByteAt(u, p + 3)
<1>4. a \in 0..255 /\ b \in 0..255 /\ c \in 0..255 /\ d \in 0..255
  BY <1>3
<1>5. LengthAt(u, p) = 16777216 * a + 65536 * b + 256 * c + d
  BY SMT DEF LengthAt
<1> HIDE DEF a, b, c, d
<1>6. 16777216 * a + 65536 * b + 256 * c + d \in Nat
  BY <1>4, SMT
<1> QED
  BY <1>5, <1>6, SMT
-----------------------------------------------------------------------------
(* The two ways to cut a sample, as recursive functions that exist.        *)

Span == [from : Nat, to : Nat]

LEMMA MinIs ==
  ASSUME NEW S \in SUBSET Nat, S # {}
  PROVE  Min(S) \in S /\ \A q \in S : Min(S) <= q
<1>1. \E n \in S : \A q \in S : n <= q
  BY LeastOf
<1> QED
  BY <1>1 DEF Min

Beyond(u, p) == {q \in Ones(u) : q > p}
EndOf(u, p) == IF Beyond(u, p) = {} THEN SizeOf(u)
               ELSE Min(Beyond(u, p)) + 1 - CodeLen(u, Min(Beyond(u, p)))
Piece(u, p) == IF p + 1 < EndOf(u, p) THEN <<[from |-> p + 1, to |-> EndOf(u, p)]>> ELSE << >>

Splits(u, f) ==
  f = [p \in Ones(u) |-> IF Beyond(u, p) = {} THEN Piece(u, p)
                         ELSE Piece(u, p) \o f[Min(Beyond(u, p))]]

LastCode(u) == {p \in Ones(u) : Beyond(u, p) = {}}
NextCode(u) == [p \in Ones(u) |-> Min(Beyond(u, p))]
Pieces(u) == [p \in Ones(u) |-> Piece(u, p)]

LEMMA CodesAdvance ==
  ASSUME NEW u \in AccessUnit
  PROVE  /\ Ones(u) \subseteq 0..SizeOf(u) /\ Ones(u) \in SUBSET Nat /\ SizeOf(u) \in Nat
         /\ Advances(Ones(u), SizeOf(u), LastCode(u), NextCode(u))
<1>1. SizeOf(u) \in Nat
  BY Layout
<1>2. Ones(u) \subseteq 0..SizeOf(u) /\ Ones(u) \in SUBSET Nat
  <2>1. Ones(u) \subseteq 2..SizeOf(u) - 1
    BY DEF Ones
  <2>2. 2..SizeOf(u) - 1 \subseteq 0..SizeOf(u) /\ 0..SizeOf(u) \subseteq Nat
    BY <1>1
  <2> QED
    BY <2>1, <2>2
<1>3. ASSUME NEW p \in Ones(u) \ LastCode(u) PROVE NextCode(u)[p] \in Ones(u) /\ p < NextCode(u)[p]
  <2> DEFINE B == Beyond(u, p)
  <2>1. B # {} /\ B \subseteq Ones(u) /\ \A q \in B : q > p
    BY DEF LastCode, Beyond
  <2>2. B \in SUBSET Nat
    BY <1>2, <2>1
  <2> HIDE DEF B
  <2>3. Min(B) \in B
    BY <2>1, <2>2, MinIs
  <2>4. NextCode(u)[p] = Min(B)
    BY DEF NextCode, B
  <2>5. Min(B) \in Nat /\ p \in Nat /\ Min(B) > p
    BY <1>2, <2>1, <2>2, <2>3
  <2> QED
    BY <2>1, <2>3, <2>4, <2>5
<1> QED
  BY <1>1, <1>2, <1>3 DEF Advances

LEMMA SplitsOnward ==
  ASSUME NEW u, NEW f
  PROVE  Splits(u, f) <=> Onward(Ones(u), LastCode(u), NextCode(u), Pieces(u), f)
<1>1. \A p \in Ones(u) :
        (IF p \in LastCode(u) THEN Pieces(u)[p] ELSE Pieces(u)[p] \o f[NextCode(u)[p]])
          = IF Beyond(u, p) = {} THEN Piece(u, p) ELSE Piece(u, p) \o f[Min(Beyond(u, p))]
  BY DEF LastCode, NextCode, Pieces
<1>2. [p \in Ones(u) |-> IF p \in LastCode(u) THEN Pieces(u)[p]
                         ELSE Pieces(u)[p] \o f[NextCode(u)[p]]]
        = [p \in Ones(u) |-> IF Beyond(u, p) = {} THEN Piece(u, p)
                             ELSE Piece(u, p) \o f[Min(Beyond(u, p))]]
  BY <1>1, Zenon
<1> QED
  BY <1>2, Zenon DEF Splits, Onward

LEMMA SplitIs ==
  ASSUME NEW u \in AccessUnit
  PROVE  \E f : /\ Splits(u, f)
                /\ annexb_split(u) = IF Ones(u) = {} THEN << >> ELSE f[Min(Ones(u))]
<1> DEFINE f == CHOOSE f : Splits(u, f)
<1>1. \E g : Splits(u, g)
  <2>1. \E g : Onward(Ones(u), LastCode(u), NextCode(u), Pieces(u), g)
    BY CodesAdvance, OnwardExists
  <2> QED
    BY <2>1, SplitsOnward
<1>2. Splits(u, f)
  BY <1>1
<1>3. annexb_split(u) = IF Ones(u) = {} THEN << >> ELSE f[Min(Ones(u))]
  BY DEF annexb_split, Splits, Beyond, Piece, EndOf
<1> HIDE DEF f
<1> QED
  BY <1>2, <1>3

Reaches(u, p) == p + 4 + LengthAt(u, p)

Walks(u, f) ==
  f = [p \in 0..SizeOf(u) |->
         IF p + 4 > SizeOf(u) THEN << >>
         ELSE IF Reaches(u, p) > SizeOf(u) THEN << >>
              ELSE <<[from |-> p + 4, to |-> Reaches(u, p)]>> \o f[Reaches(u, p)]]

Ends(u) == {p \in 0..SizeOf(u) : p + 4 > SizeOf(u) \/ Reaches(u, p) > SizeOf(u)}
NextPrefix(u) == [p \in 0..SizeOf(u) |-> Reaches(u, p)]
Steps(u) == [p \in 0..SizeOf(u) |->
               IF p \in Ends(u) THEN << >> ELSE <<[from |-> p + 4, to |-> Reaches(u, p)]>>]

LEMMA PrefixesAdvance ==
  ASSUME NEW u \in AccessUnit
  PROVE  /\ SizeOf(u) \in Nat
         /\ Advances(0..SizeOf(u), SizeOf(u), Ends(u), NextPrefix(u))
<1>1. SizeOf(u) \in Nat
  BY Layout
<1>2. ASSUME NEW p \in 0..SizeOf(u) \ Ends(u)
      PROVE  NextPrefix(u)[p] \in 0..SizeOf(u) /\ p < NextPrefix(u)[p]
  <2>1. p \in Nat /\ ~(p + 4 > SizeOf(u)) /\ ~(Reaches(u, p) > SizeOf(u))
    BY <1>1 DEF Ends
  <2>2. LengthAt(u, p) \in Nat
    BY <1>1, <2>1, LengthIsNat
  <2>3. NextPrefix(u)[p] = Reaches(u, p) /\ Reaches(u, p) = p + 4 + LengthAt(u, p)
    BY DEF NextPrefix, Reaches
  <2> QED
    BY <1>1, <2>1, <2>2, <2>3
<1> QED
  BY <1>1, <1>2 DEF Advances

LEMMA WalksOnward ==
  ASSUME NEW u, NEW f
  PROVE  Onward(0..SizeOf(u), Ends(u), NextPrefix(u), Steps(u), f) => Walks(u, f)
<1> DEFINE D == 0..SizeOf(u)
<1>1. \A p \in D : /\ NextPrefix(u)[p] = Reaches(u, p)
                   /\ Steps(u)[p] = IF p \in Ends(u) THEN << >>
                                    ELSE <<[from |-> p + 4, to |-> Reaches(u, p)]>>
                   /\ p \in Ends(u) <=> p + 4 > SizeOf(u) \/ Reaches(u, p) > SizeOf(u)
  BY DEF NextPrefix, Steps, Ends
<1> HIDE DEF D
<1>2. \A p \in D :
        (IF p \in Ends(u) THEN Steps(u)[p] ELSE Steps(u)[p] \o f[NextPrefix(u)[p]])
          = IF p + 4 > SizeOf(u) THEN << >>
            ELSE IF Reaches(u, p) > SizeOf(u) THEN << >>
                 ELSE <<[from |-> p + 4, to |-> Reaches(u, p)]>> \o f[Reaches(u, p)]
  BY <1>1, Zenon
<1>3. [p \in D |-> IF p \in Ends(u) THEN Steps(u)[p] ELSE Steps(u)[p] \o f[NextPrefix(u)[p]]]
        = [p \in D |->
             IF p + 4 > SizeOf(u) THEN << >>
             ELSE IF Reaches(u, p) > SizeOf(u) THEN << >>
                  ELSE <<[from |-> p + 4, to |-> Reaches(u, p)]>> \o f[Reaches(u, p)]]
  BY <1>2, Zenon
<1> QED
  BY <1>3, Zenon DEF Walks, Onward, D

LEMMA WalkIs ==
  ASSUME NEW u \in AccessUnit
  PROVE  \E f : Walks(u, f) /\ avcc_walk(u) = f[0]
<1> DEFINE f == CHOOSE f : Walks(u, f)
<1>1. \E g : Walks(u, g)
  <2>1. \E g : Onward(0..SizeOf(u), Ends(u), NextPrefix(u), Steps(u), g)
    BY PrefixesAdvance, OnwardExists
  <2> QED
    BY <2>1, WalksOnward
<1>2. Walks(u, f)
  BY <1>1
<1>3. avcc_walk(u) = f[0]
  BY DEF avcc_walk, Walks, Reaches
<1> HIDE DEF f
<1> QED
  BY <1>2, <1>3
-----------------------------------------------------------------------------
(* A sample whose format is told right is cut into its NALs.               *)

LEMMA PrependIs ==
  ASSUME NEW X, NEW x \in X, NEW t \in Seq(X), NEW s \in Seq(X), Len(s) = Len(t) + 1,
         s[1] = x, \A i \in 1..Len(t) : s[i + 1] = t[i]
  PROVE  <<x>> \o t = s
<1> DEFINE z == <<x>> \o t
           n == Len(t)
<1>1. <<x>> \in Seq(X) /\ Len(<<x>>) = 1 /\ <<x>>[1] = x
  OBVIOUS
<1>2. /\ z \in Seq(X) /\ Len(z) = n + 1 /\ n \in Nat
      /\ z[1] = x /\ \A i \in 1..n : z[i + 1] = t[i]
  BY <1>1
<1>3. Len(s) = n + 1
  OBVIOUS
<1>4. \A i \in 1..n : s[i + 1] = t[i]
  OBVIOUS
<1> HIDE DEF z, n
<1>5. ASSUME NEW i \in 1..n + 1 PROVE z[i] = s[i]
  <2>1. CASE i = 1
    BY <1>2, <2>1
  <2>2. CASE i # 1
    <3>1. i - 1 \in 1..n /\ (i - 1) + 1 = i
      BY <1>2, <2>2
    <3> QED
      BY <1>2, <1>4, <3>1
  <2> QED
    BY <2>1, <2>2
<1>6. z = s
  BY <1>2, <1>3, <1>5, SeqEqual
<1> QED
  BY <1>6 DEF z

Cut(u) == [k \in 1..Count(u) |-> Interval(u, k)]
Rest(u, k) == [j \in 1..Count(u) + 1 - k |-> Interval(u, k + j - 1)]

LEMMA IntervalIs ==
  ASSUME NEW u \in AccessUnit, NEW k \in 1..Count(u)
  PROVE  Interval(u, k) \in Span /\ Interval(u, k) = [from |-> At(u, k), to |-> Finish(u, k)]
<1>1. At(u, k) \in Nat /\ Finish(u, k) \in Nat
  BY Layout
<1>2. Interval(u, k) = [from |-> At(u, k), to |-> Finish(u, k)]
  BY DEF Interval, At, Finish
<1> QED
  BY <1>1, <1>2 DEF Span

LEMMA CutIs ==
  ASSUME NEW u \in AccessUnit
  PROVE  /\ Cut(u) \in Seq(Span) /\ Len(Cut(u)) = Count(u)
         /\ Rest(u, 1) = Cut(u) /\ Rest(u, Count(u) + 1) = << >>
         /\ \A k \in 1..Count(u) : /\ Cut(u)[k] = Interval(u, k)
                                   /\ Rest(u, k) = <<Interval(u, k)>> \o Rest(u, k + 1)
<1> DEFINE n == Count(u)
<1>1. n \in Nat /\ n >= 1
  BY UnitFields
<1>2. \A k \in 1..n : Interval(u, k) \in Span
  BY IntervalIs
<1> HIDE DEF n
<1>3. ASSUME NEW k \in 1..n + 1
      PROVE  /\ Rest(u, k) \in Seq(Span) /\ Len(Rest(u, k)) = n + 1 - k
             /\ \A j \in 1..n + 1 - k : Rest(u, k)[j] = Interval(u, k + j - 1)
  <2> DEFINE m == n + 1 - k
  <2>1. m \in Nat /\ \A j \in 1..m : k + j - 1 \in 1..n
    BY <1>1
  <2>2. Rest(u, k) = [j \in 1..m |-> Interval(u, k + j - 1)]
    BY DEF Rest, n
  <2>3. \A j \in 1..m : Interval(u, k + j - 1) \in Span
    BY <1>2, <2>1
  <2> HIDE DEF m
  <2> DEFINE s == [j \in 1..m |-> Interval(u, k + j - 1)]
  <2>4. s \in [1..m -> Span] /\ \A j \in 1..m : s[j] = Interval(u, k + j - 1)
    BY <2>3
  <2> HIDE DEF s
  <2>5. s \in Seq(Span) /\ Len(s) = m
    BY <2>1, <2>4
  <2> QED
    BY <2>2, <2>4, <2>5 DEF s, m
<1>4. Rest(u, n + 1) = << >>
  <2>1. n + 1 \in 1..n + 1 /\ n + 1 - (n + 1) = 0
    BY <1>1
  <2>2. Rest(u, n + 1) \in Seq(Span) /\ Len(Rest(u, n + 1)) = 0
    BY <1>3, <2>1
  <2> QED
    BY <2>2, EmptySeq
<1>5. Rest(u, 1) = Cut(u)
  <2>1. n + 1 - 1 = n /\ \A j \in 1..n : 1 + j - 1 = j
    BY <1>1
  <2> QED
    BY <2>1 DEF Rest, Cut, n
<1>6. /\ Cut(u) \in Seq(Span) /\ Len(Cut(u)) = n
      /\ \A k \in 1..n : Cut(u)[k] = Interval(u, k)
  <2>1. 1 \in 1..n + 1 /\ n + 1 - 1 = n
    BY <1>1
  <2>2. \A k \in 1..n : Cut(u)[k] = Interval(u, k)
    BY DEF Cut, n
  <2> QED
    BY <1>3, <1>5, <2>1, <2>2
<1>7. ASSUME NEW k \in 1..n PROVE Rest(u, k) = <<Interval(u, k)>> \o Rest(u, k + 1)
  <2> DEFINE s == Rest(u, k)
             t == Rest(u, k + 1)
  <2>1. /\ k \in 1..n + 1 /\ k + 1 \in 1..n + 1 /\ n + 1 - k = (n + 1 - (k + 1)) + 1
        /\ 1 \in 1..n + 1 - k /\ k + 1 - 1 = k
        /\ \A i \in 1..n + 1 - (k + 1) : i + 1 \in 1..n + 1 - k /\ k + (i + 1) - 1 = (k + 1) + i - 1
    BY <1>1
  <2>2. /\ s \in Seq(Span) /\ t \in Seq(Span) /\ Len(s) = Len(t) + 1
        /\ s[1] = Interval(u, k) /\ Len(t) = n + 1 - (k + 1)
    BY <1>3, <2>1
  <2>3. \A i \in 1..Len(t) : s[i + 1] = t[i]
    <3> TAKE i \in 1..Len(t)
    <3>1. i \in 1..n + 1 - (k + 1)
      BY <2>2
    <3>2. s[i + 1] = Interval(u, k + (i + 1) - 1)
      BY <1>3, <2>1, <3>1
    <3>3. t[i] = Interval(u, (k + 1) + i - 1)
      BY <1>3, <2>1, <3>1
    <3> QED
      BY <2>1, <3>1, <3>2, <3>3
  <2>4. Interval(u, k) \in Span
    BY <1>2
  <2> HIDE DEF s, t
  <2>5. <<Interval(u, k)>> \o t = s
    BY <2>2, <2>3, <2>4, PrependIs
  <2> QED
    BY <2>5 DEF s, t
<1> QED
  BY <1>4, <1>5, <1>6, <1>7 DEF n

\* Which code comes next, and what is between two of them.
LEMMA CodesFollow ==
  ASSUME NEW u \in AccessUnit, u.format = "annexb", NEW k \in 1..Count(u)
  PROVE  /\ At(u, k) - 1 \in Ones(u)
         /\ k = Count(u) => Beyond(u, At(u, k) - 1) = {}
         /\ k # Count(u) => /\ Beyond(u, At(u, k) - 1) # {}
                            /\ Min(Beyond(u, At(u, k) - 1)) = At(u, k + 1) - 1
         /\ Piece(u, At(u, k) - 1) = <<Interval(u, k)>>
<1> DEFINE p == At(u, k) - 1
           n == Count(u)
           B == Beyond(u, p)
<1>1. Ones(u) = {At(u, j) - 1 : j \in 1..n}
  BY OnesAre
<1>2. n \in Nat /\ k \in 1..n /\ k \in Nat
  BY UnitFields
<1>3. \A j \in 1..n : /\ At(u, j) \in Nat /\ Begin(u, j) \in Nat /\ Finish(u, j) \in Nat
                      /\ Begin(u, j) + 3 <= At(u, j) /\ At(u, j) + 2 <= Finish(u, j)
                      /\ Begin(u, j) = IF j = 1 THEN 0 ELSE Finish(u, j - 1)
                      /\ At(u, j) = Begin(u, j) + Prefix(u, j)
  BY Layout
<1>4. \A i, j \in 1..n : i < j => At(u, i) < At(u, j)
  <2> SUFFICES ASSUME NEW i \in 1..n, NEW j \in 1..n, i < j PROVE At(u, i) < At(u, j)
    OBVIOUS
  <2>1. Finish(u, i) <= Begin(u, j)
    BY ZonesInOrder
  <2>2. /\ At(u, i) \in Nat /\ Finish(u, i) \in Nat /\ At(u, i) + 2 <= Finish(u, i)
        /\ At(u, j) \in Nat /\ Begin(u, j) \in Nat /\ Begin(u, j) + 3 <= At(u, j)
    BY <1>3
  <2> QED
    BY <2>1, <2>2
<1>5. \A q \in B : \E j \in 1..n : q = At(u, j) - 1 /\ q > p
  BY <1>1 DEF Beyond
<1>6. \A j \in 1..n : At(u, j) - 1 > p => At(u, j) - 1 \in B
  BY <1>1 DEF Beyond
<1>7. Piece(u, p) = IF p + 1 < EndOf(u, p) THEN <<[from |-> p + 1, to |-> EndOf(u, p)]>> ELSE << >>
  BY DEF Piece
<1>8. EndOf(u, p) = IF B = {} THEN SizeOf(u) ELSE Min(B) + 1 - CodeLen(u, Min(B))
  BY DEF EndOf
<1>9. p \in Ones(u)
  BY <1>1, <1>2
<1>0. p + 1 = At(u, k) /\ At(u, k) < Finish(u, k) /\ Interval(u, k) = [from |-> At(u, k), to |-> Finish(u, k)]
  <2>1. Interval(u, k) = [from |-> At(u, k), to |-> Finish(u, k)]
    BY IntervalIs
  <2>2. At(u, k) \in Nat /\ Finish(u, k) \in Nat /\ At(u, k) + 2 <= Finish(u, k)
    BY <1>2, <1>3
  <2> QED
    BY <2>1, <2>2
<1>10. ASSUME EndOf(u, p) = Finish(u, k) PROVE Piece(u, p) = <<Interval(u, k)>>
  BY <1>0, <1>7, <1>10
<1>11. ASSUME NEW j \in 1..n, At(u, j) - 1 > p PROVE j > k
  <2>1. ~(j < k) /\ j # k
    <3>1. At(u, j) \in Nat /\ At(u, k) \in Nat /\ At(u, j) > At(u, k)
      BY <1>2, <1>3, <1>11
    <3>2. j < k => At(u, j) < At(u, k)
      BY <1>2, <1>4
    <3> QED
      BY <3>1, <3>2
  <2> QED
    BY <1>2, <2>1
<1>12. CASE k = n
  <2>1. B = {}
    <3> SUFFICES ASSUME NEW q \in B PROVE FALSE
      OBVIOUS
    <3>1. PICK j \in 1..n : q = At(u, j) - 1 /\ q > p
      BY <1>5
    <3>2. j > k
      BY <1>11, <3>1
    <3> QED
      BY <1>2, <1>12, <3>2
  <2>2. SizeOf(u) = Finish(u, k)
    BY <1>12, Layout
  <2>3. EndOf(u, p) = Finish(u, k)
    BY <1>8, <2>1, <2>2
  <2> QED
    BY <1>9, <1>10, <1>12, <2>1, <2>3
<1>13. CASE k # n
  <2> DEFINE q == At(u, k + 1) - 1
  <2>1. k + 1 \in 1..n /\ k < k + 1 /\ k + 1 # 1 /\ (k + 1) - 1 = k
    BY <1>2, <1>13
  <2>2. At(u, k) < At(u, k + 1) /\ At(u, k) \in Nat /\ At(u, k + 1) \in Nat
    BY <1>2, <1>3, <1>4, <2>1
  <2>3. q \in B
    BY <1>6, <2>1, <2>2
  <2>4. \A r \in B : q <= r
    <3> TAKE r \in B
    <3>1. PICK j \in 1..n : r = At(u, j) - 1 /\ r > p
      BY <1>5
    <3>2. j > k
      BY <1>11, <3>1
    <3>3. j = k + 1 \/ k + 1 < j
      BY <1>2, <3>2
    <3>4. j = k + 1 \/ At(u, k + 1) < At(u, j)
      BY <1>4, <2>1, <3>3
    <3>5. At(u, j) \in Nat
      BY <1>3
    <3> QED
      BY <2>2, <3>1, <3>4, <3>5
  <2>5. B \in SUBSET Nat
    <3>1. B \subseteq Ones(u)
      BY DEF Beyond
    <3> QED
      BY <3>1, CodesAdvance
  <2> HIDE DEF B, q, p, n
  <2>6. Min(B) = q
    <3>1. Min(B) \in B /\ \A r \in B : Min(B) <= r
      BY <2>3, <2>5, MinIs
    <3>2. Min(B) <= q /\ q <= Min(B) /\ Min(B) \in Nat /\ q \in Nat
      BY <2>3, <2>4, <2>5, <3>1
    <3> QED
      BY <3>2
  <2>7. CodeLen(u, q) = Prefix(u, k + 1)
    BY <2>1, CodeLenIs DEF q, n
  <2>8. q + 1 - Prefix(u, k + 1) = Finish(u, k)
    <3>1. /\ At(u, k + 1) = Begin(u, k + 1) + Prefix(u, k + 1)
          /\ Begin(u, k + 1) = Finish(u, k) /\ Finish(u, k) \in Nat
      BY <1>2, <1>3, <2>1
    <3>2. Prefix(u, k + 1) \in Nat
      BY <2>1, UnitFields DEF n
    <3> QED
      BY <3>1, <3>2 DEF q
  <2>9. EndOf(u, p) = Finish(u, k)
    BY <1>8, <2>3, <2>6, <2>7, <2>8
  <2> QED
    BY <1>9, <1>10, <1>13, <2>3, <2>6, <2>9 DEF B, q, p, n
<1> QED
  BY <1>12, <1>13

LEMMA SplitsWhole ==
  ASSUME NEW u \in AccessUnit, u.format = "annexb"
  PROVE  annexb_split(u) = Cut(u)
<1> DEFINE n == Count(u)
<1>1. PICK f : /\ Splits(u, f)
               /\ annexb_split(u) = IF Ones(u) = {} THEN << >> ELSE f[Min(Ones(u))]
  BY SplitIs
<1>2. \A p \in Ones(u) : f[p] = IF Beyond(u, p) = {} THEN Piece(u, p)
                                ELSE Piece(u, p) \o f[Min(Beyond(u, p))]
  BY <1>1 DEF Splits
<1>3. n \in Nat /\ n >= 1
  BY UnitFields
<1>4. /\ Rest(u, n + 1) = << >>
      /\ \A k \in 1..n : Rest(u, k) = <<Interval(u, k)>> \o Rest(u, k + 1)
  BY CutIs
<1>5. \A k \in 1..n : Interval(u, k) \in Span
  BY IntervalIs
<1> DEFINE S == {k \in Nat : k \in 1..n => f[At(u, k) - 1] = Rest(u, k)}
<1>6. ASSUME NEW k \in 0..n, \A m \in 0..n : m > k => m \in S PROVE k \in S
  <2> SUFFICES ASSUME k \in 1..n PROVE f[At(u, k) - 1] = Rest(u, k)
    BY <1>3
  <2> DEFINE p == At(u, k) - 1
  <2>1. /\ p \in Ones(u) /\ Piece(u, p) = <<Interval(u, k)>>
        /\ k = n => Beyond(u, p) = {}
        /\ k # n => Beyond(u, p) # {} /\ Min(Beyond(u, p)) = At(u, k + 1) - 1
    BY CodesFollow
  <2>2. CASE k = n
    <3>1. f[p] = <<Interval(u, k)>>
      BY <1>2, <2>1, <2>2
    <3>2. Rest(u, k) = <<Interval(u, k)>> \o << >>
      BY <1>4, <2>2
    <3>3. <<Interval(u, k)>> \in Seq(Span)
      BY <1>5
    <3>4. \A s \in Seq(Span) : s \o << >> = s
      BY ConcatEmptySeq
    <3>5. <<Interval(u, k)>> \o << >> = <<Interval(u, k)>>
      BY <3>3, <3>4, Zenon
    <3> QED
      BY <3>1, <3>2, <3>5
  <2>3. CASE k # n
    <3>1. k + 1 \in 0..n /\ k + 1 > k /\ k + 1 \in 1..n
      BY <1>3, <2>3
    <3>2. f[At(u, k + 1) - 1] = Rest(u, k + 1)
      BY <1>6, <3>1
    <3>3. f[p] = Piece(u, p) \o f[At(u, k + 1) - 1]
      BY <1>2, <2>1, <2>3
    <3> QED
      BY <1>4, <2>1, <3>2, <3>3
  <2> QED
    BY <2>2, <2>3
<1> HIDE DEF S
<1>7. \A k \in 0..n : k \in S
  BY <1>3, <1>6, ByDescent
<1>8. 1 \in 0..n /\ 1 \in 1..n
  BY <1>3
<1>9. f[At(u, 1) - 1] = Cut(u)
  <2>1. f[At(u, 1) - 1] = Rest(u, 1)
    BY <1>7, <1>8 DEF S
  <2> QED
    BY <2>1, CutIs
<1>10. Ones(u) # {} /\ Min(Ones(u)) = At(u, 1) - 1
  <2>1. Ones(u) = {At(u, j) - 1 : j \in 1..n} /\ Ones(u) \in SUBSET Nat
    BY OnesAre, CodesAdvance
  <2> DEFINE q == At(u, 1) - 1
  <2>2. q \in Ones(u)
    BY <1>8, <2>1
  <2>3. \A r \in Ones(u) : q <= r
    <3> TAKE r \in Ones(u)
    <3>1. PICK j \in 1..n : r = At(u, j) - 1
      BY <2>1
    <3>2. j = 1 \/ 1 < j
      BY <1>3
    <3>3. 1 < j => Finish(u, 1) <= Begin(u, j)
      BY <1>8, ZonesInOrder
    <3>4. /\ At(u, 1) \in Nat /\ Finish(u, 1) \in Nat /\ At(u, 1) + 2 <= Finish(u, 1)
          /\ At(u, j) \in Nat /\ Begin(u, j) \in Nat /\ Begin(u, j) + 3 <= At(u, j)
      BY <1>8, Layout
    <3> QED
      BY <3>1, <3>2, <3>3, <3>4
  <2> HIDE DEF q
  <2>4. Min(Ones(u)) \in Ones(u) /\ \A r \in Ones(u) : Min(Ones(u)) <= r
    BY <2>1, <2>2, MinIs
  <2>5. Min(Ones(u)) <= q /\ q <= Min(Ones(u)) /\ Min(Ones(u)) \in Nat /\ q \in Nat
    BY <2>1, <2>2, <2>3, <2>4
  <2>6. Min(Ones(u)) = q
    BY <2>5
  <2> QED
    BY <2>2, <2>6 DEF q
<1> QED
  BY <1>1, <1>9, <1>10

LEMMA AvccBytes ==
  ASSUME NEW u \in AccessUnit, u.format = "avcc", NEW k \in 1..Count(u)
  PROVE  /\ ByteAt(u, Begin(u, k)) = BeByte(u.nals[k].len, 0)
         /\ ByteAt(u, Begin(u, k) + 1) = BeByte(u.nals[k].len, 1)
         /\ ByteAt(u, Begin(u, k) + 2) = BeByte(u.nals[k].len, 2)
         /\ ByteAt(u, Begin(u, k) + 3) = BeByte(u.nals[k].len, 3)
<1>1. Prefix(u, k) = 4 /\ Begin(u, k) \in Nat
  BY UnitFields, Layout
<1>2. ASSUME NEW i \in {0, 1, 2, 3}
      PROVE  ByteAt(u, Begin(u, k) + i) = BeByte(u.nals[k].len, i)
  <2>1. i \in Nat /\ i < Prefix(u, k)
    BY <1>1
  <2>2. ByteAt(u, Begin(u, k) + i) = PrefixByte(u, k, i)
    BY <2>1, PrefixBytes
  <2>3. PrefixByte(u, k, i) = BeByte(u.nals[k].len, i)
    BY DEF PrefixByte
  <2> QED
    BY <2>2, <2>3
<1>3. Begin(u, k) + 0 = Begin(u, k)
  BY <1>1
<1>4. 0 \in {0, 1, 2, 3} /\ 1 \in {0, 1, 2, 3} /\ 2 \in {0, 1, 2, 3} /\ 3 \in {0, 1, 2, 3}
  OBVIOUS
<1> QED
  BY <1>2, <1>3, <1>4

\* The bytes of a length, taken together again.
LEMMA AvccLength ==
  ASSUME NEW u \in AccessUnit, u.format = "avcc", NEW k \in 1..Count(u)
  PROVE  LengthAt(u, Begin(u, k)) = u.nals[k].len
<1> DEFINE n == u.nals[k].len
           p == Begin(u, k)
           a == BeByte(n, 0)
           b == BeByte(n, 1)
           c == BeByte(n, 2)
           d == BeByte(n, 3)
<1>1. n \in Nat /\ n <= LongestNal
  BY UnitFields
<1>2. /\ ByteAt(u, p) = a /\ ByteAt(u, p + 1) = b
      /\ ByteAt(u, p + 2) = c /\ ByteAt(u, p + 3) = d
  BY AvccBytes
<1> HIDE DEF n, p
<1>3. n < 4294967296
  BY <1>1, ShortEnough, SMT
<1>4. n = 16777216 * a + 65536 * b + 256 * c + d
  BY <1>1, <1>3, LengthOfBytes, SMT
<1> HIDE DEF a, b, c, d
<1>5. LengthAt(u, p) = 16777216 * a + 65536 * b + 256 * c + d
  BY <1>2, SMT DEF LengthAt
<1>6. LengthAt(u, p) = n
  BY <1>4, <1>5, SMT
<1> QED
  BY <1>6 DEF n, p

LEMMA WalksWhole ==
  ASSUME NEW u \in AccessUnit, u.format = "avcc"
  PROVE  avcc_walk(u) = Cut(u)
<1> DEFINE n == Count(u)
<1>1. PICK f : Walks(u, f) /\ avcc_walk(u) = f[0]
  BY WalkIs
<1>2. n \in Nat /\ n >= 1 /\ SizeOf(u) \in Nat /\ SizeOf(u) = Finish(u, n)
  BY UnitFields, Layout
<1>3. ASSUME NEW p \in 0..SizeOf(u)
      PROVE  f[p] = IF p + 4 > SizeOf(u) THEN << >>
                    ELSE IF Reaches(u, p) > SizeOf(u) THEN << >>
                         ELSE <<[from |-> p + 4, to |-> Reaches(u, p)]>> \o f[Reaches(u, p)]
  BY <1>1 DEF Walks
<1>4. /\ Rest(u, n + 1) = << >> /\ Rest(u, 1) = Cut(u)
      /\ \A k \in 1..n : Rest(u, k) = <<Interval(u, k)>> \o Rest(u, k + 1)
  BY CutIs
<1>5. f[SizeOf(u)] = << >>
  <2>1. SizeOf(u) \in 0..SizeOf(u) /\ SizeOf(u) + 4 > SizeOf(u)
    BY <1>2
  <2> QED
    BY <1>3, <2>1
<1>6. ASSUME NEW k \in 1..n
      PROVE  /\ Begin(u, k) \in Nat
             /\ f[Begin(u, k)] = <<Interval(u, k)>> \o f[Finish(u, k)]
  <2> DEFINE p == Begin(u, k)
  <2>1. /\ p \in Nat /\ At(u, k) \in Nat /\ Finish(u, k) \in Nat
        /\ At(u, k) = p + Prefix(u, k) /\ At(u, k) + 2 <= Finish(u, k)
        /\ Finish(u, k) = At(u, k) + u.nals[k].len /\ Finish(u, k) <= SizeOf(u)
    BY Layout, InsideSample
  <2>2. Prefix(u, k) = 4 /\ u.nals[k].len \in Nat /\ LengthAt(u, p) = u.nals[k].len
    BY AvccLength, UnitFields
  <2>3. Reaches(u, p) = Finish(u, k)
    <3>1. Reaches(u, p) = p + 4 + LengthAt(u, p)
      BY DEF Reaches
    <3> HIDE DEF p
    <3> QED
      BY <2>1, <2>2, <3>1
  <2>4. Interval(u, k) = [from |-> At(u, k), to |-> Finish(u, k)]
    BY IntervalIs
  <2> HIDE DEF p
  <2>5. p \in 0..SizeOf(u) /\ ~(p + 4 > SizeOf(u)) /\ p + 4 = At(u, k)
        /\ ~(Reaches(u, p) > SizeOf(u))
    BY <1>2, <2>1, <2>2, <2>3
  <2>6. f[p] = <<[from |-> p + 4, to |-> Reaches(u, p)]>> \o f[Reaches(u, p)]
    BY <1>3, <2>5
  <2> QED
    BY <2>1, <2>3, <2>4, <2>5, <2>6 DEF p
<1>7. \A k \in 1..n : k # n => Finish(u, k) = Begin(u, k + 1)
  <2> SUFFICES ASSUME NEW k \in 1..n, k # n PROVE Finish(u, k) = Begin(u, k + 1)
    OBVIOUS
  <2>1. k + 1 \in 1..n /\ k + 1 # 1 /\ (k + 1) - 1 = k
    BY <1>2
  <2>2. Begin(u, k + 1) = IF k + 1 = 1 THEN 0 ELSE Finish(u, (k + 1) - 1)
    BY <2>1, Layout
  <2> QED
    BY <2>1, <2>2
<1> DEFINE S == {k \in Nat : k \in 1..n => f[Begin(u, k)] = Rest(u, k)}
<1>8. ASSUME NEW k \in 0..n, \A m \in 0..n : m > k => m \in S PROVE k \in S
  <2> SUFFICES ASSUME k \in 1..n PROVE f[Begin(u, k)] = Rest(u, k)
    BY <1>2
  <2>1. f[Begin(u, k)] = <<Interval(u, k)>> \o f[Finish(u, k)]
    BY <1>6
  <2>2. CASE k = n
    BY <1>2, <1>4, <1>5, <2>1, <2>2
  <2>3. CASE k # n
    <3>1. k + 1 \in 0..n /\ k + 1 > k /\ k + 1 \in 1..n
      BY <1>2, <2>3
    <3>2. f[Begin(u, k + 1)] = Rest(u, k + 1)
      BY <1>8, <3>1
    <3> QED
      BY <1>4, <1>7, <2>1, <2>3, <3>2
  <2> QED
    BY <2>2, <2>3
<1> HIDE DEF S
<1>9. \A k \in 0..n : k \in S
  BY <1>2, <1>8, ByDescent
<1>10. 1 \in 0..n /\ 1 \in 1..n
  BY <1>2
<1>11. Begin(u, 1) = 0
  BY <1>10, Layout
<1>12. f[Begin(u, 1)] = Rest(u, 1)
  BY <1>9, <1>10 DEF S
<1> QED
  BY <1>1, <1>4, <1>11, <1>12

\* The samples whose format is told wrong: the check takes the length of their
\* first NAL for a start code.
Ambiguous(u) == u.format = "avcc" /\ u.nals[1].len \in 256..511

LEMMA SniffedRight ==
  ASSUME NEW u \in AccessUnit
  PROVE  is_annexb(u) <=> u.format = "annexb" \/ Ambiguous(u)
<1>1. Count(u) \in Nat /\ Count(u) >= 1 /\ u.format \in {"annexb", "avcc"}
  BY UnitFields
<1>2. 1 \in 1..Count(u)
  BY <1>1
<1>3. CASE u.format = "annexb"
  BY <1>3, AnnexbSniffed
<1>4. CASE u.format = "avcc"
  <2> DEFINE n == u.nals[1].len
             sniffed == is_annexb(u)
  <2>1. n \in Nat /\ n <= LongestNal /\ n # 1
    <3>1. n \in Nat /\ n <= LongestNal /\ n >= 2
      BY <1>2, UnitFields
    <3> HIDE DEF n
    <3> QED
      BY <3>1
  <2>2. Begin(u, 1) = 0
    BY <1>2, Layout
  <2>3. /\ ByteAt(u, Begin(u, 1)) = BeByte(n, 0) /\ ByteAt(u, Begin(u, 1) + 1) = BeByte(n, 1)
        /\ ByteAt(u, Begin(u, 1) + 2) = BeByte(n, 2) /\ ByteAt(u, Begin(u, 1) + 3) = BeByte(n, 3)
    BY <1>2, <1>4, AvccBytes
  <2>4. /\ ByteAt(u, 0) = BeByte(n, 0) /\ ByteAt(u, 1) = BeByte(n, 1)
        /\ ByteAt(u, 2) = BeByte(n, 2) /\ ByteAt(u, 3) = BeByte(n, 3)
    <3> HIDE DEF n
    <3>1. 0 + 1 = 1 /\ 0 + 2 = 2 /\ 0 + 3 = 3
      OBVIOUS
    <3> QED
      BY <2>2, <2>3, <3>1
  <2>5. sniffed <=> StartsWithCode(BeByte(n, 0), BeByte(n, 1), BeByte(n, 2), BeByte(n, 3))
    BY <2>4, Zenon DEF is_annexb
  <2>6. Ambiguous(u) <=> n \in 256..511
    BY <1>4, Zenon DEF Ambiguous
  <2> HIDE DEF n, sniffed
  <2>7. n < 4294967296
    BY <2>1, ShortEnough, SMT
  <2>8. StartsWithCode(BeByte(n, 0), BeByte(n, 1), BeByte(n, 2), BeByte(n, 3))
          <=> n = 1 \/ n \in 256..511
    BY <2>1, <2>7, SniffedLengths, SMT
  <2>9. sniffed <=> Ambiguous(u)
    BY <2>1, <2>5, <2>6, <2>8, SMT
  <2> QED
    BY <1>4, <2>9 DEF sniffed
<1> QED
  BY <1>1, <1>3, <1>4

LEMMA CutWhole ==
  ASSUME NEW u \in AccessUnit, ~Ambiguous(u)
  PROVE  avcc_to_annexb(u) = Cut(u)
<1>1. u.format \in {"annexb", "avcc"}
  BY UnitFields
<1>2. CASE u.format = "annexb"
  BY <1>2, SniffedRight, SplitsWhole DEF avcc_to_annexb
<1>3. CASE u.format = "avcc"
  BY <1>3, SniffedRight, WalksWhole DEF avcc_to_annexb
<1> QED
  BY <1>1, <1>2, <1>3

\* No NAL of an AVCC sample stands behind what looks like a start code: its
\* length would end in one, behind two zeros.
LEMMA NoNalAfterCode ==
  ASSUME NEW u \in AccessUnit, u.format = "avcc", NEW k \in 1..Count(u)
  PROVE  At(u, k) - 1 \notin Ones(u)
<1> SUFFICES ASSUME At(u, k) - 1 \in Ones(u) PROVE FALSE
  OBVIOUS
<1> DEFINE n == u.nals[k].len
           p == At(u, k) - 1
           a == BeByte(n, 0)
           b == BeByte(n, 1)
           c == BeByte(n, 2)
           d == BeByte(n, 3)
<1>1. n \in Nat /\ n <= LongestNal /\ n >= 2 /\ Prefix(u, k) = 4
  BY UnitFields
<1>2. ByteAt(u, p) = 1 /\ ByteAt(u, p - 1) = 0 /\ ByteAt(u, p - 2) = 0
  BY DEF Ones, Zero
<1>3. /\ Begin(u, k) \in Nat /\ At(u, k) = Begin(u, k) + Prefix(u, k)
  BY Layout
<1>4. p = Begin(u, k) + 3 /\ p - 1 = Begin(u, k) + 2 /\ p - 2 = Begin(u, k) + 1
  <2> HIDE DEF n
  <2> QED
    BY <1>1, <1>3
<1>5. b = 0 /\ c = 0 /\ d = 1
  BY <1>2, <1>4, AvccBytes
<1> HIDE DEF n
<1>6. n < 4294967296
  BY <1>1, ShortEnough, SMT
<1>7. n = 16777216 * a + 65536 * b + 256 * c + d /\ a \in 0..255
  BY <1>1, <1>6, LengthOfBytes, SMT
<1> HIDE DEF a, b, c, d, p
<1>8. n = 16777216 * a + 1 /\ a \in Nat
  BY <1>5, <1>7, SMT
<1>9. n <= 16777216
  BY <1>1, SMT DEF LongestNal
<1> QED
  BY <1>1, <1>8, <1>9, SMT

\* What a misread sample is cut into: pieces of it, none of which is a NAL.
Shard(u) == {s \in Span : s.from < s.to /\ s.from < SizeOf(u)
                          /\ \A k \in 1..Count(u) : s # Interval(u, k)}

LEMMA PiecesAreShards ==
  ASSUME NEW u \in AccessUnit, u.format = "avcc", NEW p \in Ones(u)
  PROVE  Piece(u, p) \in Seq(Shard(u))
<1>1. SizeOf(u) \in Nat /\ Ones(u) \in SUBSET Nat
  BY CodesAdvance
<1>2. CASE ~(p + 1 < EndOf(u, p))
  <2>1. Piece(u, p) = << >>
    BY <1>2 DEF Piece
  <2> QED
    BY <2>1
<1>3. CASE p + 1 < EndOf(u, p)
  <2> DEFINE to == EndOf(u, p)
             B == Beyond(u, p)
             s == [from |-> p + 1, to |-> to]
  <2>1. to \in Int /\ to <= SizeOf(u)
    <3>1. CASE B = {}
      BY <1>1, <3>1 DEF EndOf
    <3>2. CASE B # {}
      <4>1. B \subseteq Ones(u)
        BY DEF Beyond
      <4>2. to = Min(B) + 1 - CodeLen(u, Min(B))
        BY <3>2 DEF EndOf
      <4> HIDE DEF B, to
      <4>3. Min(B) \in Ones(u)
        BY <1>1, <3>2, <4>1, MinIs
      <4>4. Min(B) \in Nat /\ Min(B) <= SizeOf(u) - 1
        BY <1>1, <4>3 DEF Ones
      <4>5. CodeLen(u, Min(B)) \in {3, 4}
        BY DEF CodeLen
      <4> QED
        BY <1>1, <4>2, <4>4, <4>5
    <3> QED
      BY <3>1, <3>2
  <2>2. p \in Nat
    BY <1>1
  <2>3. Piece(u, p) = <<s>>
    BY <1>3 DEF Piece
  <2> HIDE DEF to
  <2>4. p + 1 < to
    BY <1>3 DEF to
  <2>5. s \in Span /\ s.from < s.to /\ s.from < SizeOf(u)
    BY <1>1, <2>1, <2>2, <2>4 DEF Span
  <2>6. ASSUME NEW k \in 1..Count(u) PROVE s # Interval(u, k)
    <3>1. At(u, k) \in Nat
      BY Layout
    <3>2. Interval(u, k).from = At(u, k)
      BY IntervalIs
    <3>3. At(u, k) - 1 # p
      BY NoNalAfterCode
    <3> QED
      BY <2>2, <3>1, <3>2, <3>3
  <2> HIDE DEF s
  <2>7. s \in Shard(u)
    BY <2>5, <2>6 DEF Shard
  <2> QED
    BY <2>3, <2>7
<1> QED
  BY <1>2, <1>3

LEMMA CutToShards ==
  ASSUME NEW u \in AccessUnit, Ambiguous(u)
  PROVE  avcc_to_annexb(u) \in Seq(Shard(u))
<1>1. u.format = "avcc"
  BY DEF Ambiguous
<1>2. avcc_to_annexb(u) = annexb_split(u)
  BY SniffedRight DEF avcc_to_annexb
<1>3. PICK f : /\ Splits(u, f)
               /\ annexb_split(u) = IF Ones(u) = {} THEN << >> ELSE f[Min(Ones(u))]
  BY SplitIs
<1> DEFINE X == Shard(u)
<1>4. \A p \in Ones(u) : Pieces(u)[p] \in Seq(X)
  BY <1>1, PiecesAreShards DEF Pieces
<1>5. /\ SizeOf(u) \in Nat /\ Ones(u) \in SUBSET Nat
      /\ Advances(Ones(u), SizeOf(u), LastCode(u), NextCode(u))
  BY CodesAdvance
<1>6. Onward(Ones(u), LastCode(u), NextCode(u), Pieces(u), f)
  BY <1>3, SplitsOnward
<1> HIDE DEF X
<1>7. \A p \in Ones(u) : f[p] \in Seq(X)
  BY <1>4, <1>5, <1>6, OnwardType
<1>8. CASE Ones(u) = {}
  BY <1>2, <1>3, <1>8 DEF X
<1>9. CASE Ones(u) # {}
  <2>1. Min(Ones(u)) \in Ones(u)
    BY <1>5, <1>9, MinIs
  <2> QED
    BY <1>2, <1>3, <1>7, <1>9, <2>1 DEF X
<1> QED
  BY <1>8, <1>9
-----------------------------------------------------------------------------
(* What drain makes of a sample, and of several of them.                   *)

Joins(ss, f, n) == f[n] = IF n = 1 THEN ss[n] ELSE f[n - 1] \o ss[n]

LEMMA JoinsExist ==
  ASSUME NEW ss
  PROVE  \A m \in Nat : \E f : f = [n \in 1..m |-> IF n = 1 THEN ss[n] ELSE f[n - 1] \o ss[n]]
<1> DEFINE JoinedTo(m, f) ==
             f = [n \in 1..m |-> IF n = 1 THEN ss[n] ELSE f[n - 1] \o ss[n]]
           S == {m \in Nat : \E f : JoinedTo(m, f)}
<1>1. 0 \in S
  <2> DEFINE g == [n \in 1..0 |-> 0]
  <2>1. 1..0 = {}
    OBVIOUS
  <2>2. JoinedTo(0, g)
    BY <2>1
  <2> HIDE DEF g, JoinedTo
  <2> QED
    BY <2>2
<1>2. ASSUME NEW m \in Nat, m \in S PROVE m + 1 \in S
  <2>1. PICK g : JoinedTo(m, g)
    BY <1>2
  <2> DEFINE joined(n) == IF n = 1 THEN ss[n] ELSE g[n - 1] \o ss[n]
             f == [n \in 1..m + 1 |-> joined(n)]
  <2>2. /\ \A n \in 1..m : n \in 1..m + 1
        /\ \A n \in 1..m + 1 : n # 1 => n - 1 \in 1..m
    OBVIOUS
  <2>3. \A n \in 1..m : g[n] = joined(n)
    BY <2>1
  <2>4. \A n \in 1..m : f[n] = g[n]
    BY <2>2, <2>3
  <2>5. \A n \in 1..m + 1 : joined(n) = IF n = 1 THEN ss[n] ELSE f[n - 1] \o ss[n]
    BY <2>2, <2>4
  <2>6. JoinedTo(m + 1, f)
    BY <2>5
  <2> HIDE DEF f, JoinedTo
  <2> QED
    BY <2>6
<1> HIDE DEF S
<1>3. \A m \in Nat : m \in S
  BY <1>1, <1>2, ByInduction
<1> QED
  BY <1>3 DEF S

\* The sequences of ss, one behind the other.
Joined(X, N, ss, f) ==
  /\ \A n \in 1..N : f[n] \in Seq(X) /\ Joins(ss, f, n)
  /\ FlattenSeq(ss) = f[N]

LEMMA FlattenIs ==
  ASSUME NEW X, NEW N \in Nat \ {0}, NEW ss, Len(ss) = N, \A n \in 1..N : ss[n] \in Seq(X)
  PROVE  \E f : Joined(X, N, ss, f)
<1> DEFINE c == CHOOSE f : f = [n \in 1..N |-> IF n = 1 THEN ss[n] ELSE f[n - 1] \o ss[n]]
<1>1. c = [n \in 1..N |-> IF n = 1 THEN ss[n] ELSE c[n - 1] \o ss[n]]
  <2>1. \E f : f = [n \in 1..N |-> IF n = 1 THEN ss[n] ELSE f[n - 1] \o ss[n]]
    BY JoinsExist
  <2> QED
    BY <2>1
<1>2. FlattenSeq(ss) = c[N]
  BY DEF FlattenSeq
<1> HIDE DEF c
<1>3. \A n \in 1..N : Joins(ss, c, n)
  BY <1>1 DEF Joins
<1> DEFINE T == {n \in Nat : n \in 1..N => c[n] \in Seq(X)}
<1>4. 0 \in T
  OBVIOUS
<1>5. ASSUME NEW n \in Nat, n \in T PROVE n + 1 \in T
  <2> SUFFICES ASSUME n + 1 \in 1..N PROVE c[n + 1] \in Seq(X)
    OBVIOUS
  <2>1. c[n + 1] = IF n + 1 = 1 THEN ss[n + 1] ELSE c[(n + 1) - 1] \o ss[n + 1]
    BY <1>3 DEF Joins
  <2>2. ss[n + 1] \in Seq(X)
    OBVIOUS
  <2>3. CASE n = 0
    BY <2>1, <2>2, <2>3
  <2>4. CASE n # 0
    <3>1. n \in 1..N /\ (n + 1) - 1 = n /\ n + 1 # 1
      BY <2>4
    <3>2. c[n] \in Seq(X)
      BY <1>5, <3>1
    <3>3. \A a, b \in Seq(X) : a \o b \in Seq(X)
      OBVIOUS
    <3> QED
      BY <2>1, <2>2, <3>1, <3>2, <3>3
  <2> QED
    BY <2>3, <2>4
<1> HIDE DEF T
<1>6. \A n \in Nat : n \in T
  BY <1>4, <1>5, ByInduction
<1>7. \A n \in 1..N : c[n] \in Seq(X)
  BY <1>6 DEF T
<1> QED
  BY <1>2, <1>3, <1>7 DEF Joined

Sample(u, i) ==
  LET cut == avcc_to_annexb(u)
  IN [j \in 1..Len(cut) |-> [first |-> ByteAt(u, cut[j].from),
                             len |-> 12 + cut[j].to - cut[j].from,
                             unit |-> i, nal |-> Which(u, cut[j])]]

LEMMA SampleIs ==
  ASSUME NEW i
  PROVE  sample_to_annexb(i) = Sample(made[i], i)
  BY DEF sample_to_annexb, Sample

LEMMA WhichIs ==
  ASSUME NEW u \in AccessUnit, NEW k \in 1..Count(u)
  PROVE  Which(u, Interval(u, k)) = k
<1> DEFINE s == Interval(u, k)
           is == {j \in 1..Count(u) : s = Interval(u, j)}
<1>1. k \in is
  OBVIOUS
<1>2. ASSUME NEW j \in is PROVE j = k
  <2>1. j \in 1..Count(u) /\ Interval(u, j) = Interval(u, k)
    OBVIOUS
  <2>2. At(u, j) = At(u, k)
    <3>1. Interval(u, j).from = At(u, j) /\ Interval(u, k).from = At(u, k)
      BY <2>1, IntervalIs
    <3> QED
      BY <2>1, <3>1
  <2>3. /\ Begin(u, j) \in Nat /\ At(u, j) \in Nat /\ Finish(u, j) \in Nat
        /\ Begin(u, j) + 3 <= At(u, j) /\ At(u, j) + 2 <= Finish(u, j)
        /\ Begin(u, k) \in Nat /\ At(u, k) \in Nat /\ Finish(u, k) \in Nat
        /\ Begin(u, k) + 3 <= At(u, k) /\ At(u, k) + 2 <= Finish(u, k)
    BY <2>1, Layout
  <2>4. InZone(u, j, At(u, j)) /\ InZone(u, k, At(u, j))
    BY <2>2, <2>3 DEF InZone
  <2> HIDE DEF is, s
  <2> QED
    BY <2>1, <2>3, <2>4, OneZone
<1>3. Which(u, s) = IF is = {} THEN 0 ELSE CHOOSE j \in is : TRUE
  BY DEF Which, Count
<1> HIDE DEF is, s
<1>4. (CHOOSE j \in is : TRUE) \in is
  BY <1>1
<1> QED
  BY <1>1, <1>2, <1>3, <1>4 DEF s

\* The stamped NAL k of unit i.
Stamp(u, i, k) == [first |-> u.nals[k].first, len |-> 12 + u.nals[k].len, unit |-> i, nal |-> k]

LEMMA WholeSample ==
  ASSUME NEW u \in AccessUnit, NEW i \in Nat, ~Ambiguous(u)
  PROVE  /\ Sample(u, i) \in Seq(StampedNal) /\ Len(Sample(u, i)) = Count(u)
         /\ \A k \in 1..Count(u) : Sample(u, i)[k] = Stamp(u, i, k)
<1> DEFINE n == Count(u)
           cut == Cut(u)
           frame(j) == [first |-> ByteAt(u, cut[j].from), len |-> 12 + cut[j].to - cut[j].from,
                        unit |-> i, nal |-> Which(u, cut[j])]
<1>1. avcc_to_annexb(u) = cut
  BY CutWhole
<1>2. Len(cut) = n /\ n \in Nat /\ \A k \in 1..n : cut[k] = Interval(u, k)
  BY CutIs, UnitFields
<1>3. Sample(u, i) = [j \in 1..n |-> frame(j)]
  BY <1>1, <1>2 DEF Sample
<1>4. ASSUME NEW k \in 1..n
      PROVE  frame(k) = Stamp(u, i, k) /\ Stamp(u, i, k) \in StampedNal
  <2>1. cut[k] = [from |-> At(u, k), to |-> Finish(u, k)] /\ cut[k] = Interval(u, k)
    BY <1>2, IntervalIs
  <2>2. /\ At(u, k) \in Nat /\ Finish(u, k) \in Nat /\ At(u, k) + 2 <= Finish(u, k)
        /\ Finish(u, k) = At(u, k) + u.nals[k].len
    BY Layout
  <2>3. u.nals[k].len \in Nat /\ u.nals[k].first \in 1..127
    BY UnitFields
  <2>4. ByteAt(u, At(u, k)) = u.nals[k].first
    BY <2>2, BodyBytes
  <2>5. Which(u, cut[k]) = k
    BY <2>1, WhichIs
  <2> DEFINE len == u.nals[k].len
             first == u.nals[k].first
  <2>6. cut[k].from = At(u, k) /\ cut[k].to = Finish(u, k)
    BY <2>1
  <2> HIDE DEF cut, len
  <2>7. 12 + cut[k].to - cut[k].from = 12 + len /\ 12 + len \in Nat
    BY <2>2, <2>3, <2>6 DEF len
  <2>8. frame(k) = [first |-> first, len |-> 12 + len, unit |-> i, nal |-> k]
    BY <2>4, <2>5, <2>6, <2>7, Zenon
  <2>9. k \in Nat /\ first \in 0..255
    <3>1. n \in Nat /\ first \in 1..127
      BY <1>2, <2>3
    <3> HIDE DEF n, first
    <3>2. k \in Nat
      BY <3>1
    <3>3. first \in 0..255
      BY <3>1
    <3> QED
      BY <3>2, <3>3
  <2> HIDE DEF first
  <2>10. [first |-> first, len |-> 12 + len, unit |-> i, nal |-> k] \in StampedNal
    BY <2>7, <2>9 DEF StampedNal
  <2> QED
    BY <2>8, <2>10, Zenon DEF Stamp, len, first
<1> HIDE DEF frame, n
<1> DEFINE t == [j \in 1..n |-> frame(j)]
<1>5. t \in [1..n -> StampedNal] /\ \A k \in 1..n : t[k] = Stamp(u, i, k)
  BY <1>4
<1> HIDE DEF t
<1>6. t \in Seq(StampedNal) /\ Len(t) = n
  BY <1>2, <1>5
<1> QED
  BY <1>3, <1>5, <1>6, Zenon DEF t, n

LEMMA MisreadSample ==
  ASSUME NEW u \in AccessUnit, NEW i \in Nat, Ambiguous(u)
  PROVE  /\ Sample(u, i) \in Seq(StampedNal)
         /\ \A j \in 1..Len(Sample(u, i)) : Sample(u, i)[j].unit = i /\ Sample(u, i)[j].nal = 0
<1> DEFINE cut == avcc_to_annexb(u)
           n == Len(cut)
           frame(j) == [first |-> ByteAt(u, cut[j].from), len |-> 12 + cut[j].to - cut[j].from,
                        unit |-> i, nal |-> Which(u, cut[j])]
<1>1. cut \in Seq(Shard(u))
  BY CutToShards
<1>2. Sample(u, i) = [j \in 1..n |-> frame(j)]
  BY DEF Sample
<1> HIDE DEF cut
<1>3. n \in Nat /\ \A j \in 1..n : cut[j] \in Shard(u)
  BY <1>1
<1>4. ASSUME NEW j \in 1..n
      PROVE  frame(j) \in StampedNal /\ frame(j).unit = i /\ frame(j).nal = 0
  <2> DEFINE s == cut[j]
  <2>1. /\ s \in Span /\ s.from < s.to /\ s.from < SizeOf(u)
        /\ \A k \in 1..Count(u) : s # Interval(u, k)
    BY <1>3 DEF Shard
  <2>2. s.from \in Nat /\ s.to \in Nat
    BY <2>1 DEF Span
  <2>3. ByteAt(u, s.from) \in 0..255
    BY <2>1, <2>2, ByteIsByte
  <2>4. Which(u, s) = 0
    BY <2>1 DEF Which, Count
  <2>5. 12 + s.to - s.from \in Nat
    BY <2>1, <2>2
  <2> HIDE DEF s
  <2> DEFINE r == [first |-> ByteAt(u, s.from), len |-> 12 + s.to - s.from, unit |-> i, nal |-> Which(u, s)]
  <2>6. r \in StampedNal /\ r.unit = i /\ r.nal = 0
    BY <2>3, <2>4, <2>5 DEF StampedNal
  <2> QED
    BY <2>6 DEF s
<1> HIDE DEF frame, n
<1> DEFINE t == [j \in 1..n |-> frame(j)]
<1>5. t \in [1..n -> StampedNal] /\ \A j \in 1..n : t[j] = frame(j)
  BY <1>4
<1> HIDE DEF t
<1>6. t \in Seq(StampedNal) /\ Len(t) = n
  BY <1>3, <1>5
<1>7. Sample(u, i) = t
  BY <1>2 DEF t
<1> QED
  BY <1>4, <1>5, <1>6, <1>7
-----------------------------------------------------------------------------
(* What has come out of drain, told by its frames alone.                   *)

\* Frame f is from one of the first d units, and not from one that is gone.
Real(f, d, units, gone) ==
  /\ f.unit \in 1..d /\ f.unit \notin gone
  /\ IF Ambiguous(units[f.unit]) THEN f.nal = 0
     ELSE \E k \in 1..Count(units[f.unit]) :
            /\ f.nal = k /\ f.first = units[f.unit].nals[k].first
            /\ f.len = 12 + units[f.unit].nals[k].len

Before(f, g, units) ==
  \/ f.unit < g.unit
  \/ f.unit = g.unit /\ (Ambiguous(units[f.unit]) \/ f.nal < g.nal)

There(s, i, k) == \E j \in 1..Len(s) : s[j].unit = i /\ s[j].nal = k

Good(s, d, units, gone) ==
  /\ s \in Seq(StampedNal)
  /\ \A j \in 1..Len(s) : Real(s[j], d, units, gone)
  /\ \A i, j \in 1..Len(s) : i < j => Before(s[i], s[j], units)
  /\ \A i \in 1..d : \A k \in 1..Count(units[i]) :
       i \in gone \/ Ambiguous(units[i]) \/ There(s, i, k)

\* Two sequences, one behind the other.
IsJoined(X, s, t, both) ==
  /\ both \in Seq(X) /\ Len(both) = Len(s) + Len(t)
  /\ Len(s) \in Nat /\ Len(t) \in Nat
  /\ \A j \in 1..Len(s) : j \in 1..Len(both) /\ both[j] = s[j]
  /\ \A j \in 1..Len(t) : Len(s) + j \in 1..Len(both) /\ both[Len(s) + j] = t[j]
  /\ \A j \in 1..Len(both) : j \in 1..Len(s) \/ (j > Len(s) /\ j - Len(s) \in 1..Len(t))

LEMMA JoinedIs ==
  ASSUME NEW X, NEW s \in Seq(X), NEW t \in Seq(X)
  PROVE  IsJoined(X, s, t, s \o t)
<1> DEFINE both == s \o t
           n == Len(s)
           m == Len(t)
<1>1. n \in Nat /\ m \in Nat
  OBVIOUS
<1>2. both \in Seq(X) /\ Len(both) = n + m
  OBVIOUS
<1>3. \A j \in 1..n + m : both[j] = IF j <= n THEN s[j] ELSE t[j - n]
  OBVIOUS
<1> HIDE DEF both, n, m
<1>4. \A j \in 1..n : j \in 1..n + m /\ both[j] = s[j]
  <2> TAKE j \in 1..n
  <2>1. j \in 1..n + m /\ j <= n
    BY <1>1
  <2> QED
    BY <1>3, <2>1
<1>5. \A j \in 1..m : n + j \in 1..n + m /\ both[n + j] = t[j]
  <2> TAKE j \in 1..m
  <2>1. n + j \in 1..n + m /\ ~(n + j <= n) /\ (n + j) - n = j
    BY <1>1
  <2> QED
    BY <1>3, <2>1
<1>6. \A j \in 1..n + m : j \in 1..n \/ (j > n /\ j - n \in 1..m)
  BY <1>1
<1>7. Len(both) = Len(s) + Len(t) /\ Len(s) = n /\ Len(t) = m
  BY <1>2 DEF n, m
<1>8. IsJoined(X, s, t, both)
  BY <1>1, <1>2, <1>4, <1>5, <1>6, <1>7 DEF IsJoined
<1> QED
  BY <1>8 DEF both

\* One more unit is drained.
LEMMA GoodGrows ==
  ASSUME NEW units \in Seq(AccessUnit), NEW d \in Nat, d + 1 <= Len(units),
         NEW gone \in SUBSET (1..d), NEW s, Good(s, d, units, gone)
  PROVE  Good(s \o Sample(units[d + 1], d + 1), d + 1, units, gone)
<1> DEFINE e == d + 1
           u == units[e]
           t == Sample(u, e)
           both == s \o t
<1>1. e \in Nat /\ u \in AccessUnit /\ e \notin gone /\ e \in 1..e
  <2>1. e \in 1..Len(units) /\ e \in Nat /\ e \notin 1..d /\ e \in 1..e
    OBVIOUS
  <2> QED
    BY <2>1
<1>2. /\ t \in Seq(StampedNal)
      /\ \A j \in 1..Len(t) : t[j].unit = e
      /\ Ambiguous(u) => \A j \in 1..Len(t) : t[j].nal = 0
      /\ ~Ambiguous(u) =>
           /\ Len(t) = Count(u)
           /\ \A k \in 1..Count(u) : /\ t[k].nal = k /\ t[k].first = u.nals[k].first
                                     /\ t[k].len = 12 + u.nals[k].len
  <2> HIDE DEF u, e
  <2>1. CASE Ambiguous(u)
    BY <1>1, <2>1, MisreadSample DEF t
  <2>2. CASE ~Ambiguous(u)
    <3>1. /\ t \in Seq(StampedNal) /\ Len(t) = Count(u)
          /\ \A k \in 1..Count(u) : t[k] = Stamp(u, e, k)
      BY <1>1, <2>2, WholeSample DEF t
    <3>2. ASSUME NEW k
          PROVE  /\ Stamp(u, e, k).unit = e /\ Stamp(u, e, k).nal = k
                 /\ Stamp(u, e, k).first = u.nals[k].first
                 /\ Stamp(u, e, k).len = 12 + u.nals[k].len
      BY DEF Stamp
    <3> QED
      BY <2>2, <3>1, <3>2
  <2> QED
    BY <2>1, <2>2
<1>3. /\ s \in Seq(StampedNal)
      /\ \A j \in 1..Len(s) : Real(s[j], d, units, gone)
      /\ \A i, j \in 1..Len(s) : i < j => Before(s[i], s[j], units)
      /\ \A i \in 1..d : \A k \in 1..Count(units[i]) :
           i \in gone \/ Ambiguous(units[i]) \/ There(s, i, k)
  BY DEF Good
<1>4. \A j \in 1..Len(s) : s[j].unit \in 1..d
  BY <1>3 DEF Real
<1> HIDE DEF t
<1>5. IsJoined(StampedNal, s, t, both)
  BY <1>2, <1>3, JoinedIs
<1> HIDE DEF both
<1>6. /\ both \in Seq(StampedNal)
      /\ Len(s) \in Nat /\ Len(t) \in Nat
      /\ \A j \in 1..Len(s) : j \in 1..Len(both) /\ both[j] = s[j]
      /\ \A j \in 1..Len(t) : Len(s) + j \in 1..Len(both) /\ both[Len(s) + j] = t[j]
      /\ \A j \in 1..Len(both) : j \in 1..Len(s) \/ (j > Len(s) /\ j - Len(s) \in 1..Len(t))
  BY <1>5 DEF IsJoined
<1>7. \A j \in 1..Len(both) :
        j > Len(s) => j - Len(s) \in 1..Len(t) /\ both[j] = t[j - Len(s)]
  <2> SUFFICES ASSUME NEW j \in 1..Len(both), j > Len(s)
               PROVE  j - Len(s) \in 1..Len(t) /\ both[j] = t[j - Len(s)]
    OBVIOUS
  <2>1. j - Len(s) \in 1..Len(t) /\ Len(s) + (j - Len(s)) = j
    BY <1>6
  <2> QED
    BY <1>6, <2>1
<1>8. ASSUME NEW f, Real(f, d, units, gone) PROVE Real(f, e, units, gone)
  <2>1. f.unit \in 1..d => f.unit \in 1..e
    OBVIOUS
  <2> HIDE DEF e
  <2> QED
    BY <1>8, <2>1, Zenon DEF Real
<1>9. ASSUME NEW j \in 1..Len(t) PROVE Real(t[j], e, units, gone)
  <2>1. t[j].unit = e
    BY <1>2
  <2>2. CASE Ambiguous(u)
    <3>1. t[j].nal = 0
      BY <1>2, <2>2
    <3> HIDE DEF e
    <3> QED
      BY <1>1, <2>1, <2>2, <3>1 DEF Real
  <2>3. CASE ~Ambiguous(u)
    <3>1. /\ j \in 1..Count(u) /\ t[j].nal = j /\ t[j].first = u.nals[j].first
          /\ t[j].len = 12 + u.nals[j].len
      BY <1>2, <2>3
    <3> HIDE DEF e
    <3> QED
      BY <1>1, <2>1, <2>3, <3>1 DEF Real
  <2> QED
    BY <2>2, <2>3
<1>10. ASSUME NEW j \in 1..Len(both) PROVE Real(both[j], e, units, gone)
  <2>1. CASE j \in 1..Len(s)
    BY <1>3, <1>6, <1>8, <2>1
  <2>2. CASE j > Len(s)
    <3>1. j - Len(s) \in 1..Len(t) /\ both[j] = t[j - Len(s)]
      BY <1>7, <2>2
    <3> HIDE DEF e
    <3> QED
      BY <1>9, <3>1, Zenon
  <2> QED
    BY <1>6, <2>1, <2>2
<1>11. ASSUME NEW i \in 1..Len(both), NEW j \in 1..Len(both), i < j
       PROVE  Before(both[i], both[j], units)
  <2>1. CASE j \in 1..Len(s)
    <3>1. i \in 1..Len(s)
      BY <1>6, <1>11, <2>1
    <3> QED
      BY <1>3, <1>6, <1>11, <2>1, <3>1
  <2>2. CASE j > Len(s)
    <3> DEFINE q == j - Len(s)
    <3>1. q \in 1..Len(t) /\ both[j] = t[q]
      BY <1>7, <2>2
    <3> HIDE DEF q
    <3>2. CASE i \in 1..Len(s)
      <4>1. both[i].unit \in 1..d /\ both[j].unit = e
        <5>1. both[i] = s[i] /\ s[i].unit \in 1..d
          BY <1>4, <1>6, <3>2, Zenon
        <5>2. t[q].unit = e
          BY <1>2, <3>1, Zenon
        <5> HIDE DEF e
        <5> QED
          BY <3>1, <5>1, <5>2, Zenon
      <4>2. both[i].unit < both[j].unit
        BY <4>1
      <4> QED
        BY <4>2 DEF Before
    <3>3. CASE i > Len(s)
      <4> DEFINE p == i - Len(s)
      <4>1. p \in 1..Len(t) /\ both[i] = t[p]
        BY <1>7, <3>3
      <4>2. p < q
        BY <1>6, <1>11 DEF q
      <4> HIDE DEF p
      <4>3. both[i].unit = e /\ both[j].unit = e
        BY <1>2, <3>1, <4>1
      <4>4. Ambiguous(u) \/ both[i].nal < both[j].nal
        <5>1. ~Ambiguous(u) => both[i].nal = p /\ both[j].nal = q
          BY <1>2, <3>1, <4>1
        <5> QED
          BY <4>2, <5>1
      <4> HIDE DEF e
      <4> QED
        BY <4>3, <4>4 DEF Before
    <3> QED
      BY <1>6, <3>2, <3>3
  <2> QED
    BY <1>6, <2>1, <2>2
<1>12. ASSUME NEW i \in 1..e, NEW k \in 1..Count(units[i])
       PROVE  i \in gone \/ Ambiguous(units[i]) \/ There(both, i, k)
  <2>1. CASE i \in 1..d
    <3>1. i \in gone \/ Ambiguous(units[i]) \/ There(s, i, k)
      BY <1>3, <2>1
    <3>2. There(s, i, k) => There(both, i, k)
      BY <1>6 DEF There
    <3> QED
      BY <3>1, <3>2
  <2>2. CASE i = e
    <3> SUFFICES ASSUME ~Ambiguous(u) PROVE There(both, i, k)
      BY <2>2
    <3>1. k \in 1..Len(t) /\ t[k].unit = e /\ t[k].nal = k
      BY <1>2, <2>2
    <3>2. Len(s) + k \in 1..Len(both) /\ both[Len(s) + k] = t[k]
      BY <1>6, <3>1
    <3> HIDE DEF e
    <3> QED
      BY <2>2, <3>1, <3>2 DEF There
  <2>3. i \in 1..d \/ i = e
    OBVIOUS
  <2> QED
    BY <2>1, <2>2, <2>3
<1> HIDE DEF e, u
<1>13. Good(both, e, units, gone)
  BY <1>6, <1>10, <1>11, <1>12 DEF Good
<1> QED
  BY <1>13 DEF both, t, u, e

\* All that waits is drained.
LEMMA GoodDrains ==
  ASSUME NEW units \in Seq(AccessUnit), NEW d \in Nat, d < Len(units),
         NEW gone \in SUBSET (1..d), NEW s, Good(s, d, units, gone),
         NEW ss, Len(ss) = Len(units) - d,
         \A n \in 1..Len(units) - d : ss[n] = Sample(units[d + n], d + n)
  PROVE  /\ FlattenSeq(ss) \in Seq(StampedNal)
         /\ Good(s \o FlattenSeq(ss), Len(units), units, gone)
<1> DEFINE N == Len(units) - d
           X == StampedNal
<1>1. N \in Nat \ {0} /\ d + N = Len(units) /\ N >= 1 /\ Len(ss) = N
  <2>1. Len(units) \in Nat
    OBVIOUS
  <2> QED
    BY <2>1
<1>2. ASSUME NEW n \in 1..N
      PROVE  /\ d + n \in Nat /\ d + n <= Len(units) /\ ss[n] = Sample(units[d + n], d + n)
             /\ ss[n] \in Seq(X)
  <2>1. d + n \in Nat /\ d + n <= Len(units) /\ d + n \in 1..Len(units)
    BY <1>1
  <2>2. units[d + n] \in AccessUnit
    BY <2>1
  <2>3. Sample(units[d + n], d + n) \in Seq(StampedNal)
    BY <2>1, <2>2, WholeSample, MisreadSample
  <2> QED
    BY <2>1, <2>3
<1> HIDE DEF N, X
<1>3. PICK f : Joined(X, N, ss, f)
  <2>1. \E f : Joined(X, N, ss, f)
    BY <1>1, <1>2, FlattenIs
  <2> QED
    BY <2>1, Zenon
<1>4. /\ \A n \in 1..N : f[n] \in Seq(X)
      /\ \A n \in 1..N : f[n] = IF n = 1 THEN ss[n] ELSE f[n - 1] \o ss[n]
      /\ FlattenSeq(ss) = f[N]
  BY <1>3, Zenon DEF Joined, Joins
<1>5. s \in Seq(X)
  BY DEF Good, X
<1> DEFINE T == {m \in Nat : m \in 1..N => Good(s \o f[m], d + m, units, gone)}
<1>6. 0 \in T
  OBVIOUS
<1>7. ASSUME NEW m \in Nat, m \in T PROVE m + 1 \in T
  <2> DEFINE e == m + 1
  <2> SUFFICES ASSUME e \in 1..N PROVE Good(s \o f[e], d + e, units, gone)
    OBVIOUS
  <2>1. f[e] = IF e = 1 THEN ss[e] ELSE f[e - 1] \o ss[e]
    BY <1>4
  <2>2. d + e \in Nat /\ d + e <= Len(units) /\ ss[e] = Sample(units[d + e], d + e)
    BY <1>2
  <2>3. CASE m = 0
    <3>1. e = 1 /\ d + e = d + 1
      BY <2>3
    <3>2. f[e] = Sample(units[d + 1], d + 1)
      BY <2>1, <2>2, <3>1
    <3>3. Good(s \o Sample(units[d + 1], d + 1), d + 1, units, gone)
      BY <2>2, <3>1, GoodGrows
    <3> HIDE DEF e
    <3> QED
      BY <3>1, <3>2, <3>3
  <2>4. CASE m # 0
    <3>1. /\ m \in 1..N /\ e # 1 /\ e - 1 = m /\ d + e = (d + m) + 1 /\ d + m \in Nat
          /\ gone \in SUBSET (1..d + m)
      <4>1. m \in 1..N /\ e # 1 /\ e - 1 = m /\ d + e = (d + m) + 1 /\ d + m \in Nat
        BY <1>1, <2>4
      <4>2. \A x \in 1..d : x \in 1..d + m
        OBVIOUS
      <4> QED
        BY <4>1, <4>2
    <3>2. Good(s \o f[m], d + m, units, gone)
      BY <1>7, <3>1
    <3>3. f[e] = f[m] \o ss[e]
      BY <2>1, <3>1
    <3> DEFINE b == d + m
    <3>4. ss[e] = Sample(units[b + 1], b + 1) /\ b + 1 <= Len(units)
      BY <2>2, <3>1
    <3> HIDE DEF b, e
    <3>5. Good((s \o f[m]) \o Sample(units[b + 1], b + 1), b + 1, units, gone)
      BY <3>1, <3>2, <3>4, GoodGrows DEF b
    <3>6. \A x, y, z \in Seq(X) : (x \o y) \o z = x \o (y \o z)
      BY ConcatAssociative, SMTT(30)
    <3>7. f[m] \in Seq(X) /\ ss[e] \in Seq(X)
      <4>1. e \in 1..N
        BY DEF e
      <4> QED
        BY <1>2, <1>4, <3>1, <4>1
    <3>8. (s \o f[m]) \o ss[e] = s \o f[e]
      <4>1. (s \o f[m]) \o ss[e] = s \o (f[m] \o ss[e])
        BY <1>5, <3>6, <3>7, Zenon
      <4> QED
        BY <3>3, <4>1, Zenon
    <3>9. d + e = b + 1
      BY <3>1 DEF b
    <3> QED
      BY <3>4, <3>5, <3>8, <3>9
  <2> QED
    BY <2>3, <2>4
<1> HIDE DEF T
<1>8. \A m \in Nat : m \in T
  BY <1>6, <1>7, ByInduction
<1>9. N \in Nat /\ N \in 1..N
  BY <1>1
<1>10. Good(s \o f[N], d + N, units, gone)
  BY <1>8, <1>9 DEF T
<1>11. f[N] \in Seq(X)
  BY <1>4, <1>9
<1> QED
  BY <1>1, <1>4, <1>10, <1>11 DEF X

\* Drain fails and what it had pulled is gone.
LEMMA GoodFails ==
  ASSUME NEW units, NEW d \in Nat, NEW upto \in Nat, d <= upto,
         NEW gone, NEW s, Good(s, d, units, gone)
  PROVE  Good(s, upto, units, gone \cup (d + 1..upto))
<1> DEFINE all == gone \cup (d + 1..upto)
<1>1. /\ s \in Seq(StampedNal)
      /\ \A j \in 1..Len(s) : Real(s[j], d, units, gone)
      /\ \A i, j \in 1..Len(s) : i < j => Before(s[i], s[j], units)
      /\ \A i \in 1..d : \A k \in 1..Count(units[i]) :
           i \in gone \/ Ambiguous(units[i]) \/ There(s, i, k)
  BY DEF Good
<1>2. \A i \in 1..d : i \in 1..upto /\ (i \notin gone => i \notin all)
  OBVIOUS
<1>3. \A i \in 1..upto : i \in 1..d \/ i \in all
  OBVIOUS
<1>4. gone \subseteq all
  OBVIOUS
<1> HIDE DEF all
<1>5. ASSUME NEW j \in 1..Len(s) PROVE Real(s[j], upto, units, all)
  <2>1. Real(s[j], d, units, gone)
    BY <1>1
  <2> QED
    BY <1>2, <2>1, Zenon DEF Real
<1>6. \A i \in 1..upto : \A k \in 1..Count(units[i]) :
        i \in all \/ Ambiguous(units[i]) \/ There(s, i, k)
  BY <1>1, <1>3, <1>4
<1>7. Good(s, upto, units, all)
  BY <1>1, <1>5, <1>6, Zenon DEF Good
<1> QED
  BY <1>7 DEF all

\* The units that wait do not matter.
LEMMA GoodOfMore ==
  ASSUME NEW units, NEW more, NEW d \in Nat, NEW gone, NEW s, Good(s, d, units, gone),
         \A i \in 1..d : more[i] = units[i]
  PROVE  Good(s, d, more, gone)
<1>1. /\ s \in Seq(StampedNal)
      /\ \A j \in 1..Len(s) : Real(s[j], d, units, gone)
      /\ \A i, j \in 1..Len(s) : i < j => Before(s[i], s[j], units)
      /\ \A i \in 1..d : \A k \in 1..Count(units[i]) :
           i \in gone \/ Ambiguous(units[i]) \/ There(s, i, k)
  BY DEF Good
<1>2. ASSUME NEW j \in 1..Len(s) PROVE s[j].unit \in 1..d /\ Real(s[j], d, more, gone)
  <2>1. Real(s[j], d, units, gone)
    BY <1>1
  <2> QED
    BY <2>1 DEF Real
<1>3. \A i, j \in 1..Len(s) : i < j => Before(s[i], s[j], more)
  BY <1>1, <1>2 DEF Before
<1>4. \A i \in 1..d : \A k \in 1..Count(more[i]) :
        i \in gone \/ Ambiguous(more[i]) \/ There(s, i, k)
  BY <1>1
<1> QED
  BY <1>1, <1>2, <1>3, <1>4 DEF Good

\* A frame goes from the way into the history.
LEMMA MovedOn ==
  ASSUME NEW X, NEW s \in Seq(X), NEW t \in Seq(X), t # << >>
  PROVE  /\ Head(t) \in X /\ Tail(t) \in Seq(X) /\ Append(s, Head(t)) \in Seq(X)
         /\ Append(s, Head(t)) \o Tail(t) = s \o t
<1> DEFINE h == Head(t)
           u == Tail(t)
<1>1. h \in X /\ u \in Seq(X) /\ t = <<h>> \o u
  <2>1. h \in X /\ u \in Seq(X) /\ Len(t) = Len(u) + 1
        /\ t[1] = h /\ \A i \in 1..Len(u) : t[i + 1] = u[i]
    OBVIOUS
  <2> HIDE DEF h, u
  <2> QED
    BY <2>1, PrependIs
<1> HIDE DEF h, u
<1>2. Append(s, h) \in Seq(X) /\ Append(s, h) = s \o <<h>> /\ <<h>> \in Seq(X)
  BY <1>1, AppendIsConcat
<1>3. \A a, b, c \in Seq(X) : (a \o b) \o c = a \o (b \o c)
  BY ConcatAssociative, SMTT(30)
<1>4. Append(s, h) \o u = s \o t
  BY <1>1, <1>2, <1>3
<1> QED
  BY <1>1, <1>2, <1>4 DEF h, u
-----------------------------------------------------------------------------
(* The way of a picture, for an encoder that makes any NALs.               *)

PathInv ==
  /\ format \in {"annexb", "avcc", None}
  /\ format = None => made = << >> /\ drained = 0 /\ way = << >>
  /\ format # None =>
       /\ made \in Seq(AccessUnit)
       /\ \A i \in 1..Len(made) : made[i].nals \in Pictures
       /\ drained \in Nat /\ drained <= Len(made)
       /\ lost \in SUBSET (1..drained)
       /\ seen \in Seq(StampedNal) /\ way \in Seq(StampedNal)
       /\ Good(seen \o way, drained, made, lost)

LEMMA PathStarts == NalInit => PathInv
<1> SUFFICES ASSUME NalInit PROVE PathInv
  OBVIOUS
<1>1. /\ format \in {"annexb", "avcc", None} /\ made = << >> /\ drained = 0
      /\ lost = {} /\ way = << >> /\ seen = << >>
  BY DEF NalInit, Init
<1>2. << >> \in Seq(AccessUnit) /\ << >> \in Seq(StampedNal) /\ Len(<< >>) = 0
      /\ << >> \o << >> = << >> /\ \A i \in 1..0 : FALSE
  <2>1. \A s \in Seq(StampedNal) : s \o << >> = s
    BY ConcatEmptySeq
  <2>2. << >> \in Seq(StampedNal)
    OBVIOUS
  <2>3. << >> \o << >> = << >>
    BY <2>1, <2>2, Zenon
  <2>4. << >> \in Seq(AccessUnit) /\ Len(<< >>) = 0 /\ \A i \in 1..0 : FALSE
    OBVIOUS
  <2> QED
    BY <2>2, <2>3, <2>4
<1>3. Good(<< >>, 0, << >>, {})
  BY <1>2 DEF Good
<1>4. Good(seen \o way, drained, made, lost)
  BY <1>1, <1>2, <1>3
<1>5. \A i \in 1..Len(made) : FALSE
  BY <1>1, <1>2
<1>6. drained \in Nat /\ drained <= Len(made) /\ lost \in SUBSET (1..drained)
  BY <1>1, <1>2
<1> QED
  BY <1>1, <1>2, <1>4, <1>5, <1>6 DEF PathInv

LEMMA SubmitKeepsPath ==
  ASSUME PathInv, NEW display, NEW nals \in Pictures, Submit(display, nals)
  PROVE  PathInv'
<1> DEFINE unit == [format |-> format, nals |-> nals]
           n == Len(made)
<1>1. /\ format # None /\ made' = Append(made, unit) /\ format' = format
      /\ drained' = drained /\ lost' = lost /\ way' = way /\ seen' = seen
  BY DEF Submit, vars
<1>2. /\ format \in {"annexb", "avcc"} /\ made \in Seq(AccessUnit)
      /\ \A i \in 1..n : made[i].nals \in Pictures
      /\ drained \in Nat /\ drained <= n
      /\ lost \in SUBSET (1..drained)
      /\ seen \in Seq(StampedNal) /\ way \in Seq(StampedNal)
      /\ Good(seen \o way, drained, made, lost)
  BY <1>1 DEF PathInv
<1>3. unit \in AccessUnit /\ unit.nals \in Pictures
  <2>1. nals \in Seq(MadeNal) \ {<< >>}
    BY PicturesAssumption
  <2> QED
    BY <1>2, <2>1 DEF AccessUnit
<1> HIDE DEF unit, n
<1>4. /\ made' \in Seq(AccessUnit) /\ Len(made') = n + 1 /\ n \in Nat
      /\ made'[n + 1] = unit /\ \A i \in 1..n : made'[i] = made[i]
  BY <1>1, <1>2, <1>3 DEF n
<1>5. /\ \A i \in 1..n + 1 : i \in 1..n \/ i = n + 1
      /\ \A i \in 1..drained : i \in 1..n
      /\ drained <= n + 1
  BY <1>2, <1>4
<1>6. \A i \in 1..Len(made') : made'[i].nals \in Pictures
  BY <1>2, <1>3, <1>4, <1>5
<1>7. Good(seen \o way, drained, made', lost)
  <2>1. \A i \in 1..drained : made'[i] = made[i]
    BY <1>4, <1>5
  <2> QED
    BY <1>2, <2>1, GoodOfMore
<1> QED
  BY <1>1, <1>2, <1>4, <1>5, <1>6, <1>7 DEF PathInv

LEMMA DrainKeepsPath ==
  ASSUME PathInv, Drain
  PROVE  PathInv'
<1> DEFINE n == Len(made)
           s == seen \o way
<1>1. /\ drained < n /\ format' = format /\ made' = made /\ seen' = seen
  BY DEF Drain, vars
<1>2. format # None
  <2> SUFFICES ASSUME format = None PROVE FALSE
    OBVIOUS
  <2>1. made = << >> /\ drained = 0
    BY DEF PathInv
  <2> QED
    BY <1>1, <2>1
<1>3. /\ format \in {"annexb", "avcc", None} /\ made \in Seq(AccessUnit)
      /\ \A i \in 1..n : made[i].nals \in Pictures
      /\ drained \in Nat /\ n \in Nat
      /\ lost \in SUBSET (1..drained)
      /\ seen \in Seq(StampedNal) /\ way \in Seq(StampedNal)
      /\ Good(s, drained, made, lost)
  BY <1>2 DEF PathInv
<1>4. CASE /\ drained' = n
           /\ way' = way \o FlattenSeq([m \in 1..n - drained |-> sample_to_annexb(drained + m)])
           /\ lost' = lost
  <2> DEFINE ss == [m \in 1..n - drained |-> sample_to_annexb(drained + m)]
             flat == FlattenSeq(ss)
  <2>1. /\ n - drained \in Nat /\ Len(ss) = n - drained
        /\ \A m \in 1..n - drained : ss[m] = Sample(made[drained + m], drained + m)
    <3>1. n - drained \in Nat
      BY <1>1, <1>3
    <3>2. \A m \in 1..n - drained : ss[m] = Sample(made[drained + m], drained + m)
      BY SampleIs
    <3> QED
      BY <3>1, <3>2
  <2>2. way' = way \o flat
    BY <1>4
  <2> HIDE DEF ss
  <2>3. flat \in Seq(StampedNal) /\ Good(s \o flat, n, made, lost)
    <3> HIDE DEF s
    <3> QED
      BY <1>1, <1>3, <2>1, GoodDrains
  <2> HIDE DEF flat
  <2>4. s \o flat = seen \o (way \o flat) /\ way \o flat \in Seq(StampedNal)
    <3>1. /\ \A a, b, c \in Seq(StampedNal) : (a \o b) \o c = a \o (b \o c)
          /\ \A b, c \in Seq(StampedNal) : b \o c \in Seq(StampedNal)
      <4>1. \A a, b, c \in Seq(StampedNal) : (a \o b) \o c = a \o (b \o c)
        BY ConcatAssociative, SMTT(30)
      <4>2. \A b, c \in Seq(StampedNal) : b \o c \in Seq(StampedNal)
        OBVIOUS
      <4> QED
        BY <4>1, <4>2
    <3> QED
      BY <1>3, <2>3, <3>1
  <2>5. lost' \in SUBSET (1..n)
    <3>1. \A i \in 1..drained : i \in 1..n
      BY <1>1, <1>3
    <3> QED
      BY <1>3, <1>4, <3>1
  <2>6. Good(seen' \o way', drained', made', lost')
    BY <1>1, <1>4, <2>2, <2>3, <2>4
  <2>7. way' \in Seq(StampedNal) /\ drained' \in Nat /\ drained' <= Len(made')
    <3>1. way' \in Seq(StampedNal)
      BY <2>2, <2>4, Zenon
    <3>2. drained' = n /\ Len(made') = n /\ n \in Nat
      BY <1>1, <1>3, <1>4, Zenon
    <3> HIDE DEF n
    <3>3. n \in Nat /\ n <= n
      BY <3>2
    <3> QED
      BY <3>1, <3>2, <3>3, Zenon
  <2> QED
    BY <1>1, <1>2, <1>3, <1>4, <2>5, <2>6, <2>7 DEF PathInv
<1>5. ASSUME NEW upto \in drained + 1..n, DrainFails(upto)
      PROVE  PathInv'
  <2>1. drained' = upto /\ lost' = lost \cup (drained + 1..upto) /\ way' = way
    BY <1>5 DEF DrainFails
  <2>2. upto \in Nat /\ drained <= upto /\ upto <= n
    BY <1>1, <1>3
  <2>3. Good(s, upto, made, lost \cup (drained + 1..upto))
    <3> HIDE DEF s
    <3> QED
      BY <1>3, <2>2, GoodFails
  <2>4. lost' \in SUBSET (1..upto)
    <3>1. /\ \A i \in 1..drained : i \in 1..upto
          /\ \A i \in drained + 1..upto : i \in 1..upto
      BY <1>3, <2>2
    <3> QED
      BY <1>3, <2>1, <3>1
  <2>5. Good(seen' \o way', drained', made', lost')
    BY <1>1, <2>1, <2>3
  <2> QED
    BY <1>1, <1>2, <1>3, <2>1, <2>2, <2>4, <2>5 DEF PathInv
<1> QED
  BY <1>4, <1>5 DEF Drain

LEMMA ArriveKeepsPath ==
  ASSUME PathInv, Arrive
  PROVE  PathInv' /\ Head(way) \in StampedNal
<1>1. /\ way # << >> /\ seen' = Append(seen, Head(way)) /\ way' = Tail(way)
      /\ format' = format /\ made' = made /\ drained' = drained /\ lost' = lost
  BY DEF Arrive
<1>2. format # None
  BY <1>1 DEF PathInv
<1>3. /\ format \in {"annexb", "avcc", None} /\ made \in Seq(AccessUnit)
      /\ \A i \in 1..Len(made) : made[i].nals \in Pictures
      /\ drained \in Nat /\ drained <= Len(made)
      /\ lost \in SUBSET (1..drained)
      /\ seen \in Seq(StampedNal) /\ way \in Seq(StampedNal)
      /\ Good(seen \o way, drained, made, lost)
  BY <1>2 DEF PathInv
<1>4. /\ Head(way) \in StampedNal /\ way' \in Seq(StampedNal) /\ seen' \in Seq(StampedNal)
      /\ seen' \o way' = seen \o way
  BY <1>1, <1>3, MovedOn
<1>5. Good(seen' \o way', drained', made', lost')
  BY <1>1, <1>3, <1>4
<1> QED
  BY <1>1, <1>2, <1>3, <1>4, <1>5 DEF PathInv

LEMMA PathInvariant == NalSpec => []PathInv
<1>1. NalInit => PathInv
  BY PathStarts
<1>2. PathInv /\ [NalNext]_path => PathInv'
  <2> SUFFICES ASSUME PathInv, [NalNext]_path PROVE PathInv'
    OBVIOUS
  <2>1. CASE format = None /\ Next /\ UNCHANGED encoder
    <3>1. /\ format' = format /\ made' = made /\ drained' = drained /\ way' = way
      BY <2>1 DEF encoder
    <3> QED
      BY <2>1, <3>1 DEF PathInv
  <2>2. ASSUME NEW d \in Displays, NEW nals \in Pictures, Submit(d, nals) PROVE PathInv'
    BY <2>2, SubmitKeepsPath
  <2>3. CASE Drain
    BY <2>3, DrainKeepsPath
  <2>4. CASE Arrive
    BY <2>4, ArriveKeepsPath
  <2>5. CASE UNCHANGED path
    <3>1. /\ format' = format /\ made' = made /\ drained' = drained /\ lost' = lost
          /\ way' = way /\ seen' = seen
      BY <2>5 DEF path, encoder, vars
    <3> QED
      BY <3>1 DEF PathInv
  <2> QED
    BY <2>1, <2>2, <2>3, <2>4, <2>5 DEF NalNext
<1> QED
  BY <1>1, <1>2, PTL DEF NalSpec

\* Whatever the encoder makes, what comes out of drain is its NALs, each whole,
\* once and in order; only those of misread and of lost samples are missing.
THEOREM NalsAlwaysComeOutWhole == NalSpec => []NalsComeOutWhole
<1>1. PathInv => NalsComeOutWhole
  <2> SUFFICES ASSUME PathInv, format # None
               PROVE  LET frames == seen \o way
                      IN /\ \A j \in 1..Len(frames) : Genuine(frames[j])
                         /\ \A i, j \in 1..Len(frames) : i < j => Ahead(frames[i], frames[j])
                         /\ \A i \in 1..drained : \A k \in 1..Len(made[i].nals) :
                              Gone(i) \/ \E j \in 1..Len(frames) :
                                           frames[j].unit = i /\ frames[j].nal = k
    BY DEF NalsComeOutWhole
  <2> DEFINE s == seen \o way
  <2>1. Good(s, drained, made, lost)
    BY DEF PathInv
  <2> HIDE DEF s
  <2>2. /\ \A j \in 1..Len(s) : Real(s[j], drained, made, lost)
        /\ \A i, j \in 1..Len(s) : i < j => Before(s[i], s[j], made)
        /\ \A i \in 1..drained : \A k \in 1..Count(made[i]) :
             i \in lost \/ Ambiguous(made[i]) \/ There(s, i, k)
    BY <2>1 DEF Good
  <2>3. \A i : Misread(i) <=> Ambiguous(made[i])
    BY Zenon DEF Misread, Ambiguous
  <2>4. ASSUME NEW f, Real(f, drained, made, lost) PROVE Genuine(f)
    BY <2>3, <2>4, Zenon DEF Real, Genuine, Whole, Count
  <2>5. ASSUME NEW f, NEW g, Before(f, g, made) PROVE Ahead(f, g)
    BY <2>3, <2>5, Zenon DEF Before, Ahead
  <2>6. \A i \in 1..drained : \A k \in 1..Len(made[i].nals) :
          Gone(i) \/ \E j \in 1..Len(s) : s[j].unit = i /\ s[j].nal = k
    BY <2>2, <2>3, Zenon DEF Gone, There, Count
  <2>7. /\ \A j \in 1..Len(s) : Genuine(s[j])
        /\ \A i, j \in 1..Len(s) : i < j => Ahead(s[i], s[j])
    BY <2>2, <2>4, <2>5
  <2> QED
    BY <2>6, <2>7, Zenon DEF s
<1> QED
  BY <1>1, PathInvariant, PTL
-----------------------------------------------------------------------------
(* The room of WarmupHistory.                                              *)

LEMMA SpecFeedsRoom == Spec => RoomSpec
<1>1. [Next]_vars => [RoomNext]_vars
  <2> SUFFICES ASSUME NEW f \in Frames, Record(f) PROVE RoomNext
    BY DEF Next
  <2>1. f \in Stamped /\ Recorded(f)
    BY DEF Record, Recorded, Stamped
  <2> QED
    BY <2>1 DEF RoomNext
<1> QED
  BY <1>1, PTL DEF Spec, RoomSpec

\* The type invariant of the window and its history.
THEOREM TypeCorrect == Spec => []TypeOK
<1>1. Init => TypeOK
  BY DEF Init, TypeOK, EmptyWindow, Window
<1>2. TypeOK /\ [Next]_vars => TypeOK'
  <2> SUFFICES ASSUME TypeOK, NEW f \in Frames, Record(f) PROVE TypeOK'
    BY DEF Next, vars, TypeOK
  <2> DEFINE class == classify_nal(f, w.codec)
  <2>1. /\ w' = record(w, f) /\ seen' = Append(seen, f)
        /\ w \in Window /\ seen \in Seq(Frames)
    BY DEF Record, TypeOK
  <2>2. f \in Stamped /\ w \in RoomWindow
    <3>1. Frames \subseteq Stamped
      BY DEF Stamped
    <3>2. Seq(Frames) \subseteq Seq(Stamped)
      BY <3>1
    <3>3. [ParamType -> Frames \cup {None}] \subseteq [ParamType -> Stamped \cup {None}]
      BY <3>1
    <3> QED
      BY <2>1, <3>1, <3>2, <3>3 DEF Window, RoomWindow
  <2>3. Effects(w, f, class, w')
    BY <2>1, <2>2, RecordEffects
  <2>4. class.kind \in {"ParamSet", "Keyframe"} \cup Others
    <3>1. w.codec \in Codec \cup {None}
      BY <2>1 DEF Window
    <3> QED
      BY <2>2, <3>1, Classes DEF Others
  <2>5. /\ w'.keyframe \in Seq(Frames) /\ w'.since_keyframe \in Seq(Frames)
        /\ \A t \in ParamType : w'.param_sets[t] \in Frames \cup {None}
    <3>1. /\ w.keyframe \in Seq(Frames) /\ w.since_keyframe \in Seq(Frames)
          /\ \A t \in ParamType : w.param_sets[t] \in Frames \cup {None}
      BY <2>1 DEF Window
    <3>2. /\ <<f>> \in Seq(Frames) /\ << >> \in Seq(Frames)
          /\ Append(w.since_keyframe, f) \in Seq(Frames)
      BY <3>1
    <3> HIDE DEF class
    <3>3. CASE class.kind = "ParamSet"
      BY <2>3, <3>1, <3>3 DEF Effects
    <3>4. CASE class.kind = "Keyframe"
      BY <2>3, <3>1, <3>2, <3>4 DEF Effects
    <3>5. CASE class.kind \in Others
      <4>1. class.kind # "ParamSet"
        BY <3>5 DEF Others
      <4>2. w'.param_sets = w.param_sets
        BY <2>3, <4>1 DEF Effects
      <4>3. CASE w.keyframe = << >>
        BY <2>3, <3>1, <3>5, <4>3 DEF Effects
      <4>4. CASE w.keyframe # << >>
        BY <2>3, <3>1, <3>2, <3>5, <4>2, <4>4 DEF Effects
      <4> QED
        BY <4>3, <4>4
    <3> QED
      BY <2>4, <3>3, <3>4, <3>5
  <2>6. w' \in RoomWindow
    BY <2>3 DEF Effects
  <2>7. w' \in Window
    <3>1. w'.param_sets \in [ParamType -> Frames \cup {None}]
      BY <2>5, <2>6 DEF RoomWindow
    <3> QED
      BY <2>5, <2>6, <3>1 DEF RoomWindow, Window
  <2>8. seen' \in Seq(Frames)
    BY <2>1
  <2> QED
    BY <2>7, <2>8 DEF TypeOK
<1> QED
  BY <1>1, <1>2, PTL DEF Spec

\* What is cached stays within the caps, whatever an encoder sends.
THEOREM CapsAlwaysHold == Spec => []CapsHold
<1>1. WindowInv => CapsHold
  BY DEF WindowInv
<1> QED
  BY <1>1, SpecFeedsRoom, WindowInvariant, PTL

\* A viewer that joins is sent a parameter set first, then one key frame, then
\* only what depends on it - or nothing.
THEOREM ReplaysAreDecodable == Spec => []ReplayIsDecodable
  BY SpecFeedsRoom, WindowInvariant, ReplayDecodes, PTL

\* The window is a function of everything the room has seen: the codec it told
\* first, the latest of each parameter set, and the last key frame, one NAL, with
\* all that came after it, or neither if one of them exceeds its cap.
THEOREM WindowFollowsHistory == Spec => []WindowMatchesHistory
  BY SpecFeedsRoom, RoomFollowsHistory, PTL
-----------------------------------------------------------------------------
(* The room at the end of the way.                                         *)

LEMMA PathFeedsRoom == NalSpec => RoomSpec
<1>1. NalInit => Init
  BY DEF NalInit
<1>2. PathInv /\ [NalNext]_path => [RoomNext]_vars
  <2> SUFFICES ASSUME PathInv, [NalNext]_path PROVE RoomNext \/ UNCHANGED vars
    OBVIOUS
  <2>1. CASE format = None /\ Next /\ UNCHANGED encoder
    <3>1. PICK f \in Frames : Record(f)
      BY <2>1 DEF Next
    <3>2. f \in Stamped /\ Recorded(f)
      BY <3>1 DEF Record, Recorded, Stamped
    <3> QED
      BY <3>2 DEF RoomNext
  <2>2. ASSUME NEW d \in Displays, NEW nals \in Pictures, Submit(d, nals) PROVE UNCHANGED vars
    BY <2>2 DEF Submit
  <2>3. CASE Drain
    BY <2>3 DEF Drain
  <2>4. CASE Arrive
    <3>1. Head(way) \in Stamped
      BY <2>4, ArriveKeepsPath DEF Stamped
    <3>2. w' = record(w, Head(way)) /\ seen' = Append(seen, Head(way))
      BY <2>4 DEF Arrive
    <3>3. Recorded(Head(way))
      BY <3>2 DEF Recorded
    <3> QED
      BY <3>1, <3>3 DEF RoomNext
  <2>5. CASE UNCHANGED path
    BY <2>5 DEF path
  <2> QED
    BY <2>1, <2>2, <2>3, <2>4, <2>5 DEF NalNext
<1> QED
  BY <1>1, <1>2, PathInvariant, PTL DEF NalSpec, RoomSpec

\* A room that a Windows capturer feeds replays what a viewer can decode, even
\* when a sample was misread or a drain failed.
THEOREM CapturedReplaysAreDecodable == NalSpec => []ReplayIsDecodable
  BY PathFeedsRoom, WindowInvariant, ReplayDecodes, PTL

\* Its window, too, is that function of what it has seen.
THEOREM CapturedWindowFollowsHistory == NalSpec => []WindowMatchesHistory
  BY PathFeedsRoom, RoomFollowsHistory, PTL
-----------------------------------------------------------------------------
(* What a window keeps after its key frame.                                *)

\* The key frame was seen, and every frame seen after it is a parameter set or
\* kept behind it.
Followed(c, key, since, s) ==
  \E a \in 1..Len(s) :
    /\ key = s[a]
    /\ \A j \in 1..Len(s) :
         j > a => \/ classify_nal(s[j], c).kind = "ParamSet"
                  \/ \E i \in 1..Len(since) : since[i] = s[j]

KeyFollowed == w.keyframe # << >> => Followed(w.codec, w.keyframe[1], w.since_keyframe, seen)

LEMMA FollowedByOne ==
  ASSUME NEW c, NEW key, NEW since, NEW s \in Seq(Stamped), NEW f \in Stamped,
         NEW longer, Followed(c, key, since, s),
         \A i \in 1..Len(since) : i \in 1..Len(longer) /\ longer[i] = since[i],
         \/ classify_nal(f, c).kind = "ParamSet"
         \/ \E i \in 1..Len(longer) : longer[i] = f
  PROVE  Followed(c, key, longer, Append(s, f))
<1> DEFINE z == Append(s, f)
           n == Len(s)
<1>1. n \in Nat /\ Len(z) = n + 1 /\ z[n + 1] = f /\ \A j \in 1..n : z[j] = s[j]
  OBVIOUS
<1>2. PICK a \in 1..n : /\ key = s[a]
                        /\ \A j \in 1..n :
                             j > a => \/ classify_nal(s[j], c).kind = "ParamSet"
                                      \/ \E i \in 1..Len(since) : since[i] = s[j]
  BY DEF Followed
<1> HIDE DEF z, n
<1>3. ASSUME NEW j \in 1..Len(z), j > a
      PROVE  \/ classify_nal(z[j], c).kind = "ParamSet"
             \/ \E i \in 1..Len(longer) : longer[i] = z[j]
  <2>1. CASE j = n + 1
    BY <1>1, <2>1
  <2>2. CASE j # n + 1
    <3>1. j \in 1..n
      BY <1>1, <2>2
    <3>2. z[j] = s[j]
      BY <1>1, <3>1
    <3>3. CASE classify_nal(s[j], c).kind = "ParamSet"
      BY <3>2, <3>3
    <3>4. CASE \E i \in 1..Len(since) : since[i] = s[j]
      BY <3>2, <3>4
    <3> QED
      BY <1>2, <1>3, <3>1, <3>3, <3>4
  <2> QED
    BY <2>1, <2>2
<1>4. a \in 1..Len(z) /\ key = z[a]
  BY <1>1, <1>2
<1>5. Followed(c, key, longer, z)
  BY <1>3, <1>4 DEF Followed
<1> QED
  BY <1>5 DEF z

LEMMA RoomKeepsFollowers == RoomSpec => []KeyFollowed
<1>1. Init => KeyFollowed
  BY DEF Init, EmptyWindow, KeyFollowed
<1>2. WindowInv /\ KeyFollowed /\ [RoomNext]_vars => KeyFollowed'
  <2> SUFFICES ASSUME WindowInv, KeyFollowed, [RoomNext]_vars, w'.keyframe # << >>
               PROVE  Followed(w'.codec, w'.keyframe[1], w'.since_keyframe, seen')
    BY DEF KeyFollowed
  <2>1. CASE UNCHANGED vars
    BY <2>1 DEF vars, KeyFollowed
  <2>2. ASSUME NEW f \in Stamped, Recorded(f)
        PROVE  Followed(w'.codec, w'.keyframe[1], w'.since_keyframe, seen')
    <3> DEFINE class == classify_nal(f, w.codec)
               D == w.since_keyframe
    <3>1. /\ w' = record(w, f) /\ seen' = Append(seen, f)
          /\ w \in RoomWindow /\ seen \in Seq(Stamped)
      BY <2>2 DEF Recorded, WindowInv, RoomTypeOK
    <3>2. Effects(w, f, class, w')
      BY <3>1, RecordEffects
    <3>3. class.kind \in {"ParamSet", "Keyframe"} \cup Others
      <4>1. w.codec \in Codec \cup {None}
        BY <3>1 DEF RoomWindow
      <4> QED
        BY <4>1, Classes DEF Others
    <3>4. /\ D \in Seq(Stamped)
          /\ w.codec = None => w.keyframe = << >>
      BY <3>1 DEF RoomWindow, WindowInv, CacheOK
    <3>5. w.keyframe # << >> => Followed(w.codec, w.keyframe[1], D, seen)
      BY DEF KeyFollowed
    <3> HIDE DEF D
    <3>6. CASE class.kind = "ParamSet"
      <4>1. /\ w'.codec = IF w.codec = None THEN class.codec ELSE w.codec
            /\ w'.keyframe = w.keyframe /\ w'.since_keyframe = D
        BY <3>2, <3>6 DEF Effects, D
      <4>2. w'.codec = w.codec /\ w.keyframe # << >>
        BY <3>4, <4>1
      <4>3. Followed(w.codec, w.keyframe[1], D, Append(seen, f))
        BY <3>1, <3>5, <3>6, <4>2, FollowedByOne
      <4> QED
        BY <3>1, <4>1, <4>2, <4>3
    <3>7. CASE class.kind = "Keyframe"
      <4>1. w'.keyframe = <<f>>
        BY <3>2, <3>7 DEF Effects
      <4> DEFINE n == Len(seen)
      <4>2. n \in Nat /\ Len(seen') = n + 1 /\ seen'[n + 1] = f
        BY <3>1
      <4> HIDE DEF n
      <4>3. n + 1 \in 1..Len(seen') /\ \A j \in 1..Len(seen') : ~(j > n + 1)
        BY <4>2
      <4>4. w'.keyframe[1] = seen'[n + 1]
        BY <4>1, <4>2
      <4> QED
        BY <4>3, <4>4 DEF Followed
    <3>8. CASE class.kind \in Others
      <4>1. class.kind # "ParamSet"
        BY <3>8 DEF Others
      <4>2. w'.codec = w.codec
        BY <3>2, <4>1 DEF Effects
      <4>3. w.keyframe # << >>
        BY <3>2, <3>8 DEF Effects
      <4>4. w'.keyframe = w.keyframe /\ w'.since_keyframe = Append(D, f)
        BY <3>2, <3>8, <4>3 DEF Effects, D
      <4>5. PICK longer : longer = Append(D, f)
        OBVIOUS
      <4>6. /\ \A i \in 1..Len(D) : i \in 1..Len(longer) /\ longer[i] = D[i]
            /\ \E i \in 1..Len(longer) : longer[i] = f
        <5>1. Len(D) \in Nat /\ Len(longer) = Len(D) + 1 /\ longer[Len(D) + 1] = f
              /\ \A i \in 1..Len(D) : longer[i] = D[i]
          BY <3>4, <4>5
        <5>2. Len(D) + 1 \in 1..Len(longer) /\ \A i \in 1..Len(D) : i \in 1..Len(longer)
          BY <5>1
        <5> QED
          BY <5>1, <5>2
      <4>7. Followed(w.codec, w.keyframe[1], longer, Append(seen, f))
        BY <3>1, <3>5, <4>3, <4>6, FollowedByOne
      <4> QED
        BY <3>1, <4>2, <4>4, <4>5, <4>7
    <3> QED
      BY <3>3, <3>6, <3>7, <3>8
  <2> QED
    BY <2>1, <2>2 DEF RoomNext
<1> QED
  BY <1>1, <1>2, WindowInvariant, PTL DEF RoomSpec

\* A picture has a slice, under the codec of a room that takes a NAL of this
\* encoder for a key frame.
LEMMA SliceOf ==
  ASSUME NEW c \in Codec, NEW nals \in Pictures, NEW others \in Pictures,
         NEW o \in 1..Len(others), KindUnder(c, others[o].first) = "Keyframe"
  PROVE  \E k \in 1..Len(nals) : KindUnder(c, nals[k].first) # "ParamSet"
<1>1. \A b : KindUnder(c, b) = IF c = "Hevc" THEN HevcKind(b).kind ELSE H264Kind(b).kind
  BY DEF KindUnder
<1>2. CASE c = "Hevc"
  <2>1. HevcKind(others[o].first).kind = "Keyframe"
    BY <1>1, <1>2
  <2>2. \E k \in 1..Len(nals) : HevcKind(nals[k].first).kind # "ParamSet"
    BY <2>1, SlicesAssumption
  <2> QED
    BY <1>1, <1>2, <2>2
<1>3. CASE c # "Hevc"
  <2>1. \E k \in 1..Len(nals) : H264Kind(nals[k].first).kind # "ParamSet"
    BY SlicesAssumption
  <2> QED
    BY <1>1, <1>3, <2>1
<1> QED
  BY <1>2, <1>3

LEMMA KindOfReal ==
  ASSUME NEW f \in StampedNal, NEW c \in Codec, NEW d \in Nat, NEW units, NEW gone,
         Real(f, d, units, gone), f.nal # 0
  PROVE  /\ f.unit \in 1..d /\ f.nal \in 1..Count(units[f.unit])
         /\ \A kind \in {"ParamSet", "Keyframe"} :
              classify_nal(f, c).kind = kind
                <=> KindUnder(c, units[f.unit].nals[f.nal].first) = kind
<1>1. /\ f.unit \in 1..d /\ f.nal \in 1..Count(units[f.unit])
      /\ f.first = units[f.unit].nals[f.nal].first
  BY DEF Real
<1>2. f.first # None
  <2>1. f.first \in 0..255
    BY DEF StampedNal
  <2> QED
    BY <2>1, NoneAssumption
<1>3. f \in Stamped
  BY DEF Stamped
<1>4. \A kind \in {"ParamSet", "Keyframe"} :
        classify_nal(f, c).kind = kind <=> f.first # None /\ KindUnder(c, f.first) = kind
  BY <1>3, KnownCodec, Zenon
<1> QED
  BY <1>1, <1>2, <1>4

\* A viewer that starts on the window has every picture after its key frame, but
\* for the ones that were misread or lost on the way.
THEOREM NoPictureIsMissing == NalSpec => []NoPictureMissing
<1>1. PathInv /\ WindowInv /\ KeyFollowed => NoPictureMissing
  <2> DEFINE K == w.keyframe
             D == w.since_keyframe
             kept == K \o D
             c == w.codec
             s == seen \o way
             L == Len(seen)
  <2> SUFFICES ASSUME PathInv, WindowInv, KeyFollowed, format # None, K # << >>, Whole(kept[1]),
                      NEW i \in kept[1].unit..seen[L].unit - 1, ~Gone(i)
               PROVE  \E j \in 1..Len(kept) : kept[j].unit = i
    BY Zenon DEF NoPictureMissing
  <2>1. /\ made \in Seq(AccessUnit) /\ \A m \in 1..Len(made) : made[m].nals \in Pictures
        /\ drained \in Nat /\ drained <= Len(made)
        /\ seen \in Seq(StampedNal) /\ way \in Seq(StampedNal)
        /\ Good(s, drained, made, lost)
    BY DEF PathInv
  <2>2. /\ c \in Codec /\ K \in Seq(Stamped) /\ D \in Seq(Stamped) /\ Len(K) = 1
        /\ classify_nal(K[1], c).kind = "Keyframe"
    <3> DEFINE n == Len(K)
    <3>1. /\ K \in Seq(Stamped) /\ D \in Seq(Stamped) /\ n <= 1 /\ c # None
          /\ \A m \in 1..n : classify_nal(K[m], c).kind = "Keyframe"
          /\ c \in Codec \cup {None}
      BY DEF WindowInv, RoomTypeOK, RoomWindow, CacheOK, KindOf
    <3> HIDE DEF K, D, c
    <3>2. n \in Nat /\ n # 0
      BY <3>1, EmptySeq
    <3> HIDE DEF n
    <3>3. n = 1 /\ 1 \in 1..n
      BY <3>1, <3>2
    <3> QED
      BY <3>1, <3>3 DEF n
  <2>3. Followed(c, K[1], D, seen)
    BY Zenon DEF KeyFollowed
  <2> HIDE DEF K, D, c
  <2>4. IsJoined(Stamped, K, D, kept)
    BY <2>2, JoinedIs
  <2>5. IsJoined(StampedNal, seen, way, s)
    BY <2>1, JoinedIs
  <2> HIDE DEF kept, s
  <2>6. /\ 1 \in 1..Len(kept) /\ kept[1] = K[1]
        /\ \A m \in 1..Len(D) : 1 + m \in 1..Len(kept) /\ kept[1 + m] = D[m]
    <3>1. 1 \in 1..Len(K)
      BY <2>2
    <3> QED
      BY <2>2, <2>4, <3>1 DEF IsJoined
  <2>7. /\ L \in Nat /\ s \in Seq(StampedNal) /\ Len(s) \in Nat
        /\ \A j \in 1..L : j \in 1..Len(s) /\ s[j] = seen[j]
    <3>1. s \in Seq(StampedNal) /\ L \in Nat /\ \A j \in 1..L : j \in 1..Len(s) /\ s[j] = seen[j]
      BY <2>5 DEF IsJoined
    <3>2. Len(s) \in Nat
      BY <3>1
    <3> QED
      BY <3>1, <3>2
  <2>8. PICK a \in 1..L :
          /\ K[1] = seen[a]
          /\ \A j \in 1..L : j > a => \/ classify_nal(seen[j], c).kind = "ParamSet"
                                      \/ \E m \in 1..Len(D) : D[m] = seen[j]
    BY <2>3 DEF Followed
  <2> HIDE DEF L
  <2>9. /\ \A j \in 1..Len(s) : Real(s[j], drained, made, lost)
        /\ \A j, m \in 1..Len(s) : j < m => Before(s[j], s[m], made)
        /\ \A m \in 1..drained : \A k \in 1..Count(made[m]) :
             m \in lost \/ Ambiguous(made[m]) \/ There(s, m, k)
    BY <2>1 DEF Good
  <2>10. \A j \in 1..Len(s) : s[j] \in StampedNal /\ s[j].unit \in 1..drained
    BY <2>7, <2>9 DEF Real
  <2>11. a \in 1..Len(s) /\ s[a] = K[1] /\ kept[1] = s[a] /\ a \in Nat /\ a <= L
    BY <2>6, <2>7, <2>8
  <2>12. L \in 1..L /\ L \in 1..Len(s) /\ s[L] = seen[L]
    <3>1. L \in 1..L
      BY <2>7, <2>11, <2>8
    <3> QED
      BY <2>7, <3>1
  <2>13. /\ s[a].unit \in 1..drained /\ s[L].unit \in 1..drained
         /\ i \in s[a].unit..s[L].unit - 1
    BY <2>10, <2>11, <2>12
  <2>14. /\ i \in Nat /\ i >= s[a].unit /\ i < s[L].unit /\ i \in 1..drained
         /\ i \in 1..Len(made) /\ s[a].unit \in 1..Len(made)
    <3> DEFINE x == s[a].unit
               y == s[L].unit
    <3>1. Len(made) \in Nat
      BY <2>1
    <3>2. x \in 1..drained /\ y \in 1..drained /\ i \in x..y - 1
      BY <2>13
    <3> HIDE DEF x, y
    <3>3. /\ i \in Nat /\ i >= x /\ i < y /\ i \in 1..drained
          /\ i \in 1..Len(made) /\ x \in 1..Len(made)
      BY <2>1, <3>1, <3>2
    <3> QED
      BY <3>3 DEF x, y
  <2>15. CASE i = s[a].unit
    BY <2>6, <2>11, <2>15
  <2>16. CASE i # s[a].unit
    <3>1. /\ s[a].nal \in 1..Count(made[s[a].unit])
          /\ KindUnder(c, made[s[a].unit].nals[s[a].nal].first) = "Keyframe"
      <4>1. s[a] \in StampedNal /\ Real(s[a], drained, made, lost) /\ s[a].nal # 0
        BY <2>9, <2>10, <2>11 DEF Whole
      <4>2. classify_nal(s[a], c).kind = "Keyframe"
        BY <2>2, <2>11
      <4> QED
        BY <2>1, <2>2, <4>1, <4>2, KindOfReal
    <3>2. PICK k \in 1..Count(made[i]) : KindUnder(c, made[i].nals[k].first) # "ParamSet"
      <4> DEFINE nals == made[i].nals
                 others == made[s[a].unit].nals
                 o == s[a].nal
      <4>1. nals \in Pictures /\ others \in Pictures
        BY <2>1, <2>14
      <4>2. o \in 1..Len(others) /\ KindUnder(c, others[o].first) = "Keyframe"
        BY <3>1 DEF Count
      <4> HIDE DEF nals, others, o
      <4>3. \E k \in 1..Len(nals) : KindUnder(c, nals[k].first) # "ParamSet"
        BY <2>2, <4>1, <4>2, SliceOf
      <4> QED
        BY <4>3 DEF nals, Count
    <3>3. There(s, i, k)
      <4>1. i \notin lost /\ ~Ambiguous(made[i])
        BY Zenon DEF Gone, Misread, Ambiguous
      <4> QED
        BY <2>9, <2>14, <4>1
    <3>4. PICK j \in 1..Len(s) : s[j].unit = i /\ s[j].nal = k
      BY <3>3 DEF There
    <3>5. a < j
      <4>1. j # a
        BY <2>16, <3>4
      <4>2. ~(j < a)
        <5> SUFFICES ASSUME j < a PROVE FALSE
          OBVIOUS
        <5>1. Before(s[j], s[a], made)
          BY <2>9, <2>11
        <5>2. s[j].unit < s[a].unit \/ s[j].unit = s[a].unit
          BY <5>1 DEF Before
        <5>3. s[a].unit \in Nat
          BY <2>13
        <5> QED
          BY <2>14, <2>16, <3>4, <5>2, <5>3
      <4>3. j \in Nat
        BY <2>7
      <4> QED
        BY <2>11, <4>1, <4>2, <4>3
    <3>6. j \in 1..L
      <4>1. ~(L < j)
        <5> SUFFICES ASSUME L < j PROVE FALSE
          OBVIOUS
        <5>1. Before(s[L], s[j], made)
          BY <2>9, <2>12
        <5>2. s[L].unit < s[j].unit \/ s[L].unit = s[j].unit
          BY <5>1 DEF Before
        <5>3. s[L].unit \in Nat
          BY <2>13
        <5> QED
          BY <2>14, <3>4, <5>2, <5>3
      <4> QED
        BY <2>7, <4>1
    <3>7. classify_nal(s[j], c).kind # "ParamSet"
      <4>1. s[j] \in StampedNal /\ Real(s[j], drained, made, lost)
        BY <2>9, <2>10
      <4>2. s[j].nal # 0
        <5>1. k # 0
          OBVIOUS
        <5> QED
          BY <3>4, <5>1
      <4>3. classify_nal(s[j], c).kind = "ParamSet"
              <=> KindUnder(c, made[s[j].unit].nals[s[j].nal].first) = "ParamSet"
        BY <2>1, <2>2, <4>1, <4>2, KindOfReal
      <4> QED
        BY <3>2, <3>4, <4>3
    <3>8. PICK m \in 1..Len(D) : D[m] = seen[j]
      <4>1. seen[j] = s[j]
        BY <2>7, <3>6
      <4> QED
        BY <2>8, <3>5, <3>6, <3>7, <4>1
    <3>9. kept[1 + m].unit = i /\ 1 + m \in 1..Len(kept)
      BY <2>6, <2>7, <3>4, <3>6, <3>8
    <3> QED
      BY <3>9
  <2> QED
    BY <2>15, <2>16
<1> QED
  BY <1>1, PathInvariant, PathFeedsRoom, WindowInvariant, RoomKeepsFollowers, PTL
=============================================================================
