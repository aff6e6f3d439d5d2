-------------------------- MODULE StreamRoomProofs --------------------------
(***************************************************************************)
(* Proofs about the rooms of xyzen-stream, for any number of publishers,   *)
(* viewers and frames, any capacity of the channel and any caps.           *)
(***************************************************************************)
EXTENDS StreamRoom, SequenceTheorems, TLAPS

\* What an encoder emits: a key frame is slice 0 of its gop, a delta a later one.
Nal == {f \in Frame : /\ f.first = Byte[Uses[f.pub]][f.kind]
                      /\ f.kind = "key" => f.idx = 0
                      /\ f.kind = "delta" => f.idx >= 1}

StreamWindow == [codec : Codec \cup {None},
                 param_sets : [ParamType -> Nal \cup {None}],
                 keyframe : Seq(Nal), keyframe_total_bytes : Nat,
                 since_keyframe : Seq(Nal), since_keyframe_total_bytes : Nat]

EncoderState == [kind : {None, "ps", "key", "delta"}, gop : Nat, idx : Nat, sent : Nat]

\* What publishers work on, and what viewers do.
PublisherTypes ==
  /\ current \in {0} \cup Room
  /\ warmup \in [Room -> StreamWindow]
  /\ channel \in [Room -> Seq(Nal)] /\ recorded \in [Room -> Seq(Nal)]
  /\ pub \in [Publishers -> {"away", "recv", "send", "cleanup", "gone"}]
  /\ proom \in [Publishers -> {0} \cup Room]
  /\ frame \in [Publishers -> Nal \cup {None}]
  /\ enc \in [Publishers -> EncoderState]
  /\ \A p \in Publishers :
       /\ pub[p] # "away" => proom[p] \in Room
       /\ pub[p] = "send" => frame[p] \in Nal
       /\ enc[p].kind = None => enc[p].gop = 0
ViewerTypes ==
  /\ view \in [Viewers -> {"away", "room", "subscribed", "live", "closed"}]
  /\ vroom \in [Viewers -> {0} \cup Room]
  /\ next \in [Viewers -> Nat \ {0}]
  /\ replay \in [Viewers -> Seq(Nal)] /\ shown \in [Viewers -> Seq(Nal)]
  /\ client \in [Viewers -> {"up", "gone", "unacked", "dead"}]
  /\ missed \in [Viewers -> SUBSET Nal]
  /\ joined \in [Viewers -> Nat]
  /\ \A v \in Viewers :
       IF view[v] = "away" THEN next[v] = 1
       ELSE vroom[v] \in Room /\ next[v] <= Len(channel[vroom[v]]) + 1

-----------------------------------------------------------------------------
(* Frames and what a window makes of them.                                 *)

LEMMA Bytes ==
  /\ Byte["Hevc"]["ps"] = 64 /\ Byte["Hevc"]["key"] = 38 /\ Byte["Hevc"]["delta"] = 2
  /\ Byte["H264"]["ps"] = 103 /\ Byte["H264"]["key"] = 101 /\ Byte["H264"]["delta"] = 65
BY DEF Byte

LEMMA NalIs ==
  ASSUME NEW p \in Publishers, NEW kind \in {"ps", "key", "delta"},
         NEW gop \in Nat, NEW idx \in Nat,
         kind = "key" => idx = 0, kind = "delta" => idx >= 1
  PROVE  LET f == NewFrame(p, kind, gop, idx)
         IN f \in Nal /\ f.pub = p /\ f.kind = kind /\ f.gop = gop /\ f.idx = idx
<1>1. Uses[p] = "Hevc" \/ Uses[p] = "H264"
  BY StreamAssumption DEF Codec
<1>2. Byte[Uses[p]][kind] \in 0..255
  BY <1>1, Bytes
<1> QED
  BY <1>2 DEF NewFrame, Nal, Frame

LEMMA NalFields ==
  ASSUME NEW f \in Nal
  PROVE  /\ f.pub \in Publishers /\ f.kind \in {"ps", "key", "delta"}
         /\ f.gop \in Nat /\ f.idx \in Nat /\ f.len = 1
         /\ f.first \in 0..255 /\ f.first # None
         /\ f.kind = "key" => f.idx = 0
         /\ f.kind = "delta" => f.idx >= 1
         /\ Uses[f.pub] \in Codec
BY StreamAssumption DEF Nal, Frame

LEMMA Classes ==
  ASSUME NEW f \in Nal, NEW c \in Codec \cup {None}
  PROVE  LET class == classify_nal(f, c)
         IN /\ class.kind \in {"ParamSet", "Keyframe", "Delta", "Unknown"}
            /\ class.kind = "ParamSet" => class.codec \in Codec /\ class.nal_type \in ParamType
<1> USE NalFields, StreamAssumption DEF ParamSet, Kind, Codec
<1>1. CASE c = "Hevc"
  BY <1>1 DEF classify_nal, HevcKind, ParamType
<1>2. CASE c = "H264"
  BY <1>2 DEF classify_nal, H264Kind, ParamType
<1>3. CASE c = None
  BY <1>3 DEF classify_nal, Discover, ParamType
<1> QED
  BY <1>1, <1>2, <1>3

\* Under the codec of its publisher a frame is taken for what it is, and a
\* parameter set also tells an unlocked room that codec.
LEMMA Classified ==
  ASSUME NEW f \in Nal
  PROVE  /\ classify_nal(f, Uses[f.pub]).kind =
               IF f.kind = "ps" THEN "ParamSet"
               ELSE IF f.kind = "key" THEN "Keyframe" ELSE "Delta"
         /\ f.kind = "ps" => /\ classify_nal(f, None).kind = "ParamSet"
                             /\ classify_nal(f, None).codec = Uses[f.pub]
<1> USE NalFields, StreamAssumption DEF ParamSet, Kind, Codec
<1>1. f.first = Byte[Uses[f.pub]][f.kind]
  BY DEF Nal
<1>2. CASE Uses[f.pub] = "Hevc"
  <2>1. CASE f.kind = "ps"
    <3>1. f.first = 64
      BY <1>1, <1>2, <2>1, Bytes
    <3> QED
      BY <1>2, <2>1, <3>1 DEF classify_nal, HevcKind, Discover, hevc_type, HevcParam
  <2>2. CASE f.kind = "key"
    <3>1. f.first = 38
      BY <1>1, <1>2, <2>2, Bytes
    <3> QED
      BY <1>2, <2>2, <3>1 DEF classify_nal, HevcKind, hevc_type, HevcParam
  <2>3. CASE f.kind = "delta"
    <3>1. f.first = 2
      BY <1>1, <1>2, <2>3, Bytes
    <3> QED
      BY <1>2, <2>3, <3>1 DEF classify_nal, HevcKind, hevc_type, HevcParam
  <2> QED
    BY <2>1, <2>2, <2>3
<1>3. CASE Uses[f.pub] = "H264"
  <2>1. CASE f.kind = "ps"
    <3>1. f.first = 103
      BY <1>1, <1>3, <2>1, Bytes
    <3> QED
      BY <1>3, <2>1, <3>1
         DEF classify_nal, H264Kind, Discover, h264_type, hevc_type, HevcParam, H264Param
  <2>2. CASE f.kind = "key"
    <3>1. f.first = 101
      BY <1>1, <1>3, <2>2, Bytes
    <3> QED
      BY <1>3, <2>2, <3>1 DEF classify_nal, H264Kind, h264_type, H264Param
  <2>3. CASE f.kind = "delta"
    <3>1. f.first = 65
      BY <1>1, <1>3, <2>3, Bytes
    <3> QED
      BY <1>3, <2>3, <3>1 DEF classify_nal, H264Kind, h264_type, H264Param
  <2> QED
    BY <2>1, <2>2, <2>3
<1> QED
  BY <1>2, <1>3, NalFields DEF Codec

\* What record does to a window, by the class of the frame.
LEMMA RecordedAs ==
  ASSUME NEW w \in StreamWindow, NEW f \in Nal
  PROVE  LET x == record(w, f)
             class == classify_nal(f, w.codec)
         IN /\ x \in StreamWindow
            /\ class.kind = "ParamSet" =>
                 /\ x.codec = IF w.codec = None THEN class.codec ELSE w.codec
                 /\ \A t \in ParamType : x.param_sets[t] \in {w.param_sets[t], f}
                 /\ x.keyframe = w.keyframe /\ x.since_keyframe = w.since_keyframe
            /\ class.kind # "ParamSet" => x.codec = w.codec /\ x.param_sets = w.param_sets
            /\ class.kind = "Keyframe" =>
                 x.keyframe \in {<< >>, <<f>>} /\ x.since_keyframe = << >>
            /\ class.kind \in {"Delta", "Unknown"} =>
                 \/ /\ x.keyframe = w.keyframe /\ x.since_keyframe = w.since_keyframe
                    /\ w.keyframe = << >>
                 \/ x.keyframe = << >> /\ x.since_keyframe = << >>
                 \/ /\ x.keyframe = w.keyframe /\ w.keyframe # << >>
                    /\ x.since_keyframe = Append(w.since_keyframe, f)
<1> DEFINE class == classify_nal(f, w.codec)
           x == record(w, f)
           n == w.since_keyframe_total_bytes + f.len
           nothing == << >>
<1>1. /\ class.kind \in {"ParamSet", "Keyframe", "Delta", "Unknown"}
      /\ class.kind = "ParamSet" => class.codec \in Codec /\ class.nal_type \in ParamType
  BY Classes DEF StreamWindow
<1>2. f.len = 1 /\ n \in Nat /\ w.codec \in Codec \cup {None}
  BY NalFields DEF StreamWindow
<1>3. nothing \in Seq(Nal) /\ <<f>> \in Seq(Nal) /\ Append(w.since_keyframe, f) \in Seq(Nal)
  BY DEF StreamWindow
<1>4. x = CASE class.kind = "ParamSet" -> RecordParamSet(w, f, class)
            [] class.kind = "Keyframe" -> RecordKeyframe(w, f)
            [] class.kind \in {"Delta", "Unknown"} -> RecordDelta(w, f)
  BY DEF record
<1>5. n = w.since_keyframe_total_bytes + f.len
  OBVIOUS
<1>6. nothing = << >>
  OBVIOUS
<1> HIDE DEF class, x, n, nothing
<1>7. CASE class.kind = "ParamSet"
  <2> DEFINE c == IF w.codec = None THEN class.codec ELSE w.codec
             t == class.nal_type
  <2>1. c \in Codec \cup {None} /\ t \in ParamType
    BY <1>1, <1>2, <1>7
  <2>2. x = [w EXCEPT !.codec = c, !.param_sets[t] = f]
    BY <1>4, <1>7 DEF RecordParamSet
  <2>3. c = IF w.codec = None THEN class.codec ELSE w.codec
    OBVIOUS
  <2> HIDE DEF c, t
  <2>4. /\ x.codec = c /\ x.param_sets = [w.param_sets EXCEPT ![t] = f]
        /\ x.keyframe = w.keyframe /\ x.since_keyframe = w.since_keyframe
        /\ x \in StreamWindow
    BY <2>1, <2>2 DEF StreamWindow
  <2>5. \A u \in ParamType : x.param_sets[u] \in {w.param_sets[u], f}
    BY <2>4 DEF StreamWindow
  <2> QED
    BY <1>7, <2>3, <2>4, <2>5 DEF x, class
<1>8. CASE class.kind = "Keyframe"
  <2> DEFINE kept == f.len <= WARMUP_KEY_MAX_BYTES
             key == IF kept THEN <<f>> ELSE nothing
             size == IF kept THEN f.len ELSE 0
  <2>1. key \in Seq(Nal) /\ key \in {nothing, <<f>>} /\ size \in Nat
    BY <1>2, <1>3
  <2>2. x = [w EXCEPT !.keyframe = key, !.keyframe_total_bytes = size,
                      !.since_keyframe = nothing, !.since_keyframe_total_bytes = 0]
    BY <1>4, <1>6, <1>8 DEF RecordKeyframe
  <2> HIDE DEF key, size
  <2>3. /\ x.codec = w.codec /\ x.param_sets = w.param_sets
        /\ x.keyframe = key /\ x.since_keyframe = nothing /\ x \in StreamWindow
    BY <1>3, <2>1, <2>2 DEF StreamWindow
  <2> QED
    BY <1>6, <1>8, <2>1, <2>3 DEF x, class
<1>9. CASE class.kind \in {"Delta", "Unknown"}
  <2>1. x = RecordDelta(w, f)
    BY <1>4, <1>9
  <2>2. CASE w.keyframe = << >>
    <3>1. x = w
      BY <2>1, <2>2 DEF RecordDelta
    <3> QED
      BY <1>9, <2>2, <3>1 DEF x, class
  <2>3. CASE w.keyframe # << >> /\ n > WARMUP_DELTA_MAX_BYTES
    <3>0. ~(n <= WARMUP_DELTA_MAX_BYTES)
      BY <1>2, <2>3, CapsAssumption
    <3>1. x = [w EXCEPT !.keyframe = nothing, !.keyframe_total_bytes = 0,
                        !.since_keyframe = nothing, !.since_keyframe_total_bytes = 0]
      BY <1>5, <1>6, <2>1, <2>3, <3>0, Zenon DEF RecordDelta
    <3>2. /\ x.codec = w.codec /\ x.param_sets = w.param_sets
          /\ x.keyframe = nothing /\ x.since_keyframe = nothing /\ x \in StreamWindow
      BY <1>3, <3>1 DEF StreamWindow
    <3> QED
      BY <1>6, <1>9, <3>2 DEF x, class
  <2>4. CASE w.keyframe # << >> /\ n <= WARMUP_DELTA_MAX_BYTES
    <3> DEFINE longer == Append(w.since_keyframe, f)
    <3>0. ~(n > WARMUP_DELTA_MAX_BYTES)
      BY <1>2, <2>4, CapsAssumption
    <3>1. x = [w EXCEPT !.since_keyframe = longer, !.since_keyframe_total_bytes = n]
      BY <1>5, <2>1, <2>4, <3>0, Zenon DEF RecordDelta
    <3>2. longer = Append(w.since_keyframe, f)
      OBVIOUS
    <3> HIDE DEF longer
    <3>3. /\ x.codec = w.codec /\ x.param_sets = w.param_sets
          /\ x.keyframe = w.keyframe /\ x.since_keyframe = longer /\ x \in StreamWindow
      BY <1>2, <1>3, <3>1, <3>2 DEF StreamWindow
    <3> QED
      BY <1>9, <2>4, <3>2, <3>3 DEF x, class
  <2>5. n > WARMUP_DELTA_MAX_BYTES \/ n <= WARMUP_DELTA_MAX_BYTES
    BY <1>2, CapsAssumption
  <2> QED
    BY <2>2, <2>3, <2>4, <2>5, Zenon
<1> QED
  BY <1>1, <1>7, <1>8, <1>9

\* A snapshot is the cached parameter sets followed by the key frame and what
\* came after it, or empty.
LEMMA Snapshots ==
  ASSUME NEW w \in StreamWindow
  PROVE  /\ CachedParams(w) \in Seq(Nal)
         /\ \A i \in 1..Len(CachedParams(w)) :
              \E t \in ParamType : w.param_sets[t] # None /\ CachedParams(w)[i] = w.param_sets[t]
         /\ snapshot(w) \in Seq(Nal)
<1> DEFINE cached == {w.param_sets[t] : t \in {u \in ParamType : w.param_sets[u] # None}}
           One(t) == CachedParam(w, t)
<1>1. ASSUME NEW t \in ParamType PROVE One(t) \in Seq(cached)
  <2>1. CASE w.param_sets[t] = None
    BY <2>1 DEF CachedParam
  <2>2. CASE w.param_sets[t] # None
    <3> DEFINE y == w.param_sets[t]
    <3>1. y \in cached /\ One(t) = <<y>>
      BY <2>2 DEF CachedParam
    <3> HIDE DEF y, cached, One
    <3> QED
      BY <3>1
  <2> QED
    BY <2>1, <2>2
<1>2. /\ 7 \in ParamType /\ 8 \in ParamType /\ 32 \in ParamType
      /\ 33 \in ParamType /\ 34 \in ParamType
  BY DEF ParamType, H264Param, HevcParam
<1>3. cached \subseteq Nal
  BY DEF StreamWindow
<1>4. CachedParams(w) = One(7) \o One(8) \o One(32) \o One(33) \o One(34)
  BY DEF CachedParams
<1>5. \A g \in cached : \E t \in ParamType : w.param_sets[t] # None /\ g = w.param_sets[t]
  OBVIOUS
<1> HIDE DEF cached, One
<1>6. CachedParams(w) \in Seq(cached)
  BY <1>1, <1>2, <1>4, ConcatProperties
<1>7. CachedParams(w) \in Seq(Nal)
  BY <1>3, <1>6
<1>8. \A i \in 1..Len(CachedParams(w)) : CachedParams(w)[i] \in cached
  BY <1>6, ElementOfSeq
<1>9. w.keyframe \in Seq(Nal) /\ w.since_keyframe \in Seq(Nal)
  BY DEF StreamWindow
<1>10. snapshot(w) \in Seq(Nal)
  <2>1. CachedParams(w) \o w.keyframe \in Seq(Nal)
    BY <1>7, <1>9, ConcatProperties
  <2>2. CachedParams(w) \o w.keyframe \o w.since_keyframe \in Seq(Nal)
    BY <1>9, <2>1, ConcatProperties
  <2> QED
    BY <2>2 DEF snapshot
<1> QED
  BY <1>5, <1>7, <1>8, <1>10
-----------------------------------------------------------------------------
(* Sequences and what is in them.                                          *)

LEMMA ElementsAre ==
  ASSUME NEW S, NEW s \in Seq(S)
  PROVE  /\ Elements(<< >>) = {} /\ Elements(s) \subseteq S
         /\ \A x \in S : Elements(<<x>>) = {x}
BY DEF Elements

LEMMA ElementsOfAppend ==
  ASSUME NEW S, NEW s \in Seq(S), NEW x \in S
  PROVE  Elements(Append(s, x)) = Elements(s) \cup {x}
<1>1. Len(Append(s, x)) = Len(s) + 1 /\ Append(s, x)[Len(s) + 1] = x
  OBVIOUS
<1>2. \A i \in 1..Len(s) : Append(s, x)[i] = s[i]
  OBVIOUS
<1>3. Len(s) \in Nat
  OBVIOUS
<1>4. \A i \in 1..Len(s) + 1 : i \in 1..Len(s) \/ i = Len(s) + 1
  BY <1>3
<1>5. Len(s) + 1 \in 1..Len(s) + 1 /\ \A i \in 1..Len(s) : i \in 1..Len(s) + 1
  BY <1>3
<1> QED
  BY <1>1, <1>2, <1>4, <1>5 DEF Elements

LEMMA ElementsOfConcat ==
  ASSUME NEW S, NEW s \in Seq(S), NEW t \in Seq(S)
  PROVE  Elements(s \o t) = Elements(s) \cup Elements(t)
<1>1. Len(s \o t) = Len(s) + Len(t) /\ Len(s) \in Nat /\ Len(t) \in Nat
  OBVIOUS
<1>2. /\ \A i \in 1..Len(s) : (s \o t)[i] = s[i]
      /\ \A i \in 1..Len(t) : (s \o t)[Len(s) + i] = t[i]
  BY ConcatProperties
<1>3. \A i \in 1..Len(s) + Len(t) : i \in 1..Len(s) \/ \E j \in 1..Len(t) : i = Len(s) + j
  <2> TAKE i \in 1..Len(s) + Len(t)
  <2>1. CASE i <= Len(s)
    BY <1>1, <2>1
  <2>2. CASE i > Len(s)
    <3>1. i - Len(s) \in 1..Len(t) /\ i = Len(s) + (i - Len(s))
      BY <1>1, <2>2
    <3> QED
      BY <3>1
  <2> QED
    BY <1>1, <2>1, <2>2
<1>4. /\ \A i \in 1..Len(s) : i \in 1..Len(s \o t)
      /\ \A j \in 1..Len(t) : Len(s) + j \in 1..Len(s \o t)
  BY <1>1
<1>5. Elements(s \o t) \subseteq Elements(s) \cup Elements(t)
  BY <1>1, <1>2, <1>3 DEF Elements
<1>6. Elements(s) \subseteq Elements(s \o t)
  BY <1>2, <1>4 DEF Elements
<1>7. Elements(t) \subseteq Elements(s \o t)
  BY <1>2, <1>4 DEF Elements
<1> QED
  BY <1>5, <1>6, <1>7

LEMMA ElementsOfTail ==
  ASSUME NEW S, NEW s \in Seq(S), s # << >>
  PROVE  Elements(s) = {Head(s)} \cup Elements(Tail(s))
<1>1. /\ Len(s) \in Nat /\ Len(s) >= 1 /\ Len(Tail(s)) = Len(s) - 1 /\ Head(s) = s[1]
      /\ \A i \in 1..Len(Tail(s)) : Tail(s)[i] = s[i + 1]
  OBVIOUS
<1>2. /\ 1 \in 1..Len(s) /\ \A i \in 1..Len(Tail(s)) : i + 1 \in 1..Len(s)
      /\ \A i \in 1..Len(s) : i = 1 \/ (i - 1 \in 1..Len(Tail(s)) /\ (i - 1) + 1 = i)
  BY <1>1
<1>3. Elements(s) \subseteq {Head(s)} \cup Elements(Tail(s))
  BY <1>1, <1>2 DEF Elements
<1>4. Head(s) \in Elements(s) /\ Elements(Tail(s)) \subseteq Elements(s)
  BY <1>1, <1>2 DEF Elements
<1> QED
  BY <1>3, <1>4

\* The frames a receiver has before it, and what becomes of them when one is
\* received or sent.
LEMMA PendingIs ==
  ASSUME PublisherTypes, ViewerTypes, NEW v \in Viewers, view[v] # "away"
  PROVE  /\ vroom[v] \in Room /\ channel[vroom[v]] \in Seq(Nal)
         /\ Pending(v) \in Seq(Nal)
         /\ Len(Pending(v)) = Len(channel[vroom[v]]) - next[v] + 1
         /\ \A i \in 1..Len(Pending(v)) : Pending(v)[i] = channel[vroom[v]][next[v] + i - 1]
         /\ Elements(Pending(v)) \subseteq Elements(channel[vroom[v]])
<1> DEFINE c == channel[vroom[v]]
           n == next[v]
<1>1. c \in Seq(Nal) /\ n \in Nat \ {0} /\ n <= Len(c) + 1 /\ vroom[v] \in Room
  BY DEF PublisherTypes, ViewerTypes
<1>2. Pending(v) = SubSeq(c, n, Len(c))
  BY DEF Pending
<1> HIDE DEF c, n
<1>3. /\ SubSeq(c, n, Len(c)) \in Seq(Nal)
      /\ Len(SubSeq(c, n, Len(c))) = Len(c) - n + 1
      /\ \A i \in 1..Len(SubSeq(c, n, Len(c))) : SubSeq(c, n, Len(c))[i] = c[n + i - 1]
  BY <1>1
<1>4. Elements(SubSeq(c, n, Len(c))) \subseteq Elements(c)
  <2>1. \A i \in 1..Len(SubSeq(c, n, Len(c))) : n + i - 1 \in 1..Len(c)
    BY <1>1, <1>3
  <2> QED
    BY <1>3, <2>1 DEF Elements
<1> QED
  BY <1>1, <1>2, <1>3, <1>4 DEF c, n
-----------------------------------------------------------------------------
(* Types.                                                                  *)

Types == PublisherTypes /\ ViewerTypes

\* What an encoder emits continues what it emitted last.
LEMMA EncodedIs ==
  ASSUME PublisherTypes, NEW p \in Publishers, NEW f \in Encoded(p)
  PROVE  /\ f \in Nal /\ f.pub = p /\ f.gop \in Nat /\ f.idx \in Nat
         /\ enc[p].kind = None => f.kind = "ps" /\ f.gop = 0
         /\ \/ f.kind = "ps" /\ f.gop = enc[p].gop /\ f.idx = 0
            \/ f.kind = "key" /\ f.gop = enc[p].gop + 1 /\ f.idx = 0
            \/ /\ f.kind = "delta" /\ f.gop = enc[p].gop /\ f.idx = enc[p].idx + 1
               /\ enc[p].kind \in {"key", "delta"}
<1> DEFINE e == enc[p]
<1>1. e \in EncoderState /\ (e.kind = None => e.gop = 0)
  BY DEF PublisherTypes
<1>2. e.kind \in {None, "ps", "key", "delta"} /\ e.gop \in Nat /\ e.idx \in Nat
  BY <1>1 DEF EncoderState
<1>3. Encoded(p) = CASE e.kind = None -> {NewFrame(p, "ps", 0, 0)}
       [] e.kind = "ps" -> {NewFrame(p, "key", e.gop + 1, 0)}
       [] e.kind \in {"key", "delta"} -> {NewFrame(p, "delta", e.gop, e.idx + 1),
                                         NewFrame(p, "ps", e.gop, 0)}
  BY DEF Encoded
<1> HIDE DEF e
<1>4. CASE e.kind = None
  <2>1. f = NewFrame(p, "ps", 0, 0)
    BY <1>3, <1>4, StreamAssumption
  <2>2. f \in Nal /\ f.pub = p /\ f.kind = "ps" /\ f.gop = 0 /\ f.idx = 0
    BY <2>1, NalIs
  <2> QED
    BY <1>1, <1>4, <2>2 DEF e
<1>5. CASE e.kind = "ps"
  <2>1. f = NewFrame(p, "key", e.gop + 1, 0)
    BY <1>3, <1>5, StreamAssumption
  <2>2. f \in Nal /\ f.pub = p /\ f.kind = "key" /\ f.gop = e.gop + 1 /\ f.idx = 0
    BY <1>2, <2>1, NalIs
  <2> QED
    BY <1>2, <1>5, <2>2, StreamAssumption DEF e
<1>6. CASE e.kind \in {"key", "delta"}
  <2>1. f = NewFrame(p, "delta", e.gop, e.idx + 1) \/ f = NewFrame(p, "ps", e.gop, 0)
    BY <1>3, <1>6, StreamAssumption
  <2>2. CASE f = NewFrame(p, "delta", e.gop, e.idx + 1)
    <3>1. e.idx + 1 \in Nat /\ e.idx + 1 >= 1
      BY <1>2
    <3>2. f \in Nal /\ f.pub = p /\ f.kind = "delta" /\ f.gop = e.gop /\ f.idx = e.idx + 1
      BY <1>2, <2>2, <3>1, NalIs
    <3> QED
      BY <1>2, <1>6, <3>2, StreamAssumption DEF e
  <2>3. CASE f = NewFrame(p, "ps", e.gop, 0)
    <3>1. f \in Nal /\ f.pub = p /\ f.kind = "ps" /\ f.gop = e.gop /\ f.idx = 0
      BY <1>2, <2>3, NalIs
    <3> QED
      BY <1>2, <1>6, <3>1, StreamAssumption DEF e
  <2> QED
    BY <2>1, <2>2, <2>3
<1> QED
  BY <1>2, <1>4, <1>5, <1>6

\* A frame arrives: what changes, and where.
LEMMA PublishIs ==
  ASSUME Types, NEW p \in Publishers, Publish(p)
  PROVE  \E f \in Encoded(p) :
           /\ f \in Nal /\ proom[p] \in Room /\ pub[p] = "recv"
           /\ enc' = [enc EXCEPT ![p] = enc'[p]] /\ enc'[p] \in EncoderState
           /\ enc'[p].kind = f.kind /\ enc'[p].gop = f.gop /\ enc'[p].idx = f.idx
           /\ frame' = [frame EXCEPT ![p] = f] /\ frame'[p] = f
           /\ warmup' = [warmup EXCEPT ![proom[p]] = record(warmup[proom[p]], f)]
           /\ recorded' = [recorded EXCEPT ![proom[p]] = Append(recorded[proom[p]], f)]
           /\ pub' = [pub EXCEPT ![p] = "send"]
           /\ UNCHANGED <<rooms, channel, proom, viewers, history>>
<1>1. PICK f \in Encoded(p) :
        /\ enc' = [enc EXCEPT ![p] = [kind |-> f.kind, gop |-> f.gop, idx |-> f.idx,
                                      sent |-> @.sent + 1]]
        /\ frame' = [frame EXCEPT ![p] = f]
        /\ warmup' = [warmup EXCEPT ![proom[p]] = record(@, f)]
        /\ recorded' = [recorded EXCEPT ![proom[p]] = Append(@, f)]
  BY DEF Publish
<1>2. pub[p] = "recv" /\ pub' = [pub EXCEPT ![p] = "send"]
      /\ UNCHANGED <<rooms, channel, proom, viewers, history>>
  BY DEF Publish
<1>3. f \in Nal /\ proom[p] \in Room /\ enc[p] \in EncoderState
  <2>1. f \in Nal
    BY EncodedIs DEF Types
  <2>2. pub[p] # "away"
    BY <1>2
  <2> QED
    BY <2>1, <2>2 DEF Types, PublisherTypes
<1> DEFINE e == [kind |-> f.kind, gop |-> f.gop, idx |-> f.idx, sent |-> enc[p].sent + 1]
<1>4. e \in EncoderState
  BY <1>3, NalFields DEF EncoderState
<1>5. enc' = [enc EXCEPT ![p] = e]
  BY <1>1
<1>6. e.kind = f.kind /\ e.gop = f.gop /\ e.idx = f.idx
  OBVIOUS
<1> HIDE DEF e
<1>7. enc'[p] = e /\ frame'[p] = f
  BY <1>1, <1>5 DEF Types, PublisherTypes
<1> QED
  BY <1>1, <1>2, <1>3, <1>4, <1>5, <1>6, <1>7

LEMMA RoomFound ==
  ASSUME Types, NEW r \in Room, room_for(r)
  PROVE  current' \in {0} \cup Room
BY DEF room_for, rooms, Types, PublisherTypes

LEMMA InitTypes == Init => Types
<1> SUFFICES ASSUME Init PROVE Types
  OBVIOUS
<1>1. EmptyWindow \in StreamWindow
  BY DEF EmptyWindow, StreamWindow
<1>2. [kind |-> None, gop |-> 0, idx |-> 0, sent |-> 0] \in EncoderState
  BY DEF EncoderState
<1>3. PublisherTypes
  BY <1>1, <1>2 DEF Init, PublisherTypes
<1>4. ViewerTypes
  BY DEF Init, ViewerTypes
<1> QED
  BY <1>3, <1>4 DEF Types

LEMMA PublisherTypesStep ==
  ASSUME Types, NEW p \in Publishers, Publisher(p)
  PROVE  Types'
<1> USE DEF rooms, publishers, viewers, history
<1> USE DEF Types, PublisherTypes
<1>1. CASE PublisherConnect(p)
  <2>1. PICK r \in Room : room_for(r) /\ proom' = [proom EXCEPT ![p] = r]
    BY <1>1 DEF PublisherConnect
  <2>2. /\ pub' = [pub EXCEPT ![p] = "recv"]
        /\ UNCHANGED <<warmup, channel, frame, enc, viewers, history, recorded>>
    BY <1>1 DEF PublisherConnect
  <2>3. current' \in {0} \cup Room
    BY <2>1, RoomFound
  <2>4. PublisherTypes'
    BY <2>1, <2>2, <2>3
  <2> QED
    BY <2>2, <2>4 DEF ViewerTypes
<1>2. CASE Publish(p)
  <2>1. PICK f \in Encoded(p) :
           /\ f \in Nal /\ proom[p] \in Room /\ pub[p] = "recv"
           /\ enc' = [enc EXCEPT ![p] = enc'[p]] /\ enc'[p] \in EncoderState
           /\ enc'[p].kind = f.kind /\ enc'[p].gop = f.gop /\ enc'[p].idx = f.idx
           /\ frame' = [frame EXCEPT ![p] = f] /\ frame'[p] = f
           /\ warmup' = [warmup EXCEPT ![proom[p]] = record(warmup[proom[p]], f)]
           /\ recorded' = [recorded EXCEPT ![proom[p]] = Append(recorded[proom[p]], f)]
           /\ pub' = [pub EXCEPT ![p] = "send"]
           /\ UNCHANGED <<rooms, channel, proom, viewers, history>>
    BY <1>2, PublishIs
  <2>2. record(warmup[proom[p]], f) \in StreamWindow
    BY <2>1, RecordedAs
  <2>3. Append(recorded[proom[p]], f) \in Seq(Nal)
    BY <2>1
  <2>4. warmup' \in [Room -> StreamWindow] /\ recorded' \in [Room -> Seq(Nal)]
    BY <2>1, <2>2, <2>3
  <2>5. f.kind # None
    BY <2>1, NalFields, StreamAssumption
  <2>6. /\ enc' \in [Publishers -> EncoderState] /\ frame' \in [Publishers -> Nal \cup {None}]
        /\ pub' \in [Publishers -> {"away", "recv", "send", "cleanup", "gone"}]
    BY <2>1
  <2>7. \A q \in Publishers \ {p} : enc'[q] = enc[q] /\ pub'[q] = pub[q] /\ frame'[q] = frame[q]
    BY <2>1
  <2>8. \A q \in Publishers :
          /\ pub'[q] # "away" => proom'[q] \in Room
          /\ pub'[q] = "send" => frame'[q] \in Nal
          /\ enc'[q].kind = None => enc'[q].gop = 0
    BY <2>1, <2>5, <2>7
  <2>9. PublisherTypes'
    BY <2>1, <2>4, <2>6, <2>8
  <2> QED
    BY <2>1, <2>9 DEF ViewerTypes
<1>3. CASE Fanout(p)
  <2> DEFINE r == proom[p]
             c == IF Receivers(r) = {} THEN channel[r] ELSE Append(channel[r], frame[p])
  <2>1. /\ pub[p] = "send" /\ pub' = [pub EXCEPT ![p] = "recv"]
        /\ channel' = [channel EXCEPT ![r] = c]
        /\ UNCHANGED <<rooms, warmup, proom, frame, enc, viewers, history, recorded>>
    BY <1>3 DEF Fanout
  <2>2. r \in Room /\ frame[p] \in Nal /\ channel[r] \in Seq(Nal)
    BY <2>1
  <2>3. c \in Seq(Nal) /\ Len(c) >= Len(channel[r])
    BY <2>2
  <2> HIDE DEF r, c
  <2>4. PublisherTypes'
    BY <2>1, <2>2, <2>3
  <2>5. \A q \in Room : Len(channel'[q]) >= Len(channel[q])
                     /\ Len(channel'[q]) \in Nat /\ Len(channel[q]) \in Nat
    BY <2>1, <2>2, <2>3
  <2>6. ViewerTypes'
    BY <2>1, <2>5 DEF ViewerTypes
  <2> QED
    BY <2>4, <2>6
<1>4. CASE PublisherClose(p) \/ PublisherError(p) \/ Cleanup(p)
  <2>1. /\ pub[p] # "away"
        /\ pub' = [pub EXCEPT ![p] = "cleanup"] \/ pub' = [pub EXCEPT ![p] = "gone"]
        /\ current' \in {current, 0}
        /\ UNCHANGED <<warmup, channel, proom, frame, enc, viewers, history, recorded>>
    BY <1>4 DEF PublisherClose, PublisherError, Cleanup
  <2>2. PublisherTypes'
    BY <2>1
  <2> QED
    BY <2>1, <2>2 DEF ViewerTypes
<1> QED
  BY <1>1, <1>2, <1>3, <1>4 DEF Publisher

LEMMA ViewerTypesStep ==
  ASSUME Types, NEW v \in Viewers, Viewer(v)
  PROVE  Types'
<1> USE DEF rooms, publishers, viewers, history
<1>1. CASE ViewerConnect(v)
  <2>1. PICK r \in Room : room_for(r) /\ vroom' = [vroom EXCEPT ![v] = r]
    BY <1>1 DEF ViewerConnect
  <2>2. /\ view' = [view EXCEPT ![v] = "room"] /\ view[v] = "away"
        /\ UNCHANGED <<warmup, channel, publishers, next, replay, client, history, recorded>>
    BY <1>1 DEF ViewerConnect
  <2>3. current' \in {0} \cup Room
    BY <2>1, RoomFound
  <2>4. PublisherTypes'
    BY <2>2, <2>3 DEF Types, PublisherTypes
  <2>5. Len(channel[r]) \in Nat
    BY DEF Types, PublisherTypes
  <2>6. ViewerTypes'
    BY <2>1, <2>2, <2>5 DEF Types, ViewerTypes
  <2> QED
    BY <2>4, <2>6 DEF Types
<1>2. ASSUME UNCHANGED <<rooms, warmup, channel, publishers, recorded>>, ViewerTypes'
      PROVE  Types'
  BY <1>2 DEF Types, PublisherTypes
<1>3. ASSUME NEW to \in {"subscribed", "live"}, Subscribe(v, "room", to) PROVE Types'
  <2>1. vroom[v] \in Room /\ Len(channel[vroom[v]]) + 1 \in Nat \ {0}
    <3>1. vroom[v] \in Room
      BY <1>3 DEF Subscribe, Types, ViewerTypes
    <3>2. channel[vroom[v]] \in Seq(Nal)
      BY <3>1 DEF Types, PublisherTypes
    <3> QED
      BY <3>1, <3>2
  <2>2. ViewerTypes'
    BY <1>3, <2>1 DEF Subscribe, Types, ViewerTypes
  <2> QED
    BY <1>2, <1>3, <2>2 DEF Subscribe
<1>4. ASSUME TakeSnapshot(v, "subscribed", "live") PROVE Types'
  <2>1. vroom[v] \in Room
    BY <1>4 DEF TakeSnapshot, Types, ViewerTypes
  <2>2. snapshot(warmup[vroom[v]]) \in Seq(Nal) /\ Len(recorded[vroom[v]]) \in Nat
    BY <2>1, Snapshots DEF Types, PublisherTypes
  <2>3. ViewerTypes'
    BY <1>4, <2>2 DEF TakeSnapshot, Types, ViewerTypes
  <2> QED
    BY <1>2, <1>4, <2>3 DEF TakeSnapshot
<1>5. CASE Replay(v)
  <2>1. /\ replay[v] \in Seq(Nal) /\ replay[v] # << >> /\ shown[v] \in Seq(Nal)
    BY <1>5 DEF Replay, Types, ViewerTypes
  <2>2. /\ Append(shown[v], Head(replay[v])) \in Seq(Nal) /\ Tail(replay[v]) \in Seq(Nal)
    BY <2>1
  <2>3. ViewerTypes'
    BY <1>5, <2>2 DEF Replay, Types, ViewerTypes
  <2> QED
    BY <1>2, <1>5, <2>3 DEF Replay
<1>6. ASSUME NEW m \in Nat, m <= Len(Pending(v)), view[v] = "live",
             next' = [next EXCEPT ![v] = @ + m],
             shown' \in [Viewers -> Seq(Nal)], replay' \in [Viewers -> Seq(Nal)],
             missed' \in [Viewers -> SUBSET Nal],
             client' \in [Viewers -> {"up", "gone", "unacked", "dead"}],
             UNCHANGED <<rooms, warmup, channel, publishers, view, vroom,
                         joined, recorded>>
      PROVE  Types'
  <2>1. /\ vroom[v] \in Room /\ Len(channel[vroom[v]]) \in Nat /\ next[v] \in Nat \ {0}
        /\ Len(Pending(v)) = Len(channel[vroom[v]]) - next[v] + 1
    BY <1>6, PendingIs DEF Types, ViewerTypes
  <2>2. next[v] + m \in Nat \ {0} /\ next[v] + m <= Len(channel[vroom[v]]) + 1
    <3>1. m \in Nat /\ m <= Len(channel[vroom[v]]) - next[v] + 1
      BY <1>6, <2>1, Zenon
    <3> QED
      BY <2>1, <3>1
  <2>3. /\ next' \in [Viewers -> Nat \ {0}]
        /\ next'[v] = next[v] + m /\ \A u \in Viewers \ {v} : next'[u] = next[u]
    BY <1>6, <2>2 DEF Types, ViewerTypes
  <2>4. ViewerTypes'
    BY <1>6, <2>1, <2>2, <2>3 DEF Types, ViewerTypes
  <2> QED
    BY <1>2, <1>6, <2>4
<1>7. CASE Deliver(v)
  <2>1. Pending(v) \in Seq(Nal) /\ Pending(v) # << >> /\ shown[v] \in Seq(Nal)
    BY <1>7, PendingIs DEF Deliver, Types, ViewerTypes
  <2>2. Append(shown[v], Head(Pending(v))) \in Seq(Nal) /\ Len(Pending(v)) \in Nat
        /\ 1 <= Len(Pending(v))
    BY <2>1
  <2>3. shown' \in [Viewers -> Seq(Nal)]
    BY <1>7, <2>2 DEF Deliver, Types, ViewerTypes
  <2> QED
    BY <1>6, <1>7, <2>2, <2>3 DEF Deliver, Types, ViewerTypes
<1>8. CASE Lagged(v)
  <2> DEFINE lost == Len(Pending(v)) - Capacity
  <2>1. Pending(v) \in Seq(Nal)
    BY <1>8, PendingIs DEF Lagged, Types, ViewerTypes
  <2>2. Len(Pending(v)) \in Nat /\ Len(Pending(v)) > Capacity /\ Capacity \in Nat
    BY <1>8, <2>1, StreamAssumption DEF Lagged, Lagging
  <2>3. lost \in Nat /\ lost <= Len(Pending(v))
    BY <2>2
  <2>4. {Pending(v)[i] : i \in 1..lost} \subseteq Nal
    BY <2>1, <2>2
  <2>5. missed' = [missed EXCEPT ![v] = @ \cup {Pending(v)[i] : i \in 1..lost}]
    BY <1>8 DEF Lagged
  <2>6. missed' \in [Viewers -> SUBSET Nal]
    BY <2>4, <2>5 DEF Types, ViewerTypes
  <2>7. next' = [next EXCEPT ![v] = @ + lost]
    BY <1>8 DEF Lagged
  <2> HIDE DEF lost
  <2> QED
    BY <1>6, <1>8, <2>3, <2>6, <2>7 DEF Lagged, Types, ViewerTypes
<1>9. CASE Lose(v)
  <2>1. CASE replay[v] # << >> /\ replay' = [replay EXCEPT ![v] = Tail(@)] /\ UNCHANGED next
    <3>1. replay[v] \in Seq(Nal)
      BY DEF Types, ViewerTypes
    <3>2. Tail(replay[v]) \in Seq(Nal)
      BY <2>1, <3>1
    <3>3. ViewerTypes'
      BY <1>9, <2>1, <3>2 DEF Lose, Types, ViewerTypes
    <3> QED
      BY <1>2, <1>9, <3>3 DEF Lose
  <2>2. CASE Pending(v) # << >> /\ next' = [next EXCEPT ![v] = @ + 1] /\ UNCHANGED replay
    <3>1. Pending(v) \in Seq(Nal)
      BY <1>9, PendingIs DEF Lose, Types, ViewerTypes
    <3>2. 1 <= Len(Pending(v))
      BY <2>2, <3>1
    <3> QED
      BY <1>6, <1>9, <2>2, <3>2 DEF Lose, Types, ViewerTypes
  <2> QED
    BY <1>9, <2>1, <2>2 DEF Lose
<1>10. CASE Fail(v) \/ GiveUp(v) \/ Ping(v) \/ ClientLeave(v)
  <2>1. ViewerTypes'
    BY <1>10 DEF Fail, GiveUp, Ping, ClientLeave, Types, ViewerTypes
  <2> QED
    BY <1>2, <1>10, <2>1 DEF Fail, GiveUp, Ping, ClientLeave
<1> QED
  BY <1>1, <1>3, <1>4, <1>5, <1>7, <1>8, <1>9, <1>10 DEF Viewer, Serve, Join
-----------------------------------------------------------------------------
(* Cached or live, never neither.                                          *)

LEMMA SuffixIs ==
  ASSUME NEW S, NEW c \in Seq(S), NEW n \in Nat \ {0}, n <= Len(c) + 1
  PROVE  /\ SubSeq(c, n, Len(c)) \in Seq(S)
         /\ Len(SubSeq(c, n, Len(c))) = Len(c) - n + 1
         /\ \A i \in 1..Len(c) - n + 1 : SubSeq(c, n, Len(c))[i] = c[n + i - 1]
OBVIOUS

LEMMA SeqsEqual ==
  ASSUME NEW S, NEW s \in Seq(S), NEW t \in Seq(S), Len(s) = Len(t),
         \A i \in 1..Len(s) : s[i] = t[i]
  PROVE  s = t
OBVIOUS

LEMMA AppendIs ==
  ASSUME NEW S, NEW c \in Seq(S), NEW x \in S
  PROVE  /\ Append(c, x) \in Seq(S) /\ Len(Append(c, x)) = Len(c) + 1
         /\ Append(c, x)[Len(c) + 1] = x /\ \A i \in 1..Len(c) : Append(c, x)[i] = c[i]
OBVIOUS

LEMMA SuffixOfLonger ==
  ASSUME NEW S, NEW c \in Seq(S), NEW x \in S, NEW n \in Nat \ {0}, n <= Len(c) + 1
  PROVE  SubSeq(Append(c, x), n, Len(Append(c, x))) = Append(SubSeq(c, n, Len(c)), x)
<1> DEFINE d == Append(c, x)
           s == SubSeq(c, n, Len(c))
           t == SubSeq(d, n, Len(d))
           u == Append(s, x)
<1>1. /\ d \in Seq(S) /\ Len(d) = Len(c) + 1 /\ d[Len(c) + 1] = x
      /\ \A i \in 1..Len(c) : d[i] = c[i]
  BY AppendIs
<1>2. Len(c) \in Nat
  OBVIOUS
<1>3. s \in Seq(S) /\ Len(s) = Len(c) - n + 1 /\ \A i \in 1..Len(c) - n + 1 : s[i] = c[n + i - 1]
  BY SuffixIs
<1> HIDE DEF s, d
<1>4. /\ t \in Seq(S) /\ Len(t) = Len(d) - n + 1
      /\ \A i \in 1..Len(d) - n + 1 : t[i] = d[n + i - 1]
  BY <1>1, <1>2, SuffixIs
<1>5. /\ u \in Seq(S) /\ Len(u) = Len(s) + 1 /\ u[Len(s) + 1] = x
      /\ \A i \in 1..Len(s) : u[i] = s[i]
  <2>1. s \in Seq(S)
    BY <1>3
  <2> QED
    BY <2>1, AppendIs
<1> HIDE DEF t, u
<1>6. Len(t) = Len(u) /\ Len(u) = Len(c) - n + 2
  BY <1>1, <1>2, <1>3, <1>4, <1>5
<1>7. ASSUME NEW i \in 1..Len(t) PROVE t[i] = u[i]
  <2>1. CASE i <= Len(c) - n + 1
    <3>1. i \in 1..Len(d) - n + 1 /\ n + i - 1 \in 1..Len(c) /\ i \in 1..Len(c) - n + 1
          /\ i \in 1..Len(s)
      BY <1>1, <1>2, <1>3, <1>6, <2>1
    <3>2. t[i] = d[n + i - 1] /\ d[n + i - 1] = c[n + i - 1] /\ s[i] = c[n + i - 1]
          /\ u[i] = s[i]
      BY <1>1, <1>3, <1>4, <1>5, <3>1
    <3> QED
      BY <3>2
  <2>2. CASE i = Len(c) - n + 2
    <3>1. i \in 1..Len(d) - n + 1 /\ n + i - 1 = Len(c) + 1 /\ i = Len(s) + 1
      BY <1>1, <1>2, <1>3, <2>2
    <3>2. t[i] = d[Len(c) + 1] /\ u[i] = x
      BY <1>4, <1>5, <3>1
    <3> QED
      BY <1>1, <3>2
  <2> QED
    BY <1>2, <1>6, <2>1, <2>2
<1>8. t = u
  BY <1>4, <1>5, <1>6, <1>7, SeqsEqual
<1> QED
  BY <1>8 DEF d, s, t, u

LEMMA SuffixOfSuffix ==
  ASSUME NEW S, NEW c \in Seq(S), NEW n \in Nat \ {0}, NEW m \in Nat,
         n + m <= Len(c) + 1
  PROVE  LET s == SubSeq(c, n, Len(c))
             t == SubSeq(c, n + m, Len(c))
         IN /\ t \in Seq(S) /\ Len(t) = Len(s) - m /\ Len(s) = Len(c) - n + 1
            /\ \A i \in 1..Len(t) : t[i] = s[m + i]
<1> DEFINE s == SubSeq(c, n, Len(c))
           k == n + m
           t == SubSeq(c, k, Len(c))
<1>1. Len(c) \in Nat /\ n <= Len(c) + 1 /\ k \in Nat \ {0} /\ k <= Len(c) + 1
  OBVIOUS
<1>2. s \in Seq(S) /\ Len(s) = Len(c) - n + 1 /\ \A i \in 1..Len(c) - n + 1 : s[i] = c[n + i - 1]
  BY <1>1, SuffixIs
<1>3. k = n + m
  OBVIOUS
<1> HIDE DEF k
<1>4. t \in Seq(S) /\ Len(t) = Len(c) - k + 1 /\ \A i \in 1..Len(c) - k + 1 : t[i] = c[k + i - 1]
  BY <1>1, SuffixIs
<1> HIDE DEF s, t
<1>5. ASSUME NEW i \in 1..Len(t) PROVE t[i] = s[m + i]
  <2>1. i \in 1..Len(c) - k + 1 /\ m + i \in 1..Len(c) - n + 1 /\ k + i - 1 = n + (m + i) - 1
    BY <1>1, <1>3, <1>4
  <2>2. t[i] = c[k + i - 1] /\ s[m + i] = c[n + (m + i) - 1]
    BY <1>2, <1>4, <2>1
  <2> QED
    BY <2>1, <2>2
<1>6. Len(t) = Len(s) - m
  BY <1>1, <1>2, <1>3, <1>4
<1> QED
  BY <1>2, <1>4, <1>5, <1>6 DEF s, t, k

\* A frame that is sent is the last one a receiver has before it; what it
\* receives or skips are the first ones.
LEMMA PendingGrows ==
  ASSUME Types, NEW v \in Viewers, view[v] # "away", NEW x \in Nal,
         channel'[vroom[v]] = Append(channel[vroom[v]], x), UNCHANGED <<vroom, next>>
  PROVE  Pending(v)' = Append(Pending(v), x)
<1> DEFINE c == channel[vroom[v]]
           n == next[v]
<1>1. c \in Seq(Nal) /\ n \in Nat \ {0} /\ n <= Len(c) + 1
  BY PendingIs DEF Types, ViewerTypes
<1>2. Pending(v) = SubSeq(c, n, Len(c))
      /\ Pending(v)' = SubSeq(Append(c, x), n, Len(Append(c, x)))
  BY DEF Pending
<1> HIDE DEF c, n
<1> QED
  BY <1>1, <1>2, SuffixOfLonger

LEMMA PendingMoves ==
  ASSUME Types, NEW v \in Viewers, view[v] # "away", NEW m \in 0..Len(Pending(v)),
         next'[v] = next[v] + m, UNCHANGED <<channel, vroom>>
  PROVE  /\ Pending(v)' \in Seq(Nal) /\ Len(Pending(v)') = Len(Pending(v)) - m
         /\ \A i \in 1..Len(Pending(v)') : Pending(v)'[i] = Pending(v)[m + i]
<1> DEFINE c == channel[vroom[v]]
           n == next[v]
<1>1. /\ c \in Seq(Nal) /\ n \in Nat \ {0} /\ n <= Len(c) + 1
      /\ Len(Pending(v)) = Len(c) - n + 1
  BY PendingIs DEF Types, ViewerTypes
<1>2. Pending(v) = SubSeq(c, n, Len(c)) /\ Pending(v)' = SubSeq(c, n + m, Len(c))
  BY DEF Pending
<1> HIDE DEF c, n
<1>3. m \in Nat /\ n + m <= Len(c) + 1
  BY <1>1
<1> DEFINE s == SubSeq(c, n, Len(c))
           t == SubSeq(c, n + m, Len(c))
<1>4. /\ t \in Seq(Nal) /\ Len(t) = Len(s) - m
      /\ \A i \in 1..Len(t) : t[i] = s[m + i]
  BY <1>1, <1>3, SuffixOfSuffix
<1> HIDE DEF s, t
<1>5. Pending(v) = s /\ Pending(v)' = t
  BY <1>2 DEF s, t
<1> QED
  BY <1>4, <1>5

LEMMA Delivered ==
  ASSUME Types, NEW v \in Viewers, Deliver(v)
  PROVE  /\ Pending(v) \in Seq(Nal) /\ Pending(v) # << >>
         /\ Pending(v)' = Tail(Pending(v))
         /\ shown'[v] = Append(shown[v], Head(Pending(v))) /\ shown[v] \in Seq(Nal)
         /\ \A u \in Viewers \ {v} : shown'[u] = shown[u] /\ next'[u] = next[u]
<1>1. /\ view[v] = "live" /\ Pending(v) # << >>
      /\ shown' = [shown EXCEPT ![v] = Append(@, Head(Pending(v)))]
      /\ next' = [next EXCEPT ![v] = @ + 1] /\ UNCHANGED <<channel, vroom>>
  BY DEF Deliver
<1>2. Pending(v) \in Seq(Nal)
  BY <1>1, PendingIs DEF Types
<1>3. 1 \in 0..Len(Pending(v)) /\ Len(Pending(v)) \in Nat
  BY <1>1, <1>2
<1>4. /\ next'[v] = next[v] + 1
      /\ shown'[v] = Append(shown[v], Head(Pending(v))) /\ shown[v] \in Seq(Nal)
      /\ \A u \in Viewers \ {v} : shown'[u] = shown[u] /\ next'[u] = next[u]
  BY <1>1 DEF Types, ViewerTypes
<1>5. /\ Pending(v)' \in Seq(Nal) /\ Len(Pending(v)') = Len(Pending(v)) - 1
      /\ \A i \in 1..Len(Pending(v)') : Pending(v)'[i] = Pending(v)[1 + i]
  BY <1>1, <1>3, <1>4, PendingMoves
<1>6. /\ Tail(Pending(v)) \in Seq(Nal) /\ Len(Tail(Pending(v))) = Len(Pending(v)) - 1
      /\ \A i \in 1..Len(Pending(v)) - 1 : Tail(Pending(v))[i] = Pending(v)[1 + i]
  BY <1>1, <1>2, <1>3
<1>7. \A s, t \in Seq(Nal) : Len(s) = Len(t) /\ (\A i \in 1..Len(s) : s[i] = t[i]) => s = t
  OBVIOUS
<1>8. Pending(v)' = Tail(Pending(v))
  BY <1>5, <1>6, <1>7
<1> QED
  BY <1>1, <1>2, <1>4, <1>8

\* What is in the hands of the publishers of a room and not sent.
Held(r) == {frame[p] : p \in {q \in Publishers : pub[q] = "send" /\ proom[q] = r}}
Reached(v) == Elements(shown[v]) \cup Coming(v) \cup missed[v]

LEMMA ComingIs ==
  ASSUME NEW v PROVE Coming(v) = Elements(replay[v]) \cup Elements(Pending(v)) \cup Held(vroom[v])
BY DEF Coming, Held

\* Only the publisher that takes a step changes what it holds.
LEMMA HeldIs ==
  ASSUME NEW r, NEW p, \A q \in Publishers \ {p} : /\ pub'[q] = pub[q] /\ proom'[q] = proom[q]
                                                   /\ frame'[q] = frame[q]
  PROVE  /\ pub[p] # "send" => Held(r) \subseteq Held(r)'
         /\ proom[p] # r => Held(r) \subseteq Held(r)'
         /\ Held(r) \subseteq Held(r)' \cup {frame[p]}
         /\ p \in Publishers /\ pub'[p] = "send" /\ proom'[p] = r => frame'[p] \in Held(r)'
<1>1. \A q \in Publishers : pub'[q] = "send" /\ proom'[q] = r => frame'[q] \in Held(r)'
  BY DEF Held
<1>2. ASSUME NEW x \in Held(r)
      PROVE  \E q \in Publishers : pub[q] = "send" /\ proom[q] = r /\ x = frame[q]
  BY DEF Held
<1>3. ASSUME NEW x \in Held(r), x \notin Held(r)'
      PROVE  pub[p] = "send" /\ proom[p] = r /\ x = frame[p]
  BY <1>1, <1>2, <1>3
<1> QED
  BY <1>1, <1>3

LEMMA PublisherReaches ==
  ASSUME Types, NEW p \in Publishers, Publisher(p), NeverNeither
  PROVE  NeverNeither'
<1> SUFFICES ASSUME NEW v \in Viewers, view'[v] = "live", client'[v] = "up",
                    NEW i \in joined'[v]+1..Len(recorded'[vroom'[v]])
             PROVE  recorded'[vroom'[v]][i] \in Reached(v)'
  BY DEF NeverNeither, Reached
<1>1. UNCHANGED <<view, vroom, next, replay, client, shown, missed, joined>>
  BY DEF Publisher, PublisherConnect, Publish, Fanout, PublisherClose, PublisherError,
         Cleanup, viewers, history
<1>0. PICK r : r = vroom[v]
  OBVIOUS
<1>2. /\ view[v] = "live" /\ client[v] = "up" /\ r \in Room /\ joined[v] \in Nat
      /\ \A j \in joined[v]+1..Len(recorded[r]) : recorded[r][j] \in Reached(v)
      /\ i \in joined[v]+1..Len(recorded'[r]) /\ vroom'[v] = r
  BY <1>0, <1>1 DEF NeverNeither, Reached, Types, ViewerTypes
<1>3. /\ Pending(v) \in Seq(Nal) /\ channel[r] \in Seq(Nal) /\ recorded[r] \in Seq(Nal)
      /\ shown[v] \in Seq(Nal) /\ replay[v] \in Seq(Nal)
  BY <1>0, <1>2, PendingIs DEF Types, PublisherTypes, ViewerTypes
<1>4. Reached(v)' = Elements(shown[v]) \cup Elements(replay[v]) \cup Elements(Pending(v)')
                    \cup Held(r)' \cup missed[v]
  BY <1>1, <1>2, ComingIs DEF Reached, Elements, Coming, Held
<1>5. Reached(v) = Elements(shown[v]) \cup Elements(replay[v]) \cup Elements(Pending(v))
                   \cup Held(r) \cup missed[v]
  BY <1>0, ComingIs DEF Reached
<1>6. CASE PublisherConnect(p)
  <2>1. /\ pub[p] = "away" /\ pub' = [pub EXCEPT ![p] = "recv"]
        /\ \A q \in Publishers \ {p} : proom'[q] = proom[q]
        /\ UNCHANGED <<channel, frame, recorded>>
    BY <1>6 DEF PublisherConnect, publishers, Types, PublisherTypes
  <2>2. Held(r) \subseteq Held(r)'
    <3>1. \A q \in Publishers \ {p} : pub'[q] = pub[q] /\ frame'[q] = frame[q]
      BY <2>1 DEF Types, PublisherTypes
    <3>2. pub[p] # "send"
      BY <2>1
    <3> QED
      BY <2>1, <3>1, <3>2, HeldIs
  <2>3. Pending(v)' = Pending(v)
    BY <1>1, <2>1 DEF Pending
  <2> QED
    BY <1>2, <1>4, <1>5, <2>1, <2>2, <2>3
<1>7. CASE Publish(p)
  <2>1. PICK f \in Nal :
           /\ proom[p] \in Room /\ pub[p] = "recv" /\ pub' = [pub EXCEPT ![p] = "send"]
           /\ frame' = [frame EXCEPT ![p] = f] /\ frame'[p] = f
           /\ recorded' = [recorded EXCEPT ![proom[p]] = Append(recorded[proom[p]], f)]
           /\ UNCHANGED <<channel, proom>>
    BY <1>7, PublishIs
  <2>0. /\ \A q \in Publishers \ {p} : /\ pub'[q] = pub[q] /\ proom'[q] = proom[q]
                                       /\ frame'[q] = frame[q]
        /\ pub[p] # "send" /\ pub'[p] = "send"
    BY <2>1 DEF Types, PublisherTypes
  <2>2. Held(r) \subseteq Held(r)'
    BY <2>0, HeldIs
  <2>3. Pending(v)' = Pending(v)
    BY <1>1, <2>1 DEF Pending
  <2>4. CASE proom[p] # r
    <3>1. recorded'[r] = recorded[r]
      BY <2>1, <2>4 DEF Types, PublisherTypes
    <3> QED
      BY <1>2, <1>4, <1>5, <2>2, <2>3, <3>1
  <2>5. CASE proom[p] = r
    <3>1. recorded'[r] = Append(recorded[r], f)
      BY <1>2, <2>1, <2>5 DEF Types, PublisherTypes
    <3>2. f \in Held(r)'
      <4>1. proom'[p] = r /\ frame'[p] = f
        BY <2>1, <2>5
      <4> QED
        BY <2>0, <4>1, HeldIs
    <3>3. CASE i <= Len(recorded[r])
      <4>1. i \in joined[v]+1..Len(recorded[r]) /\ recorded'[r][i] = recorded[r][i]
        BY <1>2, <1>3, <3>1, <3>3
      <4> QED
        BY <1>2, <1>4, <1>5, <2>2, <2>3, <4>1
    <3>4. CASE ~(i <= Len(recorded[r]))
      <4>1. i = Len(recorded[r]) + 1
        BY <1>2, <1>3, <3>1, <3>4
      <4>2. recorded'[r][i] = f
        BY <1>3, <3>1, <4>1
      <4> QED
        BY <1>2, <1>4, <3>2, <4>2
    <3> QED
      BY <3>3, <3>4
  <2> QED
    BY <2>4, <2>5
<1>8. CASE Fanout(p)
  <2>1. /\ pub[p] = "send" /\ pub' = [pub EXCEPT ![p] = "recv"] /\ frame[p] \in Nal
        /\ channel' = [channel EXCEPT ![proom[p]] =
                   IF Receivers(proom[p]) = {} THEN @ ELSE Append(@, frame[p])]
        /\ UNCHANGED <<frame, proom, recorded>>
    BY <1>8 DEF Fanout, Types, PublisherTypes
  <2>0. \A q \in Publishers \ {p} : /\ pub'[q] = pub[q] /\ proom'[q] = proom[q]
                                    /\ frame'[q] = frame[q]
    BY <2>1 DEF Types, PublisherTypes
  <2>2. CASE proom[p] # r
    <3>1. channel'[r] = channel[r]
      BY <2>1, <2>2 DEF Types, PublisherTypes
    <3>2. Pending(v)' = Pending(v)
      BY <1>0, <1>1, <3>1 DEF Pending
    <3>3. Held(r) \subseteq Held(r)'
      BY <2>0, <2>2, HeldIs
    <3> QED
      BY <1>2, <1>4, <1>5, <2>1, <3>2, <3>3
  <2>3. CASE proom[p] = r
    <3>1. v \in Receivers(r)
      BY <1>0, <1>2 DEF Receivers
    <3>2. channel'[r] = Append(channel[r], frame[p])
      BY <1>2, <2>1, <2>3, <3>1 DEF Types, PublisherTypes
    <3>3. Pending(v)' = Append(Pending(v), frame[p])
      BY <1>0, <1>1, <1>2, <2>1, <3>2, PendingGrows
    <3>4. Elements(Pending(v)') = Elements(Pending(v)) \cup {frame[p]}
      BY <1>3, <2>1, <3>3, ElementsOfAppend
    <3>5. Held(r) \subseteq Held(r)' \cup {frame[p]}
      BY <2>0, HeldIs
    <3> QED
      BY <1>2, <1>4, <1>5, <2>1, <3>4, <3>5
  <2> QED
    BY <2>2, <2>3
<1>9. CASE PublisherClose(p) \/ PublisherError(p) \/ Cleanup(p)
  <2>1. /\ pub[p] # "send"
        /\ \A q \in Publishers \ {p} : /\ pub'[q] = pub[q] /\ proom'[q] = proom[q]
                                       /\ frame'[q] = frame[q]
        /\ UNCHANGED <<channel, proom, frame, recorded>>
    BY <1>9 DEF PublisherClose, PublisherError, Cleanup, Types, PublisherTypes
  <2>2. Held(r) \subseteq Held(r)'
    BY <2>1, HeldIs
  <2>3. Pending(v)' = Pending(v)
    BY <1>1, <2>1 DEF Pending
  <2> QED
    BY <1>2, <1>4, <1>5, <2>1, <2>2, <2>3
<1> QED
  BY <1>6, <1>7, <1>8, <1>9 DEF Publisher

\* A task of a viewer leaves alone what the others have.
LEMMA ViewerIs ==
  ASSUME Types, NEW v \in Viewers, Viewer(v)
  PROVE  /\ UNCHANGED <<warmup, channel, pub, proom, frame, enc, recorded>>
         /\ \A u \in Viewers \ {v} :
              /\ view'[u] = view[u] /\ vroom'[u] = vroom[u] /\ next'[u] = next[u]
              /\ replay'[u] = replay[u] /\ client'[u] = client[u]
              /\ shown'[u] = shown[u] /\ missed'[u] = missed[u] /\ joined'[u] = joined[u]
<1> USE DEF publishers, viewers, history, Types, ViewerTypes
<1>1. CASE ViewerConnect(v)
  BY <1>1 DEF ViewerConnect
<1>2. CASE Join(v)
  BY <1>2 DEF Join, Subscribe, TakeSnapshot
<1>3. CASE Replay(v)
  BY <1>3 DEF Replay
<1>4. CASE Deliver(v)
  BY <1>4 DEF Deliver
<1>5. CASE Lagged(v)
  BY <1>5 DEF Lagged
<1>6. CASE Lose(v)
  BY <1>6 DEF Lose
<1>7. CASE Fail(v) \/ GiveUp(v) \/ Ping(v) \/ ClientLeave(v)
  BY <1>7 DEF Fail, GiveUp, Ping, ClientLeave
<1> QED
  BY <1>1, <1>2, <1>3, <1>4, <1>5, <1>6, <1>7 DEF Viewer, Serve

\* What a viewer has been given, is on its way to it or has been skipped stays
\* one of the three.
LEMMA ReachedStays ==
  ASSUME Types, NEW v \in Viewers, Replay(v) \/ Deliver(v) \/ Lagged(v)
  PROVE  Reached(v) \subseteq Reached(v)'
<1>1. /\ UNCHANGED <<channel, pub, proom, frame, vroom>> /\ view[v] = "live"
      /\ shown[v] \in Seq(Nal) /\ replay[v] \in Seq(Nal) /\ Pending(v) \in Seq(Nal)
  BY PendingIs DEF Replay, Deliver, Lagged, publishers, Types, ViewerTypes
<1>2. PICK r : r = vroom[v]
  OBVIOUS
<1>3. Held(r)' = Held(r) /\ vroom'[v] = r
  BY <1>1, <1>2 DEF Held
<1>4. Reached(v)' = Elements(shown'[v]) \cup Elements(replay'[v]) \cup Elements(Pending(v)')
                    \cup Held(r) \cup missed'[v]
  BY <1>3, ComingIs DEF Reached, Elements, Coming, Held
<1>5. Reached(v) = Elements(shown[v]) \cup Elements(replay[v]) \cup Elements(Pending(v))
                   \cup Held(r) \cup missed[v]
  BY <1>2, ComingIs DEF Reached
<1>6. CASE Replay(v)
  <2>1. /\ replay[v] # << >> /\ replay'[v] = Tail(replay[v])
        /\ shown'[v] = Append(shown[v], Head(replay[v])) /\ missed'[v] = missed[v]
        /\ UNCHANGED next
    BY <1>6 DEF Replay, Types, ViewerTypes
  <2>2. Pending(v)' = Pending(v)
    BY <1>1, <2>1 DEF Pending
  <2>3. Elements(replay[v]) = {Head(replay[v])} \cup Elements(Tail(replay[v]))
    BY <1>1, <2>1, ElementsOfTail
  <2>4. Head(replay[v]) \in Nal
    BY <1>1, <2>1
  <2>5. Elements(Append(shown[v], Head(replay[v]))) = Elements(shown[v]) \cup {Head(replay[v])}
    BY <1>1, <2>4, ElementsOfAppend
  <2> QED
    BY <1>4, <1>5, <2>1, <2>2, <2>3, <2>5
<1>7. CASE Deliver(v)
  <2>1. /\ Pending(v) # << >> /\ Pending(v)' = Tail(Pending(v))
        /\ shown'[v] = Append(shown[v], Head(Pending(v)))
        /\ replay'[v] = replay[v] /\ missed'[v] = missed[v]
    BY <1>7, Delivered DEF Deliver
  <2>2. Elements(Pending(v)) = {Head(Pending(v))} \cup Elements(Tail(Pending(v)))
    BY <1>1, <2>1, ElementsOfTail
  <2>3. Head(Pending(v)) \in Nal
    BY <1>1, <2>1
  <2>4. Elements(Append(shown[v], Head(Pending(v)))) = Elements(shown[v]) \cup {Head(Pending(v))}
    BY <1>1, <2>3, ElementsOfAppend
  <2> QED
    BY <1>4, <1>5, <2>1, <2>2, <2>4
<1>8. CASE Lagged(v)
  <2>1. Len(Pending(v)) \in Nat /\ Len(Pending(v)) > Capacity /\ Capacity \in Nat
    BY <1>1, <1>8, StreamAssumption DEF Lagged, Lagging
  <2>2. PICK m \in Nat : m = Len(Pending(v)) - Capacity /\ m \in 0..Len(Pending(v))
    BY <2>1
  <2>3. /\ next'[v] = next[v] + m
        /\ missed'[v] = missed[v] \cup {Pending(v)[i] : i \in 1..m}
        /\ shown'[v] = shown[v] /\ replay'[v] = replay[v]
    BY <1>8, <2>2 DEF Lagged, Types, ViewerTypes
  <2>4. /\ Len(Pending(v)') = Len(Pending(v)) - m
        /\ \A i \in 1..Len(Pending(v)') : Pending(v)'[i] = Pending(v)[m + i]
    BY <1>1, <2>2, <2>3, PendingMoves
  <2>5. ASSUME NEW x \in Elements(Pending(v))
        PROVE  x \in {Pending(v)[i] : i \in 1..m} \cup Elements(Pending(v)')
    <3>1. PICK i \in 1..Len(Pending(v)) : x = Pending(v)[i]
      BY DEF Elements
    <3>2. CASE i <= m
      BY <3>1, <3>2
    <3>3. CASE i > m
      <4>1. i - m \in 1..Len(Pending(v)') /\ m + (i - m) = i
        BY <2>1, <2>2, <2>4, <3>3
      <4>2. Pending(v)'[i - m] = Pending(v)[i]
        BY <2>4, <4>1
      <4> QED
        BY <3>1, <4>1, <4>2 DEF Elements
    <3> QED
      BY <2>2, <3>2, <3>3
  <2> QED
    BY <1>4, <1>5, <2>3, <2>5
<1> QED
  BY <1>6, <1>7, <1>8

LEMMA ReachedSame ==
  ASSUME NEW u, UNCHANGED <<channel, pub, proom, frame>>, vroom'[u] = vroom[u],
         next'[u] = next[u], replay'[u] = replay[u], shown'[u] = shown[u],
         missed'[u] = missed[u]
  PROVE  Reached(u)' = Reached(u)
<1>1. Pending(u)' = Pending(u)
  BY DEF Pending
<1>2. PICK r : r = vroom[u]
  OBVIOUS
<1>3. Held(r)' = Held(r)
  BY DEF Held
<1>4. Reached(u)' = Elements(shown'[u]) \cup Elements(replay'[u]) \cup Elements(Pending(u)')
                    \cup Held(r)' \cup missed'[u]
  BY <1>2, ComingIs DEF Reached, Elements, Coming, Held
<1>5. Reached(u) = Elements(shown[u]) \cup Elements(replay[u]) \cup Elements(Pending(u))
                   \cup Held(r) \cup missed[u]
  BY <1>2, ComingIs DEF Reached
<1> QED
  BY <1>1, <1>3, <1>4, <1>5

LEMMA ViewerReaches ==
  ASSUME Types, NEW v \in Viewers, Viewer(v), NeverNeither
  PROVE  NeverNeither'
<1> SUFFICES ASSUME NEW u \in Viewers, view'[u] = "live", client'[u] = "up",
                    NEW i \in joined'[u]+1..Len(recorded'[vroom'[u]])
             PROVE  recorded'[vroom'[u]][i] \in Reached(u)'
  BY DEF NeverNeither, Reached
<1>1. /\ UNCHANGED <<channel, pub, proom, frame, recorded>>
      /\ u # v => /\ view'[u] = view[u] /\ vroom'[u] = vroom[u] /\ next'[u] = next[u]
                  /\ replay'[u] = replay[u] /\ client'[u] = client[u]
                  /\ shown'[u] = shown[u] /\ missed'[u] = missed[u] /\ joined'[u] = joined[u]
  BY ViewerIs
<1>2. ASSUME view[u] = "live", client[u] = "up", joined'[u] = joined[u], vroom'[u] = vroom[u],
             Reached(u) \subseteq Reached(u)'
      PROVE  recorded'[vroom'[u]][i] \in Reached(u)'
  <2>1. recorded[vroom[u]][i] \in Reached(u)
    BY <1>1, <1>2 DEF NeverNeither, Reached
  <2> QED
    BY <1>1, <1>2, <2>1
<1>3. CASE u # v
  <2>1. Reached(u)' = Reached(u)
    BY <1>1, <1>3, ReachedSame
  <2> QED
    BY <1>1, <1>2, <1>3, <2>1
<1>4. CASE u = v /\ (Replay(v) \/ Deliver(v) \/ Lagged(v))
  <2>1. view[v] = "live" /\ UNCHANGED <<joined, vroom, client>>
    BY <1>4 DEF Replay, Deliver, Lagged
  <2> QED
    BY <1>2, <1>4, <2>1, ReachedStays
<1>5. CASE u = v /\ TakeSnapshot(v, "subscribed", "live")
  <2>1. joined'[v] = Len(recorded[vroom[v]]) /\ vroom' = vroom
    BY <1>5 DEF TakeSnapshot, Types, ViewerTypes
  <2>2. recorded[vroom[v]] \in Seq(Nal)
    BY <1>5 DEF TakeSnapshot, Types, ViewerTypes, PublisherTypes
  <2>3. joined'[u] = Len(recorded'[vroom'[u]]) /\ Len(recorded'[vroom'[u]]) \in Nat
    BY <1>1, <1>5, <2>1, <2>2
  <2> QED
    BY <2>3
<1>6. CASE u = v /\ (ViewerConnect(v) \/ Subscribe(v, "room", "subscribed")
                     \/ Fail(v) \/ GiveUp(v) \/ Ping(v) \/ ClientLeave(v) \/ Lose(v))
  <2>1. view'[v] # "live" \/ client'[v] # "up"
    BY <1>6 DEF ViewerConnect, Subscribe, Fail, GiveUp, Ping, ClientLeave, Lose, Types, ViewerTypes
  <2> QED
    BY <1>6, <2>1
<1> QED
  BY <1>3, <1>4, <1>5, <1>6 DEF Viewer, Serve, Join

\* Every state is one of publishers and viewers that hold what their types say:
\* a receiver's position never passes the end of its channel.
THEOREM TypesHold == Spec => []Types
<1>1. Init => Types
  BY InitTypes
<1>2. Types /\ [Next]_vars => Types'
  <2> SUFFICES ASSUME Types, [Next]_vars PROVE Types'
    OBVIOUS
  <2>1. CASE Next
    BY <2>1, PublisherTypesStep, ViewerTypesStep DEF Next
  <2>2. CASE UNCHANGED vars
    BY <2>2 DEF vars, rooms, publishers, viewers, history, Types, PublisherTypes, ViewerTypes
  <2> QED
    BY <2>1, <2>2
<1> QED
  BY <1>1, <1>2, PTL DEF Spec

\* "a viewer that subscribes mid-frame either sees the cached version OR the
\* live one - never neither": for any number of publishers and viewers,
\* whatever their codecs and whatever the window keeps, a frame that was not
\* there to be cached when a viewer took its snapshot is given to the viewer, on
\* its way to it, or skipped by its lagging receiver.
THEOREM CachedOrLive == Spec => []NeverNeither
<1>1. Init => NeverNeither
  BY DEF Init, NeverNeither
<1>2. Types /\ NeverNeither /\ [Next]_vars => NeverNeither'
  <2> SUFFICES ASSUME Types, NeverNeither, [Next]_vars PROVE NeverNeither'
    OBVIOUS
  <2>1. CASE Next
    BY <2>1, PublisherReaches, ViewerReaches DEF Next
  <2>2. CASE UNCHANGED vars
    <3>1. UNCHANGED <<channel, pub, proom, frame, vroom, next, replay, shown, missed,
                      view, client, joined, recorded>>
      BY <2>2 DEF vars, publishers, viewers, history
    <3>2. \A v \in Viewers : Reached(v)' = Reached(v)
      BY <3>1, ReachedSame
    <3> QED
      BY <3>1, <3>2 DEF NeverNeither, Reached
  <2> QED
    BY <2>1, <2>2
<1> QED
  BY <1>1, <1>2, TypesHold, PTL DEF Spec
-----------------------------------------------------------------------------
(* Decodable after a key frame.                                            *)

IsSlice(x, p, g, n) == x.pub = p /\ x.gop = g /\ x.idx = n /\ x.kind # "ps"
SliceIn(s, p, g, n) == \E x \in Elements(s) : IsSlice(x, p, g, n)

\* No delta that comes after the key frame of its gop comes without the slice
\* before it.
Gapless(s) ==
  \A i \in 1..Len(s) :
    s[i].kind = "delta" /\ (\E j \in 1..i-1 : IsSlice(s[j], s[i].pub, s[i].gop, 0))
      => \E j \in 1..i-1 : IsSlice(s[j], s[i].pub, s[i].gop, s[i].idx - 1)

\* One publisher's frames enter the history of its room in order.
SourceOK(p) ==
  /\ enc[p].kind # None => pub[p] # "away" /\ warmup[proom[p]].codec = Uses[p]
  /\ enc[p].kind = "key" => enc[p].idx = 0
  /\ enc[p].kind \in {"key", "delta"} =>
       SliceIn(recorded[proom[p]], p, enc[p].gop, enc[p].idx)
  /\ pub[p] = "send" =>
       /\ frame[p] \in Elements(recorded[proom[p]])
       /\ frame[p].pub = p /\ frame[p].kind = enc[p].kind
       /\ frame[p].gop = enc[p].gop /\ frame[p].idx = enc[p].idx

\* The history of a room is closed under the slices its slices depend on.
HistoryOK(r) ==
  /\ Elements(channel[r]) \subseteq Elements(recorded[r])
  /\ warmup[r].codec # None => \E p \in Publishers : warmup[r].codec = Uses[p]
  /\ \A x \in Elements(recorded[r]) :
       /\ x.gop <= enc[x.pub].gop
       /\ x.kind = "delta" => SliceIn(recorded[r], x.pub, x.gop, x.idx - 1)

\* A window holds one key frame and every slice of its gop recorded so far.
Cached(w) == w.keyframe \o w.since_keyframe
ParamsOK(w) ==
  \A t \in ParamType : w.param_sets[t] # None => w.param_sets[t].kind = "ps"
HoldsGop(w, k, past) ==
  /\ w.keyframe = <<k>> /\ k.kind = "key"
  /\ \A x \in Elements(w.since_keyframe) : x.kind = "delta"
  /\ \A x \in Elements(past) :
       x.kind # "ps" /\ x.pub = k.pub /\ x.gop = k.gop => x \in Elements(Cached(w))
WindowOK(w, past) ==
  /\ ParamsOK(w) /\ Gapless(Cached(w))
  /\ \/ w.keyframe = << >> /\ w.since_keyframe = << >>
     \/ \E k \in Nal : HoldsGop(w, k, past)

Fed(v) == shown[v] \o replay[v] \o Pending(v)

\* The next frame of a publisher continues what a viewer has been fed.
Last(p) == IF pub[p] = "send" THEN enc[p].idx - 1 ELSE enc[p].idx
Follows(v, p) ==
  proom[p] = vroom[v] /\ enc[p].kind = "delta" /\ SliceIn(Fed(v), p, enc[p].gop, 0)
    => SliceIn(Fed(v), p, enc[p].gop, Last(p))

FeedOK(v) ==
  /\ view[v] \in {"away", "room", "subscribed"} => shown[v] = << >> /\ replay[v] = << >>
  /\ missed[v] = {} =>
       /\ Gapless(shown[v])
       /\ view[v] \in {"subscribed", "live"} /\ client[v] = "up" =>
            Gapless(Fed(v)) /\ \A p \in Publishers : Follows(v, p)

StreamInv == /\ \A p \in Publishers : SourceOK(p)
             /\ \A r \in Room : HistoryOK(r) /\ WindowOK(warmup[r], recorded[r])
             /\ \A v \in Viewers : FeedOK(v)

LEMMA SlicesMonotone ==
  ASSUME NEW s, NEW t, Elements(s) \subseteq Elements(t), NEW p, NEW g, NEW n, SliceIn(s, p, g, n)
  PROVE  SliceIn(t, p, g, n)
BY DEF SliceIn

LEMMA GaplessConcat ==
  ASSUME NEW s \in Seq(Nal), NEW t \in Seq(Nal), Gapless(s), Gapless(t),
         \A x \in Elements(t) : x.kind = "delta" /\ SliceIn(s, x.pub, x.gop, 0)
                                  => SliceIn(s, x.pub, x.gop, x.idx - 1)
  PROVE  Gapless(s \o t)
<1> DEFINE u == s \o t
<1>1. /\ Len(u) = Len(s) + Len(t) /\ Len(s) \in Nat /\ Len(t) \in Nat
      /\ \A i \in 1..Len(s) : u[i] = s[i]
      /\ \A i \in 1..Len(t) : u[Len(s) + i] = t[i]
  BY ConcatProperties
<1> HIDE DEF u
<1> SUFFICES ASSUME NEW i \in 1..Len(u), u[i].kind = "delta",
                    NEW j \in 1..i-1, IsSlice(u[j], u[i].pub, u[i].gop, 0)
             PROVE  \E l \in 1..i-1 : IsSlice(u[l], u[i].pub, u[i].gop, u[i].idx - 1)
  BY DEF Gapless, u
<1>2. CASE i <= Len(s)
  <2>1. i \in 1..Len(s) /\ j \in 1..Len(s) /\ u[i] = s[i] /\ u[j] = s[j]
    BY <1>1, <1>2
  <2>2. PICK l \in 1..i-1 : IsSlice(s[l], s[i].pub, s[i].gop, s[i].idx - 1)
    BY <2>1 DEF Gapless
  <2>3. l \in 1..Len(s)
    BY <1>1, <1>2
  <2>4. u[l] = s[l]
    BY <1>1, <2>3
  <2> QED
    BY <2>1, <2>2, <2>4
<1>3. CASE i > Len(s)
  <2>1. PICK k \in 1..Len(t) : i = Len(s) + k
    <3>1. i - Len(s) \in 1..Len(t) /\ i = Len(s) + (i - Len(s))
      BY <1>1, <1>3
    <3> QED
      BY <3>1
  <2>2. u[i] = t[k]
    BY <1>1, <2>1
  <2>3. CASE j <= Len(s)
    <3>1. j \in 1..Len(s) /\ u[j] = s[j]
      BY <1>1, <2>3
    <3>2. SliceIn(s, t[k].pub, t[k].gop, 0)
      BY <2>2, <3>1 DEF SliceIn, Elements
    <3>3. SliceIn(s, t[k].pub, t[k].gop, t[k].idx - 1)
      BY <2>2, <3>2 DEF Elements
    <3>4. PICK l \in 1..Len(s) : IsSlice(s[l], t[k].pub, t[k].gop, t[k].idx - 1)
      BY <3>3 DEF SliceIn, Elements
    <3>5. l \in 1..i-1 /\ u[l] = s[l]
      BY <1>1, <1>3
    <3> QED
      BY <2>2, <3>4, <3>5
  <2>4. CASE j > Len(s)
    <3>1. PICK m \in 1..k-1 : j = Len(s) + m
      <4>1. j - Len(s) \in 1..k-1 /\ j = Len(s) + (j - Len(s))
        BY <1>1, <2>1, <2>4
      <4> QED
        BY <4>1
    <3>2. m \in 1..Len(t)
      BY <1>1, <3>1
    <3>3. u[j] = t[m]
      BY <1>1, <3>1, <3>2
    <3>4. PICK l \in 1..k-1 : IsSlice(t[l], t[k].pub, t[k].gop, t[k].idx - 1)
      BY <2>2, <3>1, <3>3 DEF Gapless
    <3>5. Len(s) + l \in 1..i-1 /\ l \in 1..Len(t)
      BY <1>1, <2>1, <3>4
    <3>6. u[Len(s) + l] = t[l]
      BY <1>1, <3>5
    <3> QED
      BY <2>2, <3>4, <3>5, <3>6
  <2> QED
    BY <1>1, <2>3, <2>4
<1> QED
  BY <1>1, <1>2, <1>3

LEMMA GaplessPrefix ==
  ASSUME NEW s \in Seq(Nal), NEW t \in Seq(Nal), Gapless(s \o t)
  PROVE  Gapless(s)
<1> DEFINE u == s \o t
<1>1. /\ Len(u) = Len(s) + Len(t) /\ Len(s) \in Nat /\ Len(t) \in Nat
      /\ \A i \in 1..Len(s) : u[i] = s[i]
  BY ConcatProperties
<1>2. Gapless(u)
  OBVIOUS
<1> HIDE DEF u
<1> SUFFICES ASSUME NEW i \in 1..Len(s), s[i].kind = "delta",
                    NEW j \in 1..i-1, IsSlice(s[j], s[i].pub, s[i].gop, 0)
             PROVE  \E l \in 1..i-1 : IsSlice(s[l], s[i].pub, s[i].gop, s[i].idx - 1)
  BY DEF Gapless
<1>3. i \in 1..Len(u) /\ j \in 1..Len(s) /\ u[i] = s[i] /\ u[j] = s[j]
  BY <1>1
<1>4. PICK l \in 1..i-1 : IsSlice(u[l], u[i].pub, u[i].gop, u[i].idx - 1)
  BY <1>2, <1>3 DEF Gapless
<1>5. l \in 1..Len(s)
  BY <1>1
<1>6. u[l] = s[l]
  BY <1>1, <1>5
<1> QED
  BY <1>3, <1>4, <1>6

LEMMA GaplessShort ==
  /\ Gapless(<< >>)
  /\ \A x \in Nal : Gapless(<<x>>)
BY DEF Gapless

LEMMA GaplessAppend ==
  ASSUME NEW s \in Seq(Nal), NEW x \in Nal, Gapless(s),
         x.kind = "delta" /\ SliceIn(s, x.pub, x.gop, 0) => SliceIn(s, x.pub, x.gop, x.idx - 1)
  PROVE  Gapless(Append(s, x))
<1>1. <<x>> \in Seq(Nal) /\ Gapless(<<x>>) /\ Elements(<<x>>) = {x}
  BY GaplessShort DEF Elements
<1>2. Append(s, x) = s \o <<x>>
  OBVIOUS
<1> QED
  BY <1>1, <1>2, GaplessConcat

LEMMA ConcatAssoc ==
  ASSUME NEW a \in Seq(Nal), NEW b \in Seq(Nal), NEW c \in Seq(Nal)
  PROVE  (a \o b) \o c = a \o (b \o c) /\ a \o b \in Seq(Nal) /\ b \o c \in Seq(Nal)
OBVIOUS

LEMMA CachedIs ==
  ASSUME NEW w \in StreamWindow
  PROVE  /\ w.keyframe \in Seq(Nal) /\ w.since_keyframe \in Seq(Nal) /\ Cached(w) \in Seq(Nal)
         /\ Elements(Cached(w)) = Elements(w.keyframe) \cup Elements(w.since_keyframe)
<1>1. w.keyframe \in Seq(Nal) /\ w.since_keyframe \in Seq(Nal)
  BY DEF StreamWindow
<1> QED
  BY <1>1, ConcatProperties, ElementsOfConcat DEF Cached

\* Slice 0 of a window is its key frame.
LEMMA FirstSlice ==
  ASSUME NEW w \in StreamWindow, NEW past, NEW k \in Nal, HoldsGop(w, k, past),
         NEW p, NEW g, SliceIn(Cached(w), p, g, 0)
  PROVE  k.pub = p /\ k.gop = g
<1>1. PICK z \in Elements(Cached(w)) : IsSlice(z, p, g, 0)
  BY DEF SliceIn
<1>2. Elements(w.keyframe) = {k}
  BY DEF HoldsGop, Elements
<1>3. \A x \in Elements(w.since_keyframe) : x \in Nal /\ x.kind = "delta"
  BY CachedIs, ElementsAre DEF HoldsGop
<1>4. \A x \in Elements(w.since_keyframe) : x.idx >= 1 /\ x.idx \in Nat
  BY <1>3, NalFields
<1>5. z = k
  BY <1>1, <1>2, <1>4, CachedIs DEF IsSlice
<1> QED
  BY <1>1, <1>5 DEF IsSlice

\* A window that takes a frame for what it is keeps every slice of the gop of
\* its key frame.
LEMMA WindowKept ==
  ASSUME NEW w \in StreamWindow, NEW past \in Seq(Nal), NEW f \in Nal, WindowOK(w, past),
         classify_nal(f, w.codec).kind =
           IF f.kind = "ps" THEN "ParamSet" ELSE IF f.kind = "key" THEN "Keyframe" ELSE "Delta",
         f.kind = "key" => \A x \in Elements(past) : x.pub = f.pub => x.gop # f.gop,
         f.kind = "delta" => SliceIn(past, f.pub, f.gop, f.idx - 1)
  PROVE  WindowOK(record(w, f), Append(past, f))
<1> DEFINE y == record(w, f)
           kind == classify_nal(f, w.codec).kind
           now == Append(past, f)
<1>1. /\ y \in StreamWindow
      /\ kind = "ParamSet" =>
           /\ \A t \in ParamType : y.param_sets[t] \in {w.param_sets[t], f}
           /\ y.keyframe = w.keyframe /\ y.since_keyframe = w.since_keyframe
      /\ kind # "ParamSet" => y.param_sets = w.param_sets
      /\ kind = "Keyframe" => y.keyframe \in {<< >>, <<f>>} /\ y.since_keyframe = << >>
      /\ kind = "Delta" =>
           \/ /\ y.keyframe = w.keyframe /\ y.since_keyframe = w.since_keyframe
              /\ w.keyframe = << >>
           \/ y.keyframe = << >> /\ y.since_keyframe = << >>
           \/ /\ y.keyframe = w.keyframe /\ w.keyframe # << >>
              /\ y.since_keyframe = Append(w.since_keyframe, f)
  BY RecordedAs
<1>2. /\ f.kind = "ps" => kind = "ParamSet"
      /\ f.kind = "key" => kind = "Keyframe"
      /\ f.kind = "delta" => kind = "Delta"
  OBVIOUS
<1>3. Elements(now) = Elements(past) \cup {f}
  BY ElementsOfAppend
<1>4. f.kind \in {"ps", "key", "delta"}
  BY NalFields
<1> HIDE DEF y, kind, now
<1> SUFFICES WindowOK(y, now)
  BY DEF y, now
<1>5. ParamsOK(y)
  <2>1. CASE kind = "ParamSet"
    <3>1. f.kind = "ps"
      BY <1>2, <1>4, <2>1
    <3> QED
      BY <1>1, <2>1, <3>1 DEF WindowOK, ParamsOK
  <2>2. CASE kind # "ParamSet"
    BY <1>1, <2>2 DEF WindowOK, ParamsOK
  <2> QED
    BY <2>1, <2>2
<1>6. ASSUME y.keyframe = << >> /\ y.since_keyframe = << >>
      PROVE  WindowOK(y, now)
  <2>1. Cached(y) = << >>
    BY <1>6 DEF Cached
  <2>2. Gapless(Cached(y))
    BY <2>1, GaplessShort
  <2> QED
    BY <1>5, <1>6, <2>2 DEF WindowOK
<1>7. CASE f.kind = "ps"
  <2>1. y.keyframe = w.keyframe /\ y.since_keyframe = w.since_keyframe
    BY <1>1, <1>2, <1>7
  <2>2. Cached(y) = Cached(w)
    BY <2>1 DEF Cached
  <2>3. \A k \in Nal : HoldsGop(w, k, past) => HoldsGop(y, k, now)
    BY <1>3, <1>7, <2>1, <2>2 DEF HoldsGop
  <2> QED
    BY <1>5, <2>1, <2>2, <2>3 DEF WindowOK
<1>8. CASE f.kind = "key"
  <2>1. y.keyframe \in {<< >>, <<f>>} /\ y.since_keyframe = << >>
    BY <1>1, <1>2, <1>8
  <2>2. CASE y.keyframe = << >>
    BY <1>6, <2>1, <2>2
  <2>3. CASE y.keyframe = <<f>>
    <3>1. Cached(y) = <<f>>
      BY <2>1, <2>3 DEF Cached
    <3>2. f \in Elements(Cached(y))
      BY <3>1 DEF Elements
    <3>3. \A x \in Elements(y.since_keyframe) : x.kind = "delta"
      BY <2>1 DEF Elements
    <3>4. \A x \in Elements(now) : x.pub = f.pub /\ x.gop = f.gop => x = f
      BY <1>3, <1>8
    <3>5. HoldsGop(y, f, now)
      BY <1>8, <2>3, <3>2, <3>3, <3>4 DEF HoldsGop
    <3>6. Gapless(Cached(y))
      BY <3>1, GaplessShort
    <3> QED
      BY <1>5, <3>5, <3>6 DEF WindowOK
  <2> QED
    BY <2>1, <2>2, <2>3
<1>9. CASE f.kind = "delta"
  <2>1. CASE y.keyframe = << >> /\ y.since_keyframe = << >>
    BY <1>6, <2>1
  <2>2. CASE /\ y.keyframe = w.keyframe /\ w.keyframe # << >>
             /\ y.since_keyframe = Append(w.since_keyframe, f)
    <3>1. PICK k \in Nal : HoldsGop(w, k, past)
      BY <2>2 DEF WindowOK
    <3>2. Cached(y) = Append(Cached(w), f)
      <4>1. \A a, b \in Seq(Nal) : a \o Append(b, f) = Append(a \o b, f)
        OBVIOUS
      <4> QED
        BY <2>2, <4>1, CachedIs DEF Cached
    <3>3. Elements(Cached(y)) = Elements(Cached(w)) \cup {f}
      BY <3>2, CachedIs, ElementsOfAppend
    <3>4. \A x \in Elements(y.since_keyframe) : x.kind = "delta"
      <4>1. Elements(y.since_keyframe) = Elements(w.since_keyframe) \cup {f}
        BY <2>2, CachedIs, ElementsOfAppend
      <4> QED
        BY <1>9, <3>1, <4>1 DEF HoldsGop
    <3>5. ASSUME SliceIn(Cached(w), f.pub, f.gop, 0)
          PROVE  SliceIn(Cached(w), f.pub, f.gop, f.idx - 1)
      <4>1. PICK x \in Elements(past) : IsSlice(x, f.pub, f.gop, f.idx - 1)
        BY <1>9 DEF SliceIn
      <4>2. k.pub = f.pub /\ k.gop = f.gop
        BY <3>1, <3>5, FirstSlice
      <4>3. x \in Elements(Cached(w))
        BY <3>1, <4>1, <4>2 DEF IsSlice, HoldsGop
      <4> QED
        BY <4>1, <4>3 DEF SliceIn
    <3>6. Gapless(Cached(y))
      BY <3>2, <3>5, CachedIs, GaplessAppend DEF WindowOK
    <3>7. HoldsGop(y, k, now)
      BY <1>3, <2>2, <3>1, <3>3, <3>4 DEF HoldsGop
    <3> QED
      BY <1>5, <3>6, <3>7 DEF WindowOK
  <2>3. CASE y.keyframe = w.keyframe /\ y.since_keyframe = w.since_keyframe /\ w.keyframe = << >>
    <3>1. w.since_keyframe = << >>
      <4>1. \A k \in Nal : w.keyframe # <<k>>
        BY <2>3
      <4> QED
        BY <2>3, <4>1 DEF WindowOK, HoldsGop
    <3> QED
      BY <1>6, <2>3, <3>1
  <2> QED
    BY <1>1, <1>2, <1>9, <2>1, <2>2, <2>3
<1> QED
  BY <1>4, <1>7, <1>8, <1>9

\* A snapshot gives the slices of its window without a gap, and has slice 0 of a
\* gop only with every slice of it recorded so far.
LEMMA SnapshotGapless ==
  ASSUME NEW w \in StreamWindow, NEW past \in Seq(Nal), WindowOK(w, past)
  PROVE  /\ snapshot(w) \in Seq(Nal) /\ Gapless(snapshot(w))
         /\ \A x \in Elements(past) : x.kind # "ps" /\ SliceIn(snapshot(w), x.pub, x.gop, 0)
                                        => x \in Elements(snapshot(w))
<1> DEFINE params == CachedParams(w)
           rest == Cached(w)
<1>1. /\ params \in Seq(Nal) /\ rest \in Seq(Nal)
      /\ w.keyframe \in Seq(Nal) /\ w.since_keyframe \in Seq(Nal)
  BY Snapshots, CachedIs
<1>0. CASE w.keyframe = << >>
  <2>1. snapshot(w) = << >>
    BY <1>0 DEF snapshot
  <2>2. \A p, g, n : ~SliceIn(<< >>, p, g, n)
    BY DEF SliceIn, Elements
  <2> QED
    BY <2>1, <2>2, Snapshots, GaplessShort
<1>2. w.keyframe # << >> => snapshot(w) = params \o rest
  <2> HAVE w.keyframe # << >>
  <2>1. snapshot(w) = (params \o w.keyframe) \o w.since_keyframe
    BY Zenon DEF snapshot
  <2>2. rest = w.keyframe \o w.since_keyframe
    BY DEF Cached
  <2> HIDE DEF params, rest
  <2>3. PICK a \in Seq(Nal), b \in Seq(Nal), c \in Seq(Nal) :
          a = params /\ b = w.keyframe /\ c = w.since_keyframe
    BY <1>1
  <2>4. (a \o b) \o c = a \o (b \o c)
    BY ConcatAssoc, SMTT(30)
  <2> QED
    BY <2>1, <2>2, <2>3, <2>4
<1>3. \A i \in 1..Len(params) : params[i].kind = "ps"
  BY Snapshots DEF WindowOK, ParamsOK
<1>4. \A x \in Elements(params) : x.kind = "ps"
  BY <1>3 DEF Elements
<1>5. Gapless(rest) /\ Gapless(params)
  BY <1>3 DEF WindowOK, Gapless
<1>6. rest = Cached(w)
  OBVIOUS
<1> HIDE DEF params, rest
<1>7. \A p, g, n : ~SliceIn(params, p, g, n)
  BY <1>4 DEF SliceIn, IsSlice
<1>8. Gapless(params \o rest)
  BY <1>1, <1>5, <1>7, GaplessConcat
<1>9. params \o rest \in Seq(Nal) /\ Elements(params \o rest) = Elements(params) \cup Elements(rest)
  BY <1>1, ElementsOfConcat, ConcatProperties
<1>10. ASSUME NEW x \in Elements(past), x.kind # "ps", SliceIn(params \o rest, x.pub, x.gop, 0)
       PROVE  x \in Elements(params \o rest)
  <2>1. SliceIn(rest, x.pub, x.gop, 0)
    BY <1>7, <1>9, <1>10 DEF SliceIn
  <2>2. rest # << >>
    BY <2>1 DEF SliceIn, Elements
  <2>3. PICK k \in Nal : HoldsGop(w, k, past)
    <3>1. CASE w.keyframe = << >> /\ w.since_keyframe = << >>
      BY <1>6, <2>2, <3>1 DEF Cached
    <3> QED
      BY <3>1 DEF WindowOK
  <2>4. k.pub = x.pub /\ k.gop = x.gop
    BY <1>6, <2>1, <2>3, FirstSlice
  <2>5. x \in Elements(rest)
    BY <1>6, <1>10, <2>3, <2>4 DEF HoldsGop
  <2> QED
    BY <1>9, <2>5
<1> QED
  BY <1>0, <1>2, <1>8, <1>9, <1>10

\* All the publishers of the peer id use the same codec.
SameCodec == \A p, q \in Publishers : Uses[p] = Uses[q]

\* Under one codec every room takes a frame for what it is.
LEMMA TakenForWhatItIs ==
  ASSUME SameCodec, NEW w \in StreamWindow, NEW p \in Publishers, NEW f \in Nal, f.pub = p,
         w.codec # None => \E q \in Publishers : w.codec = Uses[q],
         f.kind = "ps" \/ w.codec = Uses[p]
  PROVE  /\ classify_nal(f, w.codec).kind =
              IF f.kind = "ps" THEN "ParamSet" ELSE IF f.kind = "key" THEN "Keyframe" ELSE "Delta"
         /\ record(w, f).codec = Uses[p]
<1>1. Uses[p] \in Codec /\ Uses[p] # None
  BY StreamAssumption
<1>2. w.codec = None \/ w.codec = Uses[p]
  BY DEF SameCodec
<1>3. classify_nal(f, w.codec).kind =
        IF f.kind = "ps" THEN "ParamSet" ELSE IF f.kind = "key" THEN "Keyframe" ELSE "Delta"
  BY <1>1, <1>2, Classified
<1>4. CASE f.kind = "ps"
  <2>1. record(w, f).codec = IF w.codec = None THEN classify_nal(f, w.codec).codec ELSE w.codec
    BY <1>3, <1>4, RecordedAs
  <2>2. w.codec = None => classify_nal(f, w.codec).codec = Uses[p]
    BY <1>4, Classified
  <2> QED
    BY <1>2, <1>3, <2>1, <2>2
<1>5. CASE f.kind # "ps"
  <2>1. classify_nal(f, w.codec).kind # "ParamSet"
    BY <1>3, <1>5
  <2>2. record(w, f).codec = w.codec
    BY <2>1, RecordedAs
  <2> QED
    BY <1>3, <1>5, <2>2
<1> QED
  BY <1>4, <1>5

\* Publisher p records frame f in room r.
Publishing(p, r, f) ==
  /\ r = proom[p] /\ f.pub = p /\ proom' = proom
  /\ enc[p].kind = None => f.kind = "ps"
  /\ \/ f.kind = "ps" /\ f.gop = enc[p].gop /\ f.idx = 0
     \/ f.kind = "key" /\ f.gop = enc[p].gop + 1 /\ f.idx = 0
     \/ /\ f.kind = "delta" /\ f.gop = enc[p].gop /\ f.idx = enc[p].idx + 1
        /\ enc[p].kind \in {"key", "delta"}
  /\ enc'[p].kind = f.kind /\ enc'[p].gop = f.gop /\ enc'[p].idx = f.idx
  /\ pub[p] = "recv" /\ pub'[p] = "send" /\ frame'[p] = f
  /\ \A q \in Publishers \ {p} : enc'[q] = enc[q] /\ pub'[q] = pub[q] /\ frame'[q] = frame[q]
  /\ warmup'[r] = record(warmup[r], f) /\ recorded'[r] = Append(recorded[r], f)
  /\ \A s \in Room \ {r} : warmup'[s] = warmup[s] /\ recorded'[s] = recorded[s]
  /\ UNCHANGED <<channel, view, vroom, next, replay, client, shown, missed>>
  /\ classify_nal(f, warmup[r].codec).kind =
       IF f.kind = "ps" THEN "ParamSet" ELSE IF f.kind = "key" THEN "Keyframe" ELSE "Delta"
  /\ warmup'[r].codec = Uses[p]
  /\ Elements(recorded'[r]) = Elements(recorded[r]) \cup {f}

LEMMA Published ==
  ASSUME SameCodec, Types, StreamInv, NEW p \in Publishers, Publish(p)
  PROVE  \E r \in Room, f \in Nal : Publishing(p, r, f)
<1>1. PICK f \in Encoded(p) :
           /\ f \in Nal /\ proom[p] \in Room /\ pub[p] = "recv"
           /\ enc' = [enc EXCEPT ![p] = enc'[p]] /\ enc'[p] \in EncoderState
           /\ enc'[p].kind = f.kind /\ enc'[p].gop = f.gop /\ enc'[p].idx = f.idx
           /\ frame' = [frame EXCEPT ![p] = f] /\ frame'[p] = f
           /\ warmup' = [warmup EXCEPT ![proom[p]] = record(warmup[proom[p]], f)]
           /\ recorded' = [recorded EXCEPT ![proom[p]] = Append(recorded[proom[p]], f)]
           /\ pub' = [pub EXCEPT ![p] = "send"]
           /\ UNCHANGED <<rooms, channel, proom, viewers, history>>
  BY PublishIs
<1>2. PICK r \in Room : r = proom[p]
  BY <1>1
<1>3. /\ f.pub = p /\ (enc[p].kind = None => f.kind = "ps")
      /\ \/ f.kind = "ps" /\ f.gop = enc[p].gop /\ f.idx = 0
         \/ f.kind = "key" /\ f.gop = enc[p].gop + 1 /\ f.idx = 0
         \/ /\ f.kind = "delta" /\ f.gop = enc[p].gop /\ f.idx = enc[p].idx + 1
            /\ enc[p].kind \in {"key", "delta"}
  BY EncodedIs DEF Types
<1>4. /\ pub'[p] = "send" /\ warmup'[r] = record(warmup[r], f)
      /\ recorded'[r] = Append(recorded[r], f)
      /\ \A s \in Room \ {r} : warmup'[s] = warmup[s] /\ recorded'[s] = recorded[s]
      /\ \A q \in Publishers \ {p} : enc'[q] = enc[q] /\ pub'[q] = pub[q] /\ frame'[q] = frame[q]
  BY <1>1, <1>2 DEF Types, PublisherTypes
<1>5. warmup[r] \in StreamWindow /\ recorded[r] \in Seq(Nal)
  BY DEF Types, PublisherTypes
<1>6. warmup[r].codec # None => \E q \in Publishers : warmup[r].codec = Uses[q]
  BY DEF StreamInv, HistoryOK
<1>7. f.kind = "ps" \/ warmup[r].codec = Uses[p]
  BY <1>2, <1>3 DEF StreamInv, SourceOK
<1>8. /\ classify_nal(f, warmup[r].codec).kind =
         IF f.kind = "ps" THEN "ParamSet" ELSE IF f.kind = "key" THEN "Keyframe" ELSE "Delta"
      /\ warmup'[r].codec = Uses[p]
  BY <1>1, <1>3, <1>4, <1>5, <1>6, <1>7, TakenForWhatItIs
<1>9. Elements(recorded'[r]) = Elements(recorded[r]) \cup {f}
  BY <1>1, <1>4, <1>5, ElementsOfAppend
<1>10. UNCHANGED <<proom, channel, view, vroom, next, replay, client, shown, missed>>
  BY <1>1 DEF viewers, history
<1> QED
  BY <1>1, <1>2, <1>3, <1>4, <1>8, <1>9, <1>10 DEF Publishing

LEMMA PublishKeepsSources ==
  ASSUME Types, StreamInv, NEW p \in Publishers, NEW r \in Room, NEW f \in Nal,
         Publishing(p, r, f), NEW q \in Publishers
  PROVE  SourceOK(q)'
<1> USE DEF Publishing
<1>1. SourceOK(q) /\ f.kind \in {"ps", "key", "delta"}
  BY NalFields DEF StreamInv
<1>2. CASE q = p
  <2>1. SliceIn(recorded'[r], p, f.gop, f.idx) \/ f.kind = "ps"
    BY <1>1 DEF SliceIn, IsSlice
  <2>2. f \in Elements(recorded'[r])
    OBVIOUS
  <2> QED
    BY <1>1, <1>2, <2>1, <2>2 DEF SourceOK
<1>3. CASE q # p
  <2>1. enc'[q] = enc[q] /\ pub'[q] = pub[q] /\ frame'[q] = frame[q] /\ proom'[q] = proom[q]
    BY <1>3
  <2>2. PICK s : s = proom[q]
    OBVIOUS
  <2>3. pub[q] # "away" => s \in Room
    BY <2>2 DEF Types, PublisherTypes
  <2>4. CASE enc[q].kind = None /\ pub[q] # "send"
    BY <2>1, <2>4, StreamAssumption DEF SourceOK
  <2>5. CASE enc[q].kind # None \/ pub[q] = "send"
    <3>1. s \in Room
      BY <1>1, <2>3, <2>5 DEF SourceOK
    <3>2. Elements(recorded[s]) \subseteq Elements(recorded'[s])
      BY <3>1
    <3>3. enc[q].kind # None => warmup'[s].codec = Uses[q]
      <4>1. CASE s = r
        <5> SUFFICES ASSUME enc[q].kind # None PROVE warmup'[s].codec = Uses[q]
          OBVIOUS
        <5>1. warmup[r].codec = Uses[q]
          BY <1>1, <2>2, <4>1 DEF SourceOK
        <5>2. warmup[r].codec # None
          BY <5>1, StreamAssumption
        <5>3. warmup[r] \in StreamWindow
          BY DEF Types, PublisherTypes
        <5>4. warmup'[r].codec = warmup[r].codec
          <6>1. record(warmup[r], f).codec = warmup[r].codec
            BY <5>2, <5>3, Classes, RecordedAs
          <6> QED
            BY <6>1
        <5> QED
          BY <4>1, <5>1, <5>4
      <4>2. CASE s # r
        BY <1>1, <2>2, <3>1, <4>2 DEF SourceOK
      <4> QED
        BY <4>1, <4>2
    <3>4. enc[q].kind \in {"key", "delta"} => SliceIn(recorded'[s], q, enc[q].gop, enc[q].idx)
      BY <1>1, <2>2, <3>2, SlicesMonotone DEF SourceOK
    <3> QED
      BY <1>1, <2>1, <2>2, <3>2, <3>3, <3>4 DEF SourceOK
  <2> QED
    BY <2>4, <2>5
<1> QED
  BY <1>2, <1>3

LEMMA PublishKeepsHistory ==
  ASSUME Types, StreamInv, NEW p \in Publishers, NEW r \in Room, NEW f \in Nal,
         Publishing(p, r, f), NEW s \in Room
  PROVE  HistoryOK(s)' /\ WindowOK(warmup[s], recorded[s])'
<1> USE DEF Publishing
<1>1. HistoryOK(s) /\ WindowOK(warmup[s], recorded[s]) /\ SourceOK(p)
  BY DEF StreamInv
<1>2. /\ warmup[s] \in StreamWindow /\ recorded[s] \in Seq(Nal) /\ recorded'[s] \in Seq(Nal)
      /\ Elements(recorded[s]) \subseteq Nal /\ Elements(recorded[s]) \subseteq Elements(recorded'[s])
  <2>1. warmup[s] \in StreamWindow /\ recorded[s] \in Seq(Nal)
    BY DEF Types, PublisherTypes
  <2>2. recorded'[s] \in Seq(Nal)
    <3>1. CASE s = r
      <4>1. recorded'[s] = Append(recorded[s], f)
        BY <3>1
      <4> HIDE DEF Publishing
      <4> QED
        BY <2>1, <4>1
    <3>2. CASE s # r
      <4>1. recorded'[s] = recorded[s]
        BY <3>2
      <4> QED
        BY <2>1, <4>1
    <3> QED
      BY <3>1, <3>2
  <2> QED
    BY <2>1, <2>2, ElementsAre
<1>3. enc[p].gop \in Nat /\ f.gop \in Nat /\ f.idx \in Nat
  BY NalFields DEF Types, PublisherTypes, EncoderState
<1>4. \A x \in Nal : x.gop \in Nat /\ enc[x.pub].gop \in Nat /\ enc[x.pub].gop <= enc'[x.pub].gop
  <2> TAKE x \in Nal
  <2>1. x.pub \in Publishers /\ x.gop \in Nat
    BY NalFields
  <2>2. enc[x.pub].gop \in Nat
    BY <2>1 DEF Types, PublisherTypes, EncoderState
  <2>3. enc[p].gop <= f.gop
    BY <1>3
  <2> QED
    BY <2>1, <2>2, <2>3
<1>5. f.kind = "delta" => SliceIn(recorded[r], p, f.gop, f.idx - 1)
  <2> HAVE f.kind = "delta"
  <2>1. /\ enc[p].kind \in {"key", "delta"} /\ f.gop = enc[p].gop /\ f.idx = enc[p].idx + 1
        /\ enc[p].idx \in Nat
    BY DEF Types, PublisherTypes, EncoderState
  <2>2. SliceIn(recorded[r], p, f.gop, enc[p].idx)
    BY <1>1, <2>1 DEF SourceOK
  <2>3. f.idx - 1 = enc[p].idx
    BY <2>1
  <2> QED
    BY <2>2, <2>3
<1>6. \A x \in Elements(recorded'[s]) :
        /\ x.gop <= enc'[x.pub].gop
        /\ x.kind = "delta" => SliceIn(recorded'[s], x.pub, x.gop, x.idx - 1)
  <2> TAKE x \in Elements(recorded'[s])
  <2>1. CASE x \in Elements(recorded[s])
    <3>1. x \in Nal /\ x.gop <= enc[x.pub].gop
          /\ (x.kind = "delta" => SliceIn(recorded[s], x.pub, x.gop, x.idx - 1))
      BY <1>1, <1>2, <2>1 DEF HistoryOK
    <3>2. x.gop <= enc'[x.pub].gop
      <4>1. PICK a \in Nat, b \in Nat, c \in Nat : a = x.gop /\ b = enc[x.pub].gop
                                                   /\ c = enc'[x.pub].gop
        <5>1. x.pub \in Publishers
          BY <3>1, NalFields
        <5>2. enc'[x.pub].gop \in Nat
          BY <1>3, <1>4, <3>1, <5>1
        <5> QED
          BY <1>4, <3>1, <5>2
      <4> QED
        BY <1>4, <3>1, <4>1
    <3> QED
      BY <1>2, <3>1, <3>2, SlicesMonotone
  <2>2. CASE x \notin Elements(recorded[s])
    <3>1. s = r /\ x = f
      BY <2>2
    <3>2. f.gop <= enc'[f.pub].gop
      BY <1>3
    <3> QED
      BY <1>2, <1>5, <3>1, <3>2, SlicesMonotone
  <2> QED
    BY <2>1, <2>2
<1>7. warmup'[s].codec # None => \E q \in Publishers : warmup'[s].codec = Uses[q]
  BY <1>1 DEF HistoryOK
<1>8. Elements(channel'[s]) \subseteq Elements(recorded'[s])
  BY <1>1, <1>2 DEF HistoryOK
<1>9. HistoryOK(s)'
  BY <1>6, <1>7, <1>8 DEF HistoryOK
<1>10. WindowOK(warmup'[s], recorded'[s])
  <2>1. CASE s # r
    <3>1. warmup'[s] = warmup[s] /\ recorded'[s] = recorded[s]
      BY <2>1
    <3> HIDE DEF Publishing
    <3> QED
      BY <1>1, <3>1
  <2>2. CASE s = r
    <3>1. f.kind = "key" => \A x \in Elements(recorded[r]) : x.pub = f.pub => x.gop # f.gop
      <4> SUFFICES ASSUME f.kind = "key", NEW x \in Elements(recorded[r]), x.pub = f.pub
                   PROVE  x.gop # f.gop
        OBVIOUS
      <4>1. x \in Nal /\ x.gop <= enc[p].gop /\ f.gop = enc[p].gop + 1
        BY <1>1, <1>2, <2>2 DEF HistoryOK
      <4> QED
        BY <1>3, <1>4, <4>1
    <3>2. WindowOK(record(warmup[r], f), Append(recorded[r], f))
      BY <1>1, <1>2, <1>5, <2>2, <3>1, WindowKept
    <3> QED
      BY <2>2, <3>2
  <2> QED
    BY <2>1, <2>2
<1> QED
  BY <1>9, <1>10

\* While a publisher waits to send, and when it does not, what viewers have been
\* fed stays the same.
LEMMA FedSame ==
  ASSUME NEW v, UNCHANGED channel, vroom'[v] = vroom[v], next'[v] = next[v],
         replay'[v] = replay[v], shown'[v] = shown[v]
  PROVE  Fed(v)' = Fed(v)
BY DEF Fed, Pending

LEMMA FedIs ==
  ASSUME Types, NEW v \in Viewers, view[v] # "away"
  PROVE  /\ shown[v] \in Seq(Nal) /\ replay[v] \in Seq(Nal) /\ Pending(v) \in Seq(Nal)
         /\ Fed(v) \in Seq(Nal)
         /\ Elements(Fed(v)) = Elements(shown[v]) \cup Elements(replay[v]) \cup Elements(Pending(v))
<1>1. shown[v] \in Seq(Nal) /\ replay[v] \in Seq(Nal) /\ Pending(v) \in Seq(Nal)
  BY PendingIs DEF Types, ViewerTypes
<1>2. shown[v] \o replay[v] \in Seq(Nal)
      /\ Elements(shown[v] \o replay[v]) = Elements(shown[v]) \cup Elements(replay[v])
  BY <1>1, ElementsOfConcat, ConcatProperties
<1> DEFINE a == shown[v] \o replay[v]
           b == Pending(v)
<1>3. a \in Seq(Nal) /\ b \in Seq(Nal) /\ Fed(v) = a \o b
  BY <1>1, <1>2 DEF Fed
<1> HIDE DEF a, b
<1>4. a \o b \in Seq(Nal) /\ Elements(a \o b) = Elements(a) \cup Elements(b)
  BY <1>3, ElementsOfConcat, ConcatProperties
<1> QED
  BY <1>1, <1>2, <1>3, <1>4 DEF a, b

LEMMA PublishKeepsFeeds ==
  ASSUME Types, StreamInv, NEW p \in Publishers, NEW r \in Room, NEW f \in Nal,
         Publishing(p, r, f), NEW v \in Viewers
  PROVE  FeedOK(v)'
<1> USE DEF Publishing
<1>1. FeedOK(v) /\ SourceOK(p)
  BY DEF StreamInv
<1>2. Fed(v)' = Fed(v)
  BY FedSame
<1>3. ASSUME NEW q \in Publishers, Follows(v, q) PROVE Follows(v, q)'
  <2>1. CASE q # p
    <3>1. enc'[q] = enc[q] /\ pub'[q] = pub[q] /\ proom'[q] = proom[q] /\ vroom'[v] = vroom[v]
      BY <2>1
    <3>2. Last(q)' = Last(q)
      BY <3>1 DEF Last
    <3> QED
      BY <1>2, <1>3, <3>1, <3>2 DEF Follows
  <2>2. CASE q = p
    <3> SUFFICES ASSUME proom[p] = vroom[v], enc'[p].kind = "delta",
                        SliceIn(Fed(v), p, enc'[p].gop, 0)
                 PROVE  SliceIn(Fed(v), p, enc'[p].gop, Last(p)')
      BY <1>2, <2>2 DEF Follows
    <3>1. /\ enc[p].kind \in {"key", "delta"} /\ enc'[p].gop = enc[p].gop
          /\ enc'[p].idx = enc[p].idx + 1 /\ enc[p].idx \in Nat
      BY DEF Types, PublisherTypes, EncoderState
    <3>2. Last(p)' = enc[p].idx
      BY <3>1 DEF Last
    <3>3. CASE enc[p].kind = "key"
      <4>1. enc[p].idx = 0
        BY <1>1, <3>3 DEF SourceOK
      <4> QED
        BY <3>1, <3>2, <4>1
    <3>4. CASE enc[p].kind = "delta"
      <4>1. Last(p) = enc[p].idx
        BY DEF Last
      <4>2. SliceIn(Fed(v), p, enc[p].gop, Last(p))
        BY <1>3, <2>2, <3>1, <3>4 DEF Follows
      <4> QED
        BY <3>1, <3>2, <4>1, <4>2
    <3> QED
      BY <3>1, <3>3, <3>4
  <2> QED
    BY <2>1, <2>2
<1> QED
  BY <1>1, <1>2, <1>3 DEF FeedOK

LEMMA FanoutKeeps ==
  ASSUME Types, StreamInv, NEW p \in Publishers, Fanout(p)
  PROVE  StreamInv'
<1>1. /\ pub[p] = "send" /\ pub'[p] = "recv" /\ frame[p] \in Nal
      /\ \A q \in Publishers \ {p} : pub'[q] = pub[q]
      /\ channel' = [channel EXCEPT ![proom[p]] =
                   IF Receivers(proom[p]) = {} THEN @ ELSE Append(@, frame[p])]
      /\ UNCHANGED <<warmup, proom, frame, enc, recorded,
                     view, vroom, next, replay, client, shown, missed>>
  BY DEF Fanout, viewers, history, Types, PublisherTypes
<1>2. PICK r \in Room : r = proom[p]
  BY <1>1 DEF Types, PublisherTypes
<1>3. PICK x \in Nal : x = frame[p]
  BY <1>1
<1>4. /\ x \in Elements(recorded[r]) /\ x.pub = p /\ x.kind = enc[p].kind
      /\ x.gop = enc[p].gop /\ x.idx = enc[p].idx
  BY <1>1, <1>2, <1>3 DEF StreamInv, SourceOK
<1>5. /\ channel[r] \in Seq(Nal) /\ Elements(Append(channel[r], x)) = Elements(channel[r]) \cup {x}
      /\ channel'[r] \in {channel[r], Append(channel[r], x)}
      /\ Receivers(r) # {} => channel'[r] = Append(channel[r], x)
      /\ \A s \in Room \ {r} : channel'[s] = channel[s]
  <2>1. channel[r] \in Seq(Nal) /\ channel'[r] \in {channel[r], Append(channel[r], x)}
        /\ (Receivers(r) # {} => channel'[r] = Append(channel[r], x))
        /\ \A s \in Room \ {r} : channel'[s] = channel[s]
    BY <1>1, <1>2, <1>3 DEF Types, PublisherTypes
  <2> QED
    BY <2>1, ElementsOfAppend
<1>6. ASSUME NEW q \in Publishers PROVE SourceOK(q)'
  <2>1. SourceOK(q)
    BY DEF StreamInv
  <2>2. pub'[q] = pub[q] \/ (pub[q] = "send" /\ pub'[q] = "recv")
    BY <1>1
  <2> QED
    BY <1>1, <2>1, <2>2 DEF SourceOK
<1>7. ASSUME NEW s \in Room PROVE HistoryOK(s)' /\ WindowOK(warmup[s], recorded[s])'
  <2>1. HistoryOK(s) /\ WindowOK(warmup[s], recorded[s])
    BY DEF StreamInv
  <2>2. Elements(channel'[s]) \subseteq Elements(recorded[s])
    <3>1. CASE s = r
      BY <1>4, <1>5, <2>1, <3>1 DEF HistoryOK
    <3>2. CASE s # r
      <4>1. channel'[s] = channel[s]
        BY <1>5, <3>2
      <4> QED
        BY <2>1, <4>1 DEF HistoryOK
    <3> QED
      BY <3>1, <3>2
  <2> QED
    BY <1>1, <2>1, <2>2 DEF HistoryOK
<1>8. ASSUME NEW v \in Viewers PROVE FeedOK(v)'
  <2>1. FeedOK(v)
    BY DEF StreamInv
  <2>2. CASE ~(view[v] \in {"subscribed", "live"} /\ client[v] = "up")
    BY <1>1, <2>1, <2>2 DEF FeedOK
  <2>3. CASE view[v] \in {"subscribed", "live"} /\ client[v] = "up" /\ vroom[v] # r
    <3>1. vroom[v] \in Room
      BY <2>3 DEF Types, ViewerTypes
    <3>2. channel'[vroom[v]] = channel[vroom[v]]
      BY <1>5, <2>3, <3>1
    <3>3. Fed(v)' = Fed(v)
      BY <1>1, <3>2 DEF Fed, Pending
    <3>4. ASSUME NEW q \in Publishers, Follows(v, q) PROVE Follows(v, q)'
      <4>1. CASE q = p
        BY <1>1, <1>2, <2>3, <4>1 DEF Follows
      <4>2. CASE q # p
        <5>1. Last(q)' = Last(q)
          BY <1>1, <4>2 DEF Last
        <5> QED
          BY <1>1, <3>3, <3>4, <5>1 DEF Follows
      <4> QED
        BY <4>1, <4>2
    <3> QED
      BY <1>1, <2>1, <3>3, <3>4 DEF FeedOK
  <2>4. CASE view[v] \in {"subscribed", "live"} /\ client[v] = "up" /\ vroom[v] = r
    <3>1. channel'[vroom[v]] = Append(channel[vroom[v]], x) /\ view[v] # "away"
      <4>1. v \in Receivers(r)
        BY <2>4 DEF Receivers
      <4> QED
        BY <1>5, <2>4, <4>1
    <3>2. Pending(v)' = Append(Pending(v), x)
      BY <1>1, <3>1, PendingGrows
    <3>3. /\ Fed(v) \in Seq(Nal) /\ Pending(v) \in Seq(Nal)
          /\ shown[v] \o replay[v] \in Seq(Nal)
      BY <3>1, FedIs, ConcatProperties
    <3>4. Fed(v)' = Append(Fed(v), x)
      <4>1. \A a, b \in Seq(Nal) : a \o Append(b, x) = Append(a \o b, x)
        OBVIOUS
      <4>2. PICK a \in Seq(Nal), b \in Seq(Nal) : a = shown[v] \o replay[v] /\ b = Pending(v)
        BY <3>3
      <4>3. Fed(v) = a \o b
        BY <4>2 DEF Fed
      <4>4. Fed(v)' = a \o Append(b, x)
        BY <1>1, <3>2, <4>2 DEF Fed
      <4> QED
        BY <4>1, <4>3, <4>4
    <3>5. Elements(Fed(v)') = Elements(Fed(v)) \cup {x}
      BY <3>3, <3>4, ElementsOfAppend
    <3>6. missed[v] = {} => Gapless(Fed(v)')
      <4> SUFFICES ASSUME missed[v] = {} PROVE Gapless(Fed(v)')
        OBVIOUS
      <4>1. Gapless(Fed(v)) /\ Follows(v, p)
        BY <2>1, <2>4 DEF FeedOK
      <4>2. ASSUME x.kind = "delta", SliceIn(Fed(v), x.pub, x.gop, 0)
            PROVE  SliceIn(Fed(v), x.pub, x.gop, x.idx - 1)
        <5>1. Last(p) = x.idx - 1
          BY <1>1, <1>4 DEF Last
        <5> QED
          BY <1>2, <1>4, <2>4, <4>1, <4>2, <5>1 DEF Follows
      <4> QED
        BY <3>3, <3>4, <4>1, <4>2, GaplessAppend
    <3>7. ASSUME NEW q \in Publishers, Follows(v, q) PROVE Follows(v, q)'
      <4> SUFFICES ASSUME proom[q] = vroom[v], enc[q].kind = "delta",
                          SliceIn(Fed(v)', q, enc[q].gop, 0)
                   PROVE  SliceIn(Fed(v)', q, enc[q].gop, Last(q)')
        BY <1>1 DEF Follows
      <4>1. CASE q = p
        <5>1. Last(p)' = enc[p].idx
          BY <1>1 DEF Last
        <5>2. IsSlice(x, p, enc[p].gop, enc[p].idx)
          BY <1>4, <4>1 DEF IsSlice
        <5> QED
          BY <3>5, <4>1, <5>1, <5>2 DEF SliceIn
      <4>2. CASE q # p
        <5>1. Last(q)' = Last(q)
          BY <1>1, <4>2 DEF Last
        <5>2. SliceIn(Fed(v), q, enc[q].gop, 0)
          BY <1>4, <3>5, <4>2 DEF SliceIn, IsSlice
        <5>3. SliceIn(Fed(v), q, enc[q].gop, Last(q))
          BY <3>7, <5>2 DEF Follows
        <5> QED
          BY <3>5, <5>1, <5>3 DEF SliceIn
      <4> QED
        BY <4>1, <4>2
    <3> QED
      BY <1>1, <2>1, <2>4, <3>6, <3>7 DEF FeedOK
  <2> QED
    BY <2>2, <2>3, <2>4
<1> QED
  BY <1>6, <1>7, <1>8 DEF StreamInv

LEMMA PublisherKeeps ==
  ASSUME SameCodec, Types, StreamInv, NEW p \in Publishers, Publisher(p)
  PROVE  StreamInv'
<1>1. CASE Publish(p)
  <2>1. PICK r \in Room, f \in Nal : Publishing(p, r, f)
    BY <1>1, Published
  <2> QED
    BY <2>1, PublishKeepsSources, PublishKeepsHistory, PublishKeepsFeeds DEF StreamInv
<1>2. CASE Fanout(p)
  BY <1>2, FanoutKeeps
<1>3. CASE PublisherConnect(p) \/ PublisherClose(p) \/ PublisherError(p) \/ Cleanup(p)
  <2>1. /\ UNCHANGED <<warmup, channel, frame, enc, recorded,
                       view, vroom, next, replay, client, shown, missed>>
        /\ pub[p] # "send" /\ pub'[p] \notin {"away", "send"}
        /\ \A q \in Publishers \ {p} : pub'[q] = pub[q] /\ proom'[q] = proom[q]
        /\ pub[p] = "away" \/ proom'[p] = proom[p]
    BY <1>3 DEF PublisherConnect, PublisherClose, PublisherError, Cleanup, publishers, viewers,
                history, Types, PublisherTypes
  <2>2. pub[p] = "away" => enc[p].kind = None
    BY DEF StreamInv, SourceOK
  <2>3. ASSUME NEW q \in Publishers PROVE SourceOK(q)'
    <3>1. SourceOK(q)
      BY DEF StreamInv
    <3>2. CASE q = p
      BY <2>1, <2>2, <3>1, <3>2, StreamAssumption DEF SourceOK
    <3>3. CASE q # p
      BY <2>1, <3>1, <3>3 DEF SourceOK
    <3> QED
      BY <3>2, <3>3
  <2>4. ASSUME NEW s \in Room PROVE HistoryOK(s)' /\ WindowOK(warmup[s], recorded[s])'
    BY <2>1 DEF StreamInv, HistoryOK
  <2>5. ASSUME NEW v \in Viewers PROVE FeedOK(v)'
    <3>1. FeedOK(v)
      BY DEF StreamInv
    <3>2. Fed(v)' = Fed(v)
      BY <2>1, FedSame
    <3>3. ASSUME NEW q \in Publishers, Follows(v, q) PROVE Follows(v, q)'
      <4>1. CASE enc[q].kind # "delta"
        BY <2>1, <4>1 DEF Follows
      <4>2. CASE enc[q].kind = "delta"
        <5>1. proom'[q] = proom[q]
          BY <2>1, <2>2, <4>2, StreamAssumption
        <5>2. Last(q)' = Last(q)
          BY <2>1 DEF Last
        <5> QED
          BY <2>1, <3>2, <3>3, <5>1, <5>2 DEF Follows
      <4> QED
        BY <4>1, <4>2
    <3> QED
      BY <2>1, <3>1, <3>2, <3>3 DEF FeedOK
  <2> QED
    BY <2>3, <2>4, <2>5 DEF StreamInv
<1> QED
  BY <1>1, <1>2, <1>3 DEF Publisher

\* A viewer that joins is fed the snapshot and then what the channel has sent
\* since it subscribed, without a gap between the two.
LEMMA SnapshotFeeds ==
  ASSUME Types, StreamInv, NEW v \in Viewers, TakeSnapshot(v, "subscribed", "live")
  PROVE  FeedOK(v)'
<1>1. /\ view[v] = "subscribed" /\ view'[v] = "live" /\ client' = client
      /\ replay'[v] = snapshot(warmup[vroom[v]])
      /\ UNCHANGED <<channel, recorded, pub, proom, enc, vroom, next, shown, missed>>
  BY DEF TakeSnapshot, publishers, Types, ViewerTypes
<1>2. FeedOK(v) /\ shown[v] = << >> /\ replay[v] = << >>
  BY <1>1 DEF StreamInv, FeedOK
<1>3. PICK r \in Room : r = vroom[v]
  BY <1>1 DEF Types, ViewerTypes
<1>4. /\ warmup[r] \in StreamWindow /\ recorded[r] \in Seq(Nal)
      /\ WindowOK(warmup[r], recorded[r]) /\ HistoryOK(r)
  BY DEF StreamInv, Types, PublisherTypes
<1>5. PICK s \in Seq(Nal) :
        /\ s = snapshot(warmup[r]) /\ Gapless(s)
        /\ \A x \in Elements(recorded[r]) : x.kind # "ps" /\ SliceIn(s, x.pub, x.gop, 0)
                                              => x \in Elements(s)
  BY <1>4, SnapshotGapless
<1>6. PICK t \in Seq(Nal) : t = Pending(v) /\ Elements(t) \subseteq Elements(recorded[r])
  BY <1>1, <1>3, <1>4, PendingIs DEF Types, HistoryOK
<1>7. Fed(v) = t /\ Fed(v)' = s \o t
  <2>1. \A a \in Seq(Nal) : << >> \o a = a
    OBVIOUS
  <2>2. Pending(v)' = t
    BY <1>1, <1>6 DEF Pending
  <2>3. << >> \o << >> = << >>
    OBVIOUS
  <2>4. shown'[v] = << >> /\ replay'[v] = s
    BY <1>1, <1>2, <1>3, <1>5
  <2>5. Fed(v) = t
    BY <1>2, <1>6, <2>1, <2>3 DEF Fed
  <2>6. Fed(v)' = s \o t
    BY <2>1, <2>2, <2>4 DEF Fed
  <2> QED
    BY <2>5, <2>6
<1>8. Elements(s \o t) = Elements(s) \cup Elements(t)
  BY ElementsOfConcat
<1>9. \A x \in Elements(recorded[r]) :
        x.kind = "delta" => SliceIn(recorded[r], x.pub, x.gop, x.idx - 1)
  BY <1>4 DEF HistoryOK
<1>10. ASSUME NEW p, NEW g, NEW n, SliceIn(recorded[r], p, g, n), SliceIn(s, p, g, 0)
       PROVE  SliceIn(s, p, g, n)
  <2>1. PICK x \in Elements(recorded[r]) : IsSlice(x, p, g, n)
    BY <1>10 DEF SliceIn
  <2>2. x \in Elements(s)
    BY <1>5, <1>10, <2>1 DEF IsSlice
  <2> QED
    BY <2>1, <2>2 DEF SliceIn
<1> SUFFICES ASSUME missed[v] = {}, client[v] = "up"
             PROVE  Gapless(s \o t) /\ \A p \in Publishers : Follows(v, p)'
  BY <1>1, <1>2, <1>7 DEF FeedOK
<1>11. Gapless(t) /\ \A p \in Publishers : Follows(v, p)
  BY <1>1, <1>2, <1>7 DEF FeedOK
<1>12. \A x \in Elements(t) : x.kind = "delta" /\ SliceIn(s, x.pub, x.gop, 0)
                                => SliceIn(s, x.pub, x.gop, x.idx - 1)
  BY <1>6, <1>9, <1>10
<1>13. Gapless(s \o t)
  BY <1>5, <1>11, <1>12, GaplessConcat
<1>14. ASSUME NEW p \in Publishers PROVE Follows(v, p)'
  <2> SUFFICES ASSUME proom[p] = r, enc[p].kind = "delta", SliceIn(s \o t, p, enc[p].gop, 0)
               PROVE  SliceIn(s \o t, p, enc[p].gop, Last(p))
    BY <1>1, <1>3, <1>7 DEF Follows, Last
  <2>1. CASE SliceIn(t, p, enc[p].gop, 0)
    <3>1. SliceIn(t, p, enc[p].gop, Last(p))
      BY <1>3, <1>7, <1>11, <2>1 DEF Follows
    <3> QED
      BY <1>8, <3>1, SlicesMonotone
  <2>2. CASE SliceIn(s, p, enc[p].gop, 0)
    <3>1. SliceIn(recorded[r], p, enc[p].gop, enc[p].idx)
      BY DEF StreamInv, SourceOK
    <3>2. CASE pub[p] # "send"
      <4>1. Last(p) = enc[p].idx
        BY <3>2 DEF Last
      <4>2. SliceIn(s, p, enc[p].gop, Last(p))
        BY <1>10, <2>2, <3>1, <4>1
      <4> QED
        BY <1>8, <4>2, SlicesMonotone
    <3>3. CASE pub[p] = "send"
      <4>1. /\ frame[p] \in Elements(recorded[r]) /\ frame[p].pub = p
            /\ frame[p].kind = "delta" /\ frame[p].gop = enc[p].gop
            /\ frame[p].idx = enc[p].idx
        BY <3>3 DEF StreamInv, SourceOK
      <4>2. SliceIn(recorded[r], p, enc[p].gop, enc[p].idx - 1)
        BY <1>9, <4>1
      <4>3. Last(p) = enc[p].idx - 1
        BY <3>3 DEF Last
      <4>4. SliceIn(s, p, enc[p].gop, Last(p))
        BY <1>10, <2>2, <4>2, <4>3
      <4> QED
        BY <1>8, <4>4, SlicesMonotone
    <3> QED
      BY <3>2, <3>3
  <2> QED
    BY <1>8, <2>1, <2>2 DEF SliceIn
<1> QED
  BY <1>13, <1>14

LEMMA HeadMoves ==
  ASSUME NEW a \in Seq(Nal), NEW b \in Seq(Nal), b # << >>
  PROVE  Append(a, Head(b)) \o Tail(b) = a \o b
OBVIOUS

\* A frame given to the client was the next one to be fed.
LEMMA FedMoves ==
  ASSUME Types, NEW v \in Viewers, Replay(v) \/ Deliver(v)
  PROVE  Fed(v)' = Fed(v) /\ \E t \in Seq(Nal) : Fed(v) = shown'[v] \o t /\ shown'[v] \in Seq(Nal)
<1>1. view[v] = "live" /\ view[v] # "away"
  BY DEF Replay, Deliver
<1>2. shown[v] \in Seq(Nal) /\ replay[v] \in Seq(Nal) /\ Pending(v) \in Seq(Nal)
  BY <1>1, FedIs
<1>3. PICK a \in Seq(Nal), b \in Seq(Nal), c \in Seq(Nal) :
        a = shown[v] /\ b = replay[v] /\ c = Pending(v)
  BY <1>2
<1>4. Fed(v) = (a \o b) \o c
  BY <1>3 DEF Fed
<1>6. CASE Replay(v)
  <2>1. /\ b # << >> /\ shown'[v] = Append(a, Head(b)) /\ replay'[v] = Tail(b)
        /\ UNCHANGED <<channel, vroom, next>>
    BY <1>3, <1>6 DEF Replay, Types, ViewerTypes
  <2>2. Pending(v)' = c
    BY <1>3, <2>1 DEF Pending
  <2>3. Append(a, Head(b)) \in Seq(Nal) /\ Tail(b) \in Seq(Nal)
    BY <2>1
  <2>4. Fed(v)' = (Append(a, Head(b)) \o Tail(b)) \o c
    BY <2>1, <2>2 DEF Fed
  <2>5. Fed(v)' = Fed(v)
    BY <1>4, <2>1, <2>4, HeadMoves
  <2>6. Fed(v) = shown'[v] \o (Tail(b) \o c) /\ Tail(b) \o c \in Seq(Nal)
    <3>1. PICK y \in Seq(Nal), z \in Seq(Nal) : y = Append(a, Head(b)) /\ z = Tail(b)
      BY <2>3
    <3>2. (y \o z) \o c = y \o (z \o c)
      OBVIOUS
    <3>3. z \o c \in Seq(Nal)
      OBVIOUS
    <3> QED
      BY <2>1, <2>4, <2>5, <3>1, <3>2, <3>3
  <2> QED
    BY <2>1, <2>3, <2>5, <2>6
<1>7. CASE Deliver(v)
  <2>1. /\ c # << >> /\ shown'[v] = Append(a, Head(c)) /\ replay'[v] = << >> /\ b = << >>
        /\ Pending(v)' = Tail(c)
    <3>1. /\ c # << >> /\ Pending(v)' = Tail(c) /\ shown'[v] = Append(a, Head(c))
      BY <1>3, <1>7, Delivered
    <3>2. replay' = replay /\ replay[v] = << >>
      BY <1>7 DEF Deliver
    <3> QED
      BY <1>3, <3>1, <3>2
  <2>2. Append(a, Head(c)) \in Seq(Nal) /\ Tail(c) \in Seq(Nal)
    BY <2>1
  <2>3. \A x \in Seq(Nal) : x \o << >> = x
    OBVIOUS
  <2>4. Fed(v)' = (Append(a, Head(c)) \o << >>) \o Tail(c)
    BY <2>1 DEF Fed
  <2>5. Fed(v)' = Append(a, Head(c)) \o Tail(c) /\ Fed(v) = a \o c
    BY <1>4, <2>1, <2>2, <2>3, <2>4
  <2>6. Fed(v)' = Fed(v)
    BY <2>1, <2>5, HeadMoves
  <2> QED
    BY <2>1, <2>2, <2>5, <2>6
<1> QED
  BY <1>6, <1>7

LEMMA ViewerKeeps ==
  ASSUME Types, StreamInv, NEW v \in Viewers, Viewer(v)
  PROVE  StreamInv'
<1>1. UNCHANGED <<warmup, channel, pub, proom, frame, enc, recorded>>
  BY ViewerIs
<1>2. ASSUME NEW p \in Publishers PROVE SourceOK(p)'
  BY <1>1 DEF StreamInv, SourceOK
<1>3. ASSUME NEW r \in Room PROVE HistoryOK(r)' /\ WindowOK(warmup[r], recorded[r])'
  BY <1>1 DEF StreamInv, HistoryOK
<1>4. ASSUME NEW u \in Viewers, Fed(u)' = Fed(u), vroom'[u] = vroom[u]
      PROVE  \A p \in Publishers : Follows(u, p) => Follows(u, p)'
  BY <1>1, <1>4 DEF Follows, Last
<1>5. ASSUME NEW u \in Viewers, u # v PROVE FeedOK(u)'
  <2>1. /\ view'[u] = view[u] /\ vroom'[u] = vroom[u] /\ next'[u] = next[u]
        /\ replay'[u] = replay[u] /\ client'[u] = client[u]
        /\ shown'[u] = shown[u] /\ missed'[u] = missed[u]
    BY <1>5, ViewerIs
  <2>2. Fed(u)' = Fed(u)
    BY <1>1, <2>1, FedSame
  <2> QED
    BY <1>4, <2>1, <2>2 DEF StreamInv, FeedOK
<1>6. FeedOK(v)'
  <2>1. FeedOK(v)
    BY DEF StreamInv
  <2>2. CASE ViewerConnect(v) \/ Fail(v) \/ GiveUp(v) \/ Ping(v) \/ ClientLeave(v) \/ Lose(v)
    <3>1. /\ shown' = shown /\ missed' = missed
          /\ view'[v] \notin {"subscribed", "live"} \/ client'[v] # "up"
      BY <2>2 DEF ViewerConnect, Fail, GiveUp, Ping, ClientLeave, Lose, history, Types, ViewerTypes
    <3>2. view'[v] \in {"away", "room", "subscribed"} =>
            view[v] \in {"away", "room", "subscribed"} /\ replay' = replay
      BY <2>2 DEF ViewerConnect, Fail, GiveUp, Ping, ClientLeave, Lose, Types, ViewerTypes
    <3> QED
      BY <2>1, <3>1, <3>2 DEF FeedOK
  <2>3. CASE Subscribe(v, "room", "subscribed")
    <3>1. /\ view[v] = "room" /\ view'[v] = "subscribed"
          /\ next'[v] = Len(channel[vroom[v]]) + 1
          /\ UNCHANGED <<vroom, shown, replay, missed>>
      BY <2>3 DEF Subscribe, history, Types, ViewerTypes
    <3>2. shown[v] = << >> /\ replay[v] = << >>
      BY <2>1, <3>1 DEF FeedOK
    <3>3. channel[vroom[v]] \in Seq(Nal)
      BY <3>1 DEF Types, PublisherTypes, ViewerTypes
    <3>4. Pending(v)' = << >>
      <4>1. Pending(v)' = SubSeq(channel[vroom[v]], Len(channel[vroom[v]]) + 1,
                                 Len(channel[vroom[v]]))
        BY <1>1, <3>1 DEF Pending
      <4>2. \A c \in Seq(Nal) : SubSeq(c, Len(c) + 1, Len(c)) = << >>
        OBVIOUS
      <4> QED
        BY <3>3, <4>1, <4>2
    <3>5. Fed(v)' = << >>
      <4>1. << >> \o << >> = << >>
        OBVIOUS
      <4> QED
        BY <3>1, <3>2, <3>4, <4>1 DEF Fed
    <3>6. \A p, g, n : ~SliceIn(<< >>, p, g, n)
      BY DEF SliceIn, Elements
    <3>7. \A p \in Publishers : Follows(v, p)'
      BY <3>5, <3>6 DEF Follows
    <3> QED
      BY <3>1, <3>2, <3>5, <3>7, GaplessShort DEF FeedOK
  <2>4. CASE TakeSnapshot(v, "subscribed", "live")
    BY <2>4, SnapshotFeeds
  <2>5. CASE Replay(v) \/ Deliver(v)
    <3>1. /\ view[v] = "live" /\ client[v] = "up"
          /\ UNCHANGED <<view, vroom, client, missed>>
      BY <2>5 DEF Replay, Deliver
    <3>2. Fed(v)' = Fed(v) /\ \E t \in Seq(Nal) : Fed(v) = shown'[v] \o t /\ shown'[v] \in Seq(Nal)
      BY <2>5, FedMoves
    <3>3. missed[v] = {} => Gapless(shown'[v]) /\ Gapless(Fed(v)')
      BY <2>1, <3>1, <3>2, GaplessPrefix DEF FeedOK
    <3> QED
      BY <1>4, <2>1, <3>1, <3>2, <3>3 DEF FeedOK
  <2>6. CASE Lagged(v)
    <3>1. /\ view[v] = "live" /\ view' = view
          /\ missed'[v] = missed[v] \cup {Pending(v)[i] : i \in 1..Len(Pending(v)) - Capacity}
      BY <2>6 DEF Lagged, Types, ViewerTypes
    <3>2. Pending(v) \in Seq(Nal) /\ Len(Pending(v)) > Capacity /\ Capacity \in Nat
      BY <2>6, <3>1, PendingIs, StreamAssumption DEF Types, Lagged, Lagging
    <3>3. 1 \in 1..Len(Pending(v)) - Capacity
      BY <3>2
    <3>4. missed'[v] # {}
      BY <3>1, <3>3
    <3> QED
      BY <3>1, <3>4 DEF FeedOK
  <2> QED
    BY <2>2, <2>3, <2>4, <2>5, <2>6 DEF Viewer, Serve, Join
<1> QED
  BY <1>2, <1>3, <1>5, <1>6 DEF StreamInv

LEMMA InitStream == Init => StreamInv
<1> SUFFICES ASSUME Init PROVE StreamInv
  OBVIOUS
<1>1. Elements(<< >>) = {} /\ EmptyWindow.codec = None
  BY DEF Elements, EmptyWindow
<1>2. ASSUME NEW p \in Publishers PROVE SourceOK(p)
  BY StreamAssumption DEF Init, SourceOK
<1>3. WindowOK(EmptyWindow, << >>)
  <2>1. Cached(EmptyWindow) = << >>
    BY DEF Cached, EmptyWindow
  <2> QED
    BY <2>1, GaplessShort DEF WindowOK, ParamsOK, EmptyWindow
<1>4. ASSUME NEW r \in Room PROVE HistoryOK(r) /\ WindowOK(warmup[r], recorded[r])
  BY <1>1, <1>3 DEF Init, HistoryOK
<1>5. ASSUME NEW v \in Viewers PROVE FeedOK(v)
  BY GaplessShort DEF Init, FeedOK
<1> QED
  BY <1>2, <1>4, <1>5 DEF StreamInv

\* No gap in what a viewer has been shown is what the client needs.
LEMMA ShownIsDecodable ==
  ASSUME Types, StreamInv
  PROVE  DecodableAfterKey
<1> SUFFICES ASSUME NEW v \in Viewers, missed[v] = {}, NEW i \in 1..Len(shown[v])
             PROVE  LET f == shown[v][i]
                        before == Elements(SubSeq(shown[v], 1, i - 1))
                        Slice(n) == \E g \in before : /\ g.pub = f.pub /\ g.gop = f.gop
                                                      /\ g.idx = n /\ g.kind # "ps"
                    IN f.kind = "delta" /\ Slice(0) => Slice(f.idx - 1)
  BY DEF DecodableAfterKey
<1>1. PICK s \in Seq(Nal) : s = shown[v]
  BY DEF Types, ViewerTypes
<1>2. Gapless(s) /\ i \in 1..Len(s)
  BY <1>1 DEF StreamInv, FeedOK
<1> DEFINE before == Elements(SubSeq(s, 1, i - 1))
<1>3. before = {s[j] : j \in 1..i-1}
  <2>1. /\ Len(SubSeq(s, 1, i - 1)) = i - 1
        /\ \A j \in 1..i-1 : SubSeq(s, 1, i - 1)[j] = s[j]
    BY <1>2
  <2> QED
    BY <2>1 DEF Elements
<1> HIDE DEF before
<1>4. ASSUME s[i].kind = "delta", NEW g \in before, IsSlice(g, s[i].pub, s[i].gop, 0)
      PROVE  \E h \in before : IsSlice(h, s[i].pub, s[i].gop, s[i].idx - 1)
  <2>1. PICK j \in 1..i-1 : IsSlice(s[j], s[i].pub, s[i].gop, 0)
    BY <1>3, <1>4
  <2>2. PICK k \in 1..i-1 : IsSlice(s[k], s[i].pub, s[i].gop, s[i].idx - 1)
    BY <1>2, <1>4, <2>1 DEF Gapless
  <2> QED
    BY <1>3, <2>2
<1> QED
  BY <1>1, <1>4 DEF IsSlice, before

\* "we'd send the cached frame followed by a delta-only stream": with one codec
\* for all the publishers of a peer id, a viewer that never lagged and was given
\* a key frame has been given everything between it and any later frame that
\* depends on it, wherever it joins, for any number of publishers and viewers
\* and any caps.
THEOREM NoGapAfterKey ==
  ASSUME SameCodec
  PROVE  Spec => []DecodableAfterKey
<1>1. Init => StreamInv
  BY InitStream
<1>2. Types /\ StreamInv /\ [Next]_vars => StreamInv'
  <2> SUFFICES ASSUME Types, StreamInv, [Next]_vars PROVE StreamInv'
    OBVIOUS
  <2>1. CASE Next
    BY <2>1, PublisherKeeps, ViewerKeeps DEF Next
  <2>2. CASE UNCHANGED vars
    <3>1. UNCHANGED <<warmup, channel, pub, proom, frame, enc, recorded, view, vroom, next,
                      replay, client, shown, missed>>
      BY <2>2 DEF vars, publishers, viewers, history
    <3>2. \A v \in Viewers : Fed(v)' = Fed(v)
      BY <3>1, FedSame
    <3> QED
      <4>1. \A p \in Publishers : SourceOK(p)'
        BY <3>1 DEF StreamInv, SourceOK
      <4>2. \A r \in Room : HistoryOK(r)' /\ WindowOK(warmup[r], recorded[r])'
        BY <3>1 DEF StreamInv, HistoryOK
      <4>3. \A v \in Viewers, p \in Publishers : Follows(v, p) => Follows(v, p)'
        BY <3>1, <3>2 DEF Follows, Last
      <4>4. \A v \in Viewers : FeedOK(v)'
        BY <3>1, <3>2, <4>3 DEF StreamInv, FeedOK
      <4> QED
        BY <4>1, <4>2, <4>4 DEF StreamInv
  <2> QED
    BY <2>1, <2>2
<1>3. Types /\ StreamInv => DecodableAfterKey
  BY ShownIsDecodable
<1> QED
  BY <1>1, <1>2, <1>3, TypesHold, PTL DEF Spec
=============================================================================
