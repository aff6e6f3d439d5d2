------------------------------ MODULE NalPath ------------------------------
(***************************************************************************)
(* The way of a picture from the Windows encoder to the warm-up window of  *)
(* its room: access units wait in the encoder, drain pulls and converts    *)
(* them, every NAL travels in order, and the room records it.  What lies   *)
(* between drain and the room (the publisher's channel, the WebSocket) is  *)
(* the queue way.                                                          *)
(*                                                                         *)
(* A room that this capturer does not feed (format = None) sees the        *)
(* arbitrary frames of WarmupHistory.                                      *)
(***************************************************************************)
EXTENDS WarmupHistory, H264Encoder

CONSTANTS Pictures,   \* what the encoder makes of a frame: sequences of NALs
          Displays,   \* sizes of the displays, as <<width, height>>
          MaxUnits    \* bound: frames the encoder makes something of

\* Every NAL of an encoder has a body behind its header byte, and at most 16 MiB: a
\* 4K picture takes 12 in NV12, before it is compressed.
LongestNal == 16777216
MadeNal == [first : 1..127, len : 2..LongestNal, code : {3, 4}]

ASSUME PicturesAssumption == Pictures \subseteq Seq(MadeNal) \ {<< >>}

\* Every picture has a slice.  A room that was locked to HEVC by mistake may take
\* it for a parameter set, but then it takes no NAL of this encoder for a key frame.
ASSUME SlicesAssumption ==
  /\ \A nals \in Pictures :
       \E k \in 1..Len(nals) : H264Kind(nals[k].first).kind # "ParamSet"
  /\ \/ \A nals \in Pictures :
          \E k \in 1..Len(nals) : HevcKind(nals[k].first).kind # "ParamSet"
     \/ \A nals \in Pictures :
          \A k \in 1..Len(nals) : HevcKind(nals[k].first).kind # "Keyframe"

\* What drain makes of a NAL or of bytes it takes for one: how it begins, its size,
\* the unit it is from and which NAL of it, 0 if none.
StampedNal == [first : 0..255, len : Nat, unit : Nat, nal : Nat]

ASSUME StampedAssumption == None \notin StampedNal

VARIABLES format,     \* what the encoder writes: annexb or avcc
          made,       \* history: the access units the encoder made
          drained,    \* how many of them drain has taken out of it
          lost,       \* history: which of them it took and did not return
          way         \* frames drained and not recorded yet

encoder == <<format, made, drained, lost, way>>
path == <<vars, encoder>>

NalInit == /\ Init
           /\ format \in {"annexb", "avcc", None}
           /\ made = << >> /\ drained = 0 /\ lost = {} /\ way = << >>

\* on_frame_arrived: submit_frame refuses the frame, or the encoder has one
\* more access unit some time later.
Submit(display, nals) ==
  /\ format # None /\ Accepts(display[1], display[2])
  /\ Len(made) < MaxUnits
  /\ made' = Append(made, [format |-> format, nals |-> nals])
  /\ UNCHANGED <<vars, format, drained, lost, way>>

\* Which NAL of a unit an interval of it is, 0 if it is none.
Which(unit, s) ==
  LET is == {k \in 1..Len(unit.nals) : s = Interval(unit, k)}
  IN IF is = {} THEN 0 ELSE CHOOSE k \in is : TRUE

\* Eight bytes of time and a start code go before each NAL.
sample_to_annexb(i) ==
  LET cut == avcc_to_annexb(made[i])
  IN [j \in 1..Len(cut) |-> [first |-> ByteAt(made[i], cut[j].from),
                             len |-> 12 + cut[j].to - cut[j].from,
                             unit |-> i, nal |-> Which(made[i], cut[j])]]

\* The units up to this one are gone.  When drain fails, what it had pulled goes
\* with its result, the error is logged and the capture goes on; when a session
\* ends, what waits in its encoder goes with it.
DrainFails(upto) == /\ drained' = upto
                    /\ lost' = lost \cup (drained + 1..upto)
                    /\ UNCHANGED way

\* drain until MF_E_TRANSFORM_NEED_MORE_INPUT, or until an error.
Drain ==
  /\ drained < Len(made)
  /\ \/ /\ drained' = Len(made)
        /\ way' = way \o FlattenSeq([n \in 1..Len(made) - drained |->
                                       sample_to_annexb(drained + n)])
        /\ UNCHANGED lost
     \/ \E upto \in drained + 1..Len(made) : DrainFails(upto)
  /\ UNCHANGED <<vars, format, made>>

\* The room's publisher task.
Arrive == /\ way # << >>
          /\ w' = record(w, Head(way))
          /\ seen' = Append(seen, Head(way))
          /\ way' = Tail(way)
          /\ UNCHANGED <<format, made, drained, lost>>

NalNext == \/ format = None /\ Next /\ UNCHANGED encoder
           \/ \E d \in Displays, nals \in Pictures : Submit(d, nals)
           \/ Drain \/ Arrive

NalSpec == NalInit /\ [][NalNext]_path
-----------------------------------------------------------------------------
\* "unambiguous": an AVCC sample is taken for Annex-B exactly when its first
\* NAL is between 256 and 511 bytes long (a NAL of one byte comes first in none).
Misread(i) == made[i].format = "avcc" /\ made[i].nals[1].len \in 256..511

Gone(i) == i \in lost \/ Misread(i)

Whole(f) == f.nal # 0

\* A frame is the NAL it says it is, behind time and start code; a frame of a
\* misread sample is none.
Genuine(f) ==
  /\ f.unit \in 1..drained \ lost
  /\ IF Misread(f.unit) THEN ~Whole(f)
     ELSE \E k \in 1..Len(made[f.unit].nals) :
            /\ f.nal = k /\ f.first = made[f.unit].nals[k].first
            /\ f.len = 12 + made[f.unit].nals[k].len

\* Frame f comes before frame g.
Ahead(f, g) == \/ f.unit < g.unit
               \/ f.unit = g.unit /\ (Misread(f.unit) \/ f.nal < g.nal)

\* Every NAL the encoder made comes out of drain whole, once and in order, but
\* for those of a misread sample, those that a failing drain had pulled and those
\* that wait in the encoder when its session ends.
NalsComeOutWhole ==
  format # None =>
    LET frames == seen \o way
    IN /\ \A j \in 1..Len(frames) : Genuine(frames[j])
       /\ \A i, j \in 1..Len(frames) : i < j => Ahead(frames[i], frames[j])
       /\ \A i \in 1..drained : \A k \in 1..Len(made[i].nals) :
            Gone(i) \/ \E j \in 1..Len(frames) : frames[j].unit = i /\ frames[j].nal = k

\* A viewer that starts on the window misses no picture after the key frame it
\* replays, but for the pictures that were misread or lost that way.
NoPictureMissing ==
  format # None /\ w.keyframe # << >> =>
    LET kept == w.keyframe \o w.since_keyframe
    IN Whole(kept[1]) =>
         \A i \in kept[1].unit..seen[Len(seen)].unit - 1 :
           Gone(i) \/ \E j \in 1..Len(kept) : kept[j].unit = i
=============================================================================
