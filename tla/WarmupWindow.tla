---------------------------- MODULE WarmupWindow ----------------------------
(***************************************************************************)
(* The NAL classifier of xyzen-stream and the warm-up window it feeds, as  *)
(* operators.  A frame is one stamped NAL: a record with                   *)
(*   first  the byte after the start code, None if there is none to read   *)
(*   len    its size in bytes                                              *)
(* and whatever fields a module that uses frames needs to tell them apart. *)
(***************************************************************************)
EXTENDS Naturals, Sequences

CONSTANTS None,
          WARMUP_DELTA_MAX_BYTES, WARMUP_KEY_MAX_BYTES

ASSUME CapsAssumption == /\ WARMUP_DELTA_MAX_BYTES \in Nat
                         /\ WARMUP_KEY_MAX_BYTES \in Nat

HevcParam == {32, 33, 34}          \* VPS, SPS, PPS
H264Param == {7, 8}                \* SPS, PPS
ParamType == H264Param \cup HevcParam
Codec == {"Hevc", "H264"}

ParamSet(codec, nal_type) ==
  [kind |-> "ParamSet", codec |-> codec, nal_type |-> nal_type]
Kind(k) == [kind |-> k, codec |-> None, nal_type |-> 0]

h264_type(byte) == byte % 32
hevc_type(byte) == (byte \div 2) % 64

HevcKind(byte) ==
  CASE hevc_type(byte) \in HevcParam -> ParamSet("Hevc", hevc_type(byte))
    [] hevc_type(byte) \in 16..23    -> Kind("Keyframe")
    [] OTHER                         -> Kind("Delta")

H264Kind(byte) ==
  CASE h264_type(byte) \in H264Param -> ParamSet("H264", h264_type(byte))
    [] h264_type(byte) = 5           -> Kind("Keyframe")
    [] OTHER                         -> Kind("Delta")

\* Without a codec only a parameter set says anything; HEVC is tried first.
Discover(byte) ==
  CASE hevc_type(byte) \in HevcParam -> ParamSet("Hevc", hevc_type(byte))
    [] hevc_type(byte) \notin HevcParam /\ h264_type(byte) \in H264Param
         -> ParamSet("H264", h264_type(byte))
    [] OTHER -> Kind("Unknown")

classify_nal(frame, known_codec) ==
  CASE frame.first = None -> Kind("Unknown")
    [] frame.first # None /\ known_codec = "Hevc" -> HevcKind(frame.first)
    [] frame.first # None /\ known_codec = "H264" -> H264Kind(frame.first)
    [] frame.first # None /\ known_codec = None   -> Discover(frame.first)
-----------------------------------------------------------------------------
EmptyWindow ==
  [codec |-> None, param_sets |-> [t \in ParamType |-> None],
   keyframe |-> << >>, keyframe_total_bytes |-> 0,
   since_keyframe |-> << >>, since_keyframe_total_bytes |-> 0]

RecordParamSet(w, frame, class) ==
  [w EXCEPT !.codec = IF @ = None THEN class.codec ELSE @,
            !.param_sets[class.nal_type] = frame]

\* Fault: the deltas of the previous key frame stay.
KeepsOldDeltas(w, frame) ==
  IF frame.len <= WARMUP_KEY_MAX_BYTES
  THEN [w EXCEPT !.keyframe = <<frame>>, !.keyframe_total_bytes = frame.len]
  ELSE [w EXCEPT !.keyframe = << >>, !.keyframe_total_bytes = 0]

\* A new key frame replaces the old one and the deltas that followed it; one
\* too large to keep leaves the window without an anchor.
RecordKeyframe(w, frame) ==
  LET kept == frame.len <= WARMUP_KEY_MAX_BYTES
  IN [w EXCEPT !.keyframe = IF kept THEN <<frame>> ELSE << >>,
               !.keyframe_total_bytes = IF kept THEN frame.len ELSE 0,
               !.since_keyframe = << >>, !.since_keyframe_total_bytes = 0]

\* Fault: the overflow forgets the deltas and keeps their key frame.
OverflowKeepsKey(w, frame) ==
  LET projected == w.since_keyframe_total_bytes + frame.len
  IN CASE w.keyframe = << >> -> w
       [] w.keyframe # << >> /\ projected > WARMUP_DELTA_MAX_BYTES ->
            [w EXCEPT !.since_keyframe = << >>, !.since_keyframe_total_bytes = 0]
       [] OTHER -> [w EXCEPT !.since_keyframe = Append(@, frame),
                             !.since_keyframe_total_bytes = projected]

\* A delta without an anchor is not kept; one that would exceed the cap drops
\* the anchor too, until the next key frame.
RecordDelta(w, frame) ==
  LET projected == w.since_keyframe_total_bytes + frame.len
  IN CASE w.keyframe = << >> -> w
       [] w.keyframe # << >> /\ projected > WARMUP_DELTA_MAX_BYTES ->
            [w EXCEPT !.keyframe = << >>, !.keyframe_total_bytes = 0,
                      !.since_keyframe = << >>, !.since_keyframe_total_bytes = 0]
       [] w.keyframe # << >> /\ projected <= WARMUP_DELTA_MAX_BYTES ->
            [w EXCEPT !.since_keyframe = Append(@, frame),
                      !.since_keyframe_total_bytes = projected]

record(w, frame) ==
  LET class == classify_nal(frame, w.codec)
  IN CASE class.kind = "ParamSet" -> RecordParamSet(w, frame, class)
       [] class.kind = "Keyframe" -> RecordKeyframe(w, frame)
       [] class.kind \in {"Delta", "Unknown"} -> RecordDelta(w, frame)

\* The cached parameter sets by type.
CachedParam(w, t) == IF w.param_sets[t] = None THEN << >> ELSE <<w.param_sets[t]>>
CachedParams(w) == CachedParam(w, 7) \o CachedParam(w, 8) \o CachedParam(w, 32)
                   \o CachedParam(w, 33) \o CachedParam(w, 34)

\* Fault: the deltas are replayed before the key frame they depend on.
SnapshotUnordered(w) ==
  IF w.keyframe = << >> THEN << >>
  ELSE CachedParams(w) \o w.since_keyframe \o w.keyframe

\* Parameter sets, then the key frame, then what followed it.
snapshot(w) ==
  IF w.keyframe = << >> THEN << >>
  ELSE CachedParams(w) \o w.keyframe \o w.since_keyframe
=============================================================================
