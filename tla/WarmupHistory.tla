--------------------------- MODULE WarmupHistory ---------------------------
(***************************************************************************)
(* The warm-up window of one room under an arbitrary sequence of frames,   *)
(* and what it must hold as a function of everything it has seen.          *)
(***************************************************************************)
EXTENDS WarmupWindow, FiniteSets

CONSTANTS Frames,    \* the frames the publishers of a room may send
          MaxSeen    \* bound on the length of the history

ASSUME FramesAssumption ==
  Frames \subseteq [first : 0..255 \cup {None}, len : Nat]
ASSUME NoneAssumption ==
  None \notin 0..255 /\ None \notin Codec /\ None \notin Frames

VARIABLES w,       \* the window
          seen     \* history: the frames recorded, in order

vars == <<w, seen>>

Init == w = EmptyWindow /\ seen = << >>

Record(f) == /\ Len(seen) < MaxSeen
             /\ w' = record(w, f)
             /\ seen' = Append(seen, f)

Next == \E f \in Frames : Record(f)

Spec == Init /\ [][Next]_vars
-----------------------------------------------------------------------------
(* What the window is a function of.                                       *)

Indices == 1..Len(seen)
Largest(S) == CHOOSE i \in S : \A j \in S : j <= i
Least(S) == CHOOSE i \in S : \A j \in S : i <= j
Size(s) == LET upTo[i \in 0..Len(s)] ==
                 IF i = 0 THEN 0 ELSE upTo[i-1] + s[i].len
           IN upTo[Len(s)]

Told == {i \in Indices : seen[i].first # None
                         /\ Discover(seen[i].first).kind = "ParamSet"}

\* The codec the room is locked to, by the first frame that tells.
RoomCodec == IF Told = {} THEN None
             ELSE Discover(seen[Least(Told)].first).codec

\* What a frame is once the codec is known; before that it is nothing.
IsA(i, kind) ==
  /\ Told # {} /\ i >= Least(Told) /\ seen[i].first # None
  /\ LET class == IF RoomCodec = "Hevc" THEN HevcKind(seen[i].first)
                                        ELSE H264Kind(seen[i].first)
     IN class.kind = kind

ParamsOf(t) == {i \in Indices : /\ IsA(i, "ParamSet")
                                /\ t = IF RoomCodec = "Hevc"
                                       THEN hevc_type(seen[i].first)
                                       ELSE h264_type(seen[i].first)}
Keys == {i \in Indices : IsA(i, "Keyframe")}

\* How many of S come up to i, and which of S comes n-th.
Rank(S, i) == Cardinality({j \in S : j <= i})
Nth(S, n) == CHOOSE i \in S : Rank(S, i) = n

\* The frames after the last key frame that are not parameter sets.
Later == {i \in Indices : i > Largest(Keys) /\ ~IsA(i, "ParamSet")}
After == [n \in 1..Cardinality(Later) |-> seen[Nth(Later, n)]]

Anchored == /\ Keys # {}
            /\ seen[Largest(Keys)].len <= WARMUP_KEY_MAX_BYTES
            /\ Size(After) <= WARMUP_DELTA_MAX_BYTES

\* "parameter sets + most recent keyframe + delta frames since that keyframe":
\* the latest of each parameter set, the last key frame and every frame after
\* it; of the latter two nothing at all if either would not fit.  The slot of the
\* key frame holds its one NAL, and not "plus any parameter-set NALs that arrived
\* adjacent to it" as the comments of the struct have it (main.rs:85-87, 108-109).
WindowMatchesHistory ==
  w = [codec |-> RoomCodec,
       param_sets |-> [t \in ParamType |-> IF ParamsOf(t) = {} THEN None
                                           ELSE seen[Largest(ParamsOf(t))]],
       keyframe |-> IF Anchored THEN <<seen[Largest(Keys)]>> ELSE << >>,
       keyframe_total_bytes |-> IF Anchored THEN seen[Largest(Keys)].len ELSE 0,
       since_keyframe |-> IF Anchored THEN After ELSE << >>,
       since_keyframe_total_bytes |-> IF Anchored THEN Size(After) ELSE 0]

\* What is cached stays within the caps, whatever a faulty encoder sends.
CapsHold == /\ w.keyframe_total_bytes <= WARMUP_KEY_MAX_BYTES
            /\ w.since_keyframe_total_bytes <= WARMUP_DELTA_MAX_BYTES

KindOf(f) == classify_nal(f, w.codec).kind

\* "a self-contained chunk to start on": a replay that is not empty has a
\* parameter set, then one key frame, then only frames that depend on it.
ReplayIsDecodable ==
  LET s == snapshot(w)
  IN s # << >> =>
       \E k \in 2..Len(s) :
         /\ KindOf(s[k]) = "Keyframe"
         /\ \A i \in 1..Len(s) : /\ i < k => KindOf(s[i]) = "ParamSet"
                                 /\ i > k => KindOf(s[i]) \in {"Delta", "Unknown"}

Window == [codec : Codec \cup {None},
           param_sets : [ParamType -> Frames \cup {None}],
           keyframe : Seq(Frames),
           keyframe_total_bytes : Nat,
           since_keyframe : Seq(Frames),
           since_keyframe_total_bytes : Nat]

TypeOK == w \in Window /\ seen \in Seq(Frames)
=============================================================================
