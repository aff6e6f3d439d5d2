----------------------------- MODULE MacSession -----------------------------
(***************************************************************************)
(* The macOS capture session behind the singleton sharedCapturer: settings *)
(* that are recorded in three places (by the session, by the SCStream, by  *)
(* the encoder) and changed by calls that hand an update to ScreenCaptureKit*)
(* and wait five seconds for its answer.  An update whose caller gave up is *)
(* carried out, or refused, all the same.                                  *)
(*                                                                         *)
(* An encoder may refuse a property that it is given.  Pictures enter it on *)
(* the stream's thread and leave it later on a thread of its own, so what  *)
(* is in an encoder when it is replaced may still come, or never come.     *)
(*                                                                         *)
(* Setters are called one at a time, as the unlocked singleton requires.   *)
(* ScreenCaptureKit takes updates in the order it was given them, and an   *)
(* encoder gives its pictures back in order and one at a time.             *)
(***************************************************************************)
EXTENDS Integers, Sequences

CONSTANTS Sizes, Rates, Bitrates, Displays,   \* arguments of the setters
          Settings,                           \* arguments of start
          None,
          MaxCalls,                           \* bound: setter calls
          MaxFrames                           \* bound: pictures encoded

Kinds == {"config", "filter"}     \* of updates
Size == Int \X Int
Config == [size : Size, fps : Int]
Session == [size : Size, fps : Int, kbps : Int, display : Int]
Encoder == [size : Size, fps : Int, kbps : Int, from : Nat]
Own == 0    \* a rate of the encoder's own: it refused the one it was given

ASSUME ArgumentsAssumption ==
  /\ Settings \subseteq Session /\ Sizes \subseteq Size
  /\ Rates \subseteq Int /\ Bitrates \subseteq Int /\ Displays \subseteq Int
  /\ None \notin Session \cup Encoder

VARIABLES
  rec,      \* the session's own fields; None: no session
  runs,     \* what the SCStream does: its configuration and its filter
  enc,      \* the compression session, and what pictures others had; None: nil
  todo,     \* updates that ScreenCaptureKit has not carried out yet
  pc, call, \* where the caller of a setter is, and its argument
  calls,    \* how many setter calls there have been
  fed,      \* how many pictures were given to encoders
  inside,   \* pictures in an encoder, this one or one that was replaced
  hands,    \* chunks that an output handler is about to emit
  lost,     \* history: chunks of encoded pictures that are never emitted
  late,     \* history: pictures under way when their encoder was replaced
  rx,       \* the unbounded channel that on_nal sends into
  emitted,  \* history: everything sent into it
  unsure    \* history: updates whose caller gave up before the answer

settings == <<rec, runs, enc>>
caller == <<todo, pc, call, calls, unsure>>
pictures == <<fed, inside, hands, lost, late>>
channel == <<rx, emitted>>
output == <<pictures, channel>>
session == <<settings, caller, output>>

Within(low, high, n) == IF n < low THEN low ELSE IF n > high THEN high ELSE n

FitRate(n) == Within(5, 120, n)
FitBitrate(n) == Within(100, 100000, n)
FitSize(s) == <<Within(160, 7680, s[1]), Within(120, 4320, s[2])>>

ConfigOf(size, fps) == [size |-> size, fps |-> fps]

\* What the session takes the stream to do.
Recorded(kind) == IF kind = "filter" THEN rec.display
                  ELSE ConfigOf(rec.size, rec.fps)

Init ==
  /\ rec = None /\ enc = None /\ pc = "off" /\ call = None
  /\ runs = [kind \in Kinds |-> None]
  /\ todo = << >> /\ calls = 0 /\ unsure = {} /\ rx = << >> /\ emitted = << >>
  /\ fed = 0 /\ inside = {} /\ hands = {} /\ lost = {} /\ late = {}

\* The size is an argument of the creation; the status of every property that is
\* set afterwards is discarded.
makeEncoder ==
  \E fps \in {rec'.fps, Own}, kbps \in {rec'.kbps, Own} :
    enc' = [size |-> rec'.size, fps |-> fps, kbps |-> kbps, from |-> fed]

\* xz_capturer_start that succeeds; one that fails leaves no session.
start ==
  /\ pc = "off"
  /\ rec' \in Settings
  /\ runs' = [kind \in Kinds |-> Recorded(kind)']
  /\ makeEncoder
  /\ pc' = "idle"
  /\ UNCHANGED <<todo, call, calls, unsure, output>>
-----------------------------------------------------------------------------
(* The setters.  One whose value is the recorded one returns at once; one   *)
(* that finds no session, or no display of that number, changes nothing.    *)

Calls == pc = "idle" /\ calls < MaxCalls /\ calls' = calls + 1

Takes(op, arg) == Calls /\ call' = [op |-> op, arg |-> arg]

Returns == pc' = "idle" /\ call' = None

Ask(kind, to) == /\ todo' = Append(todo, [kind |-> kind, to |-> to])
                 /\ pc' = "wait"

\* Fault: the new rate is recorded before the stream has taken it.
setFpsEarly(fps) ==
  /\ Takes("fps", fps) /\ fps # rec.fps
  /\ Ask("config", ConfigOf(rec.size, fps))
  /\ rec' = [rec EXCEPT !.fps = fps]
  /\ UNCHANGED <<runs, enc, unsure, output>>

setFps(fps) ==
  /\ Takes("fps", fps) /\ fps # rec.fps
  /\ Ask("config", ConfigOf(rec.size, fps))
  /\ UNCHANGED <<settings, unsure, output>>

setResolution(size) ==
  /\ Takes("size", size) /\ size # rec.size
  /\ Ask("config", ConfigOf(size, rec.fps))
  /\ UNCHANGED <<settings, unsure, output>>

\* It first fetches what displays there are.
selectDisplay(id) ==
  /\ Takes("display", id) /\ id # rec.display
  /\ pc' = "content"
  /\ UNCHANGED <<settings, todo, unsure, output>>

Content ==
  /\ pc = "content"
  /\ \/ Ask("filter", call.arg) /\ UNCHANGED call
     \/ Returns /\ UNCHANGED todo
  /\ UNCHANGED <<settings, calls, unsure, output>>

\* Here the status is looked at: a rate that is refused is not recorded.
set_bitrate(kbps) ==
  /\ enc # None /\ Calls
  /\ \/ enc' = [enc EXCEPT !.kbps = kbps] /\ rec' = [rec EXCEPT !.kbps = kbps]
     \/ UNCHANGED <<enc, rec>>
  /\ UNCHANGED <<runs, todo, pc, call, unsure, output>>

\* ScreenCaptureKit carries an update out or refuses it.  Who waits, waits for
\* the last one.
Heard == pc = "wait" /\ Len(todo) = 1

Applied ==
  /\ runs' = [runs EXCEPT ![Head(todo).kind] = Head(todo).to]
  /\ IF Heard THEN pc' = "answered" /\ unsure' = unsure \ {Head(todo).kind}
     ELSE UNCHANGED <<pc, unsure>>
  /\ UNCHANGED call

Refused == /\ IF Heard THEN Returns ELSE UNCHANGED <<pc, call>>
           /\ UNCHANGED <<runs, unsure>>

Answer == /\ todo # << >> /\ todo' = Tail(todo)
          /\ Applied \/ Refused
          /\ UNCHANGED <<rec, enc, calls, output>>

\* Five seconds have passed.
TimeOut ==
  /\ pc \in {"content", "wait"} /\ Returns
  /\ unsure' = IF pc = "wait" THEN unsure \cup {todo[Len(todo)].kind} ELSE unsure
  /\ UNCHANGED <<settings, todo, calls, output>>

\* After the answer, the rate: for the encoder too, if there is one, as frame rate
\* and as key frame interval, and recorded whether or not it took both.
RateTaken ==
  /\ pc = "answered" /\ call.op = "fps" /\ Returns
  /\ rec' = [rec EXCEPT !.fps = call.arg]
  /\ \/ enc = None /\ UNCHANGED enc
     \/ enc # None /\ \E fps \in {call.arg, Own} : enc' = [enc EXCEPT !.fps = fps]
  /\ UNCHANGED <<runs, todo, calls, unsure, output>>

DisplayTaken ==
  /\ pc = "answered" /\ call.op = "display" /\ Returns
  /\ rec' = [rec EXCEPT !.display = call.arg]
  /\ UNCHANGED <<runs, enc, todo, calls, unsure, output>>

\* The old encoder goes with what is in it or on its way out of it, and a new one
\* comes unless it cannot be made.
TearDown ==
  /\ pc = "answered" /\ call.op = "size" /\ pc' = "rebuild" /\ call' = None
  /\ enc' = None /\ rec' = [rec EXCEPT !.size = call.arg]
  /\ late' = late \cup {f.n : f \in inside} \cup {c.n : c \in hands}
  /\ UNCHANGED <<runs, todo, calls, unsure, fed, inside, hands, lost, channel>>

Rebuild ==
  /\ pc = "rebuild" /\ Returns
  /\ UNCHANGED rec
  /\ makeEncoder \/ UNCHANGED enc
  /\ UNCHANGED <<runs, todo, calls, unsure, output>>

Return == Content \/ TimeOut \/ RateTaken \/ DisplayTaken \/ TearDown \/ Rebuild
-----------------------------------------------------------------------------
(* A picture of the stream enters the encoder, comes out of it sooner or     *)
(* later, and is handed to on_nal chunk by chunk.                           *)

\* didOutputSampleBuffer: without an encoder the picture is skipped.  An encoder
\* begins with a key frame and makes others when it likes.
didOutputSampleBuffer ==
  /\ enc # None /\ fed < MaxFrames /\ fed' = fed + 1
  /\ \E key \in BOOLEAN :
       /\ fed = enc.from => key
       /\ inside' = inside \cup {[from |-> enc.from, n |-> fed + 1, key |-> key]}
  /\ UNCHANGED <<settings, caller, hands, lost, late, channel>>

Chunk(part, from, n) == [part |-> part, from |-> from, n |-> n]

\* Fault: parameter sets go before the very first key frame only.
ChunksOnce(f) ==
  IF ~f.key THEN {Chunk("delta", f.from, f.n)}
  ELSE {Chunk(part, f.from, f.n) : part \in IF f.n = 1 THEN {"sets", "key"} ELSE {"key"}}

\* Parameter sets, all in one chunk, go before the slice of a key frame.
Chunks(f) == IF f.key THEN {Chunk("sets", f.from, f.n), Chunk("key", f.from, f.n)}
             ELSE {Chunk("delta", f.from, f.n)}

\* The oldest picture of its encoder, whose output handler is not busy.
Comes(f) == /\ \A g \in inside : g.from = f.from => f.n <= g.n
            /\ \A c \in hands : c.from # f.from

\* The output handler with handleEncoded.  Encoding may have failed or the sample
\* have no data: nothing comes.  The format description, or the attachments that
\* tell a key frame, may be missing: no parameter sets come.  A length may point
\* behind the data: the slice does not come.
handleEncoded ==
  /\ \E f \in inside : Comes(f) /\ inside' = inside \ {f} /\
       \E out \in SUBSET Chunks(f) : /\ hands' = hands \cup out
                                     /\ lost' = lost \cup (Chunks(f) \ out)
  /\ UNCHANGED <<settings, caller, fed, late, channel>>

\* The callback copies a chunk into the channel.
on_nal(c) == emitted' = Append(emitted, c) /\ rx' = Append(rx, c)

\* A handler emits parameter sets first; those of two encoders run side by side.
emitAnnexBChunk ==
  /\ \E c \in hands : /\ \A d \in hands \ {c} : d.from = c.from => c.part = "sets"
                      /\ hands' = hands \ {c} /\ on_nal(c)
  /\ UNCHANGED <<settings, caller, fed, inside, lost, late>>

Encode == didOutputSampleBuffer \/ handleEncoded \/ emitAnnexBChunk

Setter ==
  \/ \E f \in Rates : setFps(FitRate(f))
  \/ \E s \in Sizes : setResolution(FitSize(s))
  \/ \E d \in Displays : selectDisplay(d)
  \/ \E k \in Bitrates : set_bitrate(FitBitrate(k))

Step == Setter \/ Return \/ Answer \/ Encode
-----------------------------------------------------------------------------
Frame == [from : Nat, n : Nat, key : BOOLEAN]
Emitted == [part : {"sets", "key", "delta"}, from : Nat, n : Nat]
Update == [kind : {"config"}, to : Config] \cup [kind : {"filter"}, to : Int]

TypeOK ==
  /\ rec \in Session \cup {None} /\ enc \in Encoder \cup {None}
  /\ runs = [kind \in Kinds |-> runs[kind]]
  /\ todo \in Seq(Update) /\ unsure \subseteq Kinds /\ calls \in Nat
  /\ pc \in {"off", "idle", "content", "wait", "answered", "rebuild"}
  /\ fed \in Nat /\ inside \subseteq Frame /\ late \subseteq Nat
  /\ hands \subseteq Emitted /\ lost \subseteq Emitted
  /\ rx \in Seq(Emitted) /\ emitted \in Seq(Emitted)

\* What the getters report is what the stream and the encoder do, however many
\* updates timed out before: whoever was not told "timeout" since the last update
\* of that kind that was answered can rely on it.  The exceptions are the rates that
\* the encoder refused without anybody looking.
SettledIsConsistent ==
  rec # None =>
    /\ enc # None => /\ enc.size = rec.size
                     /\ enc.fps \in {rec.fps, Own}
                     /\ enc.kbps \in {rec.kbps, Own}
    /\ pc = "idle" =>
         \A kind \in Kinds \ unsure : runs[kind] = Recorded(kind)
=============================================================================
