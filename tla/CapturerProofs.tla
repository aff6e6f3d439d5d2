--------------------------- MODULE CapturerProofs ---------------------------
(***************************************************************************)
(* Proofs about the macOS session and the way of its NALs to the sink, for *)
(* any settings, any number of calls and NALs, and any capacity.           *)
(***************************************************************************)
EXTENDS Capturer, SequenceTheorems, TLAPS

LEMMA Fits ==
  /\ \A n \in Int : FitRate(n) \in Int /\ FitBitrate(n) \in Int
  /\ \A s \in Size : FitSize(s) \in Size
  BY DEF FitRate, FitBitrate, FitSize, Within, Size
-----------------------------------------------------------------------------
(* What a setter that is under way has asked for.                           *)

Kind == IF call.op = "display" THEN "filter" ELSE "config"
Asked == IF call.op = "display" THEN call.arg
         ELSE IF call.op = "fps" THEN ConfigOf(rec.size, call.arg)
         ELSE ConfigOf(call.arg, rec.fps)

CallOK ==
  /\ pc = "content" => call.op = "display" /\ call.arg \in Int
  /\ pc \in {"wait", "answered"} =>
       \/ call.op = "display" /\ call.arg \in Int
       \/ call.op = "fps" /\ call.arg \in Int
       \/ call.op = "size" /\ call.arg \in Size

\* No update of this kind is on its way, up to place n of the queue.
Quiet(kind, n) == \A i \in 1..n : todo[i].kind # kind

Settled(kind, n) == runs[kind] = Recorded(kind) /\ Quiet(kind, n)

\* What is not unsure is as recorded and will stay so: the one update that may
\* still change it is the waiting caller's, the last one.
SureOK ==
  /\ pc = "off" => todo = << >>
  /\ pc \in {"idle", "content", "rebuild"} =>
       \A kind \in Kinds \ unsure : Settled(kind, Len(todo))
  /\ pc = "wait" =>
       /\ todo # << >> /\ todo[Len(todo)].kind = Kind /\ todo[Len(todo)].to = Asked
       /\ \A kind \in Kinds \ unsure : Settled(kind, Len(todo) - 1)
  /\ pc = "answered" =>
       /\ todo = << >> /\ Kind \notin unsure /\ runs[Kind] = Asked
       /\ \A kind \in Kinds \ (unsure \cup {Kind}) : runs[kind] = Recorded(kind)

EncoderOK ==
  /\ (rec = None) <=> (pc = "off")
  /\ pc = "off" => enc = None
  /\ enc # None => /\ enc.size = rec.size /\ enc.fps \in {rec.fps, Own}
                   /\ enc.kbps \in {rec.kbps, Own} /\ pc # "rebuild"

SessionInv == TypeOK /\ CallOK /\ SureOK /\ EncoderOK
-----------------------------------------------------------------------------
LEMMA Start == SessionInv /\ start => SessionInv'
<1> SUFFICES ASSUME SessionInv, start PROVE SessionInv'
  OBVIOUS
<1> USE DEF SessionInv
<1>1. rec' \in Session /\ rec' # None /\ enc' \in Encoder /\ enc' # None
  BY ArgumentsAssumption DEF start, makeEncoder, Session, Encoder, TypeOK, Own
<1>2. TypeOK'
  BY <1>1 DEF TypeOK, start, output, pictures, channel
<1>3. SureOK'
  <2>1. pc = "off" /\ pc' = "idle" /\ todo' = << >> /\ Len(todo') = 0
    BY DEF start, SureOK
  <2>2. \A kind \in Kinds : runs'[kind] = Recorded(kind)'
    BY DEF start
  <2> QED
    BY <2>1, <2>2 DEF SureOK, Settled, Quiet
<1>4. CallOK' /\ EncoderOK'
  BY <1>1 DEF start, makeEncoder, CallOK, EncoderOK, Session, Encoder
<1> QED
  BY <1>2, <1>3, <1>4

\* Updates do not change type as they are queued.
LEMMA Asking ==
  ASSUME SessionInv, pc \in {"idle", "content"}, NEW kind \in Kinds, NEW to,
         [kind |-> kind, to |-> to] \in Update, Ask(kind, to), UNCHANGED settings
  PROVE  /\ todo' \in Seq(Update) /\ pc' = "wait"
         /\ todo' # << >> /\ Len(todo') = Len(todo) + 1
         /\ todo'[Len(todo')].kind = kind /\ todo'[Len(todo')].to = to
         /\ \A other \in Kinds \ unsure :
              runs'[other] = Recorded(other)' /\ Quiet(other, Len(todo) - 1)'
<1> DEFINE u == [kind |-> kind, to |-> to]
<1>1. todo \in Seq(Update) /\ Len(todo) \in Nat
  BY DEF SessionInv, TypeOK
<1>2. todo' = Append(todo, u) /\ pc' = "wait"
  BY DEF Ask
<1>3. /\ todo' \in Seq(Update) /\ todo' # << >> /\ Len(todo') = Len(todo) + 1
      /\ \A i \in 1..Len(todo) : todo'[i] = todo[i]
      /\ todo'[Len(todo) + 1] = u
  BY <1>1, <1>2, AppendProperties
<1>4. \A other \in Kinds \ unsure : Settled(other, Len(todo))
  BY DEF SessionInv, SureOK
<1>5. Len(todo') - 1 = Len(todo)
  BY <1>1, <1>3
<1>6. \A other \in Kinds \ unsure : runs'[other] = Recorded(other)'
  BY <1>4 DEF Settled, Recorded, ConfigOf, settings
<1> QED
  BY <1>1, <1>2, <1>3, <1>4, <1>5, <1>6 DEF Settled, Quiet

LEMMA Setters == SessionInv /\ Setter => SessionInv'
<1> SUFFICES ASSUME SessionInv, Setter PROVE SessionInv'
  OBVIOUS
<1>1. ASSUME NEW f \in Rates, setFps(FitRate(f)) PROVE SessionInv'
  <2> DEFINE arg == FitRate(f)
             to == ConfigOf(rec.size, arg)
  <2>1. arg \in Int /\ pc = "idle" /\ rec \in Session
    BY <1>1, Fits, ArgumentsAssumption DEF setFps, Takes, Calls, SessionInv, TypeOK, EncoderOK
  <2>2. to \in Config /\ [kind |-> "config", to |-> to] \in Update
    BY <2>1 DEF ConfigOf, Config, Session, Update
  <2>3. Ask("config", to) /\ call' = [op |-> "fps", arg |-> arg]
        /\ calls' = calls + 1 /\ UNCHANGED <<settings, unsure, output>>
    BY <1>1 DEF setFps, Takes, Calls
  <2> HIDE DEF to, arg
  <2>4. "config" \in Kinds
    BY DEF Kinds
  <2>5. /\ todo' \in Seq(Update) /\ pc' = "wait"
        /\ todo' # << >>
        /\ todo'[Len(todo')].kind = "config" /\ todo'[Len(todo')].to = to
        /\ \A other \in Kinds \ unsure :
             runs'[other] = Recorded(other)' /\ Quiet(other, Len(todo) - 1)'
    BY <2>1, <2>2, <2>3, <2>4, Asking
  <2>6. Kind' = "config" /\ Asked' = to
    BY <2>3 DEF Kind, Asked, to, settings
  <2>7. TypeOK'
    BY <2>3, <2>5 DEF SessionInv, TypeOK, settings, output, pictures, channel
  <2>8. CallOK'
    BY <2>1, <2>3, <2>5 DEF CallOK
  <2>9. SureOK'
    BY <2>3, <2>5, <2>6 DEF SureOK, Settled
  <2>10. EncoderOK'
    BY <2>1, <2>3, <2>5 DEF SessionInv, EncoderOK, settings
  <2> QED
    BY <2>7, <2>8, <2>9, <2>10 DEF SessionInv
<1>2. ASSUME NEW s \in Sizes, setResolution(FitSize(s)) PROVE SessionInv'
  <2> DEFINE arg == FitSize(s)
             to == ConfigOf(arg, rec.fps)
  <2>1. arg \in Size /\ pc = "idle" /\ rec \in Session
    BY <1>2, Fits, ArgumentsAssumption
    DEF setResolution, Takes, Calls, SessionInv, TypeOK, EncoderOK
  <2>2. to \in Config /\ [kind |-> "config", to |-> to] \in Update
    BY <2>1 DEF ConfigOf, Config, Session, Update
  <2>3. Ask("config", to) /\ call' = [op |-> "size", arg |-> arg]
        /\ calls' = calls + 1 /\ UNCHANGED <<settings, unsure, output>>
    BY <1>2 DEF setResolution, Takes, Calls
  <2> HIDE DEF to, arg
  <2>4. "config" \in Kinds
    BY DEF Kinds
  <2>5. /\ todo' \in Seq(Update) /\ pc' = "wait"
        /\ todo' # << >>
        /\ todo'[Len(todo')].kind = "config" /\ todo'[Len(todo')].to = to
        /\ \A other \in Kinds \ unsure :
             runs'[other] = Recorded(other)' /\ Quiet(other, Len(todo) - 1)'
    BY <2>1, <2>2, <2>3, <2>4, Asking
  <2>6. Kind' = "config" /\ Asked' = to
    BY <2>3 DEF Kind, Asked, to, settings
  <2>7. TypeOK'
    BY <2>3, <2>5 DEF SessionInv, TypeOK, settings, output, pictures, channel
  <2>8. CallOK'
    BY <2>1, <2>3, <2>5 DEF CallOK
  <2>9. SureOK'
    BY <2>3, <2>5, <2>6 DEF SureOK, Settled
  <2>10. EncoderOK'
    BY <2>1, <2>3, <2>5 DEF SessionInv, EncoderOK, settings
  <2> QED
    BY <2>7, <2>8, <2>9, <2>10 DEF SessionInv
<1>3. ASSUME NEW d \in Displays, selectDisplay(d) PROVE SessionInv'
  <2>1. /\ d \in Int /\ pc = "idle" /\ pc' = "content" /\ calls' = calls + 1
        /\ call' = [op |-> "display", arg |-> d]
        /\ UNCHANGED <<settings, todo, unsure, output>>
    BY <1>3, ArgumentsAssumption DEF selectDisplay, Takes, Calls
  <2>2. TypeOK' /\ CallOK' /\ EncoderOK'
    BY <2>1 DEF SessionInv, TypeOK, CallOK, EncoderOK, settings, output, pictures, channel
  <2>3. SureOK'
    BY <2>1 DEF SessionInv, SureOK, Settled, Quiet, Recorded, settings
  <2> QED
    BY <2>2, <2>3 DEF SessionInv
<1>4. ASSUME NEW k \in Bitrates, set_bitrate(FitBitrate(k)) PROVE SessionInv'
  <2> DEFINE arg == FitBitrate(k)
  <2>1. arg \in Int
    BY Fits, ArgumentsAssumption
  <2>2. /\ pc = "idle" /\ pc' = "idle" /\ calls' = calls + 1
        /\ enc # None /\ rec # None
        /\ \/ enc' = [enc EXCEPT !.kbps = arg] /\ rec' = [rec EXCEPT !.kbps = arg]
           \/ UNCHANGED <<enc, rec>>
        /\ UNCHANGED <<runs, todo, unsure, output>>
    BY <1>4 DEF set_bitrate, Calls, SessionInv, EncoderOK
  <2> HIDE DEF arg
  <2>3. rec \in Session /\ enc \in Encoder
    BY <2>2 DEF SessionInv, TypeOK
  <2>4. /\ rec' \in Session /\ enc' \in Encoder /\ rec' # None /\ enc' # None
        /\ rec'.size = rec.size /\ rec'.fps = rec.fps /\ rec'.display = rec.display
        /\ \/ rec'.kbps = arg /\ enc'.kbps = arg
           \/ rec'.kbps = rec.kbps /\ enc'.kbps = enc.kbps
        /\ enc'.size = enc.size /\ enc'.fps = enc.fps
    BY <2>1, <2>2, <2>3, ArgumentsAssumption DEF Session, Encoder
  <2>5. TypeOK' /\ CallOK' /\ EncoderOK'
    BY <2>2, <2>4 DEF SessionInv, TypeOK, CallOK, EncoderOK, output, pictures, channel
  <2>6. SureOK'
    BY <2>2, <2>4 DEF SessionInv, SureOK, Settled, Quiet, Recorded, ConfigOf
  <2> QED
    BY <2>5, <2>6 DEF SessionInv
<1> QED
  BY <1>1, <1>2, <1>3, <1>4 DEF Setter

LEMMA Fetched == SessionInv /\ Content => SessionInv'
<1> SUFFICES ASSUME SessionInv, Content PROVE SessionInv'
  OBVIOUS
<1>1. /\ pc = "content" /\ call.op = "display" /\ call.arg \in Int
      /\ UNCHANGED <<settings, calls, unsure, output>>
  BY DEF Content, SessionInv, CallOK
<1>2. CASE Ask("filter", call.arg) /\ UNCHANGED call
  <2>1. "filter" \in Kinds /\ [kind |-> "filter", to |-> call.arg] \in Update
    BY <1>1 DEF Kinds, Update
  <2>2. /\ todo' \in Seq(Update) /\ pc' = "wait"
        /\ todo' # << >>
        /\ todo'[Len(todo')].kind = "filter" /\ todo'[Len(todo')].to = call.arg
        /\ \A other \in Kinds \ unsure :
             runs'[other] = Recorded(other)' /\ Quiet(other, Len(todo) - 1)'
    BY <1>1, <1>2, <2>1, Asking
  <2>3. Kind' = "filter" /\ Asked' = call.arg
    BY <1>1, <1>2 DEF Kind, Asked
  <2>4. TypeOK' /\ CallOK' /\ EncoderOK'
    BY <1>1, <1>2, <2>2 DEF SessionInv, TypeOK, CallOK, EncoderOK, settings, output, pictures, channel
  <2>5. SureOK'
    BY <1>1, <2>2, <2>3 DEF SureOK, Settled
  <2> QED
    BY <2>4, <2>5 DEF SessionInv
<1>3. CASE pc' = "idle" /\ UNCHANGED todo
  <2>1. TypeOK' /\ CallOK' /\ EncoderOK'
    BY <1>1, <1>3 DEF SessionInv, TypeOK, CallOK, EncoderOK, settings, output, pictures, channel
  <2>2. SureOK'
    BY <1>1, <1>3 DEF SessionInv, SureOK, Settled, Quiet, Recorded, settings
  <2> QED
    BY <2>1, <2>2 DEF SessionInv
<1> QED
  BY <1>2, <1>3 DEF Content, Returns

\* An update that is answered is one of a kind that nobody is sure of, unless it
\* is the waiting caller's.
LEMMA Answered == SessionInv /\ Answer => SessionInv'
<1> SUFFICES ASSUME SessionInv, Answer PROVE SessionInv'
  OBVIOUS
<1> DEFINE u == Head(todo)
<1>1. /\ todo \in Seq(Update) /\ todo # << >> /\ todo' = Tail(todo)
      /\ UNCHANGED <<rec, enc, calls, output>>
  BY DEF Answer, SessionInv, TypeOK
<1>2. /\ u = todo[1] /\ u \in Update /\ u.kind \in Kinds /\ Len(todo) \in Nat \ {0}
      /\ todo' \in Seq(Update) /\ Len(todo') = Len(todo) - 1
      /\ \A i \in 1..Len(todo') : todo'[i] = todo[i + 1]
  <2>1. u = todo[1] /\ u \in Update /\ Len(todo) \in Nat \ {0}
    BY <1>1
  <2>2. u.kind \in Kinds
    BY <2>1 DEF Update, Kinds
  <2> QED
    BY <1>1, <2>1, <2>2, HeadTailProperties
<1> HIDE DEF u
<1>3. \A kind : \A n \in 0..Len(todo) : Quiet(kind, n) => Quiet(kind, n - 1)'
  BY <1>2 DEF Quiet
<1>4. /\ Recorded("config")' = Recorded("config") /\ Recorded("filter")' = Recorded("filter")
      /\ UNCHANGED call => Kind' = Kind /\ Asked' = Asked
  BY <1>1 DEF Recorded, Kind, Asked
<1>5. CASE Heard
  <2>1. pc = "wait" /\ Len(todo) = 1 /\ todo' = << >> /\ u.kind = Kind /\ u.to = Asked
    BY <1>1, <1>2, <1>5 DEF Heard, SessionInv, SureOK
  <2>2. CASE Applied
    <3>1. /\ runs' = [runs EXCEPT ![Kind] = Asked]
          /\ pc' = "answered" /\ unsure' = unsure \ {Kind} /\ UNCHANGED call
      BY <1>5, <2>1, <2>2 DEF Applied, u
    <3>2. runs' = [kind \in Kinds |-> runs'[kind]] /\ runs'[Kind] = Asked
          /\ \A kind \in Kinds \ {Kind} : runs'[kind] = runs[kind]
      BY <1>2, <2>1, <3>1 DEF SessionInv, TypeOK
    <3>3. TypeOK' /\ CallOK' /\ EncoderOK'
      BY <1>1, <1>2, <2>1, <3>1, <3>2 DEF SessionInv, TypeOK, CallOK, EncoderOK, output, pictures, channel
    <3>4. SureOK'
      BY <1>4, <2>1, <3>1, <3>2 DEF SessionInv, SureOK, Settled, Kinds
    <3> QED
      BY <3>3, <3>4 DEF SessionInv
  <2>3. CASE Refused
    <3>1. pc' = "idle" /\ UNCHANGED <<runs, unsure>>
      BY <1>5, <2>3 DEF Refused, Returns
    <3>2. TypeOK' /\ CallOK' /\ EncoderOK'
      BY <1>1, <1>2, <2>1, <3>1 DEF SessionInv, TypeOK, CallOK, EncoderOK, output, pictures, channel
    <3>3. SureOK'
      BY <1>4, <2>1, <3>1 DEF SessionInv, SureOK, Settled, Quiet, Kinds
    <3> QED
      BY <3>2, <3>3 DEF SessionInv
  <2> QED
    BY <2>2, <2>3 DEF Answer
<1>6. CASE ~Heard
  <2>1. /\ UNCHANGED <<pc, call, unsure>>
        /\ runs' = [runs EXCEPT ![u.kind] = u.to] \/ UNCHANGED runs
    BY <1>6 DEF Answer, Applied, Refused, u
  <2>2. pc # "off" /\ pc # "answered" /\ (pc = "wait" => Len(todo) > 1)
    BY <1>1, <1>2, <1>6 DEF SessionInv, SureOK, Heard
  <2>3. u.kind \in unsure
    <3>1. \A kind \in Kinds \ unsure : \E n \in 1..Len(todo) : Quiet(kind, n)
      <4>1. CASE pc = "wait"
        BY <1>2, <2>2, <4>1 DEF SessionInv, SureOK, Settled
      <4>2. CASE pc # "wait"
        BY <1>2, <2>2, <4>2 DEF SessionInv, SureOK, Settled, TypeOK
      <4> QED
        BY <4>1, <4>2
    <3>2. \A kind : \A n \in 1..Len(todo) : Quiet(kind, n) => u.kind # kind
      BY <1>2 DEF Quiet
    <3> QED
      BY <1>2, <3>1, <3>2
  <2>4. runs' = [kind \in Kinds |-> runs'[kind]]
        /\ \A kind \in Kinds \ unsure : runs'[kind] = runs[kind]
    BY <2>1, <2>3 DEF SessionInv, TypeOK
  <2>5. TypeOK' /\ CallOK' /\ EncoderOK'
    BY <1>1, <1>2, <2>1, <2>4 DEF SessionInv, TypeOK, CallOK, EncoderOK, output, pictures, channel
  <2>6. SureOK'
    <3>1. CASE pc \in {"idle", "content", "rebuild"}
      <4>1. \A kind \in Kinds \ unsure : runs[kind] = Recorded(kind) /\ Quiet(kind, Len(todo))
        BY <3>1 DEF SessionInv, SureOK, Settled
      <4>2. \A kind \in Kinds \ unsure : Quiet(kind, Len(todo))'
        BY <1>2, <4>1 DEF Quiet
      <4>3. \A kind \in Kinds \ unsure : runs'[kind] = Recorded(kind)'
        BY <1>4, <2>4, <4>1 DEF Kinds
      <4>4. pc' \in {"idle", "content", "rebuild"} /\ unsure' = unsure
        BY <2>1, <3>1
      <4>5. \A kind \in Kinds \ unsure' : Settled(kind, Len(todo))'
        BY <4>2, <4>3, <4>4 DEF Settled
      <4> QED
        BY <4>4, <4>5 DEF SureOK
    <3>2. CASE pc = "wait"
      <4>1. todo' # << >> /\ todo'[Len(todo')] = todo[Len(todo)]
        <5>1. Len(todo') \in 1..Len(todo') /\ Len(todo') + 1 = Len(todo)
          BY <1>2, <2>2, <3>2
        <5>2. todo'[Len(todo')] = todo[Len(todo)]
          BY <1>2, <5>1
        <5> QED
          BY <1>2, <5>1, <5>2
      <4>2. \A kind \in Kinds \ unsure : runs[kind] = Recorded(kind) /\ Quiet(kind, Len(todo) - 1)
        BY <3>2 DEF SessionInv, SureOK, Settled
      <4>3. \A kind \in Kinds \ unsure : Quiet(kind, Len(todo) - 1)'
        BY <1>2, <4>2 DEF Quiet
      <4>4. \A kind \in Kinds \ unsure : runs'[kind] = Recorded(kind)'
        BY <1>4, <2>4, <4>2 DEF Kinds
      <4>5. todo[Len(todo)].kind = Kind /\ todo[Len(todo)].to = Asked
        BY <3>2 DEF SessionInv, SureOK
      <4>6. pc' = "wait" /\ unsure' = unsure /\ Kind' = Kind /\ Asked' = Asked
        BY <1>4, <2>1, <3>2
      <4>7. \A kind \in Kinds \ unsure' : Settled(kind, Len(todo) - 1)'
        BY <4>3, <4>4, <4>6 DEF Settled
      <4>8. todo'[Len(todo')].kind = Kind' /\ todo'[Len(todo')].to = Asked'
        BY <4>1, <4>5, <4>6
      <4> QED
        BY <4>1, <4>6, <4>7, <4>8 DEF SureOK
    <3> QED
      BY <2>2, <3>1, <3>2 DEF SessionInv, TypeOK
  <2> QED
    BY <2>5, <2>6 DEF SessionInv
<1> QED
  BY <1>5, <1>6

LEMMA GivenUp == SessionInv /\ TimeOut => SessionInv'
<1> SUFFICES ASSUME SessionInv, TimeOut PROVE SessionInv'
  OBVIOUS
<1>1. pc' = "idle" /\ UNCHANGED <<settings, todo, calls, output>>
  BY DEF TimeOut, Returns
<1>2. CASE pc = "content"
  BY <1>1, <1>2 DEF TimeOut, SessionInv, TypeOK, CallOK, SureOK, EncoderOK, Settled,
                    Quiet, Recorded, settings, output, pictures, channel
<1>3. CASE pc = "wait"
  <2>1. /\ unsure' = unsure \cup {Kind} /\ Kind \in Kinds
        /\ todo[Len(todo)].kind = Kind /\ Len(todo) \in Nat
    BY <1>3 DEF TimeOut, SessionInv, TypeOK, SureOK, Kind, Kinds
  <2>2. \A kind \in Kinds \ unsure' : Settled(kind, Len(todo))
    BY <1>3, <2>1 DEF SessionInv, SureOK, Settled, Quiet
  <2>3. TypeOK' /\ CallOK' /\ EncoderOK'
    BY <1>1, <1>3, <2>1 DEF SessionInv, TypeOK, CallOK, EncoderOK, settings, output, pictures, channel
  <2>4. SureOK'
    BY <1>1, <2>2 DEF SureOK, Settled, Quiet, Recorded, settings
  <2> QED
    BY <2>3, <2>4 DEF SessionInv
<1> QED
  BY <1>2, <1>3 DEF TimeOut

LEMMA Finished ==
  SessionInv /\ (RateTaken \/ DisplayTaken \/ TearDown \/ Rebuild) => SessionInv'
<1> SUFFICES ASSUME SessionInv, RateTaken \/ DisplayTaken \/ TearDown \/ Rebuild
             PROVE SessionInv'
  OBVIOUS
<1>1. rec \in Session /\ rec # None
  BY DEF RateTaken, DisplayTaken, TearDown, Rebuild, SessionInv, TypeOK, EncoderOK
<1>2. CASE RateTaken
  <2>1. /\ pc = "answered" /\ pc' = "idle" /\ call.op = "fps" /\ call.arg \in Int
        /\ rec' = [rec EXCEPT !.fps = call.arg]
        /\ \/ enc = None /\ enc' = None
           \/ enc # None /\ \E fps \in {call.arg, Own} : enc' = [enc EXCEPT !.fps = fps]
        /\ UNCHANGED <<runs, todo, calls, unsure, output>>
    BY <1>2 DEF RateTaken, Returns, SessionInv, CallOK
  <2>2. /\ rec' \in Session /\ rec'.size = rec.size /\ rec'.kbps = rec.kbps
        /\ rec'.fps = call.arg /\ rec'.display = rec.display
    BY <1>1, <2>1 DEF Session
  <2>3. /\ enc' \in Encoder \cup {None} /\ (enc' = None <=> enc = None)
        /\ enc # None => /\ enc'.size = enc.size /\ enc'.kbps = enc.kbps
                         /\ enc'.fps \in {call.arg, Own}
    <3>1. CASE enc = None
      BY <2>1, <3>1
    <3>2. CASE enc # None
      <4>1. PICK fps \in {call.arg, Own} : enc' = [enc EXCEPT !.fps = fps]
        BY <2>1, <3>2
      <4>2. enc \in Encoder /\ fps \in Int
        BY <2>1, <3>2, <4>1 DEF SessionInv, TypeOK, Own
      <4>3. /\ enc' \in Encoder /\ enc'.size = enc.size /\ enc'.kbps = enc.kbps
            /\ enc'.fps = fps
        BY <4>1, <4>2 DEF Encoder
      <4> QED
        BY <3>2, <4>1, <4>3, ArgumentsAssumption
    <3> QED
      BY <3>1, <3>2
  <2>4. TypeOK' /\ CallOK'
    BY <2>1, <2>2, <2>3 DEF SessionInv, TypeOK, CallOK, output, pictures, channel
  <2>5. EncoderOK'
    <3>1. rec' # None /\ pc' # "off" /\ pc' # "rebuild"
      BY <2>1, <2>2, ArgumentsAssumption
    <3>2. enc # None => enc.size = rec.size /\ enc.kbps \in {rec.kbps, Own}
      BY DEF SessionInv, EncoderOK
    <3> QED
      BY <2>2, <2>3, <3>1, <3>2 DEF EncoderOK
  <2>6. SureOK'
    BY <2>1, <2>2 DEF SessionInv, SureOK, Settled, Quiet, Recorded, Kinds, Kind, Asked, ConfigOf
  <2> QED
    BY <2>4, <2>5, <2>6 DEF SessionInv
<1>3. CASE DisplayTaken
  <2>1. /\ pc = "answered" /\ pc' = "idle" /\ call.op = "display" /\ call.arg \in Int
        /\ rec' = [rec EXCEPT !.display = call.arg]
        /\ UNCHANGED <<runs, enc, todo, calls, unsure, output>>
    BY <1>3 DEF DisplayTaken, Returns, SessionInv, CallOK
  <2>2. /\ rec' \in Session /\ rec'.size = rec.size /\ rec'.kbps = rec.kbps
        /\ rec'.fps = rec.fps /\ rec'.display = call.arg
    BY <1>1, <2>1 DEF Session
  <2>3. TypeOK' /\ CallOK' /\ EncoderOK'
    BY <1>1, <2>1, <2>2, ArgumentsAssumption
    DEF SessionInv, TypeOK, CallOK, EncoderOK, output, pictures, channel
  <2>4. SureOK'
    BY <2>1, <2>2 DEF SessionInv, SureOK, Settled, Quiet, Recorded, Kinds, Kind, Asked, ConfigOf
  <2> QED
    BY <2>3, <2>4 DEF SessionInv
<1>4. CASE TearDown
  <2>1. /\ pc = "answered" /\ pc' = "rebuild" /\ call.op = "size" /\ call.arg \in Size
        /\ rec' = [rec EXCEPT !.size = call.arg] /\ enc' = None
        /\ late' = late \cup {f.n : f \in inside} \cup {c.n : c \in hands}
        /\ UNCHANGED <<runs, todo, calls, unsure, fed, inside, hands, lost, channel>>
    BY <1>4 DEF TearDown, SessionInv, CallOK
  <2>2. /\ rec' \in Session /\ rec'.size = call.arg /\ rec'.kbps = rec.kbps
        /\ rec'.fps = rec.fps /\ rec'.display = rec.display
    BY <1>1, <2>1 DEF Session
  <2>3. late' \subseteq Nat
    BY <2>1 DEF SessionInv, TypeOK, Frame, Emitted
  <2>4. TypeOK' /\ CallOK' /\ EncoderOK'
    BY <1>1, <2>1, <2>2, <2>3, ArgumentsAssumption
    DEF SessionInv, TypeOK, CallOK, EncoderOK, channel
  <2>5. SureOK'
    BY <2>1, <2>2 DEF SessionInv, SureOK, Settled, Quiet, Recorded, Kinds, Kind, Asked, ConfigOf
  <2> QED
    BY <2>4, <2>5 DEF SessionInv
<1>5. CASE Rebuild
  <2>1. /\ pc = "rebuild" /\ pc' = "idle" /\ enc = None /\ rec' = rec
        /\ makeEncoder \/ UNCHANGED enc
        /\ UNCHANGED <<runs, todo, calls, unsure, output>>
    BY <1>5 DEF Rebuild, Returns, SessionInv, EncoderOK
  <2>2. SureOK'
    BY <2>1 DEF SessionInv, SureOK, Settled, Quiet, Recorded
  <2>3. /\ enc' \in Encoder \cup {None}
        /\ enc' # None => /\ enc'.size = rec.size /\ enc'.fps \in {rec.fps, Own}
                          /\ enc'.kbps \in {rec.kbps, Own}
    BY <1>1, <2>1 DEF makeEncoder, SessionInv, TypeOK, Session, Encoder, Own
  <2>4. TypeOK' /\ CallOK' /\ EncoderOK'
    BY <1>1, <2>1, <2>3 DEF SessionInv, TypeOK, CallOK, EncoderOK, output, pictures, channel
  <2> QED
    BY <2>2, <2>4 DEF SessionInv
<1> QED
  BY <1>2, <1>3, <1>4, <1>5

LEMMA ChunksAre == \A f \in Frame : Chunks(f) \subseteq Emitted
  BY DEF Frame, Chunks, Chunk, Emitted

\* The types of what a picture of the stream becomes.
OutputOK == /\ fed \in Nat /\ inside \subseteq Frame /\ late \subseteq Nat
            /\ hands \subseteq Emitted /\ lost \subseteq Emitted
            /\ rx \in Seq(Emitted) /\ emitted \in Seq(Emitted)

LEMMA Encoding == SessionInv /\ Encode => OutputOK' /\ UNCHANGED <<settings, caller>>
<1> SUFFICES ASSUME SessionInv, Encode PROVE OutputOK' /\ UNCHANGED <<settings, caller>>
  OBVIOUS
<1>1. OutputOK /\ (enc # None => enc \in Encoder)
  BY DEF SessionInv, TypeOK, OutputOK
<1>2. CASE didOutputSampleBuffer
  <2>1. enc.from \in Nat /\ fed \in Nat /\ fed' = fed + 1
    BY <1>1, <1>2 DEF didOutputSampleBuffer, Encoder, OutputOK
  <2>2. inside' \subseteq Frame
    BY <1>1, <1>2, <2>1 DEF didOutputSampleBuffer, OutputOK, Frame
  <2> QED
    BY <1>1, <1>2, <2>1, <2>2 DEF didOutputSampleBuffer, OutputOK, channel
<1>3. CASE handleEncoded
  <2>1. PICK f \in inside : \E out \in SUBSET Chunks(f) :
          /\ inside' = inside \ {f} /\ hands' = hands \cup out
          /\ lost' = lost \cup (Chunks(f) \ out)
    BY <1>3 DEF handleEncoded
  <2>2. Chunks(f) \subseteq Emitted
    BY <1>1, ChunksAre DEF OutputOK
  <2> QED
    BY <1>1, <1>3, <2>1, <2>2 DEF handleEncoded, OutputOK, channel
<1>4. CASE emitAnnexBChunk
  BY <1>1, <1>4, AppendProperties DEF emitAnnexBChunk, on_nal, OutputOK
<1> QED
  BY <1>2, <1>3, <1>4 DEF Encode

LEMMA Same == SessionInv /\ UNCHANGED <<settings, caller>> /\ OutputOK' => SessionInv'
  BY DEF SessionInv, TypeOK, CallOK, SureOK, EncoderOK, Settled, Quiet, Recorded, Kind,
         Asked, settings, caller, OutputOK

LEMMA SessionSteps == SessionInv /\ Step => SessionInv'
  BY Setters, Fetched, Answered, GivenUp, Finished, Encoding, Same DEF Step, Return

\* The session as it runs in the process.
LEMMA SessionInvariant == CapturerSpec => []SessionInv
<1>1. CapturerInit => SessionInv
  BY DEF CapturerInit, Init, SessionInv, TypeOK, CallOK, SureOK, EncoderOK
<1>2. SessionInv /\ [CapturerNext]_vars => SessionInv'
  <2> SUFFICES ASSUME SessionInv, [CapturerNext]_vars PROVE SessionInv'
    OBVIOUS
  <2>1. OutputOK
    BY DEF SessionInv, TypeOK, OutputOK
  <2>2. CASE BridgeTakes
    <3>1. rx' \in Seq(Emitted)
      BY <2>1, <2>2, HeadTailProperties DEF BridgeTakes, OutputOK
    <3>2. OutputOK'
      BY <2>1, <2>2, <3>1 DEF BridgeTakes, OutputOK, pictures
    <3> QED
      BY <2>2, <3>2, Same DEF BridgeTakes
  <2>3. CASE UNCHANGED session
    <3>1. OutputOK'
      BY <2>1, <2>3 DEF session, output, pictures, channel, OutputOK
    <3> QED
      BY <2>3, <3>1, Same DEF session
  <2>4. CASE StartNative
    BY <2>3, <2>4, Start DEF StartNative
  <2>5. CASE SessionStep
    BY <2>5, SessionSteps DEF SessionStep
  <2>6. Connect \/ BridgePuts \/ MainTakes \/ MainSends \/ SendFails \/ ServerGoes
          => UNCHANGED session
    BY DEF Connect, BridgePuts, MainTakes, MainSends, SendFails, ServerGoes
  <2> QED
    BY <2>2, <2>3, <2>4, <2>5, <2>6 DEF CapturerNext, vars
<1> QED
  BY <1>1, <1>2, PTL DEF CapturerSpec

\* "Returns 0 on success": what the getters report is what stream and encoder do,
\* but for updates whose caller was told of a timeout and for the rates that the
\* encoder refused without the code looking.
THEOREM Consistent == CapturerSpec => []SettledIsConsistent
<1>1. SessionInv => SettledIsConsistent
  BY DEF SessionInv, SureOK, EncoderOK, Settled, SettledIsConsistent
<1> QED
  BY <1>1, SessionInvariant, PTL
-----------------------------------------------------------------------------
(* From the session to the sink.                                            *)

LineOK ==
  /\ bridge \in Seq(Emitted) /\ queue \in Seq(Emitted)
  /\ sending \in Seq(Emitted) /\ sent \in Seq(Emitted)

LineInv == LineOK /\ NothingLostOnTheWay

LEMMA FirstThenRest ==
  ASSUME NEW s \in Seq(Emitted), s # << >>
  PROVE  Tail(s) \in Seq(Emitted) /\ <<Head(s)>> \in Seq(Emitted) /\ <<Head(s)>> \o Tail(s) = s
  OBVIOUS

LEMMA Assoc ==
  \A a, b, c \in Seq(Emitted) : (a \o b) \o c = a \o (b \o c)
  BY ConcatAssociative

LEMMA Onto ==
  \A s, t \in Seq(Emitted) : \A c \in Emitted : s \o Append(t, c) = Append(s \o t, c)
  OBVIOUS

\* The line by its joints: what is behind main's loop, behind the bounded channel,
\* behind the bridge.
Behind1 == bridge \o rx
Behind2 == queue \o Behind1
Behind3 == sending \o Behind2

LEMMA Empty == ASSUME NEW s \in Seq(Emitted) PROVE << >> \o s = s /\ s \o << >> = s
  OBVIOUS

LEMMA Joints ==
  ASSUME rx \in Seq(Emitted), LineOK
  PROVE  /\ Behind1 \in Seq(Emitted) /\ Behind2 \in Seq(Emitted) /\ Behind3 \in Seq(Emitted)
         /\ Underway = Behind3
<1>1. bridge \in Seq(Emitted) /\ queue \in Seq(Emitted) /\ sending \in Seq(Emitted)
  BY DEF LineOK
<1>2. Behind1 \in Seq(Emitted)
  BY <1>1 DEF Behind1
<1>3. Behind2 \in Seq(Emitted)
  BY <1>1, <1>2 DEF Behind2
<1>4. Behind3 \in Seq(Emitted)
  BY <1>1, <1>3 DEF Behind3
<1> QED
  BY <1>2, <1>3, <1>4, Zenon DEF Behind1, Behind2, Behind3, Underway

LEMMA LineSteps ==
  ASSUME SessionInv, SessionInv', LineInv, [CapturerNext]_vars
  PROVE  LineInv'
<1>1. /\ rx \in Seq(Emitted) /\ emitted \in Seq(Emitted) /\ bridge \in Seq(Emitted)
      /\ queue \in Seq(Emitted) /\ sending \in Seq(Emitted) /\ sent \in Seq(Emitted)
      /\ rx' \in Seq(Emitted)
  BY DEF SessionInv, TypeOK, LineInv, LineOK
<1>2. /\ Behind1 \in Seq(Emitted) /\ Behind2 \in Seq(Emitted) /\ Behind3 \in Seq(Emitted)
      /\ sent \o Behind3 = emitted
  BY <1>1, Joints DEF LineInv, NothingLostOnTheWay
<1> DEFINE Goal == LineOK' /\ sent' \o Behind3' = emitted'
<1>3. SUFFICES Goal
  <2>1. Underway' = Behind3'
    BY DEF Underway, Behind1, Behind2, Behind3
  <2> QED
    BY <2>1 DEF LineInv, NothingLostOnTheWay
<1>4. CASE UNCHANGED <<rx, emitted, bridge, queue, sending, sent>>
  <2>1. Behind3' = Behind3
    BY <1>4 DEF Behind1, Behind2, Behind3
  <2> QED
    BY <1>1, <1>2, <1>4, <2>1 DEF LineOK
<1>5. CASE BridgeTakes
  <2>1. /\ rx # << >> /\ bridge = << >> /\ bridge' = <<Head(rx)>> /\ rx' = Tail(rx)
        /\ UNCHANGED <<emitted, queue, sending, sent>>
    BY <1>5 DEF BridgeTakes
  <2>2. bridge' \o rx' = rx /\ bridge \o rx = rx /\ bridge' \in Seq(Emitted)
    BY <1>1, <2>1, FirstThenRest, Empty
  <2>3. Behind3' = Behind3
    BY <2>1, <2>2 DEF Behind1, Behind2, Behind3
  <2> QED
    BY <1>1, <1>2, <2>1, <2>2, <2>3 DEF LineOK
<1>6. CASE BridgePuts
  <2>1. queue' = queue \o bridge /\ bridge' = << >> /\ UNCHANGED <<rx, emitted, sending, sent>>
    BY <1>6 DEF BridgePuts, session, output, pictures, channel
  <2>2. bridge' \o rx' = rx /\ (queue \o bridge) \o rx = queue \o (bridge \o rx)
    BY <1>1, <2>1, Assoc, Empty, ZenonT(60)
  <2>3. Behind2' = Behind2 /\ Behind3' = Behind3
    BY <2>1, <2>2, Zenon DEF Behind1, Behind2, Behind3
  <2>4. queue' \in Seq(Emitted) /\ bridge' \in Seq(Emitted)
    BY <1>1, <2>1
  <2> QED
    BY <1>1, <1>2, <2>1, <2>3, <2>4 DEF LineOK
<1>7. CASE MainTakes
  <2>1. /\ queue # << >> /\ sending = << >> /\ sending' = <<Head(queue)>>
        /\ queue' = Tail(queue) /\ UNCHANGED <<rx, emitted, bridge, sent>>
    BY <1>7 DEF MainTakes, session, output, pictures, channel
  <2>2. /\ sending' \o queue' = queue
        /\ sending' \in Seq(Emitted) /\ queue' \in Seq(Emitted)
    BY <1>1, <2>1, FirstThenRest
  <2>3. Behind1' = Behind1
    BY <2>1 DEF Behind1
  <2>4. (sending' \o queue') \o Behind1 = sending' \o (queue' \o Behind1)
    BY <1>2, <2>2, Assoc, ZenonT(60)
  <2>5. Behind3' = Behind2
    BY <2>2, <2>3, <2>4, Zenon DEF Behind2, Behind3
  <2>6. Behind3 = Behind2
    BY <1>2, <2>1, Empty DEF Behind3
  <2> QED
    BY <1>1, <1>2, <2>1, <2>2, <2>5, <2>6 DEF LineOK
<1>8. CASE MainSends
  <2>1. sent' = sent \o sending /\ sending' = << >> /\ UNCHANGED <<rx, emitted, bridge, queue>>
    BY <1>8 DEF MainSends, session, output, pictures, channel
  <2>2. sent' \in Seq(Emitted) /\ sending' \in Seq(Emitted)
    BY <1>1, <2>1
  <2>3. Behind2' = Behind2
    BY <2>1 DEF Behind1, Behind2
  <2>4. Behind3' = Behind2
    BY <1>2, <2>1, <2>3, Empty DEF Behind3
  <2>5. (sent \o sending) \o Behind2 = sent \o (sending \o Behind2)
    <3>1. sent \in Seq(Emitted) /\ sending \in Seq(Emitted) /\ Behind2 \in Seq(Emitted)
      BY <1>1, <1>2
    <3> QED
      BY <3>1, Assoc
  <2>6. sent' \o Behind3' = emitted'
    BY <1>2, <2>1, <2>4, <2>5, Zenon DEF Behind3
  <2> QED
    BY <1>1, <2>1, <2>2, <2>6 DEF LineOK
<1>9. CASE SessionStep
  <2>1. CASE emitAnnexBChunk
    <3>1. PICK c \in hands : rx' = Append(rx, c) /\ emitted' = Append(emitted, c)
      BY <2>1 DEF emitAnnexBChunk, on_nal
    <3>2. UNCHANGED <<bridge, queue, sending, sent>>
      BY <1>9 DEF SessionStep, process
    <3>3. c \in Emitted
      BY <3>1 DEF SessionInv, TypeOK
    <3>4. Behind1' = Append(Behind1, c)
      <4>1. bridge' \o rx' = bridge \o Append(rx, c)
        BY <3>1, <3>2
      <4>2. bridge \o Append(rx, c) = Append(bridge \o rx, c)
        BY <1>1, <3>3, Onto
      <4> QED
        BY <4>1, <4>2 DEF Behind1
    <3>5. Behind2' = Append(Behind2, c)
      BY <1>1, <1>2, <3>2, <3>3, <3>4, Onto DEF Behind2
    <3>6. Behind3' = Append(Behind3, c)
      BY <1>1, <1>2, <3>2, <3>3, <3>5, Onto DEF Behind3
    <3>7. sent' \o Behind3' = Append(sent \o Behind3, c)
      BY <1>1, <1>2, <3>2, <3>3, <3>6, Onto
    <3> QED
      BY <1>1, <1>2, <3>1, <3>2, <3>7 DEF LineOK
  <2>2. CASE Setter \/ Return \/ Answer \/ didOutputSampleBuffer \/ handleEncoded
    BY <1>4, <1>9, <2>2
    DEF SessionStep, process, output, pictures, channel, Setter, setFps, setResolution, selectDisplay, set_bitrate,
        Return, Content, TimeOut, RateTaken, DisplayTaken, TearDown, Rebuild, Answer,
        didOutputSampleBuffer, handleEncoded
  <2> QED
    BY <1>9, <2>1, <2>2 DEF SessionStep, Step, Encode
<1>10. Connect \/ StartNative \/ SendFails \/ ServerGoes \/ UNCHANGED vars
         => UNCHANGED <<rx, emitted, bridge, queue, sending, sent>>
  BY DEF Connect, StartNative, start, SendFails, ServerGoes, vars, session, process, output, pictures, channel
<1> QED
  BY <1>4, <1>5, <1>6, <1>7, <1>8, <1>9, <1>10 DEF CapturerNext

LEMMA LineInvariant == CapturerSpec => [](SessionInv /\ LineInv)
<1>1. CapturerInit => LineInv
  BY DEF CapturerInit, Init, LineInv, LineOK, NothingLostOnTheWay, Underway
<1> QED
  BY <1>1, LineSteps, SessionInvariant, PTL DEF CapturerSpec

\* "Each H264 NAL unit is forwarded": two channels, two threads and every change
\* of settings lose, double and reorder nothing.
THEOREM NothingLost == CapturerSpec => []NothingLostOnTheWay
<1>1. LineInv => NothingLostOnTheWay
  BY DEF LineInv
<1> QED
  BY <1>1, LineInvariant, PTL
-----------------------------------------------------------------------------
(* What a decoder can follow.                                               *)

Gone == {emitted[i] : i \in 1..Len(emitted)}

\* Encoders' pictures are numbered one encoder after the other, and what is not of
\* the present encoder was under way when its own was replaced.
Belongs(x) == /\ x.from < x.n /\ x.n <= fed
              /\ enc # None /\ x.n > enc.from => x.from = enc.from

InTime(x) == x.n \in late \/ (enc # None /\ x.from = enc.from)

NumbersOK ==
  /\ enc # None => enc.from \in Nat /\ enc.from <= fed
  /\ \A f \in inside : Belongs(f) /\ InTime(f) /\ (f.n = f.from + 1 => f.key)
  /\ \A c \in hands : Belongs(c) /\ InTime(c)
  /\ \A c \in Gone : Belongs(c)

\* An encoder's pictures come out of it in order and one at a time.
OrderOK ==
  /\ \A f, g \in inside : f.n = g.n => f = g
  /\ \A c, d \in hands : c.from = d.from => c.n = d.n
  /\ \A f \in inside : \A c \in hands \cup Gone : c.from = f.from => c.n < f.n
  /\ \A c \in hands : \A d \in Gone : d.from = c.from => d.n <= c.n

\* A picture that was emitted or is lost for good, and one that is still to come.
Seen(from, n) == \E part \in {"key", "delta"} : Chunk(part, from, n) \in lost \cup Gone
Coming(from, n) == \/ \E f \in inside : f.from = from /\ f.n = n
                   \/ \E c \in hands : c.part # "sets" /\ c.from = from /\ c.n = n

ChainOK ==
  /\ \A f \in inside : f.n > f.from + 1 => Seen(f.from, f.n - 1) \/ Coming(f.from, f.n - 1)
  /\ enc # None /\ fed > enc.from => Seen(enc.from, fed) \/ Coming(enc.from, fed)
  /\ \A c \in hands :
       /\ c.part = "delta" => Seen(c.from, c.n - 1)
       /\ c.part = "key" => Chunk("sets", c.from, c.n) \in hands \cup lost \cup Gone

PlacesOK == \A i \in 1..Len(emitted) : InPlace(emitted, i)

DecodingInv == NumbersOK /\ OrderOK /\ ChainOK /\ PlacesOK

LEMMA Typed ==
  ASSUME SessionInv
  PROVE  /\ OutputOK /\ Len(emitted) \in Nat /\ Gone \subseteq Emitted
         /\ \A f \in inside : f.from \in Nat /\ f.n \in Nat
         /\ \A c \in hands \cup Gone : c.from \in Nat /\ c.n \in Nat
         /\ enc # None => enc.from \in Nat
<1>1. OutputOK /\ Len(emitted) \in Nat
  BY DEF SessionInv, TypeOK, OutputOK
<1>2. Gone \subseteq Emitted
  BY <1>1 DEF Gone, OutputOK
<1>3. enc # None => enc.from \in Nat
  BY DEF SessionInv, TypeOK, Encoder
<1> QED
  BY <1>1, <1>2, <1>3 DEF OutputOK, Frame, Emitted

\* The encoder stays, and pictures and chunks where they are.
LEMMA Still ==
  ASSUME DecodingInv, UNCHANGED <<pictures, emitted>>, enc' = None <=> enc = None,
         enc # None => enc'.from = enc.from
  PROVE  DecodingInv'
<1>1. Gone' = Gone /\ UNCHANGED <<fed, inside, hands, lost, late, emitted>>
  BY DEF Gone, pictures
<1>2. NumbersOK' /\ OrderOK'
  BY <1>1 DEF DecodingInv, NumbersOK, OrderOK, Belongs, InTime
<1>3. ChainOK'
  BY <1>1 DEF DecodingInv, ChainOK, Seen, Coming
<1>4. PlacesOK'
  BY <1>1 DEF DecodingInv, PlacesOK, InPlace, Settles
<1> QED
  BY <1>2, <1>3, <1>4 DEF DecodingInv

\* A new encoder, whose pictures are yet to come.
LEMMA NewEncoder ==
  ASSUME SessionInv, DecodingInv, UNCHANGED <<pictures, emitted>>,
         enc = None, enc' # None, enc'.from = fed
  PROVE  DecodingInv'
<1>1. Gone' = Gone /\ UNCHANGED <<fed, inside, hands, lost, late, emitted>> /\ fed \in Nat
  BY Typed DEF Gone, pictures, OutputOK
<1>2. NumbersOK'
  BY <1>1, Typed DEF DecodingInv, NumbersOK, Belongs, InTime
<1>3. OrderOK'
  BY <1>1 DEF DecodingInv, OrderOK
<1>4. ChainOK'
  BY <1>1 DEF DecodingInv, ChainOK, Seen, Coming
<1>5. PlacesOK'
  BY <1>1 DEF DecodingInv, PlacesOK, InPlace, Settles
<1> QED
  BY <1>2, <1>3, <1>4, <1>5 DEF DecodingInv

LEMMA Replaced == SessionInv /\ DecodingInv /\ TearDown => DecodingInv'
<1> SUFFICES ASSUME SessionInv, DecodingInv, TearDown PROVE DecodingInv'
  OBVIOUS
<1>1. /\ enc' = None /\ late' = late \cup {f.n : f \in inside} \cup {c.n : c \in hands}
      /\ UNCHANGED <<fed, inside, hands, lost, emitted>> /\ Gone' = Gone
  BY DEF TearDown, channel, Gone
<1>2. NumbersOK'
  BY <1>1 DEF DecodingInv, NumbersOK, Belongs, InTime
<1>3. OrderOK'
  BY <1>1 DEF DecodingInv, OrderOK
<1>4. ChainOK'
  BY <1>1 DEF DecodingInv, ChainOK, Seen, Coming
<1>5. PlacesOK'
  BY <1>1 DEF DecodingInv, PlacesOK, InPlace, Settles
<1> QED
  BY <1>2, <1>3, <1>4, <1>5 DEF DecodingInv

LEMMA Entered == SessionInv /\ DecodingInv /\ didOutputSampleBuffer => DecodingInv'
<1> SUFFICES ASSUME SessionInv, DecodingInv, didOutputSampleBuffer PROVE DecodingInv'
  OBVIOUS
<1>1. PICK key \in BOOLEAN :
        /\ fed = enc.from => key
        /\ inside' = inside \cup {[from |-> enc.from, n |-> fed + 1, key |-> key]}
  BY DEF didOutputSampleBuffer
<1>0. PICK g : g = [from |-> enc.from, n |-> fed + 1, key |-> key]
  OBVIOUS
<1>2. /\ enc # None /\ fed' = fed + 1 /\ inside' = inside \cup {g}
      /\ g.from = enc.from /\ g.n = fed + 1 /\ (fed = enc.from => g.key)
  BY <1>0, <1>1 DEF didOutputSampleBuffer
<1>3. UNCHANGED <<enc, hands, lost, late, emitted>> /\ Gone' = Gone
  BY DEF didOutputSampleBuffer, settings, channel, Gone
<1>4. enc.from \in Nat /\ fed \in Nat /\ enc.from <= fed
  BY <1>2, Typed DEF OutputOK, DecodingInv, NumbersOK
<1>5. \A f \in inside : f.from \in Nat /\ f.n \in Nat /\ f.n <= fed
  BY Typed DEF DecodingInv, NumbersOK, Belongs
<1>6. \A c \in hands \cup Gone : c.from \in Nat /\ c.n \in Nat /\ c.n <= fed
  BY Typed DEF DecodingInv, NumbersOK, Belongs
<1>7. NumbersOK'
  <2>1. Belongs(g)' /\ InTime(g)' /\ (g.n = g.from + 1 => g.key)
    BY <1>2, <1>3, <1>4 DEF Belongs, InTime
  <2>2. \A f \in inside : Belongs(f)' /\ InTime(f)' /\ (f.n = f.from + 1 => f.key)
    BY <1>2, <1>3, <1>4, <1>5 DEF DecodingInv, NumbersOK, Belongs, InTime
  <2>3. /\ \A c \in hands : Belongs(c)' /\ InTime(c)'
        /\ \A c \in Gone : Belongs(c)'
    BY <1>2, <1>3, <1>4, <1>6 DEF DecodingInv, NumbersOK, Belongs, InTime
  <2> QED
    BY <1>2, <1>3, <1>4, <2>1, <2>2, <2>3 DEF NumbersOK
<1>8. OrderOK'
  BY <1>2, <1>3, <1>4, <1>5, <1>6 DEF DecodingInv, OrderOK
<1>9. ChainOK'
  <2>1. \A from, n : Seen(from, n) \/ Coming(from, n) => Seen(from, n)' \/ Coming(from, n)'
    BY <1>2, <1>3 DEF Seen, Coming
  <2>2. \A f \in inside : f.n > f.from + 1 =>
          Seen(f.from, f.n - 1)' \/ Coming(f.from, f.n - 1)'
    BY <2>1 DEF DecodingInv, ChainOK
  <2>3. g.n > g.from + 1 => Seen(g.from, g.n - 1)' \/ Coming(g.from, g.n - 1)'
    <3>1. g.n - 1 = fed /\ (g.n > g.from + 1 => fed > enc.from)
      BY <1>2, <1>4
    <3> QED
      BY <1>2, <2>1, <3>1 DEF DecodingInv, ChainOK
  <2>4. Coming(enc.from, fed)'
    BY <1>2, <1>3 DEF Coming
  <2>5. \A c \in hands :
          /\ c.part = "delta" => Seen(c.from, c.n - 1)'
          /\ c.part = "key" => Chunk("sets", c.from, c.n) \in hands \cup lost \cup Gone
    BY <1>3 DEF DecodingInv, ChainOK, Seen
  <2>6. (enc # None /\ fed > enc.from => Seen(enc.from, fed) \/ Coming(enc.from, fed))'
    BY <1>3, <2>4
  <2> QED
    BY <1>2, <1>3, <2>2, <2>3, <2>5, <2>6 DEF ChainOK
<1>10. PlacesOK'
  BY <1>3 DEF DecodingInv, PlacesOK, InPlace, Settles
<1> QED
  BY <1>7, <1>8, <1>9, <1>10 DEF DecodingInv

LEMMA Handled == SessionInv /\ DecodingInv /\ handleEncoded => DecodingInv'
<1> SUFFICES ASSUME SessionInv, DecodingInv, handleEncoded PROVE DecodingInv'
  OBVIOUS
<1>1. PICK f \in inside : /\ Comes(f) /\ inside' = inside \ {f}
                          /\ \E out \in SUBSET Chunks(f) :
                               /\ hands' = hands \cup out
                               /\ lost' = lost \cup (Chunks(f) \ out)
  BY DEF handleEncoded
<1>2. PICK out \in SUBSET Chunks(f) : /\ hands' = hands \cup out
                                      /\ lost' = lost \cup (Chunks(f) \ out)
  BY <1>1
<1>3. UNCHANGED <<enc, fed, late, emitted>> /\ Gone' = Gone
  BY DEF handleEncoded, settings, channel, Gone
<1>4. /\ \A c \in Chunks(f) : c.from = f.from /\ c.n = f.n
      /\ \A c \in Chunks(f) : c.part = "delta" => ~f.key
      /\ \A c \in Chunks(f) : c.part = "key" => Chunk("sets", f.from, f.n) \in Chunks(f)
      /\ \E c \in Chunks(f) : \E part \in {"key", "delta"} : c = Chunk(part, f.from, f.n)
                                                           /\ c.part # "sets"
  <2>1. CASE f.key
    <3>1. Chunks(f) = {Chunk("sets", f.from, f.n), Chunk("key", f.from, f.n)}
      BY <2>1 DEF Chunks
    <3>2. /\ \A part : Chunk(part, f.from, f.n).part = part
          /\ \A part : Chunk(part, f.from, f.n).from = f.from
          /\ \A part : Chunk(part, f.from, f.n).n = f.n
      BY DEF Chunk
    <3> QED
      BY <3>1, <3>2
  <2>2. CASE ~f.key
    BY <2>2 DEF Chunks, Chunk
  <2> QED
    BY <2>1, <2>2
<1>5. /\ \A g \in inside : g.from = f.from => f.n <= g.n
      /\ \A c \in hands : c.from # f.from
  BY <1>1 DEF Comes
<1>6. /\ f.from \in Nat /\ f.n \in Nat /\ \A g \in inside : g.from \in Nat /\ g.n \in Nat
      /\ \A c \in hands \cup Gone : c.from \in Nat /\ c.n \in Nat
  BY Typed
<1>7. NumbersOK'
  <2>1. Belongs(f)' /\ InTime(f)'
    BY <1>3 DEF DecodingInv, NumbersOK, Belongs, InTime
  <2>2. \A c \in out : Belongs(c)' /\ InTime(c)'
    BY <1>2, <1>4, <2>1 DEF Belongs, InTime
  <2> QED
    BY <1>1, <1>2, <1>3, <2>2 DEF DecodingInv, NumbersOK, Belongs, InTime
<1>8. OrderOK'
  <2>1. \A c, d \in hands' : c.from = d.from => c.n = d.n
    BY <1>2, <1>4, <1>5 DEF DecodingInv, OrderOK
  <2>2. \A g \in inside' : \A c \in out : c.from = g.from => c.n < g.n
    BY <1>1, <1>2, <1>4, <1>5, <1>6 DEF DecodingInv, OrderOK
  <2>3. \A c \in out : \A d \in Gone : d.from = c.from => d.n <= c.n
    BY <1>2, <1>4, <1>6 DEF DecodingInv, OrderOK
  <2> QED
    BY <1>1, <1>2, <1>3, <2>1, <2>2, <2>3 DEF DecodingInv, OrderOK
<1>9. ChainOK'
  <2>1. \A from, n : Seen(from, n) => Seen(from, n)'
    BY <1>2, <1>3 DEF Seen
  <2>2. Seen(f.from, f.n)' \/ Coming(f.from, f.n)'
    <3>1. PICK c \in Chunks(f) : \E part \in {"key", "delta"} :
            c = Chunk(part, f.from, f.n) /\ c.part # "sets"
      BY <1>4
    <3>2. CASE c \in out
      BY <1>2, <1>4, <3>1, <3>2 DEF Coming
    <3>3. CASE c \notin out
      BY <1>2, <3>1, <3>3 DEF Seen
    <3> QED
      BY <3>2, <3>3
  <2>3. \A from, n : Seen(from, n) \/ Coming(from, n) => Seen(from, n)' \/ Coming(from, n)'
    <3> SUFFICES ASSUME NEW from, NEW n, Coming(from, n)
                 PROVE  Seen(from, n)' \/ Coming(from, n)'
      BY <2>1
    <3>1. CASE f.from = from /\ f.n = n
      BY <2>2, <3>1
    <3>2. CASE ~(f.from = from /\ f.n = n)
      BY <1>1, <1>2, <3>2 DEF Coming
    <3> QED
      BY <3>1, <3>2
  <2>4. \A c \in out : /\ c.part = "delta" => Seen(c.from, c.n - 1)'
                       /\ c.part = "key" =>
                            Chunk("sets", c.from, c.n) \in hands' \cup lost' \cup Gone'
    <3> TAKE c \in out
    <3>1. c \in Chunks(f) /\ c.from = f.from /\ c.n = f.n
      BY <1>2, <1>4
    <3>2. ASSUME c.part = "delta" PROVE Seen(f.from, f.n - 1)
      <4>1. f.n > f.from + 1
        BY <1>4, <1>6, <3>1, <3>2 DEF DecodingInv, NumbersOK, Belongs
      <4>2. Seen(f.from, f.n - 1) \/ Coming(f.from, f.n - 1)
        BY <4>1 DEF DecodingInv, ChainOK
      <4>3. ~Coming(f.from, f.n - 1)
        BY <1>5, <1>6 DEF Coming
      <4> QED
        BY <4>2, <4>3
    <3>3. ASSUME c.part = "key"
          PROVE  Chunk("sets", f.from, f.n) \in hands' \cup lost'
      BY <1>2, <1>4, <3>1, <3>3
    <3> QED
      BY <2>1, <3>1, <3>2, <3>3
  <2>5. \A c \in hands : /\ c.part = "delta" => Seen(c.from, c.n - 1)'
                         /\ c.part = "key" =>
                              Chunk("sets", c.from, c.n) \in hands' \cup lost' \cup Gone'
    BY <1>2, <1>3, <2>1 DEF DecodingInv, ChainOK
  <2>6. \A g \in inside' : g.n > g.from + 1 =>
          Seen(g.from, g.n - 1)' \/ Coming(g.from, g.n - 1)'
    BY <1>1, <2>3 DEF DecodingInv, ChainOK
  <2>7. enc # None /\ fed > enc.from => Seen(enc.from, fed)' \/ Coming(enc.from, fed)'
    BY <1>3, <2>3 DEF DecodingInv, ChainOK
  <2> QED
    BY <1>2, <1>3, <2>4, <2>5, <2>6, <2>7 DEF ChainOK
<1>10. PlacesOK'
  BY <1>2, <1>3 DEF DecodingInv, PlacesOK, InPlace, Settles
<1> QED
  BY <1>7, <1>8, <1>9, <1>10 DEF DecodingInv

LEMMA Handed == SessionInv /\ DecodingInv /\ emitAnnexBChunk => DecodingInv'
<1> SUFFICES ASSUME SessionInv, DecodingInv, emitAnnexBChunk PROVE DecodingInv'
  OBVIOUS
<1>1. PICK c \in hands : /\ \A d \in hands \ {c} : d.from = c.from => c.part = "sets"
                         /\ hands' = hands \ {c} /\ emitted' = Append(emitted, c)
  BY DEF emitAnnexBChunk, on_nal
<1>2. UNCHANGED <<enc, fed, inside, lost, late>>
  BY DEF emitAnnexBChunk, settings
<1>3. /\ c \in Emitted /\ emitted \in Seq(Emitted) /\ Len(emitted) \in Nat
      /\ c.from \in Nat /\ c.n \in Nat
      /\ \A d \in hands \cup Gone : d.from \in Nat /\ d.n \in Nat
      /\ enc # None => enc.from \in Nat
  BY Typed DEF OutputOK
<1>4. /\ Len(emitted') = Len(emitted) + 1 /\ emitted'[Len(emitted) + 1] = c
      /\ \A i \in 1..Len(emitted) : emitted'[i] = emitted[i]
  BY <1>1, <1>3
<1>5. Gone' = Gone \cup {c}
  <2>1. \A i \in 1..(Len(emitted) + 1) : i \in 1..Len(emitted) \/ i = Len(emitted) + 1
    BY <1>3
  <2>2. Gone' \subseteq Gone \cup {c}
    BY <1>4, <2>1 DEF Gone
  <2>3. Gone \subseteq Gone' /\ c \in Gone'
    BY <1>3, <1>4 DEF Gone
  <2> QED
    BY <2>2, <2>3
<1>6. NumbersOK'
  BY <1>1, <1>2, <1>5 DEF DecodingInv, NumbersOK, Belongs, InTime
<1>7. OrderOK'
  <2>1. \A d \in hands : d.from = c.from => d.n = c.n
    BY DEF DecodingInv, OrderOK
  <2>2. \A d \in hands' : d.from = c.from => c.n <= d.n
    BY <1>1, <1>3, <2>1
  <2> QED
    BY <1>1, <1>2, <1>5, <2>2 DEF DecodingInv, OrderOK
<1>8. ChainOK'
  <2>1. \A from, n : Seen(from, n) => Seen(from, n)'
    BY <1>2, <1>5 DEF Seen
  <2>2. c.part # "sets" => Seen(c.from, c.n)'
    <3>1. c = Chunk(c.part, c.from, c.n) /\ c.part \in {"sets", "key", "delta"}
      BY <1>3 DEF Emitted, Chunk
    <3> QED
      BY <1>5, <3>1 DEF Seen
  <2>3. \A from, n : Seen(from, n) \/ Coming(from, n) => Seen(from, n)' \/ Coming(from, n)'
    <3> SUFFICES ASSUME NEW from, NEW n, Coming(from, n)
                 PROVE  Seen(from, n)' \/ Coming(from, n)'
      BY <2>1
    <3>1. CASE c.part # "sets" /\ c.from = from /\ c.n = n
      BY <2>2, <3>1
    <3>2. CASE ~(c.part # "sets" /\ c.from = from /\ c.n = n)
      BY <1>1, <1>2, <3>2 DEF Coming
    <3> QED
      BY <3>1, <3>2
  <2>4. \A d \in hands' : /\ d.part = "delta" => Seen(d.from, d.n - 1)'
                          /\ d.part = "key" =>
                               Chunk("sets", d.from, d.n) \in hands' \cup lost' \cup Gone'
    BY <1>1, <1>2, <1>5, <2>1 DEF DecodingInv, ChainOK
  <2>5. \A f \in inside : f.n > f.from + 1 =>
          Seen(f.from, f.n - 1)' \/ Coming(f.from, f.n - 1)'
    BY <2>3 DEF DecodingInv, ChainOK
  <2>6. (enc # None /\ fed > enc.from => Seen(enc.from, fed) \/ Coming(enc.from, fed))'
    BY <1>2, <2>3 DEF DecodingInv, ChainOK
  <2> QED
    BY <1>2, <2>4, <2>5, <2>6 DEF ChainOK
<1>9. PlacesOK'
  <2>0. PICK m : m = Len(emitted) + 1
    OBVIOUS
  <2>1. \A i \in 1..Len(emitted) : InPlace(emitted, i)'
    <3> TAKE i \in 1..Len(emitted)
    <3>1. InPlace(emitted, i)
      BY DEF DecodingInv, PlacesOK
    <3>2. emitted'[i] = emitted[i] /\ \A j \in 1..(i - 1) : emitted'[j] = emitted[j]
      BY <1>3, <1>4
    <3> QED
      BY <1>2, <3>1, <3>2 DEF InPlace, Settles
  <2>2. /\ emitted'[m] = c /\ \A i \in 1..(m - 1) : emitted'[i] \in Gone
        /\ \A d \in Gone : \E i \in 1..(m - 1) : emitted'[i] = d
    <3>1. m - 1 = Len(emitted)
      BY <1>3, <2>0
    <3> QED
      BY <1>4, <2>0, <3>1 DEF Gone
  <2>3. ASSUME c.part = "key"
        PROVE  Chunk("sets", c.from, c.n) \in lost \cup Gone
    <3>1. Chunk("sets", c.from, c.n) \in hands \cup lost \cup Gone
      BY <2>3 DEF DecodingInv, ChainOK
    <3>2. Chunk("sets", c.from, c.n).part = "sets" /\ Chunk("sets", c.from, c.n).from = c.from
      BY DEF Chunk
    <3>3. Chunk("sets", c.from, c.n) \notin hands
      BY <1>1, <2>3, <3>2
    <3> QED
      BY <3>1, <3>3
  <2>4. ASSUME c.part = "delta"
        PROVE  \E part \in {"key", "delta"} : Chunk(part, c.from, c.n - 1) \in lost \cup Gone
    BY <2>4 DEF DecodingInv, ChainOK, Seen
  <2>5. \A d \in Gone : d.n > c.n => c.n \in late
    <3> SUFFICES ASSUME NEW d \in Gone, d.n > c.n, c.n \notin late PROVE FALSE
      OBVIOUS
    <3>1. enc # None /\ c.from = enc.from /\ c.from < c.n
      BY DEF DecodingInv, NumbersOK, Belongs, InTime
    <3>2. d.from = enc.from
      BY <1>3, <3>1 DEF DecodingInv, NumbersOK, Belongs
    <3>3. d.n <= c.n
      BY <3>1, <3>2 DEF DecodingInv, OrderOK
    <3> QED
      BY <1>3, <3>3
  <2>6. InPlace(emitted, m)'
    <3>1. c.part = "key" => Settles(emitted, m, "sets", c.from, c.n)'
      BY <1>2, <2>2, <2>3 DEF Settles
    <3>2. c.part = "delta" =>
            \E part \in {"key", "delta"} : Settles(emitted, m, part, c.from, c.n - 1)'
      BY <1>2, <2>2, <2>4 DEF Settles
    <3>3. \A j \in 1..(m - 1) : emitted'[j].n > c.n => c.n \in late'
      BY <1>2, <2>2, <2>5
    <3> QED
      BY <2>2, <3>1, <3>2, <3>3 DEF InPlace
  <2>7. \A i \in 1..Len(emitted') : i \in 1..Len(emitted) \/ i = m
    BY <1>3, <1>4, <2>0
  <2> QED
    BY <2>1, <2>6, <2>7 DEF PlacesOK
<1> QED
  BY <1>6, <1>7, <1>8, <1>9 DEF DecodingInv

LEMMA DecodingSteps ==
  ASSUME SessionInv, DecodingInv, [CapturerNext]_vars
  PROVE  DecodingInv'
<1>1. CASE SessionStep
  <2>1. CASE Encode
    BY <2>1, Entered, Handled, Handed DEF Encode
  <2>2. CASE TearDown
    BY <2>2, Replaced
  <2>3. CASE Rebuild
    <3>1. UNCHANGED <<pictures, emitted>> /\ enc = None
      BY <2>3 DEF Rebuild, output, channel, SessionInv, EncoderOK
    <3>2. CASE UNCHANGED enc
      BY <3>1, <3>2, Still
    <3>3. CASE makeEncoder
      <4>1. enc' # None /\ enc'.from = fed
        <5>1. rec \in Session /\ rec' = rec /\ fed \in Nat
          BY <2>3 DEF Rebuild, SessionInv, TypeOK, EncoderOK
        <5> QED
          BY <3>3, <5>1, ArgumentsAssumption DEF makeEncoder, Encoder, Session, Own
      <4> QED
        BY <3>1, <4>1, NewEncoder
    <3> QED
      BY <2>3, <3>2, <3>3 DEF Rebuild
  <2>4. CASE RateTaken \/ (\E k \in Bitrates : set_bitrate(FitBitrate(k)))
    <3>1. UNCHANGED <<pictures, emitted>>
      BY <2>4 DEF RateTaken, set_bitrate, output, channel
    <3>2. (enc' = None <=> enc = None) /\ (enc # None => enc'.from = enc.from)
      <4>1. enc # None => enc \in Encoder
        BY DEF SessionInv, TypeOK
      <4>2. CASE RateTaken
        <5>1. \/ enc' = enc
              \/ enc # None /\ \E fps \in {call.arg, Own} : enc' = [enc EXCEPT !.fps = fps]
          BY <4>2 DEF RateTaken
        <5>2. {call.arg, Own} \subseteq Int
          BY <4>2 DEF RateTaken, SessionInv, CallOK, Own
        <5> QED
          BY <4>1, <5>1, <5>2, ArgumentsAssumption DEF Encoder
      <4>3. ASSUME NEW k \in Bitrates, set_bitrate(FitBitrate(k))
            PROVE  (enc' = None <=> enc = None) /\ (enc # None => enc'.from = enc.from)
        <5>1. FitBitrate(k) \in Int
          BY Fits, ArgumentsAssumption
        <5>2. enc # None /\ (enc' = enc \/ enc' = [enc EXCEPT !.kbps = FitBitrate(k)])
          BY <4>3 DEF set_bitrate
        <5> QED
          BY <4>1, <5>1, <5>2, ArgumentsAssumption DEF Encoder
      <4> QED
        BY <2>4, <4>2, <4>3
    <3> QED
      BY <3>1, <3>2, Still
  <2>5. CASE \/ Content \/ TimeOut \/ DisplayTaken \/ Answer
             \/ \E f \in Rates : setFps(FitRate(f))
             \/ \E s \in Sizes : setResolution(FitSize(s))
             \/ \E d \in Displays : selectDisplay(d)
    <3>1. UNCHANGED <<pictures, emitted, enc>>
      BY <2>5 DEF Content, TimeOut, DisplayTaken, Answer, setFps, setResolution, selectDisplay,
                  settings, output, channel
    <3> QED
      BY <3>1, Still
  <2> QED
    BY <1>1, <2>1, <2>2, <2>3, <2>4, <2>5 DEF SessionStep, Step, Setter, Return
<1>2. CASE StartNative
  <2>1. CASE UNCHANGED session
    BY <2>1, Still DEF session, settings, output, channel
  <2>2. CASE start
    <3>1. UNCHANGED <<pictures, emitted>> /\ enc = None
      BY <2>2 DEF start, output, channel, SessionInv, EncoderOK
    <3>2. enc' # None /\ enc'.from = fed
      <4>1. rec' \in Session /\ fed \in Nat
        BY <2>2, ArgumentsAssumption DEF start, SessionInv, TypeOK
      <4> QED
        BY <2>2, <4>1, ArgumentsAssumption DEF start, makeEncoder, Encoder, Session, Own
    <3> QED
      BY <3>1, <3>2, NewEncoder
  <2> QED
    BY <1>2, <2>1, <2>2 DEF StartNative
<1>3. CASE Connect \/ BridgeTakes \/ BridgePuts \/ MainTakes \/ MainSends \/ SendFails
           \/ ServerGoes \/ UNCHANGED vars
  <2>1. UNCHANGED <<pictures, emitted, enc>>
    BY <1>3 DEF Connect, BridgeTakes, BridgePuts, MainTakes, MainSends, SendFails, ServerGoes,
                vars, session, settings, output, channel
  <2> QED
    BY <2>1, Still
<1> QED
  BY <1>1, <1>2, <1>3 DEF CapturerNext

\* Whatever the settings become, whatever an encoder loses and however late it is, a
\* decoder can follow what was sent but for what was lost: parameter sets stand before
\* their key frame, a delta behind the picture before it, and only pictures whose
\* encoder was replaced come after younger ones.
THEOREM SentInOrder == CapturerSpec => []SentInDecodingOrder
<1>1. CapturerInit => DecodingInv
  <2> SUFFICES ASSUME CapturerInit PROVE DecodingInv
    OBVIOUS
  <2>1. /\ enc = None /\ fed = 0 /\ inside = {} /\ hands = {} /\ emitted = << >> /\ Gone = {}
    BY DEF CapturerInit, Init, Gone
  <2> QED
    BY <2>1 DEF DecodingInv, NumbersOK, OrderOK, ChainOK, PlacesOK
<1>2. CapturerSpec => []DecodingInv
  BY <1>1, DecodingSteps, SessionInvariant, PTL DEF CapturerSpec
<1>3. SessionInv /\ LineInv /\ DecodingInv => SentInDecodingOrder
  <2> SUFFICES ASSUME SessionInv, LineInv, DecodingInv, NEW i \in 1..Len(sent)
               PROVE  InPlace(sent, i)
    BY DEF SentInDecodingOrder
  <2>1. /\ sent \in Seq(Emitted) /\ Behind3 \in Seq(Emitted) /\ sent \o Behind3 = emitted
    BY Joints DEF SessionInv, TypeOK, LineInv, LineOK, NothingLostOnTheWay
  <2>2. /\ Len(sent) \in Nat /\ Len(sent) <= Len(emitted) /\ Len(emitted) \in Nat
        /\ \A j \in 1..Len(sent) : sent[j] = emitted[j]
    BY <2>1
  <2>3. i \in 1..Len(emitted) /\ \A j \in 1..(i - 1) : sent[j] = emitted[j]
    BY <2>2
  <2>4. InPlace(emitted, i)
    BY <2>3 DEF DecodingInv, PlacesOK
  <2> QED
    BY <2>2, <2>3, <2>4 DEF InPlace, Settles
<1> QED
  BY <1>2, <1>3, LineInvariant, PTL
=============================================================================
