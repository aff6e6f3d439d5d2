------------------------------ MODULE Capturer ------------------------------
(***************************************************************************)
(* The capturer binary: it connects, starts the session, and moves NALs    *)
(* from the session's channel over a bridge thread and a bounded channel   *)
(* to the WebSocket.  Setters may be called meanwhile by whatever else is  *)
(* linked into the process; the binary itself calls none.                  *)
(***************************************************************************)
EXTENDS MacSession

CONSTANTS Room,    \* places in the bounded channel: 256
          Slack    \* messages a socket takes though nobody reads them any more

ASSUME RoomAssumption == Room \in Nat \ {0} /\ Slack \in Nat

VARIABLES main,      \* connecting, starting, running, ended
          bridge,    \* the NAL the bridge thread holds, at most one
          queue,     \* the bounded channel
          sending,   \* the NAL the loop of main holds, at most one
          sent,      \* history: what the sink has taken
          server     \* what the socket still takes once the server is gone

process == <<main, bridge, queue, sending, sent, server>>
vars == <<session, process>>

Up == Slack + 1    \* the server is there

CapturerInit ==
  /\ Init
  /\ main = "connecting" /\ server = Up
  /\ bridge = << >> /\ queue = << >> /\ sending = << >> /\ sent = << >>

Connect == /\ main = "connecting"
           /\ main' \in {"starting", "ended"}
           /\ UNCHANGED <<session, bridge, queue, sending, sent, server>>

StartNative == /\ main = "starting"
               /\ \/ start /\ main' = "running"
                  \/ main' = "ended" /\ UNCHANGED session
               /\ UNCHANGED <<bridge, queue, sending, sent, server>>

SessionStep == main = "running" /\ Step /\ UNCHANGED process

\* The bridge thread: recv, then blocking_send.
BridgeTakes ==
  /\ main = "running" /\ bridge = << >> /\ rx # << >>
  /\ bridge' = <<Head(rx)>> /\ rx' = Tail(rx)
  /\ UNCHANGED <<settings, caller, pictures, emitted, main, queue, sending, sent, server>>

\* Fault: a NAL that finds the channel full is dropped.
BridgeTries ==
  /\ main = "running" /\ bridge # << >>
  /\ queue' = IF Len(queue) < Room THEN queue \o bridge ELSE queue
  /\ bridge' = << >>
  /\ UNCHANGED <<session, main, sending, sent, server>>

\* Fault: one place of the channel is never used.
BridgeSpares ==
  /\ main = "running" /\ bridge # << >> /\ Len(queue) + 1 < Room
  /\ queue' = queue \o bridge /\ bridge' = << >>
  /\ UNCHANGED <<session, main, sending, sent, server>>

BridgePuts ==
  /\ main = "running" /\ bridge # << >> /\ Len(queue) < Room
  /\ queue' = queue \o bridge /\ bridge' = << >>
  /\ UNCHANGED <<session, main, sending, sent, server>>

\* main: recv, then send.
MainTakes ==
  /\ main = "running" /\ sending = << >> /\ queue # << >>
  /\ sending' = <<Head(queue)>> /\ queue' = Tail(queue)
  /\ UNCHANGED <<session, main, bridge, sent, server>>

MainSends ==
  /\ main = "running" /\ sending # << >> /\ server > 0
  /\ sent' = sent \o sending /\ sending' = << >>
  /\ server' = IF server = Up THEN Up ELSE server - 1
  /\ UNCHANGED <<session, main, bridge, queue>>

\* Fault: the error is logged and the loop goes on.
SendFailsOn ==
  /\ main = "running" /\ sending # << >> /\ server # Up
  /\ sending' = << >>
  /\ UNCHANGED <<session, main, bridge, queue, sent, server>>

\* The loop breaks and the process ends.
SendFails ==
  /\ main = "running" /\ sending # << >> /\ server # Up
  /\ main' = "ended"
  /\ UNCHANGED <<session, bridge, queue, sending, sent, server>>

\* Nobody reads the socket: what the server says, its close too, goes unheard.
ServerGoes == /\ main # "ended" /\ server = Up /\ server' = Slack
              /\ UNCHANGED <<session, main, bridge, queue, sending, sent>>

CapturerNext == \/ Connect \/ StartNative \/ SessionStep
                \/ BridgeTakes \/ BridgePuts \/ MainTakes \/ MainSends
                \/ SendFails \/ ServerGoes

\* Threads run, and a server that is there reads.
CapturerFairness ==
  /\ WF_vars(BridgeTakes) /\ WF_vars(BridgePuts) /\ WF_vars(MainTakes)
  /\ WF_vars(MainSends \/ SendFails)

CapturerSpec == CapturerInit /\ [][CapturerNext]_vars /\ CapturerFairness
-----------------------------------------------------------------------------
\* Oldest first, wherever they are.
Underway == sending \o (queue \o (bridge \o rx))

\* "Each H264 NAL unit is forwarded": over two channels, two threads and every
\* change of settings the sink is given what the encoder emitted, in its order.
NothingLostOnTheWay == sent \o Underway = emitted

\* What comes before a place of s, or will never come.
Settles(s, i, part, from, n) ==
  \/ Chunk(part, from, n) \in lost
  \/ \E j \in 1..(i - 1) : s[j] = Chunk(part, from, n)

InPlace(s, i) ==
  /\ s[i].part = "key" => Settles(s, i, "sets", s[i].from, s[i].n)
  /\ s[i].part = "delta" =>
       \E part \in {"key", "delta"} : Settles(s, i, part, s[i].from, s[i].n - 1)
  /\ \A j \in 1..(i - 1) : s[j].n > s[i].n => s[i].n \in late

\* A decoder can follow what was sent but for what the encoders' output lost: a key
\* frame comes after the parameter sets of its own encoder, a delta after the picture
\* before it, of its own encoder, and only what was under way when an encoder was
\* replaced may come after a younger picture.
SentInDecodingOrder == \A i \in 1..Len(sent) : InPlace(sent, i)

\* However slow the socket, what was emitted is sent as long as the server lives:
\* unless all that is under way gets out again and again, sends never end.
NalsAreSent ==
  \/ []<>(Underway = << >>)
  \/ []<><<Len(sent') > Len(sent)>>_sent
  \/ <>(server # Up)

\* A server that is gone ends the process as soon as there is more to send than
\* the socket swallows.
DeadServerEnds ==
  (main = "running" /\ server # Up /\ Len(Underway) > server) ~> main = "ended"
=============================================================================
