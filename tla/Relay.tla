------------------------------- MODULE Relay -------------------------------
(***************************************************************************)
(* xyzen-relay as a whole: pairing (RelayPair) composed with the pumps     *)
(* that copy frames between the two sides of a pair, and with the clients  *)
(* that send, receive, half-close and vanish.                              *)
(*                                                                         *)
(* A frame is a chunk of TCP bytes or a WebSocket message; frames are      *)
(* numbered by their sender.  Each direction of a pair is a copy loop that *)
(* holds at most one frame between its read and its write.                 *)
(***************************************************************************)
EXTENDS RelayPair, Naturals, Sequences

CONSTANTS MaxSend,   \* bound: frames each client sends
          Window     \* frames a client's socket buffers before it must read

VARIABLES client,    \* what each client is doing
          up,        \* frames sent by a client and not read by the relay
          chunk,     \* the frame read from a connection and not written yet
          down,      \* frames written to a client and not received by it
          eof,       \* the copy loop out of this connection has finished
          log,       \* history: frames each client sent
          got        \* history: frames each client received

data == <<up, chunk, down, eof, log, got>>
relay == <<vars, client, data>>

Kind == {"binary", "text"}
Frame == [n : Nat \ {0}, kind : Kind]

RelayInit ==
  /\ Init
  /\ client = [c \in Conn |-> "new"]
  /\ up = [c \in Conn |-> << >>]
  /\ chunk = [c \in Conn |-> << >>]
  /\ down = [c \in Conn |-> << >>]
  /\ eof = [c \in Conn |-> FALSE]
  /\ log = [c \in Conn |-> << >>]
  /\ got = [c \in Conn |-> << >>]
-----------------------------------------------------------------------------
(* Clients.                                                                *)

ClientArrive(c) ==
  /\ Arrive(c)
  /\ client' = [client EXCEPT ![c] = IF c \in Tcp THEN "up" ELSE "shaking"]
  /\ UNCHANGED data

ClientHandshake ==
  /\ HandshakeDone /\ client[hand["ws"]] = "shaking"
  /\ client' = [client EXCEPT ![hand["ws"]] = "up"]
  /\ UNCHANGED data

\* A client may send before it is paired; the frames wait in its socket.  A
\* WebSocket client also sends messages that are not binary.
ClientSend(c, kind) ==
  /\ client[c] = "up" /\ Len(log[c]) < MaxSend[c]
  /\ kind = "binary" \/ c \in Ws
  /\ LET f == [n |-> Len(log[c]) + 1, kind |-> kind]
     IN /\ up' = [up EXCEPT ![c] = Append(@, f)]
        /\ log' = [log EXCEPT ![c] = Append(@, f)]
  /\ UNCHANGED <<vars, client, chunk, down, eof, got>>

ClientReceive(c) ==
  /\ client[c] \in {"up", "half"} /\ down[c] # << >>
  /\ got' = [got EXCEPT ![c] = Append(@, Head(down[c]))]
  /\ down' = [down EXCEPT ![c] = Tail(@)]
  /\ UNCHANGED <<vars, client, up, chunk, eof, log>>

\* A TCP client shuts down its sending half; any client closes altogether.
ClientLeave(c) ==
  /\ \/ c \in Tcp /\ client[c] = "up" /\ client' = [client EXCEPT ![c] = "half"]
     \/ client[c] \notin {"new", "gone"} /\ client' = [client EXCEPT ![c] = "gone"]
  /\ UNCHANGED <<vars, data>>
-----------------------------------------------------------------------------
(* pump_tcp_tcp, pump_ws_ws, pump_tcp_ws.                                  *)

Pumped(c) == partner[c] # None /\ conn[c] = "accepted"

\* Between a WebSocket and a TCP side only binary messages are copied.
CopiesText(c) == c \in Tcp \/ partner[c] \in Ws

\* Fault: a text message is copied to a TCP peer.
CopiesAll(c, f) == TRUE

Copies(c, f) == CopiesText(c) \/ f.kind = "binary"

Read(c) ==
  /\ Pumped(c) /\ ~eof[c] /\ chunk[c] = << >> /\ up[c] # << >>
  /\ up' = [up EXCEPT ![c] = Tail(@)]
  /\ chunk' = [chunk EXCEPT ![c] =
                 IF Copies(c, Head(up[c])) THEN <<Head(up[c])>> ELSE << >>]
  /\ UNCHANGED <<vars, client, down, eof, log, got>>

\* Fault: the frame is written and not taken out of the buffer.
WriteAgain(c) ==
  /\ Pumped(c) /\ chunk[c] # << >>
  /\ Len(down[partner[c]]) < Window
  /\ down' = [down EXCEPT ![partner[c]] = @ \o chunk[c]]
  /\ UNCHANGED <<vars, client, up, chunk, eof, log, got>>

\* send / write_all: waits for room; the kernel may still take a frame for a
\* client that is gone, and it is lost.
Write(c) ==
  /\ Pumped(c) /\ chunk[c] # << >>
  /\ \/ /\ client[partner[c]] # "gone" /\ Len(down[partner[c]]) < Window
        /\ down' = [down EXCEPT ![partner[c]] = @ \o chunk[c]]
     \/ client[partner[c]] = "gone" /\ UNCHANGED down
  /\ chunk' = [chunk EXCEPT ![c] = << >>]
  /\ UNCHANGED <<vars, client, up, eof, log, got>>

\* Fault: a read of zero bytes is not taken for the end of the stream.
ReadEofLoops(c) ==
  /\ Pumped(c) /\ ~eof[c] /\ chunk[c] = << >> /\ up[c] = << >>
  /\ client[c] \in {"half", "gone"}
  /\ UNCHANGED relay

\* End of stream or a Close message: this direction is done, and its end is
\* not passed on to the other side.
ReadEof(c) ==
  /\ Pumped(c) /\ ~eof[c] /\ chunk[c] = << >> /\ up[c] = << >>
  /\ client[c] \in {"half", "gone"}
  /\ eof' = [eof EXCEPT ![c] = TRUE]
  /\ UNCHANGED <<vars, client, up, chunk, down, log, got>>

\* Fault: select instead of try_join.
FinishEither(c) == /\ Pumped(c) /\ (eof[c] \/ eof[partner[c]])
                   /\ EndPair(c)
                   /\ UNCHANGED <<client, data>>

\* try_join: both directions are done.
Finish(c) == /\ Pumped(c) /\ eof[c] /\ eof[partner[c]]
             /\ EndPair(c)
             /\ UNCHANGED <<client, data>>

\* A read from or a write to a client that is gone fails; try_join cancels the
\* other direction, and what it holds is lost.
PumpError(c) ==
  /\ Pumped(c) /\ client[c] = "gone"
  /\ ~eof[c] \/ chunk[partner[c]] # << >>
  /\ EndPair(c)
  /\ UNCHANGED <<client, data>>

Pump(c) == Read(c) \/ Write(c) \/ ReadEof(c) \/ Finish(c)

PairingStep == /\ \/ HandshakeFail
                  \/ \E k \in Task : Loop(k)
               /\ UNCHANGED <<client, data>>

RelayNext ==
  \/ \E c \in Conn : \/ ClientArrive(c) \/ ClientReceive(c) \/ ClientLeave(c)
                     \/ \E kind \in Kind : ClientSend(c, kind)
                     \/ Pump(c) \/ PumpError(c)
  \/ ClientHandshake \/ PairingStep

\* Accept loops and pumps are polled.  A client that stays reads its socket.
RelayFairness ==
  /\ \A k \in Task : WF_relay(Loop(k) /\ UNCHANGED <<client, data>>)
  /\ \A c \in Conn : WF_relay(Pump(c)) /\ WF_relay(ClientReceive(c))

RelaySpec == RelayInit /\ [][RelayNext]_relay /\ RelayFairness
-----------------------------------------------------------------------------
RelayTypeOK ==
  /\ TypeOK
  /\ client \in [Conn -> {"new", "shaking", "up", "half", "gone"}]
  /\ up \in [Conn -> Seq(Frame)] /\ down \in [Conn -> Seq(Frame)]
  /\ chunk \in [Conn -> Seq(Frame)] /\ \A c \in Conn : Len(chunk[c]) <= 1
  /\ eof \in [Conn -> BOOLEAN]
  /\ log \in [Conn -> Seq(Frame)] /\ got \in [Conn -> Seq(Frame)]

\* A text message is due to a WebSocket peer only, every other frame to any.
Due(c, f) == f.kind = "text" => partner[c] \in Ws

\* Sequence s is what copying makes of the first n frames c sent: only such
\* frames, unchanged, in the order and each at most once, and all that are due.
CopyOf(c, s, n) ==
  /\ \A i \in 1..Len(s) :
       s[i].n \in 1..n /\ s[i] = log[c][s[i].n] /\ Due(c, s[i])
  /\ \A i, j \in 1..Len(s) : i < j => s[i].n < s[j].n
  /\ \A m \in 1..n : Due(c, log[c][m]) => \E i \in 1..Len(s) : s[i] = log[c][m]

\* How many frames of c the relay has read, and where they are now.
Taken(c) == Len(log[c]) - Len(up[c])
Passed(c) == got[partner[c]] \o down[partner[c]] \o chunk[c]

\* "shovel bytes between them": while a pair lasts and the receiving client is
\* there, every frame sent is received, on its way in order, or still unread.
PumpIsLossless ==
  \A c \in Conn : Pumped(c) /\ client[partner[c]] # "gone" =>
    /\ Taken(c) >= 0 /\ up[c] = SubSeq(log[c], Taken(c) + 1, Len(log[c]))
    /\ CopyOf(c, Passed(c), Taken(c))

\* After any failure too, a client has received a copy of the first frames its
\* partner sent, and a client without a partner has received nothing.
ReceivedIsPrefix ==
  \A d \in Conn :
    IF partner[d] = None THEN got[d] = << >>
    ELSE \E n \in 0..Len(log[partner[d]]) : CopyOf(partner[d], got[d], n)

Leaving(c) == client[c] \in {"half", "gone"}
InTransit(c) == /\ partner[c] # None
                /\ up[c] # << >> \/ chunk[c] # << >> \/ down[partner[c]] # << >>

\* Frames of a pair arrive unless one of the two clients vanishes.  A
\* half-close of one side does not stop the other direction.
FramesArrive ==
  \A c, d \in Conn :
    partner[c] = d /\ InTransit(c)
      ~> ~InTransit(c) \/ client[c] = "gone" \/ client[d] = "gone"

\* Once neither client sends any more the pair ends and both sockets close.
FinishedPairsClose ==
  \A c, d \in Conn :
    partner[c] = d /\ Leaving(c) /\ Leaving(d) ~> conn[c] = "closed"
=============================================================================
