----------------------------- MODULE StreamRoom -----------------------------
(***************************************************************************)
(* The rooms of xyzen-stream for one peer id: publisher and viewer tasks,  *)
(* the room map, and in each room object the broadcast channel and the     *)
(* warm-up window.  Rooms of different peer ids share nothing.             *)
(*                                                                         *)
(* Tasks run in parallel; a step is what one task does between two awaits  *)
(* or under one lock.  A room object outlives its entry in the map as long *)
(* as a task holds it.                                                     *)
(***************************************************************************)
EXTENDS WarmupWindow, FiniteSets

CONSTANTS Publishers, Viewers,
          Capacity,      \* of the broadcast channel
          Slow,          \* viewers whose socket may stop taking frames
          Uses,          \* codec of each publisher
          MaxFrames      \* bound: frames each publisher sends

ASSUME StreamAssumption ==
  /\ None \notin 0..255 /\ None \notin Codec \cup {"ps", "key", "delta"}
  /\ Capacity \in Nat \ {0}
  /\ Slow \subseteq Viewers
  /\ Uses \in [Publishers -> Codec]
  /\ MaxFrames \in [Publishers -> Nat]

VARIABLES current,   \* the room object in the map, 0 if none
          made,      \* room objects created so far
          warmup,    \* window of each room object
          channel,   \* history: frames sent to the channel of each room object
          pub, proom,    \* publisher tasks and the room object each holds
          frame,     \* the frame a publisher has recorded and not sent yet
          enc,       \* the last frame of each encoder
          view, vroom,   \* viewer tasks and the room object each holds
          next,      \* position of each viewer's receiver in the channel
          replay,    \* what is left of each viewer's snapshot
          client,    \* the socket's other end
          shown,     \* history: frames that reached each viewer's client
          missed,    \* history: frames a lagging receiver skipped
          recorded,  \* history: frames recorded in each room object
          joined     \* history: how many were when a viewer took its snapshot

rooms == <<current, made>>
publishers == <<pub, proom, frame, enc>>
viewers == <<view, vroom, next, replay, client>>
history == <<shown, missed, joined>>
vars == <<rooms, warmup, channel, publishers, viewers, history, recorded>>

Room == 1..Cardinality(Publishers \cup Viewers)

\* Slices and parameter sets of an encoder: gop counts its key frames, idx the
\* slices of a gop.
Byte == [Hevc |-> [ps |-> 64, key |-> 38, delta |-> 2],
         H264 |-> [ps |-> 103, key |-> 101, delta |-> 65]]
NewFrame(p, kind, gop, idx) ==
  [pub |-> p, kind |-> kind, gop |-> gop, idx |-> idx,
   first |-> Byte[Uses[p]][kind], len |-> 1]
Frame == [pub : Publishers, kind : {"ps", "key", "delta"},
          gop : Nat, idx : Nat, first : 0..255, len : {1}]

Init ==
  /\ current = 0 /\ made = 0
  /\ warmup = [r \in Room |-> EmptyWindow]
  /\ channel = [r \in Room |-> << >>]
  /\ recorded = [r \in Room |-> << >>]
  /\ pub = [p \in Publishers |-> "away"] /\ proom = [p \in Publishers |-> 0]
  /\ frame = [p \in Publishers |-> None]
  /\ enc = [p \in Publishers |->
              [kind |-> None, gop |-> 0, idx |-> 0, sent |-> 0]]
  /\ view = [v \in Viewers |-> "away"] /\ vroom = [v \in Viewers |-> 0]
  /\ next = [v \in Viewers |-> 1]
  /\ replay = [v \in Viewers |-> << >>]
  /\ client = [v \in Viewers |-> "up"]
  /\ shown = [v \in Viewers |-> << >>]
  /\ missed = [v \in Viewers |-> {}]
  /\ joined = [v \in Viewers |-> 0]

\* Tasks that hold a receiver: tx.receiver_count().
Receivers(r) == {v \in Viewers : vroom[v] = r /\ view[v] \in {"subscribed", "live"}}

\* room_for: the room in the map, or a new one, becomes r.
room_for(r) ==
  IF current # 0 THEN r = current /\ UNCHANGED rooms
  ELSE r = made + 1 /\ made' = r /\ current' = r
-----------------------------------------------------------------------------
(* handle_publisher.                                                       *)

PublisherConnect(p) ==
  /\ pub[p] = "away"
  /\ \E r \in Room : room_for(r) /\ proom' = [proom EXCEPT ![p] = r]
  /\ pub' = [pub EXCEPT ![p] = "recv"]
  /\ UNCHANGED <<warmup, channel, frame, enc, viewers, history, recorded>>

\* What an encoder emits next: parameter sets, their key frame, deltas.
Encoded(p) ==
  LET e == enc[p]
  IN CASE e.kind = None -> {NewFrame(p, "ps", 0, 0)}
       [] e.kind = "ps" -> {NewFrame(p, "key", e.gop + 1, 0)}
       [] e.kind \in {"key", "delta"} -> {NewFrame(p, "delta", e.gop, e.idx + 1),
                                         NewFrame(p, "ps", e.gop, 0)}

\* A frame arrives and is recorded under the window's lock.
Publish(p) ==
  /\ pub[p] = "recv" /\ enc[p].sent < MaxFrames[p]
  /\ \E f \in Encoded(p) :
       /\ enc' = [enc EXCEPT ![p] = [kind |-> f.kind, gop |-> f.gop, idx |-> f.idx,
                                     sent |-> @.sent + 1]]
       /\ frame' = [frame EXCEPT ![p] = f]
       /\ warmup' = [warmup EXCEPT ![proom[p]] = record(@, f)]
       /\ recorded' = [recorded EXCEPT ![proom[p]] = Append(@, f)]
  /\ pub' = [pub EXCEPT ![p] = "send"]
  /\ UNCHANGED <<rooms, channel, proom, viewers, history>>

\* Fault: the channel makes the publisher wait for a receiver that is full.
FanoutWaits(p) ==
  /\ pub[p] = "send"
  /\ \A v \in Receivers(proom[p]) : Len(channel[proom[p]]) - next[v] + 1 < Capacity
  /\ channel' = [channel EXCEPT ![proom[p]] =
                   IF Receivers(proom[p]) = {} THEN @ ELSE Append(@, frame[p])]
  /\ pub' = [pub EXCEPT ![p] = "recv"]
  /\ UNCHANGED <<rooms, warmup, proom, frame, enc, viewers, history, recorded>>

\* tx.send: without receivers the frame goes nowhere; it never waits.
Fanout(p) ==
  /\ pub[p] = "send"
  /\ channel' = [channel EXCEPT ![proom[p]] =
                   IF Receivers(proom[p]) = {} THEN @ ELSE Append(@, frame[p])]
  /\ pub' = [pub EXCEPT ![p] = "recv"]
  /\ UNCHANGED <<rooms, warmup, proom, frame, enc, viewers, history, recorded>>

\* A Close message or the end of the stream leads to the cleanup.
PublisherClose(p) ==
  /\ pub[p] = "recv"
  /\ pub' = [pub EXCEPT ![p] = "cleanup"]
  /\ UNCHANGED <<rooms, warmup, channel, proom, frame, enc, viewers, history, recorded>>

\* A socket error leaves through `item?`, without the cleanup.
PublisherError(p) ==
  /\ pub[p] = "recv"
  /\ pub' = [pub EXCEPT ![p] = "gone"]
  /\ UNCHANGED <<rooms, warmup, channel, proom, frame, enc, viewers, history, recorded>>

\* The room in the map, whichever it is by now, is dropped if nobody receives.
Cleanup(p) ==
  /\ pub[p] = "cleanup"
  /\ current' = IF current # 0 /\ Receivers(current) = {} THEN 0 ELSE current
  /\ pub' = [pub EXCEPT ![p] = "gone"]
  /\ UNCHANGED <<made, warmup, channel, proom, frame, enc, viewers, history, recorded>>
-----------------------------------------------------------------------------
(* handle_viewer.                                                          *)

ViewerConnect(v) ==
  /\ view[v] = "away"
  /\ \E r \in Room : room_for(r) /\ vroom' = [vroom EXCEPT ![v] = r]
  /\ view' = [view EXCEPT ![v] = "room"]
  /\ UNCHANGED <<warmup, channel, publishers, next, replay, client, history, recorded>>

Subscribe(v, from, to) ==
  /\ view[v] = from
  /\ next' = [next EXCEPT ![v] = Len(channel[vroom[v]]) + 1]
  /\ view' = [view EXCEPT ![v] = to]
  /\ UNCHANGED <<rooms, warmup, channel, publishers, vroom, replay, client,
                 history, recorded>>

TakeSnapshot(v, from, to) ==
  /\ view[v] = from
  /\ replay' = [replay EXCEPT ![v] = snapshot(warmup[vroom[v]])]
  /\ joined' = [joined EXCEPT ![v] = Len(recorded[vroom[v]])]
  /\ view' = [view EXCEPT ![v] = to]
  /\ UNCHANGED <<rooms, warmup, channel, publishers, vroom, next, client,
                 shown, missed, recorded>>

\* Fault: the snapshot is taken before the receiver exists.
SnapshotFirst(v) == \/ TakeSnapshot(v, "room", "cached")
                    \/ Subscribe(v, "cached", "live")

\* "Subscribe FIRST, snapshot SECOND."
Join(v) == \/ Subscribe(v, "room", "subscribed")
           \/ TakeSnapshot(v, "subscribed", "live")

Pending(v) == SubSeq(channel[vroom[v]], next[v], Len(channel[vroom[v]]))
Lagging(v) == Len(Pending(v)) > Capacity

\* One frame of the snapshot, in order, reaches the client.
Replay(v) ==
  /\ view[v] = "live" /\ replay[v] # << >> /\ client[v] = "up"
  /\ shown' = [shown EXCEPT ![v] = Append(@, Head(replay[v]))]
  /\ replay' = [replay EXCEPT ![v] = Tail(@)]
  /\ UNCHANGED <<rooms, warmup, channel, publishers, view, vroom, next, client,
                 missed, joined, recorded>>

\* The next live frame reaches the client.
Deliver(v) ==
  /\ view[v] = "live" /\ replay[v] = << >> /\ client[v] = "up"
  /\ Pending(v) # << >> /\ ~Lagging(v)
  /\ shown' = [shown EXCEPT ![v] = Append(@, Head(Pending(v)))]
  /\ next' = [next EXCEPT ![v] = @ + 1]
  /\ UNCHANGED <<rooms, warmup, channel, publishers, view, vroom, replay, client,
                 missed, joined, recorded>>

\* Lagged: the receiver skips to the oldest frame the channel still has.
Lagged(v) ==
  /\ view[v] = "live" /\ replay[v] = << >> /\ Lagging(v)
  /\ LET lost == Len(Pending(v)) - Capacity
     IN /\ next' = [next EXCEPT ![v] = @ + lost]
        /\ missed' = [missed EXCEPT ![v] = @ \cup {Pending(v)[i] : i \in 1..lost}]
  /\ UNCHANGED <<rooms, warmup, channel, publishers, view, vroom, replay, client,
                 shown, joined, recorded>>

(* A client that has left is noticed by writing to it.  Its socket swallows  *)
(* what is written ("unacked" once there is something), until the kernel     *)
(* gives up waiting for acknowledgements; from then on ("dead") a write      *)
(* fails.  close_watch sees the client leave, and nobody asks close_watch.   *)

\* A client that says goodbye makes the next write fail, one that vanishes does not.
ClientLeave(v) ==
  /\ client[v] = "up" /\ view[v] \notin {"away", "closed"}
  /\ \E how \in {"gone", "dead"} : client' = [client EXCEPT ![v] = how]
  /\ UNCHANGED <<rooms, warmup, channel, publishers, view, vroom, next, replay,
                 history, recorded>>

\* A frame is swallowed and nobody sees it.
Lose(v) ==
  /\ view[v] = "live" /\ client[v] \in {"gone", "unacked"}
  /\ \/ replay[v] # << >> /\ replay' = [replay EXCEPT ![v] = Tail(@)] /\ UNCHANGED next
     \/ /\ replay[v] = << >> /\ Pending(v) # << >> /\ ~Lagging(v)
        /\ next' = [next EXCEPT ![v] = @ + 1] /\ UNCHANGED replay
  /\ client' = [client EXCEPT ![v] = "unacked"]
  /\ UNCHANGED <<rooms, warmup, channel, publishers, view, vroom, history, recorded>>

\* The kernel's retransmissions come to an end.
GiveUp(v) ==
  /\ client[v] = "unacked" /\ view[v] = "live"
  /\ client' = [client EXCEPT ![v] = "dead"]
  /\ UNCHANGED <<rooms, warmup, channel, publishers, view, vroom, next, replay,
                 history, recorded>>

\* The write of a frame fails; the task ends and its receiver goes with it.
Fail(v) ==
  /\ view[v] = "live" /\ client[v] = "dead"
  /\ replay[v] # << >> \/ (Pending(v) # << >> /\ ~Lagging(v))
  /\ view' = [view EXCEPT ![v] = "closed"]
  /\ UNCHANGED <<rooms, warmup, channel, publishers, vroom, next, replay, client,
                 history, recorded>>

\* Fault: whether the ping could be written is not looked at.
PingUnchecked(v) ==
  /\ view[v] = "live" /\ replay[v] = << >> /\ client[v] = "gone"
  /\ client' = [client EXCEPT ![v] = "unacked"]
  /\ UNCHANGED <<rooms, warmup, channel, publishers, view, vroom, next, replay,
                 history, recorded>>

\* A minute has passed since the loop last turned: the ping is swallowed, or it
\* fails and the task ends.
Ping(v) ==
  /\ view[v] = "live" /\ replay[v] = << >>
  /\ \/ /\ client[v] = "gone" /\ client' = [client EXCEPT ![v] = "unacked"]
        /\ UNCHANGED view
     \/ /\ client[v] = "dead" /\ view' = [view EXCEPT ![v] = "closed"]
        /\ UNCHANGED client
  /\ UNCHANGED <<rooms, warmup, channel, publishers, vroom, next, replay,
                 history, recorded>>
-----------------------------------------------------------------------------
Publisher(p) == \/ PublisherConnect(p) \/ Publish(p) \/ Fanout(p)
                \/ PublisherClose(p) \/ PublisherError(p) \/ Cleanup(p)
Serve(v) == Join(v) \/ Replay(v) \/ Deliver(v) \/ Lagged(v)
Viewer(v) == \/ ViewerConnect(v) \/ Serve(v) \/ ClientLeave(v)
             \/ Lose(v) \/ GiveUp(v) \/ Fail(v) \/ Ping(v)

\* What the loop does for a client that has left: no write to it waits for ever.
Forsaken(v) == /\ client[v] # "up"
               /\ Serve(v) \/ Lose(v) \/ Fail(v) \/ (Pending(v) = << >> /\ Ping(v))

Next == (\E p \in Publishers : Publisher(p)) \/ (\E v \in Viewers : Viewer(v))

\* The runtime polls every task that can go on.  A client that is not slow
\* reads its socket.  A minute without a frame passes, so does the time the
\* kernel waits for acknowledgements: of a ping or frame that was written, not
\* of a client that is merely gone.  Publishers connect, send and leave as they like.
Fairness ==
  /\ \A p \in Publishers : WF_vars(Fanout(p)) /\ WF_vars(Cleanup(p))
  /\ \A v \in Viewers : /\ WF_vars(Join(v)) /\ WF_vars(Forsaken(v))
                        /\ WF_vars(GiveUp(v))
  /\ \A v \in Viewers \ Slow : WF_vars(Serve(v))

Spec == Init /\ [][Next]_vars /\ Fairness
-----------------------------------------------------------------------------
TypeOK ==
  /\ current \in {0} \cup Room /\ made \in {0} \cup Room
  /\ \A r \in Room : channel[r] \in Seq(Frame) /\ recorded[r] \in Seq(Frame)
  /\ pub \in [Publishers -> {"away", "recv", "send", "cleanup", "gone"}]
  /\ proom \in [Publishers -> {0} \cup Room]
  /\ frame \in [Publishers -> Frame \cup {None}]
  /\ view \in [Viewers -> {"away", "room", "subscribed", "live", "closed"}]
  /\ vroom \in [Viewers -> {0} \cup Room]
  /\ \A v \in Viewers :
       /\ view[v] # "away" => next[v] \in 1..Len(channel[vroom[v]]) + 1
       /\ replay[v] \in Seq(Frame) /\ shown[v] \in Seq(Frame)
  /\ client \in [Viewers -> {"up", "gone", "unacked", "dead"}]

Elements(s) == {s[i] : i \in 1..Len(s)}

\* Frames that are still on their way to a viewer.
Coming(v) == Elements(replay[v]) \cup Elements(Pending(v)) \cup
             {frame[p] : p \in {q \in Publishers : /\ pub[q] = "send"
                                                    /\ proom[q] = vroom[v]}}

\* "a viewer that subscribes mid-frame either sees the cached version OR the
\* live one - never neither": a frame that was not there to be cached when the
\* snapshot was taken comes through the channel.
NeverNeither ==
  \A v \in Viewers : view[v] = "live" /\ client[v] = "up" =>
    \A i \in joined[v]+1..Len(recorded[vroom[v]]) :
      recorded[vroom[v]][i] \in Elements(shown[v]) \cup Coming(v) \cup missed[v]

\* "we'd send the cached frame followed by a delta-only stream": a viewer that
\* never lagged and was given a key frame has been given everything between it
\* and any later frame that depends on it.
DecodableAfterKey ==
  \A v \in Viewers : missed[v] = {} =>
    \A i \in 1..Len(shown[v]) :
      LET f == shown[v][i]
          before == Elements(SubSeq(shown[v], 1, i - 1))
          Slice(n) == \E g \in before : /\ g.pub = f.pub /\ g.gop = f.gop
                                        /\ g.idx = n /\ g.kind # "ps"
      IN f.kind = "delta" /\ Slice(0) => Slice(f.idx - 1)

\* "a brief stall on one slow viewer doesn't make every other viewer skip":
\* whatever the slow viewers do, the others always catch up.
FastViewersCatchUp ==
  \A v \in Viewers \ Slow :
    []<>(view[v] = "live" /\ client[v] = "up" => Coming(v) = {})

\* A viewer's task ends once its client has left, at whatever point of the join,
\* the replay or the live loop, on an idle stream and on a lagging receiver too:
\* something is written that is never acknowledged, and then something that fails.
\* Until then it counts as a receiver and keeps the room in the map.
DeadViewersLeave ==
  \A v \in Viewers :
    view[v] # "away" /\ client[v] # "up" ~> view[v] = "closed"

\* "Drop the room if no one is publishing or watching anymore": it is dropped
\* under nobody who publishes or watches.
DroppedOnlyWhenUnused ==
  [][current # 0 /\ current' = 0 =>
       /\ \A p \in Publishers : proom[p] = current => pub[p] \notin {"recv", "send"}
       /\ \A v \in Viewers : vroom[v] = current => view[v] = "closed"]_vars
=============================================================================
