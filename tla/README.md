# A TLA+ model of xyzen-relay

xyzen-relay is a small set of Rust servers and clients that let a viewer watch
and drive a remote desktop: a *rendezvous* server where peers meet, a *relay*
that pipes bytes between two of them, a *stream* server that fans encoded video
out to viewers, a *control* plane that binds users to peer ids and stores audit
events, and *capturers* that produce the video. This directory holds the
TLA+ modules that model them, the TLC configurations that check the models on
small instances and the TLAPS proofs that hold for every instance. Paths below
are relative to `src/`; `server.rs:437` is a file and a line of it.

1. [Inventory](#inventory)
2. [Modules](#modules)
3. [Runs](#runs): what each one shows, bounds, fairness
4. [Proofs](#proofs)
5. [Disagreements between the code and what it says of itself](#disagreements)
6. [What is not modelled](#what-is-not-modelled)
7. [Plan](#plan)

## Inventory

| component | state | operations | what is hard | what makes it correct |
|---|---|---|---|---|
| rendezvous server (`crates/rendezvous/src/server.rs`) | pending table, one unbounded channel per connection, one handler per connection, one writer task per WebSocket | RegisterPeer, RegisterPk, PunchHoleRequest, RelayResponse, close | `dispatch_punch` awaits between lookup, push and insertion; acknowledgements carry no id; clones of channel senders keep tasks alive | a request is answered at most once and only after its target was asked; answers are delivered; closing ends |
| peer registry (`crates/rendezvous/src/registry.rs`) | id -> UDP address or channel | upsert, get, remove_if_ws | a late cleanup against a fresh registration | only the connection an id points to can unregister it |
| relay (`crates/relay/src/main.rs`) | one waiting slot shared by two accept loops | accept, pair_or_wait, pump | take and replace are two critical sections; dead waiters; half-closed connections | pairs are disjoint, no accepted connection is dropped, bytes arrive in order and once |
| stream rooms (`crates/stream/src/main.rs`) | room map; per room a broadcast channel and a warm-up window | publish, view, disconnect | subscribe-then-snapshot against record-then-send, room removal against late viewers, lag | a viewer misses nothing silently and can decode what it gets; slow viewers delay nobody |
| NAL classifier and warm-up window (`crates/stream/src/main.rs`) | parameter sets, last key frame, deltas, size caps, codec | classify_nal, record, snapshot | codec discovery, two caps | what is cached is decodable by itself, within the caps |
| control plane (`crates/control/src/*.rs`, `migrations/0001_init.sql`) | tables `peers` and `audit` (SQLite) | bind_peer, get_peer, ingest_audit, list_audit | select, draw and insert are separate statements; unique keys; failure between two statements | one permanent binding per user, unique ids, truthful audit rows |
| audit emitters (`crates/rendezvous/src/audit.rs`, `crates/control/src/audit.rs`) | none | emit, record | fire and forget: lost or timed out | recorded at most once |
| Windows publisher (`crates/win-capturer/src/publisher.rs`) | shared settings, `running`, `needs_rebuild`, `SHUTDOWN`, the sender slot | start, stop, set_*, the capture thread | settings changed during a rebuild, stop against start, exit against the next start | one run at a time, retunes apply, stop ends the run |
| Windows encoder (`crates/win-capturer/src/encoder.rs`) | a MediaFoundation transform, which keeps pictures until it is drained | configure, submit_frame, drain | samples in one of two formats, told apart by a guess; a drain that fails half-way; odd dimensions | NALs come out whole, once and in order; the conversion stays within its buffers |
| protocol codec (`crates/proto/src/codec.rs`) | a header kept between calls | decode, encode, set_raw | bytes in arbitrary pieces, the width of the header | payloads come out whole, once and in order however the bytes arrive |
| macOS capturer (`crates/mac-capturer`) | a singleton session: settings recorded by the session, by the SCStream and by the encoder | start, select_display, set_bitrate, set_fps, set_resolution, the frame callback | updates answered after their caller has given up; an encoder that refuses a rate; the encoder exchanged under a running stream while pictures are in it | the three records agree; what is sent is in decoding order |
| capturer binary (`crates/capturer/src/main.rs`) | an unbounded and a bounded channel | connect, bridge thread, sending loop | two threads and back-pressure; a server that goes away | nothing lost or reordered; everything sent while the server lives; its end noticed |
| common, test pages, smoke scripts, Dockerfile | - | - | - | - |

Interactions. Peers register with the rendezvous server over UDP or WebSocket;
a requester's PunchHoleRequest makes the server push RequestRelay to the target
and remember the requester; the target's RelayResponse makes it tell a
requester which relay to use; both then connect to the relay, which pairs the
connections it accepts two by two. The capturers publish to a room of the
stream server, viewers subscribe to it. The rendezvous server posts audit
events to the control plane over HTTP. The servers share no other state, so each
is a specification of its own; where parts of one server share state they are
composed (`Relay` over `RelayPair`, `StreamRoom` over `WarmupWindow`, `Capturer`
over `MacSession`), and `NalPath` composes across two programs: the Windows
encoder and the warm-up window its NALs end in.

## Modules

Conventions. An action is what one task does between two awaits, under one lock
or in one SQL statement; if a function awaits in the middle it is several actions
with a `pc` between them. Parameters named `Max...` bound what clients do, not
what the server does. History variables (named so where they are declared) are
read by properties and by no guard. A definition introduced by `Fault:` (or
`Faults:`) is a plausible mistake in the definition that follows it: no action
uses it, and the properties it violates are given in `PROJECT.json`. A
definition keeps the source's name where it can (`remove_if_ws` is `RemoveIfWs`,
`record`, `snapshot`, `classify_nal`, `stop`, `select_display` are themselves).

### Rendezvous, PunchBroker

`PunchBroker` is the promise: a request goes from `idle` to `asked`, to
`waiting`, to `answered` or `superseded` by a later request for the same target.

`Rendezvous` is `server.rs` and `registry.rs`. `registry` and `pending` are the
two shared maps; `pc` is where each connection's handler is; `outbox` is the
channel of each connection and `writer` says whether its writer task still
receives; `net` holds the datagrams on their way to native clients. A sender of
a channel is identified with its connection, so "who still holds a clone" is a
question about `registry`, `pending`, `reach` and `pc` (`SenderAlive`).

| action | code |
|---|---|
| `Accept`, `Disconnect` | accept loops; the client's side of the socket |
| `Lookup`, `Push`, `Insert` | the three parts of `dispatch_punch`, between its awaits |
| `WsRegister`, `WsRegisterPkNoId`, `WsReply` | RegisterPeer and RegisterPk in `handle_ws`: upsert, then the reply |
| `WsRelayResponse`, `TcpRelayResponse` | `dispatch_relay_ack`: pop some pending request and answer it |
| `TcpGiveUp`, `TcpForward` | `handle_tcp` waiting for its single push |
| `WriterSend/Fail/Lose/End` | the writer task of a WebSocket; a write may be lost with the connection |
| `WsClose`, `WsJoin` | end of the read loop with `remove_if_ws`, then `writer.await` |
| `UdpRegisterPeer/Deliver/Lose` | the UDP loop; a datagram may be lost or delivered again |

A request carries its number so that answers can be told apart; the code keeps
only the sender. `asked` is what a client may still acknowledge: an acknowledgement
is only sent by a client that was asked.

### RelayPair, Relay

`RelayPair` is the slot. `pair_or_wait` is `Take` (the first critical section,
which pairs if there is a waiting side) and `Store` (the second, which replaces
whatever is in the slot by now and so may drop a connection). The WebSocket loop
runs its handshake inside the loop (`HandshakeDone`, `HandshakeFail`).

`Relay` extends it and adds the pumps: `Read`, `Write`, `ReadEof` per
direction, `Finish` (both directions done), `PumpError` (`try_join` cancels the
other direction), and the clients (`ClientSend`, `ClientReceive`, `ClientLeave`
by half-close or by vanishing). A frame is a chunk of TCP bytes or a WebSocket
message; a message that is not binary is copied between two WebSockets and
skipped towards a TCP side (`CopiesText`, `Copied`). What a pump owes is a relation,
`CopyOf`: the passed frames are the sent ones, unchanged, in order, each once, and
all that are due to that kind of receiver. It does not repeat how the code
copies. One run checks the properties of both modules on the composition.

### WarmupWindow, WarmupHistory, StreamRoom

`WarmupWindow` is `classify_nal`, `Warmup::record` and `Warmup::snapshot` as
operators on a record with the fields of the Rust struct. A frame is its first
byte after the start code and its length. `WarmupHistory` runs `record` on every
sequence of frames and keeps the history, so that the window can be compared
with a definition that looks at the whole history at once (`WindowMatchesHistory`).

`StreamRoom` is the rooms of one peer id (different ids share the map's lock and
nothing else). Room objects are numbered; `current` is the one in the map.

| action | code |
|---|---|
| `PublisherConnect`, `ViewerConnect` | `room_for`: find or create the room |
| `Publish`, `Fanout` | `handle_publisher`: record under the lock, then send |
| `PublisherClose`, `PublisherError` | the two ways out of the loop; only the first reaches `Cleanup` |
| `Cleanup` | remove the room if `receiver_count() == 0` |
| `Join` | `subscribe()`, then the snapshot |
| `Replay`, `Deliver`, `Lagged` | the replay, then the live loop, with `RecvError::Lagged` |
| `ClientLeave` | the client says goodbye (`dead`: the next write fails) or vanishes (`gone`) |
| `Lose`, `Fail` | a frame is written to a vanished client and swallowed (`unacked`), or its write fails and the task ends |
| `Ping` | the ping of an idle loop, swallowed or failing in the same way |
| `GiveUp` | the kernel stops retransmitting what was swallowed: from now on writes fail |

The channel is its whole history and a position per receiver; a receiver more
than `Capacity` behind gets `Lagged`.

### PeerBinding, Control

`PeerBinding` is the promise: a user is bound once, to an id nobody else has,
for good, and is told that id. `Control` is the handlers of `http.rs` over the
two tables: `Select`, `Fresh` (a draw that finds the id taken counts a try),
`Insert` (fails on either unique constraint), `Record` (the audit row),
`Answer`, with `DbError` and `Abandon` (the handler is dropped) possible at each
statement. `emit` and `ingest_audit` are the two ends of an audit event.

### WinPublisher

The process-wide state of `publisher.rs` (`want`, `running`, `needs_rebuild`,
`SHUTDOWN`, `sender`) and the runs of `start()`. Each access to that state is an
action: `start`, `Arm`, `Channel`, `Spawn` are the caller; `InitThread`, `Check`,
`Snapshot`, `Clear`, `Open` the outer loop; `Frame`, `Rebuild`, `Resized`,
`FrameFails`, `NoOutput`, `Send`, `Closed` the frame callback; `Recheck`, `Quit`,
`Unslot`, `Unrun` the way out. Opening a session, configuring the encoder and
submitting a frame may each fail.

### H264Encoder, NalPath

`H264Encoder` is the pure part of `encoder.rs`: which frames `submit_frame` takes
(`Accepts`), the NV12 arithmetic with its indices, `is_annexb`, `annexb_split` and
`avcc_to_annexb`. A sample is never laid out byte by byte: it is a sequence of
NALs, each a length and a header byte, in one of the two formats, and `ByteAt`
computes the byte at a position. Three facts about H.264 enter it: emulation
prevention keeps start codes out of a NAL, a NAL does not end in a zero, and the
bytes of a NAL beyond its header are thus one non-zero byte (`Inner`). The loops over
the bytes are functions that call themselves at the next start code and at the next
length prefix.

`NalPath` puts the encoder in front of `WarmupHistory`: `Submit` (a frame becomes an
access unit some time later), `Drain` (all that waits is pulled and converted, or
an error drops what was pulled), `Arrive` (the room records a NAL). `way` stands for
the publisher's channel and the WebSocket, which keep order. With `format = None`
the window sees the arbitrary frames of `WarmupHistory` instead.

What the encoder makes is any set `Pictures` within four assumptions.
`PicturesAssumption`: a picture is one or more NALs, each with a header byte that is
not zero, at least one byte behind it ("even an empty AUD has at least one body byte",
`encoder.rs:319`) and at most 16 MiB (`LongestNal`; a 4K picture has 12 MiB in NV12 before
it is compressed). `SlicesAssumption`: every picture has a NAL that the H264 classifier
does not call a parameter set; and the HEVC one either leaves such a NAL in every
picture too, or calls no NAL of this encoder a key frame. An encoder that begins its
pictures with 0x67, 0x68, 0x65 and 0x41 satisfies the second half (0x41 reads as a VPS, but
none of them as an HEVC key frame), one that puts an access unit delimiter (0x09) in
every picture the first. One that mixes P slices of 0x41 and of 0x21 without delimiters
satisfies neither: a room locked to HEVC by mistake takes the 0x21 slice for a key frame
and the 0x41 picture after it for a VPS, and `NoPictureMissing` does not hold there.
TLC evaluates the assumptions for the pictures of the run. `StampedAssumption` keeps `None` apart from the frames, as
`NoneAssumption` does. The two properties speak of each frame and each pair of frames
(`Genuine`, `Ahead`), not of a computed expected sequence, so that they say what may be
missing and nothing else.

### Codec

One direction of a connection. `sent` and `mark` are the frames a peer wrote and where
each starts; `got` is how far the bytes have arrived, `pos` how far the decoder has
read, `body` its `State` (`Head` is `None`). The decoder reads header bytes
wherever it stands, through `ByteAt`, so a decoder that lost its place would read
payload for headers. A frame handed up is an interval of the stream.

| action | code |
|---|---|
| `Encode`, `ForeignEncode` | `encode`; an encoder that uses wider headers or longer frames than this one does |
| `Arrive` | the socket delivers up to any position near a header or an end |
| `Decode` | one call of `decode`: `Refuse`, or header and `HandUp`, or `HandUp` of a body |
| `set_raw`, `DecodeRaw` | `set_raw`, and `decode` after it |

### MacSession, Capturer

`MacSession` is `MacCapturer.swift` behind `mac-capturer/src/lib.rs`. Each setting lives in
up to three places: `rec` (the session's fields, which the getters return), `runs`
(what the SCStream was last told) and `enc` (the compression session). `todo` is
what ScreenCaptureKit has been handed and not carried out; `pc` is where the caller
of a setter is.

| action | code |
|---|---|
| `start` | `xz_capturer_start` that succeeds |
| `setFps`, `setResolution`, `selectDisplay`, `set_bitrate` | the setters up to their `sema.wait`; a value that is already recorded returns at once and is no step |
| `Content` | `fetchShareableContent` returns, or the display is not there |
| `Answer` (`Applied`, `Refused`) | a completion handler; the caller may have left |
| `TimeOut` | `sema.wait` gives up after five seconds |
| `RateTaken`, `DisplayTaken`, `TearDown`, `Rebuild` | what a setter does with a good answer; a new encoder may fail to come |
| `didOutputSampleBuffer` | a picture of the stream enters the encoder, if there is one |
| `handleEncoded` | the encoder's output handler, later and on a thread of its own: any part of what the picture makes is about to be emitted (`hands`), the rest never is (`lost`) |
| `emitAnnexBChunk` | one chunk is given to `on_nal`, which sends it |

`handleEncoded` loses what the code can lose: all of a picture (a failed status or no
data, 523, 536-537, 575), the parameter sets of a key frame (no format description, 547, or
no attachments, so that it passes for a delta, 627-637), the slice (a length that points
behind the data, 590). The slices of a picture are one chunk. An encoder that was
replaced may still give back what is in it, or not; `late` remembers these pictures.
Its output handler and the next encoder's run side by side. `Own` is a rate of the
encoder's own: it refused the one it was given, and nobody looked.

`Capturer` is the binary around it: `Connect`, `StartNative`, the bridge thread
(`BridgeTakes`, `BridgePuts`), the loop (`MainTakes`, `MainSends`, `SendFails`), and a
server that may go (`ServerGoes`), after which the socket swallows `Slack` more
messages. The binary itself calls no setter; the library's other users do, and the
channels have to hold under them as well.

## Runs

`CHECK_DEADLOCK FALSE` is in every configuration: bounded clients stop sending
and the servers then idle, which is what they do when nobody calls.

| run | states | what it shows |
|---|---|---|
| `rdv_broker` | 211 k | A WebSocket client, two TCP connections and a native client that may take over the id; two of them are requesters. However `Lookup`, `Push`, `Insert` and the acknowledgements interleave, the pending table implements `PunchBroker` (`ImplementsPunchBroker`); no late cleanup removes a registration that replaced its own (`UnregisteredOnlyByOwnClose`). `AnswersAreDelivered`: a request popped from the table is answered or its client has gone. `ClosedPeersUnregister`. `CloseBlockedOnlyByClones`: a closing handler hangs only on somebody else's clone of its sender, never on its own. |
| `rdv_early_ack` | violation | `AckAnswersRequester`: see [Disagreements](#disagreements). |
| `relay_race` | violation | `NoWaiterDropped`: both loops find the slot empty, the second store closes the first waiting side. |
| `relay` | 64 k | Two TCP clients and one WebSocket client that send three frames in all, half-close and vanish. Every accepted connection is in a loop's hands, waiting or in one pair (`OnePlaceEach`), one listener alone never drops a waiting side (`OneListenerKeepsWaiters`), and a TCP one is paired with the next client even while a WebSocket handshake stalls (`WaiterIsPaired`). Nothing is lost, duplicated or reordered while a pair lasts (`PumpIsLossless`), after any failure a prefix was received (`ReceivedIsPrefix`), frames arrive also after a half-close of the other side (`FramesArrive`), and finished pairs close both sockets (`FinishedPairsClose`). |
| `warmup` | 126 k | All sequences of up to five frames of nine sorts: the window keeps, within its caps, the codec of the first frame that tells it, the latest of each parameter set, the last key frame and the deltas after it (`WindowMatchesHistory`), and a replay starts with parameter sets and a key frame (`ReplayIsDecodable`). And all sequences of up to four pictures of the Windows encoder, in either format, with drains that fail: every NAL comes out whole, once and in order (`NalsComeOutWhole`), and the window misses no picture after the key frame it holds (`NoPictureMissing`), in both cases but for samples that are misread or that a failing drain had pulled. |
| `room_join` | 3.1 M | A viewer joins anywhere in six frames of a publisher while another publisher comes and goes and may drop the room. Nothing recorded after the snapshot is lost silently (`NeverNeither`); a viewer that did not lag can decode from its key frame on (`DecodableAfterKey`). |
| `room_live` | 162 k | A slow and a fast viewer. `FastViewersCatchUp` whatever the slow one does. `DeadViewersLeave`: a viewer whose client has left ends, wherever it was and on an idle stream too, although the first write to a vanished client goes well and only a later one, after the kernel gave up, fails. |
| `room_orphan` | violation | `DroppedOnlyWhenUnused`: the cleanup drops a room under a viewer that has fetched it and not subscribed. |
| `control` | 288 k | Three concurrent calls for two users over two ids, and one event, each statement failing or cut off anywhere. `ImplementsPeerBinding`; `BoundStaysAnswered`: a call made after the user's first answer does not lose a conflict; `AuditIsTruthful`: one `peer_bound` row per user, with its binding, and an event at most once; `BindsEnd`. |
| `win` | 45 k | Two runs, two displays and two setter calls at every point. `OneAtATime`, `SenderIsOwn`: the last writes of one run never hit the next. `StaleIsFlagged`, `RetunesApply`: a retune reaches a session unless it falls in the one unlocked window. `StopEnds`, `DroppedReceiverEnds`. |
| `codec` | 1.2 M | Two frames with lengths on both sides of each header boundary and of the limit, from this encoder and from one with wider headers, cut anywhere around headers and ends, with `set_raw` at any point. `StreamInOrder`: payloads come out whole, once and in order, and raw mode goes on where framing stopped. `OnlyTooLongFails`. `WholeFramesAreDecoded`: a frame that is there is handed up without waiting for more. |
| `mac` | 1.4 M | Two setter calls whose updates are carried out, refused or late, and two pictures, of which the encoders lose any part, on their way to a server that may go. `SettledIsConsistent`: what the session records is what the encoder does, but for rates it refused, and, but for kinds of update whose caller gave up, what the stream does. `NothingLostOnTheWay`: behind the callback two threads and two channels lose and reorder nothing. `SentInDecodingOrder`: a key frame is sent behind its own encoder's parameter sets and a delta behind the picture before it, of the same encoder, unless the encoder lost that one; only a picture that was under way when its encoder was replaced comes after a younger one. `NalsAreSent` while the server lives; `DeadServerEnds` once more is under way than the socket swallows. |

### Bounds, and why they are enough

- *Rendezvous*: one id and one request per requester. The hazards are races for
  one table entry: two requesters of one target, a request against its
  acknowledgement, a registration against the cleanup of its predecessor. Each
  needs two connections on one id. `MaxOutbox` only stops clients from
  registering for ever. A second id adds independent copies of the same race;
  the proofs cover any number. `Addr` is a UDP client because its pushes may be
  lost or repeated.
  Two WebSocket clients with one id, each closing late, are not in this instance;
  the two safety properties, which are proved for any number of either, cover them,
  the three liveness properties are not known for them.
- *Relay*: three clients are a pair and a third that finds a dead waiter, one of
  them from the other listener; `MaxSend` (two, one and none) shows order and `Window` 1
  makes the pumps wait. A race for the slot needs no more either: two loops and
  one waiting connection. `OnePlaceEach`, `OneListenerKeepsWaiters`, `PumpIsLossless` and
  `ReceivedIsPrefix` are proved for any number of clients and frames.
- *NalPath*: caps 900 and 600 (16 MiB and 8 MiB in the code, `main.rs:133` and 136) with frames of 300 to 900
  bytes, so that a key frame exceeds its cap, deltas overflow theirs, and both fit
  exactly. Five frames are parameter set, key, delta, overflow, and one more event
  after it. Lengths are real byte counts because the guess at a sample's format
  depends on them: one of the pictures begins with a NAL of 261 bytes (which reads as
  a key frame), one with 320 (as an HEVC VPS), one with 520 (as itself). All four
  properties are proved for any caps, frames and pictures.
- *Codec*: the lengths are the boundaries themselves, so nothing is scaled down; two
  frames show a decoder that loses its place; pieces end within `Reach` 4 of a header's
  start, which includes every position inside a header, and one byte before each
  frame's end.
- *Capturer*: two calls are an update that times out and a later one, of the same kind or
  another, or two exchanges of the encoder; each setter has one value that differs from the
  recorded one, the rate and the size such that they are clamped. Two pictures are a key
  frame and its delta, two key frames of one encoder, or one picture on each side of an exchange: up to four
  chunks. `Room` 1 (256 in the code) makes the bridge wait at once. The three safety
  properties are proved for any number of calls and pictures.
- *StreamRoom*: `Capacity` 2 (1 in `room_live`), six frames: parameter set, key
  frame, deltas and a second key frame, more than the channel holds. `NeverNeither`
  is proved for any number of publishers, viewers and frames, any capacity and caps, and
  `DecodableAfterKey` too if the publishers use one codec.
- *Control*: three calls are two racing for a user and one taking the id they
  drew; `MaxTries` 2 makes draws run out. 16 in the code.
- *WinPublisher*: two runs for the exit of one against the start of the other;
  two setter calls for one that is seen and one that is missed.

### Fairness, and why the code justifies it

| module | assumed | why |
|---|---|---|
| `Rendezvous` | each handler's and each writer's own steps | tokio polls a task that can go on; nothing is assumed of clients or datagrams |
| `RelayPair` | the accept loops | they are tasks; the handshake is *not* assumed to end, a client may stall it (`main.rs:91`) |
| `Relay` | also the pumps, and that a client that stays reads its socket | a pump whose client stops reading waits, as the code does |
| `StreamRoom` | `Fanout`, `Cleanup` and `Join`; `Serve` for viewers that are not slow; for a client that has left, the loop's own steps (`Forsaken`) and `GiveUp` | a slow viewer's socket may refuse frames for ever, but while its client lives only; a minute passes, so the ping comes on an idle stream (only there: the timer starts anew whenever the loop turns); the kernel's retransmissions end, which needs something that was written: `GiveUp` is not enabled for a client that is merely gone |
| `Control` | `Step \/ DbError` of each handler | each statement comes to an end, good or bad; the choice is not fair |
| `Codec` | `Decode` and `DecodeRaw` | the connection's task reads while there is input; nothing is assumed of the peer |
| `Capturer` | the bridge and the loop | threads run, and a server that is there reads. *Not* assumed: that a setter returns, that ScreenCaptureKit answers, that the screen changes or that an encoder gives anything back |
| `WinPublisher` | threads run (WF); strong fairness of a session opening, of a frame and of encoder output | the screen changes now and then, the system does not refuse sessions for ever, the encoder is not silent for ever; without them a publisher that waits for a frame rightly waits |

## Proofs

Every theorem is proved for all values of the constants, from the named
assumptions beside their declarations: disjoint sets of connections, `None`
outside the sets it is absent from, naturals for bounds, and what an encoder's
pictures are (see `NalPath`). No assumption says that a set is finite. One theorem has a hypothesis of its own, `SameCodec` below. Each proof
of an invariant is an induction: an invariant
strengthened until every action preserves it, one step per action. The
strengthenings are the interesting part.

- **RendezvousProofs.** `TypeCorrect` needs `DispatchOK` (a handler inside
  `dispatch_punch` holds the request it read last). `OnlyOwnCloseUnregisters`
  goes through the actions and finds `WsClose` of the connection pointed to is
  the only one that clears an id. `PunchTableImplementsBroker` proves that every
  step of every task is a step of `PunchBroker` or leaves it alone, by
  `BrokerInv`: a request is in one place only (in a handler's hands, in the table
  under its own target, or answered) and numbers grow.
- **RelayProofs.** `Relay`'s actions contain those of `RelayPair` or leave its variables
  alone, so that an invariant of the slot is one under the pumps (lemma
  `PairingUnderPumps`). `OnePlace` from `PairInv`, whose additional part `HandsOK`
  says a loop holds a connection exactly while it is past `accept()` and a pair is
  closed as a whole. `OneListenerIsSafe` from `OneLoop`: while only one listener has
  handed anything over, a loop about to store finds the slot as empty as when it
  looked. `NoFrameIsLost` and `ReceivedInOrder` from `DataInv`: frames are numbered as
  they are sent (`Numbered`), nothing moves for a connection that is not in a pair
  (`Idle`), what a socket holds unread is a suffix of what was sent (`Unread`), and
  what has left it is a copy spread over the receiver, its socket and the pump's
  buffer (`NothingLost`). An error ends this relation, which is why
  `ReceivedIsPrefix` is part of the invariant and not a consequence of it.
- **StreamRoomProofs.** `TypesHold`. `CachedOrLive` (`NeverNeither`): whatever the
  publishers encode, each frame recorded after a snapshot has reached the viewer, is
  in its receiver or its replay, is about to be sent by the publisher that recorded
  it, or was skipped by a lag. `NoGapAfterKey` (`DecodableAfterKey`) needs all of
  `StreamInv`: an encoder's last slice is in its room's history (`SourceOK`), where no delta
  is without the slice before it (`HistoryOK`); the window holds one key frame and
  every slice of its gop recorded so far (`WindowOK`); and what a viewer has been or
  will be shown has no gap (`Gapless`) and is continued by what each publisher sends
  next (`FeedOK`). Its hypothesis `SameCodec`, all publishers of a peer id use one codec, cannot
  be dropped: in a room locked to HEVC an H264 slice of first byte 0x41 counts as
  parameter sets and is kept out of order, and TLC then finds a viewer with a gap.
  `StreamInv` was given to TLC before it was proved: completely on the instance of
  `room_join`, in part with two publishers that both send.
- **NalProofs.** First the operators of `H264Encoder`: `OnlyEvenDisplaysAreEncoded`,
  `NeverClamped` (the three conversions stay within a byte for all 2^24 colours),
  `ConversionStaysInside` (every index is within its buffer), `SniffedLengths` (of all
  32-bit lengths exactly 1 and 256..511 pass for a start code). Then the window, for
  every sequence of frames (`WarmupHistory`): `CapsAlwaysHold`, `TypeCorrect` and
  `ReplaysAreDecodable` from `WindowInv`, whose part `CacheOK` says everything cached
  is still classified, under the codec of the room, as what it was recorded as; no
  key frame without a codec, no delta without a key frame. `CachedParamsAre` then
  computes the parameter sets of a snapshot. `WindowFollowsHistory`
  (`WindowMatchesHistory`): each field of the window is what the whole history says.
  The property speaks of the first frame that tells the codec, the last parameter set
  of each type, the last key frame and the frames after it, with their total size.
  `HistoryInv` carries what of the history `record` extends by one step: that these first
  and last frames exist (`Extrema`), each later frame's place in the order, and the function
  that sums their lengths (`AfterOK`). All of this is proved of `RoomSpec`, a room that
  records whatever frame comes, and then of `WarmupHistory` and of `NalPath`, which both
  imply it (`SpecFeedsRoom`, `PathFeedsRoom`): `CapturedReplaysAreDecodable`,
  `CapturedWindowFollowsHistory`.

  The way of a picture is proved for samples of any number of NALs of any length. The
  library's induction theorems take an operator and cannot be instantiated, but that the
  order of the naturals is well founded can be cited: `ByInduction` and `ByDescent` say it of sets.
  With them the recursive functions of the model are shown to exist (`StartsExist`,
  `OnwardExists`, `JoinsExist`), without which nothing follows from their equations, and
  then computed. `Layout`, `OneZone` and `ByteIs`: each byte of a sample belongs to one NAL
  or to the start code or length before it. `OnesAre`: the start codes found are the ones
  written; `AvccLength`: a length read is the one written. So `annexb_split` and
  `avcc_walk` cut a sample of their format into its NALs (`SplitsWhole`, `WalksWhole`), and
  `avcc_to_annexb` does unless an AVCC sample's first NAL has 256 to 511 bytes
  (`SniffedRight`, `CutWhole`); what such a sample is cut into is never one of its NALs
  (`NoNalAfterCode`, `CutToShards`). `NalsAlwaysComeOutWhole` then needs `PathInv`: units
  are what the encoder makes, and the frames recorded or on the way are `Good` for what
  has been drained, which one more drained unit, a failing drain and an
  arriving frame preserve (`GoodGrows`, `GoodFails`, `MovedOn`). `NoPictureIsMissing` adds
  `KeyFollowed`: the window's key frame was seen, and every frame seen after it is a
  parameter set or kept behind it; frames being in order and each picture having a slice,
  no picture in between is missing. TLC checked `PathInv` and `KeyFollowed` on the instance of `warmup` before
  they were proved.
- **ControlProofs.** `BindInv` says what a handler may rely on however long ago
  its last statement ran: past its insert it holds its user's binding (`IdsOK`),
  every answer is still right (`ToldOK`), a late call finds its binding
  (`LateOK`). From it `TypeCorrect`, `AnsweredForGood` and `BindingImplemented`.
  `AuditTells` needs that whoever is about to write the audit row is the only one
  who ever will be (`RecordOnce`, `IngestOnce`).
- **WinPublisherProofs.** `Ownership`: from `start()` to the thread's last write
  one run owns `running`; `SlotOwned`: it then owns the slot; `Tracked`: between
  snapshot and clear only a setter makes the snapshot stale. From them
  `TypeCorrect`, `OneRun`, `OwnSender`, `NoOtherMiss`.
- **CodecProofs.** `HeaderRoundTrip`: every length below 2^30 is read back from its
  header with its width, whatever bytes follow; this is arithmetic, width by width.
  `InOrder`, `OnlyTooLong` and `TypeCorrect` then follow from an invariant that says
  where the decoder stands: `framed` payloads are out, `pos` is at the next
  frame's header or, with `body` set, right behind it, and `body` is that frame's
  length. `HeaderAt` being a singleton at a header (frames do not overlap) is what
  connects the bytes to the frame.
- **CapturerProofs.** `Consistent` from `SessionInv`, whose part `SureOK` says that for a
  kind nobody gave up on nothing is left in `todo` but the waiting caller's own update,
  the last one, and that a caller past its answer holds what the stream was told;
  `EncoderOK` keeps the encoder's settings with the session's, or its own where it refused
  them. `NothingLost` from the shapes of the two one-place buffers; its steps are equations
  between concatenations, by one lemma on associativity. `SentInOrder` from `DecodingInv`,
  an invariant of the session alone: pictures are numbered as they enter an encoder, and
  each number is in one place (`NumbersOK`); what an encoder's output handler still holds
  comes after all that its encoder has emitted (`OrderOK`); the picture before a delta, of
  the same encoder, is still inside, in the handler's hands, emitted or lost (`ChainOK`); and
  everything emitted is in its place (`PlacesOK`). That what is *sent* has the property too is `NothingLost`: it is a
  prefix of what was emitted.

The type invariants of `Rendezvous`, `RelayPair`, `Relay`, `WarmupHistory`, `StreamRoom`,
`Control`, `WinPublisher`, `Codec` and `MacSession` are part of these inductions and are
proved rather than run. The run `warmup` checks its four properties of `NalPath`; each is
proved of it, the two about the window of `WarmupHistory` by itself too.

Every safety property, action property and refinement that a passing run checks is thus
proved, `DecodableAfterKey` under its hypothesis. Only model-checked is all liveness,
because fairness and ENABLED are out of the prover's reach:
  `AnswersAreDelivered`, `ClosedPeersUnregister`, `CloseBlockedOnlyByClones`, `WaiterIsPaired`,
  `FramesArrive`, `FinishedPairsClose`, `FastViewersCatchUp`, `DeadViewersLeave`, `BindsEnd`,
  `RetunesApply`, `StopEnds`, `DroppedReceiverEnds`, `WholeFramesAreDecoded`, `NalsAreSent`, `DeadServerEnds`.

## Disagreements

Three are runs, each with a counterexample:

- `rdv_early_ack` (`server.rs:437`): the requester is inserted after
  RequestRelay was pushed; an acknowledgement in between finds nothing and the
  requester is never answered. `scripts/smoke_ws_punch.py:136` expects the answer.
- `relay_race` (`relay/src/main.rs:122`): look and store are two critical sections, so a
  TCP and a WebSocket client arriving together are not paired; the first is
  closed. Lines 12 and 16 promise the pairing.
- `room_orphan` (`stream/src/main.rs:413`): `receiver_count` does not count a
  viewer between `room_for` and `subscribe`; its room is dropped under it and it
  never hears the next publisher. Line 407 says the room is dropped when no one
  watches.

Others were met while modelling. The models contain the behaviour, or it is
noted where a part is not modelled; no run is spent on them.

*Rendezvous.* An acknowledgement pops any key and may answer the wrong requester
(`server.rs:445`). A TCP requester of an offline target waits for ever
(`server.rs:240`), though the log at 422 says "dropping requester". A connection
that registered two ids leaves the earlier one pointing to a dead channel (399).

*Stream.* A viewer's own `Arc` of the room keeps the channel open, so the "clean
close" of lines 20-21 never comes (438). When a room is kept, or left behind by a
socket error, the next session meets the old window and the old codec (384, 407,
413). A second publisher's room can be dropped while it sends. A frame recorded
before a snapshot and sent after the subscription arrives twice (387-397, "or"). Parameter
sets of a reconfigured encoder are cached ahead of its key frame (71, 278).
A first byte 0x41 (an H264 P slice) reads as an HEVC VPS (212, 218), and a room
never changes its codec (119). Only the last slice of a multi-slice key picture
is cached (279). The slot of the key frame keeps that one NAL (279-291), against "the
keyframe NAL itself plus any parameter-set NALs that arrived adjacent to it, in their
original order" (85-87) and "the publisher's last IDR + the parameter-set NALs that
arrived alongside it" (108-109): a replay has the latest set of each type, in the order of the
types, whenever it arrived.

*Relay.* A half-close is not passed on to the other side until both are done (178).

*Control.* The loser of two concurrent first calls answers 500, against
"Idempotent: if already bound, return existing" (`http.rs:70`, 84-91). A call that
is dropped between its two writes leaves a binding without an audit row.

*Windows publisher.* A setter between the snapshot (235-244) and the clearing of
`needs_rebuild` (247) is lost until something else forces a rebuild, against
10-13. A `stop()` between 114 and 115 would be lost; nothing calls it, and `lib.rs` (40) does
not re-export it. A failed spawn leaves `running` set for good (131). The getters keep
the last run's values though 58-59 says they are cleared. `set_resolution` does
not reach the encoder, which is configured with the frame's dimensions (187,
370-372).

*Windows encoder.* On a display with an odd dimension every frame is refused
(`encoder.rs:117`, 176-181): nothing is encoded, and as a dropped receiver shows only
when there is something to send, that publisher runs until `stop()`. The comment at
315-319 calls the guess at a sample's format unambiguous; an AVCC sample whose first
NAL has 256 to 511 bytes passes for Annex B (`SniffedLengths`). What then goes out is
the sample from its fourth byte on, as one frame: with a P slice of 261 bytes its
first byte reads as a key frame's, with one of 320 bytes as an HEVC VPS, to which a
room that has no codec yet locks itself. The software encoder, which is tried first,
writes Annex B (311-314); it takes the hardware fallback (472) for this to happen. An error
in the middle of draining (271) loses what was pulled before it.

*Codec.* `set_raw` is there because "the relay flips this on after the handshake"
(`codec.rs:43-44`); nothing in the repository calls it. A decoder that went raw between
a header and its payload would hand up the payload, and what follows, in pieces
of whatever size arrived.

*macOS capturer.* A setter that is given the recorded value returns success without
asking anybody (375, 416, 460): after an encoder could not be rebuilt, the same
resolution again returns 0 with no encoder, and after an update that timed out the
old value returns 0 while the stream runs the new one. A `startCapture` that timed
out (359) may still succeed; nobody stops it then. `set_bitrate` (102-108) leaves the
`DataRateLimits` of the old rate in place (314). The parameter sets go out in one chunk (584), against
"Emit SPS/PPS prefix as separate NALs" (582) and "one NAL per call" (`lib.rs:4`); the
window's classifier looks at the first NAL of a chunk. `start` clamps nothing,
the setters do. `setFps` (443-450) and `makeEncoder` (291-321) discard the status of
`VTSessionSetProperty`, which `set_bitrate` (107) returns to its caller: a rate that the encoder
refused is recorded, and returned by the getters, all the same. A key frame without a
format description or attachments goes out without parameter sets (547, 627-637), against
"the next IDR which always carries fresh parameter sets" (543-544). After a change of resolution, pictures of the
old encoder may come after the new one's first, which a decoder configured for the new size
cannot use; 487-489 covers the pictures that are not in an encoder yet. `didStopWithError` (529) only logs.

*Capturer binary.* What does not fit in 256 places waits in the unbounded channel before
them, which grows while the socket is slower than the encoder (`main.rs:70-76`). The
read half is dropped (59), so a server that is gone is noticed by a failing send
only: never, on a screen that does not change.

## What is not modelled

- **Windows encoder**: the MediaFoundation calls that find, configure and run a
  transform are the platform's (`WinPublisher` has them as something that may
  fail or be silent), and so are time stamps and `display.rs`.
- **macOS capturer**: setters called from several threads at once (the singleton is
  not locked, so they have to take turns; in this repository nobody calls one);
  a session whose start timed out; `DataRateLimits`; a block buffer in several pieces, of which
  568-577 would read only the first safely; `self.encoder` being read by the stream's
  thread (511) and written by a setter's (493, 323) without a lock, which is taken to give one
  value or the other. ScreenCaptureKit is taken to carry updates out in the
  order it was given them, and VideoToolbox to begin each encoder with a key frame and to
  give the pictures of an encoder back in order and one at a time, if at all. Each
  wait of a setter has a time-out; that setters return is not stated as a property.
- **Rendezvous**: an error of `accept()` itself (`server.rs:161`, 263), which ends the
  whole server through `try_join`; no property speaks of what comes after it.
- **Codec**: `encode` after `set_raw`, which copies its argument.
- **common**, test pages, smoke scripts, Dockerfile, generated protobuf types: no
  behaviour of their own.
- Inside modelled parts: the bearer-token check, `list_audit`, `healthz` and the
  getters (they only read); RegisterPk over UDP and reply datagrams (they change
  no state); the bytes of a frame; which monitor a display id names; the search
  for the start code (abstracted to the byte it finds); logging.

## Plan

Done, in this order: `Rendezvous` with `PunchBroker` and proofs; `RelayPair` with
proofs and `Relay` over it; `WarmupWindow`, `WarmupHistory` with proofs and
`StreamRoom` over it; `Control` with `PeerBinding` and proofs; `WinPublisher` with
proofs; `Codec` with proofs; `H264Encoder` with proofs and `NalPath` over it and the
window; `MacSession`, `Capturer` with proofs; then proofs for the pumps of `Relay`,
for `StreamRoom`, and for the window against its history.

Last, proofs for the way of a picture: `NalsComeOutWhole` and `NoPictureMissing`, and the
window's two properties for a room behind the encoder.

Next:

1. `StreamRoom`: what the next session finds in a room that was kept (`main.rs:384`).
2. `MacSession`: a start that times out and a stream that starts after all.
