----------------------------- MODULE Rendezvous -----------------------------
(***************************************************************************)
(* xyzen-rendezvous: the peer registry, the pending-punch table and the    *)
(* tasks that share them.                                                  *)
(*                                                                         *)
(* Every accepted connection has a handler task (handle_ws, handle_tcp)    *)
(* with a pc; a WebSocket connection has a writer task as well.  UDP has   *)
(* one loop.  Tasks interleave wherever the code awaits a lock or a        *)
(* socket, so dispatch_punch is three steps: look the target up, push      *)
(* RequestRelay to it, insert the requester into the pending table.        *)
(*                                                                         *)
(* A channel sender (Outbox) is identified with the connection whose       *)
(* receiver it feeds.  A request carries its connection, its target and a  *)
(* number, so that the answers it gets can be told apart; the code stores  *)
(* only the sender.                                                        *)
(*                                                                         *)
(* Definitions introduced by "Fault:" are plausible mistakes in the next   *)
(* definition; no action uses them.  They show what each property rejects. *)
(***************************************************************************)
EXTENDS Naturals, Sequences

CONSTANTS Ws,         \* WebSocket connections
          Tcp,        \* TCP connections
          Requester,  \* the connections whose clients send PunchHoleRequest
          Addr,       \* UDP addresses of native clients
          Id,         \* peer ids
          None,       \* the absent value (Rust's Option::None)
          MaxPunch,   \* bound: punch requests per requester
          MaxOutbox   \* bound: registrations pause while this many are queued

Conn == Ws \cup Tcp
Endpoint == Ws \cup Addr     \* what a Reachable designates

Request == [from : Requester, target : Id, n : 1..MaxPunch]

ASSUME ConstantsAssumption ==
  /\ Ws \cap Tcp = {} /\ Ws \cap Addr = {} /\ Tcp \cap Addr = {}
  /\ Requester \subseteq Conn
  /\ None \notin Conn \cup Endpoint \cup Id \cup Request
  /\ MaxPunch \in Nat /\ MaxOutbox \in Nat

Answer == [type : {"RelayResponse"}, req : Request]
Message == [type : {"RegisterResponse"}, req : {None}]
             \cup [type : {"RequestRelay"}, req : Request] \cup Answer

VARIABLES
  registry,   \* peer id -> how to reach it
  pending,    \* target id -> the request waiting for that target
  pc,         \* where each connection's handler is
  my_id,      \* handle_ws: the id this connection registered last
  job,        \* the punch request the handler dispatched last
  reach,      \* dispatch_punch: the Reachable it looked up
  punched,    \* number of punch requests read from the connection
  outbox,     \* the connection's unbounded channel
  writer,     \* handle_ws: is the writer task still receiving
  up,         \* is the client still connected
  net,        \* RequestRelay datagrams in flight to native clients
  asked,      \* RequestRelay a client has received and not acknowledged yet
  forwarded,  \* history: requests whose RequestRelay was sent
  acked,      \* history: requests whose target sent RelayResponse
  answered,   \* history: requests that were popped and sent RelayResponse
  received    \* history: requests whose RelayResponse reached the client

server == <<registry, pending, pc, my_id, job, reach, punched, outbox, writer>>
history == <<forwarded, acked, answered, received>>
vars == <<server, up, net, asked, history>>

Handling == {"reply", "push", "insert"}
WsPc == {"new", "read", "join", "done"} \cup Handling
TcpPc == {"new", "first", "push", "insert", "await", "done"}

TypeOK ==
  /\ registry \in [Id -> Endpoint \cup {None}]
  /\ pending \in [Id -> Request \cup {None}]
  /\ pc \in [Conn -> WsPc \cup TcpPc]
  /\ \A w \in Ws : pc[w] \in WsPc
  /\ \A t \in Tcp : pc[t] \in TcpPc
  /\ my_id \in [Ws -> Id \cup {None}]
  /\ job \in [Conn -> Request \cup {None}]
  /\ reach \in [Conn -> Endpoint \cup {None}]
  /\ punched \in [Conn -> 0..MaxPunch]
  /\ outbox \in [Conn -> Seq(Message)]
  /\ \A t \in Tcp : outbox[t] \in Seq(Answer)
  /\ writer \in [Ws -> BOOLEAN]
  /\ up \in [Conn -> BOOLEAN]
  /\ net \subseteq Addr \X Request
  /\ asked \in [Endpoint -> SUBSET Request]
  /\ forwarded \subseteq Request /\ acked \subseteq Request
  /\ answered \subseteq Request /\ received \subseteq Request

Init ==
  /\ registry = [id \in Id |-> None]
  /\ pending = [id \in Id |-> None]
  /\ pc = [c \in Conn |-> "new"]
  /\ my_id = [w \in Ws |-> None]
  /\ job = [c \in Conn |-> None]
  /\ reach = [c \in Conn |-> None]
  /\ punched = [c \in Conn |-> 0]
  /\ outbox = [c \in Conn |-> << >>]
  /\ writer = [w \in Ws |-> TRUE]
  /\ up = [c \in Conn |-> FALSE]
  /\ net = {} /\ asked = [e \in Endpoint |-> {}]
  /\ forwarded = {} /\ acked = {} /\ answered = {} /\ received = {}
-----------------------------------------------------------------------------
(* Channels and tasks.                                                     *)

\* The receiver is gone once the writer task or the TCP handler has ended.
Listening(c) == IF c \in Ws THEN writer[c] ELSE pc[c] # "done"

\* tx.send: the error for a dropped receiver is ignored by every caller.
Send(c, m) ==
  outbox' = IF Listening(c) THEN [outbox EXCEPT ![c] = Append(@, m)] ELSE outbox

\* Fault: a TCP handler that does not wait.
ResumeNoWait(c) == IF c \in Ws THEN "read" ELSE "done"

\* Where a handler goes on after a message: the WS loop reads the next frame,
\* the TCP handler waits for the single server-side push.
Resume(c) == IF c \in Ws THEN "read" ELSE "await"

\* Fault: drop(tx) forgotten before writer.await.
SenderKept(w) == pc[w] # "done"

\* Some clone of w's sender exists: the handler's own until it drops it, a
\* registry entry, a pending entry, or a Reachable that a dispatch looked up.
SenderAlive(w) ==
  \/ pc[w] \notin {"join", "done"}
  \/ \E id \in Id : registry[id] = w
  \/ \E id \in Id : pending[id] # None /\ pending[id].from = w
  \/ \E c \in Conn : reach[c] = w
-----------------------------------------------------------------------------
(* The registry.                                                           *)

Upsert(id, e) == registry' = [registry EXCEPT ![id] = e]

\* Faults: the channel comparison forgotten, or inverted.
RemoveAny(id, w) ==
  registry' = IF id # None THEN [registry EXCEPT ![id] = None] ELSE registry
RemoveIfNotWs(id, w) ==
  registry' = IF id # None /\ registry[id] # w
              THEN [registry EXCEPT ![id] = None] ELSE registry

RemoveIfWs(id, w) ==
  registry' = IF id # None /\ registry[id] = w
              THEN [registry EXCEPT ![id] = None] ELSE registry
-----------------------------------------------------------------------------
(* Clients.                                                                *)

Accept(c) ==
  /\ pc[c] = "new"
  /\ pc' = [pc EXCEPT ![c] = IF c \in Ws THEN "read" ELSE "first"]
  /\ up' = [up EXCEPT ![c] = TRUE]
  /\ UNCHANGED <<registry, pending, my_id, job, reach, punched, outbox, writer,
                 net, asked, history>>

\* The client goes away, after everything it sent has been read.
Disconnect(c) ==
  /\ up[c]
  /\ up' = [up EXCEPT ![c] = FALSE]
  /\ UNCHANGED <<server, net, asked, history>>

\* UDP may deliver a datagram, deliver it and keep a duplicate, or lose it.
UdpDeliver(a, q) ==
  /\ <<a, q>> \in net
  /\ asked' = [asked EXCEPT ![a] = @ \cup {q}]
  /\ net' \in {net, net \ {<<a, q>>}}
  /\ UNCHANGED <<server, up, history>>

UdpLose(a, q) ==
  /\ <<a, q>> \in net
  /\ net' = net \ {<<a, q>>}
  /\ UNCHANGED <<server, up, asked, history>>
-----------------------------------------------------------------------------
(* Registration.                                                           *)

\* udp_loop, RegisterPeer.  The reply datagram changes nothing here.
UdpRegisterPeer(a, id) ==
  /\ Upsert(id, a)
  /\ UNCHANGED <<pending, pc, my_id, job, reach, punched, outbox, writer,
                 up, net, asked, history>>

\* handle_ws, RegisterPeer, and RegisterPk that names an id.
WsRegister(w, id) ==
  /\ pc[w] = "read" /\ up[w] /\ Len(outbox[w]) < MaxOutbox
  /\ Upsert(id, w)
  /\ my_id' = [my_id EXCEPT ![w] = id]
  /\ pc' = [pc EXCEPT ![w] = "reply"]
  /\ UNCHANGED <<pending, job, reach, punched, outbox, writer,
                 up, net, asked, history>>

\* handle_ws, RegisterPk with an empty id: only the reply.
WsRegisterPkNoId(w) ==
  /\ pc[w] = "read" /\ up[w] /\ Len(outbox[w]) < MaxOutbox
  /\ pc' = [pc EXCEPT ![w] = "reply"]
  /\ UNCHANGED <<registry, pending, my_id, job, reach, punched, outbox, writer,
                 up, net, asked, history>>

WsReply(w) ==
  /\ pc[w] = "reply"
  /\ Send(w, [type |-> "RegisterResponse", req |-> None])
  /\ pc' = [pc EXCEPT ![w] = "read"]
  /\ UNCHANGED <<registry, pending, my_id, job, reach, punched, writer,
                 up, net, asked, history>>
-----------------------------------------------------------------------------
(* dispatch_punch.                                                         *)

\* Read PunchHoleRequest and look its target up.  An offline target ends the
\* dispatch, whatever the handler does next.
Lookup(c, id) ==
  /\ c \in Requester
  /\ pc[c] \in {"read", "first"} /\ up[c] /\ punched[c] < MaxPunch
  /\ punched' = [punched EXCEPT ![c] = @ + 1]
  /\ job' = [job EXCEPT ![c] = [from |-> c, target |-> id, n |-> punched[c] + 1]]
  /\ reach' = [reach EXCEPT ![c] = registry[id]]
  /\ pc' = [pc EXCEPT ![c] = IF registry[id] = None THEN Resume(c) ELSE "push"]
  /\ UNCHANGED <<registry, pending, my_id, outbox, writer, up, net, asked, history>>

\* Send RequestRelay to the Reachable that was looked up, stale or not.
Push(c) ==
  /\ pc[c] = "push"
  /\ IF reach[c] \in Ws
     THEN /\ Send(reach[c], [type |-> "RequestRelay", req |-> job[c]])
          /\ UNCHANGED net
     ELSE /\ net' = net \cup {<<reach[c], job[c]>>}
          /\ UNCHANGED outbox
  /\ reach' = [reach EXCEPT ![c] = None]
  /\ pc' = [pc EXCEPT ![c] = "insert"]
  /\ forwarded' = forwarded \cup {job[c]}
  /\ UNCHANGED <<registry, pending, my_id, job, punched, writer, up, asked,
                 acked, answered, received>>

\* Insert the requester under its target, over whoever waited there.
Insert(c) ==
  /\ pc[c] = "insert"
  /\ pending' = [pending EXCEPT ![job[c].target] = job[c]]
  /\ pc' = [pc EXCEPT ![c] = Resume(c)]
  /\ UNCHANGED <<registry, my_id, job, reach, punched, outbox, writer,
                 up, net, asked, history>>
-----------------------------------------------------------------------------
(* dispatch_relay_ack: one arbitrary pending requester is popped and told. *)

\* Fault: the requester is read from the table and not removed.
AckKeepsEntry ==
  \/ /\ \A id \in Id : pending[id] = None
     /\ UNCHANGED <<pending, outbox, answered>>
  \/ \E id \in Id :
       /\ pending[id] # None
       /\ UNCHANGED pending
       /\ Send(pending[id].from, [type |-> "RelayResponse", req |-> pending[id]])
       /\ answered' = answered \cup {pending[id]}

DispatchRelayAck ==
  \/ /\ \A id \in Id : pending[id] = None
     /\ UNCHANGED <<pending, outbox, answered>>
  \/ \E id \in Id :
       /\ pending[id] # None
       /\ pending' = [pending EXCEPT ![id] = None]
       /\ Send(pending[id].from, [type |-> "RelayResponse", req |-> pending[id]])
       /\ answered' = answered \cup {pending[id]}

\* The client behind endpoint e acknowledges the RequestRelay it got for q.
Acknowledge(e, q) ==
  /\ q \in asked[e]
  /\ asked' = [asked EXCEPT ![e] = @ \ {q}]
  /\ acked' = acked \cup {q}
  /\ DispatchRelayAck
  /\ UNCHANGED <<registry, my_id, job, reach, punched, writer, up, net,
                 forwarded, received>>

WsRelayResponse(w, q) ==
  /\ pc[w] = "read" /\ up[w]
  /\ Acknowledge(w, q)
  /\ UNCHANGED pc

\* A native client answers on a TCP connection of its own, which then closes.
TcpRelayResponse(t, a, q) ==
  /\ pc[t] = "first" /\ up[t]
  /\ Acknowledge(a, q)
  /\ pc' = [pc EXCEPT ![t] = "done"]
-----------------------------------------------------------------------------
(* The end of a TCP handler.                                               *)

\* No first frame within 15 s, end of stream, a frame that does not decode,
\* or a message the TCP path ignores.
TcpGiveUp(t) ==
  /\ pc[t] = "first"
  /\ pc' = [pc EXCEPT ![t] = "done"]
  /\ UNCHANGED <<registry, pending, my_id, job, reach, punched, outbox, writer,
                 up, net, asked, history>>

\* The single push is written and the connection closed.
TcpForward(t) ==
  /\ pc[t] = "await" /\ outbox[t] # << >>
  /\ received' = IF up[t] THEN received \cup {Head(outbox[t]).req} ELSE received
  /\ outbox' = [outbox EXCEPT ![t] = << >>]
  /\ pc' = [pc EXCEPT ![t] = "done"]
  /\ UNCHANGED <<registry, pending, my_id, job, reach, punched, writer,
                 up, net, asked, forwarded, acked, answered>>
-----------------------------------------------------------------------------
(* The writer task and the end of a WebSocket handler.                     *)

WriterSend(w) ==
  /\ writer[w] /\ outbox[w] # << >> /\ up[w]
  /\ outbox' = [outbox EXCEPT ![w] = Tail(@)]
  /\ LET m == Head(outbox[w]) IN
       /\ asked' = IF m.type = "RequestRelay"
                   THEN [asked EXCEPT ![w] = @ \cup {m.req}] ELSE asked
       /\ received' = IF m.type = "RelayResponse"
                      THEN received \cup {m.req} ELSE received
  /\ UNCHANGED <<registry, pending, pc, my_id, job, reach, punched, writer,
                 up, net, forwarded, acked, answered>>

\* Writing to a client that is gone fails, and the task drops its receiver...
WriterFail(w) ==
  /\ writer[w] /\ outbox[w] # << >> /\ ~up[w]
  /\ writer' = [writer EXCEPT ![w] = FALSE]
  /\ outbox' = [outbox EXCEPT ![w] = << >>]
  /\ UNCHANGED <<registry, pending, pc, my_id, job, reach, punched,
                 up, net, asked, history>>

\* ...or is still buffered by the kernel, and the frame is lost.
WriterLose(w) ==
  /\ writer[w] /\ outbox[w] # << >> /\ ~up[w]
  /\ outbox' = [outbox EXCEPT ![w] = Tail(@)]
  /\ UNCHANGED <<registry, pending, pc, my_id, job, reach, punched, writer,
                 up, net, asked, history>>

\* rx.recv() returns None: the queue is empty and the last sender dropped.
WriterEnd(w) ==
  /\ writer[w] /\ outbox[w] = << >> /\ ~SenderAlive(w)
  /\ writer' = [writer EXCEPT ![w] = FALSE]
  /\ UNCHANGED <<registry, pending, pc, my_id, job, reach, punched, outbox,
                 up, net, asked, history>>

\* The reader sees the end of the stream, unregisters its id and drops tx.
WsClose(w) ==
  /\ pc[w] = "read" /\ ~up[w]
  /\ RemoveIfWs(my_id[w], w)
  /\ pc' = [pc EXCEPT ![w] = "join"]
  /\ UNCHANGED <<pending, my_id, job, reach, punched, outbox, writer,
                 up, net, asked, history>>

\* writer.await
WsJoin(w) ==
  /\ pc[w] = "join" /\ ~writer[w]
  /\ pc' = [pc EXCEPT ![w] = "done"]
  /\ UNCHANGED <<registry, pending, my_id, job, reach, punched, outbox, writer,
                 up, net, asked, history>>
-----------------------------------------------------------------------------
Writer(w) == WriterSend(w) \/ WriterFail(w) \/ WriterLose(w) \/ WriterEnd(w)

\* The steps a handler takes without further input from its client.
HandlerStep(c) ==
  \/ Push(c) \/ Insert(c)
  \/ c \in Ws /\ (WsReply(c) \/ WsClose(c) \/ WsJoin(c))
  \/ c \in Tcp /\ (TcpGiveUp(c) \/ TcpForward(c))

Client(c) ==
  \/ Accept(c) \/ Disconnect(c)
  \/ \E id \in Id : Lookup(c, id)
  \/ c \in Ws /\ \/ \E id \in Id : WsRegister(c, id)
                 \/ WsRegisterPkNoId(c)
                 \/ \E q \in asked[c] : WsRelayResponse(c, q)
  \/ c \in Tcp /\ \E a \in Addr : \E q \in asked[a] : TcpRelayResponse(c, a, q)

Udp(a) ==
  \/ \E id \in Id : UdpRegisterPeer(a, id)
  \/ \E q \in Request : UdpDeliver(a, q) \/ UdpLose(a, q)

Next ==
  \/ \E c \in Conn : Client(c) \/ HandlerStep(c)
  \/ \E w \in Ws : Writer(w)
  \/ \E a \in Addr : Udp(a)

\* The runtime polls every task that can go on; clients owe nothing.
Fairness == /\ \A c \in Conn : WF_vars(HandlerStep(c))
            /\ \A w \in Ws : WF_vars(Writer(w))

Spec == Init /\ [][Next]_vars /\ Fairness
-----------------------------------------------------------------------------
(* Properties.                                                             *)

\* How far a request has got, as PunchBroker sees it.
PunchStage(q) ==
  IF q \notin forwarded THEN "idle"
  ELSE IF pending[q.target] = q THEN "waiting"
  ELSE IF q \in answered THEN "answered"
  ELSE IF pc[q.from] = "insert" /\ job[q.from] = q THEN "asked"
  ELSE "superseded"

Broker == INSTANCE PunchBroker
            WITH TargetOf <- [q \in Request |-> q.target],
                 stage <- [q \in Request |-> PunchStage(q)]

\* dispatch_punch and dispatch_relay_ack, however their steps interleave,
\* implement the broker: a requester waits only once its target was asked, is
\* answered at most once, and leaves the table by an answer or by a later
\* requester of the same target.
ImplementsPunchBroker == Broker!Spec

\* remove_if_ws: an id that was reachable becomes unreachable only when the
\* connection it points to closes.  The late cleanup of an older connection
\* never removes the registration that replaced it.
UnregisteredOnlyByOwnClose ==
  [][\A id \in Id : registry[id] # None /\ registry'[id] = None =>
       /\ registry[id] \in Ws
       /\ pc[registry[id]] = "read" /\ pc'[registry[id]] = "join"]_vars

\* A requester that was popped from the table and is still connected gets the
\* RelayResponse, over the writer task or as the TCP handler's single push.
AnswersAreDelivered ==
  \A q \in Request : q \in answered ~> q \in received \/ ~up[q.from]

\* A closed connection does not stay reachable under the id it last registered.
ClosedPeersUnregister ==
  \A w \in Ws : (pc[w] # "new" /\ ~up[w])
                  ~> (my_id[w] = None \/ registry[my_id[w]] # w)

\* A closing handle_ws waits for its writer for ever only if somebody else
\* keeps a clone of its sender: a stale registry entry or a pending request.
\* In particular it never waits for the sender it holds itself.
CloseBlockedOnlyByClones ==
  \A w \in Ws : <>[](pc[w] = "join") =>
    <>[](\E id \in Id : \/ registry[id] = w
                        \/ (pending[id] # None /\ pending[id].from = w))

\* smoke_ws_punch.py: the target acknowledges, the requester receives
\* RelayResponse.  Once the dispatch of an acknowledged request is over, that
\* request has been answered.
AckAnswersRequester ==
  \A q \in acked : q \in answered \/ (pc[q.from] = "insert" /\ job[q.from] = q)
=============================================================================
