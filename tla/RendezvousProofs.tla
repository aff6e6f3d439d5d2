-------------------------- MODULE RendezvousProofs --------------------------
(***************************************************************************)
(* Proofs about Rendezvous, for every set of connections, addresses, ids   *)
(* and requesters and every bound.                                         *)
(***************************************************************************)
EXTENDS Rendezvous, TLAPS

\* A handler inside dispatch_punch holds the request it read last, and before
\* the push the Reachable it looked up.
DispatchOK ==
  \A c \in Conn :
    /\ pc[c] \in {"push", "insert"} =>
         /\ c \in Requester /\ job[c] \in Request
         /\ job[c].from = c /\ job[c].n = punched[c]
    /\ pc[c] = "push" => reach[c] \in Endpoint

TypeInv == TypeOK /\ DispatchOK

\* Send appends to one queue, or drops the message.
LEMMA SendType ==
  ASSUME TypeOK, NEW c \in Conn, NEW m \in Message, Send(c, m),
         c \in Ws \/ m \in Answer
  PROVE  /\ outbox' \in [Conn -> Seq(Message)]
         /\ \A t \in Tcp : outbox'[t] \in Seq(Answer)
<1>1. CASE outbox' = outbox
  BY <1>1 DEF TypeOK
<1>2. CASE outbox' = [outbox EXCEPT ![c] = Append(@, m)]
  <2>1. Append(outbox[c], m) \in Seq(Message)
    BY DEF TypeOK
  <2>2. outbox' \in [Conn -> Seq(Message)]
    BY <1>2, <2>1 DEF TypeOK
  <2>3. ASSUME NEW t \in Tcp PROVE outbox'[t] \in Seq(Answer)
    <3>1. outbox[t] \in Seq(Answer) /\ outbox \in [Conn -> Seq(Message)] /\ t \in Conn
      BY DEF TypeOK, Conn
    <3>2. CASE c = t
      <4>1. m \in Answer
        BY <3>2, ConstantsAssumption
      <4>2. Append(outbox[t], m) \in Seq(Answer)
        BY <3>1, <4>1
      <4> QED
        BY <1>2, <3>1, <3>2, <4>2
    <3>3. CASE c # t
      BY <1>2, <3>1, <3>3
    <3> QED
      BY <3>2, <3>3
  <2> QED
    BY <2>2, <2>3
<1> QED
  BY <1>1, <1>2 DEF Send

\* The steps of dispatch_punch and of its reply keep the types.
LEMMA DispatchType ==
  ASSUME TypeInv, NEW c \in Conn,
         \/ \E id \in Id : Lookup(c, id)
         \/ Push(c)
         \/ Insert(c)
  PROVE  TypeInv'
<1> USE ConstantsAssumption DEF TypeInv
<1>1. ASSUME NEW id \in Id, Lookup(c, id) PROVE TypeInv'
  <2> DEFINE q == [from |-> c, target |-> id, n |-> punched[c] + 1]
  <2>1. punched[c] + 1 \in 1..MaxPunch /\ c \in Requester
    BY <1>1 DEF Lookup, TypeOK
  <2>2. q \in Request /\ q.from = c /\ q.n = punched[c] + 1
    BY <2>1 DEF Request
  <2>3. job' = [job EXCEPT ![c] = q]
    BY <1>1 DEF Lookup
  <2> HIDE DEF q
  <2>4. TypeOK'
    BY <1>1, <2>1, <2>2, <2>3
    DEF Lookup, TypeOK, WsPc, TcpPc, Handling, Resume, Conn, Endpoint, history
  <2>5. DispatchOK'
    BY <1>1, <2>1, <2>2, <2>3 DEF Lookup, TypeOK, DispatchOK, Resume
  <2> QED
    BY <2>4, <2>5
<1>2. CASE Push(c)
  <2> DEFINE m == [type |-> "RequestRelay", req |-> job[c]]
  <2>1. job[c] \in Request /\ reach[c] \in Endpoint
    BY <1>2 DEF Push, DispatchOK
  <2>2. m \in Message
    BY <2>1 DEF Message
  <2>3. /\ outbox' \in [Conn -> Seq(Message)]
        /\ \A t \in Tcp : outbox'[t] \in Seq(Answer)
    <3>1. CASE reach[c] \in Ws
      BY <1>2, <2>2, <3>1, SendType DEF Push, Conn
    <3>2. CASE reach[c] \notin Ws
      BY <1>2, <3>2 DEF Push, TypeOK
    <3> QED
      BY <3>1, <3>2
  <2>4. net' \subseteq Addr \X Request
    BY <1>2, <2>1 DEF Push, TypeOK, Endpoint
  <2>5. /\ pc' \in [Conn -> WsPc \cup TcpPc]
        /\ \A w \in Ws : pc'[w] \in WsPc
        /\ \A t \in Tcp : pc'[t] \in TcpPc
    BY <1>2 DEF Push, TypeOK, WsPc, TcpPc, Handling
  <2>6. forwarded' \subseteq Request /\ reach' \in [Conn -> Endpoint \cup {None}]
    BY <1>2, <2>1 DEF Push, TypeOK
  <2>7. TypeOK'
    BY <1>2, <2>3, <2>4, <2>5, <2>6 DEF Push, TypeOK
  <2>8. DispatchOK'
    BY <1>2 DEF Push, TypeOK, DispatchOK
  <2> QED
    BY <2>7, <2>8
<1>3. CASE Insert(c)
  <2>1. job[c] \in Request /\ job[c].target \in Id
    BY <1>3 DEF Insert, DispatchOK, Request
  <2>2. TypeOK'
    BY <1>3, <2>1 DEF Insert, TypeOK, WsPc, TcpPc, Resume, Conn, history
  <2>3. DispatchOK'
    BY <1>3 DEF Insert, TypeOK, DispatchOK, Resume
  <2> QED
    BY <2>2, <2>3
<1> QED
  BY <1>1, <1>2, <1>3

\* Popping a requester keeps the types, whichever entry is popped.
LEMMA AcknowledgeType ==
  ASSUME TypeOK, NEW e \in Endpoint, NEW q \in asked[e], Acknowledge(e, q)
  PROVE  /\ pending' \in [Id -> Request \cup {None}]
         /\ outbox' \in [Conn -> Seq(Message)]
         /\ \A t \in Tcp : outbox'[t] \in Seq(Answer)
         /\ asked' \in [Endpoint -> SUBSET Request]
         /\ answered' \subseteq Request /\ acked' \subseteq Request
<1>1. q \in Request
  BY DEF TypeOK
<1>2. asked' \in [Endpoint -> SUBSET Request] /\ acked' \subseteq Request
  BY <1>1 DEF Acknowledge, TypeOK
<1>3. CASE UNCHANGED <<pending, outbox, answered>>
  BY <1>2, <1>3 DEF TypeOK
<1>4. ASSUME NEW id \in Id, pending[id] # None,
             pending' = [pending EXCEPT ![id] = None],
             Send(pending[id].from, [type |-> "RelayResponse", req |-> pending[id]]),
             answered' = answered \cup {pending[id]}
      PROVE  /\ pending' \in [Id -> Request \cup {None}]
             /\ outbox' \in [Conn -> Seq(Message)]
             /\ \A t \in Tcp : outbox'[t] \in Seq(Answer)
             /\ answered' \subseteq Request
  <2> DEFINE m == [type |-> "RelayResponse", req |-> pending[id]]
  <2>1. pending[id] \in Request
    BY <1>4 DEF TypeOK
  <2>2. pending[id].from \in Conn
    BY <2>1, ConstantsAssumption DEF Request
  <2>3. m \in Message /\ m \in Answer
    BY <2>1 DEF Message, Answer
  <2>4. /\ outbox' \in [Conn -> Seq(Message)]
        /\ \A t \in Tcp : outbox'[t] \in Seq(Answer)
    BY <1>4, <2>2, <2>3, SendType
  <2> QED
    BY <1>4, <2>1, <2>4 DEF TypeOK
<1> QED
  BY <1>2, <1>3, <1>4 DEF Acknowledge, DispatchRelayAck

\* TypeInv is inductive.
LEMMA TypeInvariant == Spec => []TypeInv
<1> USE ConstantsAssumption DEF TypeInv
<1>1. Init => TypeInv
  BY DEF Init, TypeOK, DispatchOK, WsPc, TcpPc, Handling, Conn, Endpoint
<1>2. TypeInv /\ [Next]_vars => TypeInv'
  <2> SUFFICES ASSUME TypeInv, [Next]_vars PROVE TypeInv'
    OBVIOUS
  <2> USE DEF TypeOK, DispatchOK, WsPc, TcpPc, Handling, Conn, history
  <2>1. ASSUME NEW c \in Conn, Accept(c) PROVE TypeInv'
    BY <2>1 DEF Accept
  <2>2. ASSUME NEW c \in Conn, Disconnect(c) PROVE TypeInv'
    BY <2>2 DEF Disconnect, server
  <2>3. ASSUME NEW c \in Conn, (\E id \in Id : Lookup(c, id)) \/ Push(c) \/ Insert(c)
        PROVE TypeInv'
    <3> HIDE DEF TypeInv
    <3> QED BY <2>3, DispatchType
  <2>4. ASSUME NEW w \in Ws, NEW id \in Id, WsRegister(w, id) PROVE TypeInv'
    BY <2>4 DEF WsRegister, Upsert, Endpoint
  <2>5. ASSUME NEW w \in Ws, WsRegisterPkNoId(w) PROVE TypeInv'
    BY <2>5 DEF WsRegisterPkNoId
  <2>6. ASSUME NEW w \in Ws, WsReply(w) PROVE TypeInv'
    <3>1. [type |-> "RegisterResponse", req |-> None] \in Message
      BY DEF Message
    <3>2. /\ outbox' \in [Conn -> Seq(Message)]
          /\ \A t \in Tcp : outbox'[t] \in Seq(Answer)
      BY <2>6, <3>1, SendType DEF WsReply
    <3> QED
      BY <2>6, <3>2 DEF WsReply
  <2>7. ASSUME NEW w \in Ws, NEW q \in asked[w], WsRelayResponse(w, q)
        PROVE TypeInv'
    BY <2>7, AcknowledgeType DEF WsRelayResponse, Acknowledge, Endpoint
  <2>8. ASSUME NEW t \in Tcp, NEW a \in Addr, NEW q \in asked[a],
               TcpRelayResponse(t, a, q)
        PROVE TypeInv'
    BY <2>8, AcknowledgeType DEF TcpRelayResponse, Acknowledge, Endpoint
  <2>9. ASSUME NEW t \in Tcp, TcpGiveUp(t) PROVE TypeInv'
    BY <2>9 DEF TcpGiveUp
  <2>10. ASSUME NEW t \in Tcp, TcpForward(t) PROVE TypeInv'
    <3>1. Head(outbox[t]) \in Answer
      BY <2>10 DEF TcpForward
    <3>2. received' \subseteq Request
      BY <2>10, <3>1 DEF TcpForward, Answer
    <3> QED
      BY <2>10, <3>2 DEF TcpForward
  <2>11. ASSUME NEW w \in Ws, Writer(w) PROVE TypeInv'
    <3>1. outbox[w] \in Seq(Message)
      OBVIOUS
    <3>2. CASE WriterSend(w)
      <4>1. Head(outbox[w]) \in Message /\ Tail(outbox[w]) \in Seq(Message)
        BY <3>1, <3>2 DEF WriterSend
      <4>2. asked' \in [Endpoint -> SUBSET Request] /\ received' \subseteq Request
        BY <3>2, <4>1, ZenonT(60) DEF WriterSend, Message, Answer
      <4> QED
        BY <3>2, <4>1, <4>2 DEF WriterSend
    <3>3. CASE WriterFail(w)
      BY <3>3 DEF WriterFail
    <3>4. CASE WriterLose(w)
      <4>1. Tail(outbox[w]) \in Seq(Message)
        BY <3>1, <3>4 DEF WriterLose
      <4> QED
        BY <3>4, <4>1 DEF WriterLose
    <3>5. CASE WriterEnd(w)
      BY <3>5 DEF WriterEnd
    <3> QED
      BY <2>11, <3>2, <3>3, <3>4, <3>5 DEF Writer
  <2>12. ASSUME NEW w \in Ws, WsClose(w) PROVE TypeInv'
    BY <2>12 DEF WsClose, RemoveIfWs
  <2>13. ASSUME NEW w \in Ws, WsJoin(w) PROVE TypeInv'
    BY <2>13 DEF WsJoin
  <2>14. ASSUME NEW a \in Addr, Udp(a) PROVE TypeInv'
    <3>1. a \in Endpoint
      BY DEF Endpoint
    <3>2. ASSUME NEW id \in Id, UdpRegisterPeer(a, id) PROVE TypeInv'
      BY <3>1, <3>2 DEF UdpRegisterPeer, Upsert
    <3>3. ASSUME NEW q \in Request, UdpDeliver(a, q) PROVE TypeInv'
      BY <3>1, <3>3 DEF UdpDeliver, server
    <3>4. ASSUME NEW q \in Request, UdpLose(a, q) PROVE TypeInv'
      BY <3>4 DEF UdpLose, server
    <3> QED
      BY <2>14, <3>2, <3>3, <3>4 DEF Udp
  <2>15. CASE UNCHANGED vars
    BY <2>15 DEF vars, server
  <2> HIDE DEF TypeInv, TypeOK, DispatchOK, WsPc, TcpPc, Handling, Conn, history
  <2>16. ASSUME NEW c \in Conn, Client(c) PROVE TypeInv'
    BY <2>1, <2>2, <2>3, <2>4, <2>5, <2>7, <2>8, <2>16 DEF Client
  <2>17. ASSUME NEW c \in Conn, HandlerStep(c) PROVE TypeInv'
    BY <2>3, <2>6, <2>9, <2>10, <2>12, <2>13, <2>17 DEF HandlerStep
  <2> QED
    BY <2>11, <2>14, <2>15, <2>16, <2>17 DEF Next
<1> QED
  BY <1>1, <1>2, PTL DEF Spec

\* Type correctness: each task stays within the control points of its handler
\* and the tables hold what the code puts into them.  A TCP queue holds nothing
\* but RelayResponse, the single push handle_tcp waits for.
THEOREM TypeCorrect == Spec => []TypeOK
BY TypeInvariant, PTL DEF TypeInv
-----------------------------------------------------------------------------
(* The registry.                                                           *)

\* remove_if_ws: only the close of the very connection an id points to makes
\* that id unreachable.  No other step of any task does, and an upsert never
\* stores the absent value.
THEOREM OnlyOwnCloseUnregisters == Spec => UnregisteredOnlyByOwnClose
<1>1. ASSUME TypeInv, [Next]_vars, NEW id \in Id,
             registry[id] # None, registry'[id] = None
      PROVE  /\ registry[id] \in Ws
             /\ pc[registry[id]] = "read" /\ pc'[registry[id]] = "join"
  <2> USE <1>1
  <2>1. ASSUME NEW w \in Ws, WsClose(w)
        PROVE  /\ registry[id] \in Ws
               /\ pc[registry[id]] = "read" /\ pc'[registry[id]] = "join"
    <3>1. my_id[w] \in Id /\ id = my_id[w] /\ registry[id] = w
      BY <2>1 DEF WsClose, RemoveIfWs, TypeInv, TypeOK
    <3> QED
      BY <2>1, <3>1 DEF WsClose, TypeInv, TypeOK, Conn
  <2>2. ASSUME NEW e \in Endpoint, NEW i \in Id, Upsert(i, e) PROVE FALSE
    BY <2>2, ConstantsAssumption DEF Upsert, TypeInv, TypeOK
  <2>3. registry' # registry
    OBVIOUS
  <2>4. ASSUME NEW c \in Conn, Client(c) PROVE FALSE
    BY <2>2, <2>3, <2>4
    DEF Client, Accept, Disconnect, Lookup, WsRegister, WsRegisterPkNoId,
        WsRelayResponse, TcpRelayResponse, Acknowledge, server, Endpoint
  <2>5. ASSUME NEW c \in Conn, HandlerStep(c) PROVE c \in Ws /\ WsClose(c)
    BY <2>3, <2>5
    DEF HandlerStep, Push, Insert, WsReply, WsJoin, TcpGiveUp, TcpForward
  <2>6. ASSUME NEW w \in Ws, Writer(w) PROVE FALSE
    BY <2>3, <2>6 DEF Writer, WriterSend, WriterFail, WriterLose, WriterEnd
  <2>7. ASSUME NEW a \in Addr, Udp(a) PROVE FALSE
    BY <2>2, <2>3, <2>7
    DEF Udp, UdpRegisterPeer, UdpDeliver, UdpLose, server, Endpoint
  <2>8. ~UNCHANGED vars
    BY <2>3 DEF vars, server
  <2> QED
    BY <2>1, <2>4, <2>5, <2>6, <2>7, <2>8 DEF Next
<1>2. TypeInv /\ [Next]_vars =>
        [\A id \in Id : registry[id] # None /\ registry'[id] = None =>
           /\ registry[id] \in Ws
           /\ pc[registry[id]] = "read" /\ pc'[registry[id]] = "join"]_vars
  BY <1>1
<1> QED
  BY <1>2, TypeInvariant, PTL DEF Spec, UnregisteredOnlyByOwnClose
-----------------------------------------------------------------------------
(* The punch table implements PunchBroker.                                 *)

\* Where each request is.  The strengthening that makes the refinement hold
\* step by step: a request is in one place, the place it is in says whether
\* its target was asked, and no request number is used twice.
RequestOK ==
  /\ \A c \in Conn : pc[c] = "push" => job[c] \notin forwarded
  /\ \A c \in Conn : pc[c] = "insert" =>
       /\ job[c] \in forwarded \ answered
       /\ pending[job[c].target] # job[c]
  /\ \A q \in forwarded : q.n <= punched[q.from]
  /\ \A id \in Id : pending[id] # None =>
       /\ pending[id].target = id
       /\ pending[id] \in forwarded \ answered
  /\ answered \subseteq forwarded

BrokerInv == TypeInv /\ RequestOK

stage == [q \in Request |-> PunchStage(q)]

\* A step that leaves the punch table, the requests and dispatch_punch alone.
Quiet ==
  /\ UNCHANGED <<pending, forwarded, answered, punched, job>>
  /\ \A c \in Conn : pc'[c] # pc[c] =>
       pc[c] \notin {"push", "insert"} /\ pc'[c] \notin {"push", "insert"}

LEMMA QuietStep ==
  ASSUME BrokerInv, Quiet
  PROVE  RequestOK' /\ stage' = stage
<1>1. RequestOK'
  BY DEF BrokerInv, TypeInv, Quiet, RequestOK
<1>2. \A c \in Conn : pc[c] = "insert" <=> pc'[c] = "insert"
  BY DEF Quiet
<1>3. \A q \in Request : q.from \in Conn
  BY ConstantsAssumption DEF Request
<1>4. ASSUME NEW q \in Request PROVE PunchStage(q)' = PunchStage(q)
  BY <1>2, <1>3 DEF Quiet, PunchStage
<1> QED
  BY <1>1, <1>4 DEF stage

\* Reading a request uses a fresh number, so nothing was forwarded for it.
LEMMA LookupStep ==
  ASSUME BrokerInv, TypeInv', NEW c \in Conn, NEW id \in Id, Lookup(c, id)
  PROVE  RequestOK' /\ stage' = stage
<1> USE DEF BrokerInv, TypeInv
<1>1. /\ UNCHANGED <<pending, forwarded, answered>>
      /\ job'[c] = [from |-> c, target |-> id, n |-> punched[c] + 1]
      /\ punched'[c] = punched[c] + 1 /\ punched[c] \in Nat
      /\ pc'[c] # "insert" /\ pc[c] # "insert"
      /\ \A d \in Conn \ {c} : /\ pc'[d] = pc[d] /\ job'[d] = job[d]
                               /\ punched'[d] = punched[d]
  BY DEF Lookup, TypeOK, Resume, history
<1>2. job'[c] \notin forwarded
  BY <1>1 DEF RequestOK
<1>3. \A q \in forwarded : q.from \in Conn /\ q.n \in Nat
  BY ConstantsAssumption DEF TypeOK, Request
<1>4. \A q \in forwarded : q.n <= punched'[q.from]
  <2> SUFFICES ASSUME NEW q \in forwarded PROVE q.n <= punched'[q.from]
    OBVIOUS
  <2>1. q.n <= punched[q.from] /\ q.from \in Conn /\ q.n \in Nat
    BY <1>3 DEF RequestOK
  <2> QED
    BY <1>1, <2>1
<1>5. RequestOK'
  BY <1>1, <1>2, <1>4 DEF RequestOK
<1>6. ASSUME NEW q \in Request PROVE PunchStage(q)' = PunchStage(q)
  BY <1>1, ConstantsAssumption DEF PunchStage, Request
<1> QED
  BY <1>5, <1>6 DEF stage

\* The push asks the target.
LEMMA PushStep ==
  ASSUME BrokerInv, NEW c \in Conn, Push(c)
  PROVE  RequestOK' /\ Broker!Ask(job[c])
<1> USE DEF BrokerInv, TypeInv
<1> DEFINE q == job[c]
<1>1. /\ q \in Request /\ q.from = c /\ q.n = punched[c] /\ q \notin forwarded
      /\ punched[c] \in Nat
  BY DEF Push, DispatchOK, RequestOK, TypeOK
<1>2. /\ UNCHANGED <<pending, answered, punched, job>>
      /\ forwarded' = forwarded \cup {q}
      /\ pc' = [pc EXCEPT ![c] = "insert"] /\ pc[c] = "push"
  BY DEF Push
<1>3. pc'[c] = "insert" /\ \A d \in Conn \ {c} : pc'[d] = pc[d]
  BY <1>2 DEF TypeOK
<1>4. q.target \in Id /\ pending[q.target] # q /\ q \notin answered
  <2>1. q.target \in Id /\ q # None
    BY <1>1, ConstantsAssumption DEF Request
  <2> HIDE DEF q
  <2> QED
    BY <1>1, <2>1 DEF RequestOK
<1>5. RequestOK'
  <2>1. \A d \in Conn : pc'[d] = "push" => job'[d] \notin forwarded'
    <3> SUFFICES ASSUME NEW d \in Conn, pc'[d] = "push" PROVE job[d] \notin forwarded'
      BY <1>2
    <3>1. d # c /\ pc[d] = "push" /\ job[d].from = d /\ job[d] \notin forwarded
      BY <1>3 DEF DispatchOK, RequestOK
    <3> QED
      BY <1>1, <1>2, <3>1
  <2>2. \A d \in Conn : pc'[d] = "insert" =>
          /\ job'[d] \in forwarded' \ answered'
          /\ pending'[job'[d].target] # job'[d]
    BY <1>2, <1>3, <1>4 DEF RequestOK
  <2>3. \A p \in forwarded' : p.n <= punched'[p.from]
    BY <1>1, <1>2 DEF RequestOK
  <2> QED
    BY <1>2, <2>1, <2>2, <2>3 DEF RequestOK
<1>6. ASSUME NEW p \in Request
      PROVE  PunchStage(p)' = IF p = q THEN "asked" ELSE PunchStage(p)
  <2>1. p.from \in Conn
    BY ConstantsAssumption DEF Request
  <2> QED
    BY <1>1, <1>2, <1>3, <1>4, <2>1 DEF PunchStage
<1>7. PunchStage(q) = "idle"
  BY <1>1 DEF PunchStage
<1>8. Broker!Ask(q)
  <2> HIDE DEF q
  <2>1. [p \in Request |-> PunchStage(p)]'
          = [p \in Request |-> IF p = q THEN "asked" ELSE PunchStage(p)]
    BY <1>6
  <2> QED
    BY <1>1, <1>7, <2>1 DEF Broker!Ask
<1> QED
  BY <1>5, <1>8

\* The insertion makes the request wait and supersedes the one it replaces.
LEMMA InsertStep ==
  ASSUME BrokerInv, NEW c \in Conn, Insert(c)
  PROVE  RequestOK' /\ Broker!Wait(job[c])
<1> USE DEF BrokerInv, TypeInv
<1> DEFINE q == job[c]
<1>1. /\ q \in Request /\ q.from = c /\ q.target \in Id
      /\ q \in forwarded /\ q \notin answered /\ pending[q.target] # q
  BY DEF Insert, DispatchOK, RequestOK, Request
<1>2. /\ UNCHANGED <<forwarded, answered, punched, job>>
      /\ pending' = [pending EXCEPT ![q.target] = q]
      /\ pc[c] = "insert" /\ pc' = [pc EXCEPT ![c] = Resume(c)]
  BY DEF Insert, history
<1>3. /\ pc'[c] \notin {"push", "insert"}
      /\ \A d \in Conn \ {c} : pc'[d] = pc[d]
  BY <1>2 DEF TypeOK, Resume
<1>4. /\ pending'[q.target] = q
      /\ \A id \in Id \ {q.target} : pending'[id] = pending[id]
  BY <1>1, <1>2 DEF TypeOK
<1>5. \A p \in Request : p.from \in Conn /\ p.target \in Id
  BY ConstantsAssumption DEF Request
<1>6. RequestOK'
  <2>1. ASSUME NEW d \in Conn, pc'[d] = "insert"
        PROVE  job[d] \in forwarded \ answered /\ pending'[job[d].target] # job[d]
    <3>1. d # c /\ pc[d] = "insert" /\ job[d].from = d /\ job[d] \in Request
      BY <1>3, <2>1 DEF DispatchOK
    <3>2. job[d] # q /\ job[d].target \in Id
      BY <1>1, <1>5, <3>1
    <3> QED
      BY <1>4, <3>1, <3>2 DEF RequestOK
  <2>2. ASSUME NEW id \in Id, pending'[id] # None
        PROVE  pending'[id].target = id /\ pending'[id] \in forwarded \ answered
    BY <1>1, <1>4, <2>2 DEF RequestOK
  <2> QED
    BY <1>2, <1>3, <2>1, <2>2 DEF RequestOK
<1>7. ASSUME NEW p \in Request
      PROVE  PunchStage(p)' = IF p = q THEN "waiting"
               ELSE IF PunchStage(p) = "waiting" /\ p.target = q.target
                    THEN "superseded" ELSE PunchStage(p)
  <2>1. CASE p = q
    BY <1>1, <1>2, <1>4, <2>1 DEF PunchStage
  <2>2. CASE p # q /\ p.target = q.target
    <3>1. pending'[p.target] # p
      BY <1>4, <2>2
    <3>2. pending[p.target] = p => /\ p \in forwarded /\ p \notin answered
                                   /\ ~(pc[p.from] = "insert" /\ job[p.from] = p)
      BY <1>5, ConstantsAssumption DEF RequestOK, Endpoint
    <3>3. pc'[p.from] = "insert" /\ job[p.from] = p
            <=> pc[p.from] = "insert" /\ job[p.from] = p
      BY <1>1, <1>2, <1>3, <1>5, <2>2
    <3> QED
      BY <1>2, <2>2, <3>1, <3>2, <3>3 DEF PunchStage
  <2>3. CASE p # q /\ p.target # q.target
    <3>1. pending'[p.target] = pending[p.target]
      BY <1>4, <1>5, <2>3
    <3>2. pc'[p.from] = "insert" /\ job[p.from] = p
            <=> pc[p.from] = "insert" /\ job[p.from] = p
      BY <1>1, <1>2, <1>3, <1>5, <2>3
    <3> QED
      BY <1>2, <2>3, <3>1, <3>2 DEF PunchStage
  <2> QED
    BY <2>1, <2>2, <2>3
<1>8. PunchStage(q) = "asked"
  BY <1>1, <1>2 DEF PunchStage
<1>9. Broker!Wait(q)
  <2> HIDE DEF q
  <2>1. [p \in Request |-> PunchStage(p)]'
          = [p \in Request |-> IF p = q THEN "waiting"
               ELSE IF PunchStage(p) = "waiting" /\ p.target = q.target
                    THEN "superseded" ELSE PunchStage(p)]
    BY <1>7
  <2> QED
    BY <1>1, <1>8, <2>1 DEF Broker!Wait
<1> QED
  BY <1>6, <1>9

\* Whatever entry the acknowledgement pops, its request was waiting, and it
\* cannot be popped again.
LEMMA AcknowledgeStep ==
  ASSUME BrokerInv, NEW e \in Endpoint, NEW r \in asked[e], Acknowledge(e, r),
         \A c \in Conn : pc'[c] # pc[c] =>
           pc[c] \notin {"push", "insert"} /\ pc'[c] \notin {"push", "insert"}
  PROVE  RequestOK' /\ (stage' = stage \/ \E q \in Request : Broker!Answer(q))
<1> USE DEF BrokerInv, TypeInv
<1>1. UNCHANGED <<job, punched, forwarded>>
  BY DEF Acknowledge
<1>2. CASE UNCHANGED <<pending, outbox, answered>>
  BY <1>1, <1>2, QuietStep DEF Quiet
<1>3. ASSUME NEW id \in Id, pending[id] # None,
             pending' = [pending EXCEPT ![id] = None],
             answered' = answered \cup {pending[id]}
      PROVE  RequestOK' /\ \E q \in Request : Broker!Answer(q)
  <2> DEFINE q == pending[id]
  <2>1. /\ q \in Request /\ q.target = id /\ q \in forwarded /\ q \notin answered
        /\ pending'[id] = None
        /\ \A i \in Id \ {id} : pending'[i] = pending[i]
    BY <1>3 DEF TypeOK, RequestOK
  <2>2. answered' = answered \cup {q}
    BY <1>3
  <2>3. \A p \in Request : p.from \in Conn /\ p.target \in Id /\ p # None
    BY ConstantsAssumption DEF Request
  <2>4. \A c \in Conn : pc[c] = "insert" => job[c] # q
    BY <2>1 DEF RequestOK
  <2>5. pending[q.target] = q
    BY <2>1
  <2> HIDE DEF q
  <2>6. RequestOK'
    <3>1. ASSUME NEW c \in Conn, pc'[c] = "insert"
          PROVE  job[c] \in forwarded \ answered' /\ pending'[job[c].target] # job[c]
      <4>1. /\ job[c] \in Request /\ job[c] \in forwarded \ answered
            /\ pending[job[c].target] # job[c] /\ job[c] # q
        BY <3>1, <2>4 DEF RequestOK, DispatchOK
      <4> QED
        BY <4>1, <2>1, <2>2, <2>3
    <3>2. ASSUME NEW i \in Id, pending'[i] # None
          PROVE  pending'[i].target = i /\ pending'[i] \in forwarded \ answered'
      <4>1. i # id /\ pending'[i] = pending[i]
        BY <2>1, <3>2
      <4>2. pending[i].target = i /\ pending[i] \in forwarded \ answered
        BY <3>2, <4>1 DEF RequestOK
      <4> QED
        BY <2>1, <2>2, <4>1, <4>2
    <3>3. answered' \subseteq forwarded
      BY <2>1, <2>2 DEF RequestOK
    <3>4. \A c \in Conn : pc'[c] = "push" => job[c] \notin forwarded
      BY DEF RequestOK
    <3> QED
      BY <1>1, <3>1, <3>2, <3>3, <3>4 DEF RequestOK
  <2>7. ASSUME NEW p \in Request
        PROVE  PunchStage(p)' = IF p = q THEN "answered" ELSE PunchStage(p)
    <3>1. pc'[p.from] = "insert" <=> pc[p.from] = "insert"
      BY <2>3
    <3>2. CASE p = q
      BY <1>1, <2>1, <2>2, <2>3, <3>2 DEF PunchStage
    <3>3. CASE p # q
      <4>1. pending'[p.target] = p <=> pending[p.target] = p
        BY <2>1, <2>3, <2>5, <3>3
      <4> QED
        BY <1>1, <2>2, <3>1, <3>3, <4>1 DEF PunchStage
    <3> QED
      BY <3>2, <3>3
  <2>8. PunchStage(q) = "waiting"
    BY <2>1, <2>5 DEF PunchStage
  <2>9. [p \in Request |-> PunchStage(p)]'
          = [p \in Request |-> IF p = q THEN "answered" ELSE PunchStage(p)]
    BY <2>7
  <2>10. Broker!Answer(q)
    BY <2>1, <2>8, <2>9 DEF Broker!Answer
  <2> QED
    BY <2>1, <2>6, <2>10
<1> QED
  BY <1>2, <1>3 DEF Acknowledge, DispatchRelayAck

\* Every other action leaves the requests alone.
LEMMA QuietActions ==
  ASSUME BrokerInv, NEW c \in Conn,
         \/ Accept(c) \/ Disconnect(c)
         \/ c \in Ws /\ (\/ \E id \in Id : WsRegister(c, id)
                        \/ WsRegisterPkNoId(c) \/ WsReply(c)
                        \/ Writer(c) \/ WsClose(c) \/ WsJoin(c))
         \/ c \in Tcp /\ (TcpGiveUp(c) \/ TcpForward(c))
  PROVE  Quiet
BY DEF BrokerInv, TypeInv, TypeOK, Quiet, Accept, Disconnect, WsRegister,
       WsRegisterPkNoId, WsReply, Writer, WriterSend, WriterFail, WriterLose,
       WriterEnd, WsClose, WsJoin, TcpGiveUp, TcpForward, server, history

\* dispatch_punch and dispatch_relay_ack implement PunchBroker, for any number
\* of connections, requests and interleavings.
THEOREM PunchTableImplementsBroker == Spec => ImplementsPunchBroker
<1>1. Init => BrokerInv /\ Broker!Init
  <2> SUFFICES ASSUME Init PROVE BrokerInv /\ Broker!Init
    OBVIOUS
  <2>1. TypeInv
    BY ConstantsAssumption
    DEF Init, TypeInv, TypeOK, DispatchOK, WsPc, TcpPc, Handling, Conn, Endpoint
  <2>2. RequestOK
    BY DEF Init, RequestOK
  <2>3. Broker!Init
    BY DEF Init, Broker!Init, PunchStage
  <2> QED
    BY <2>1, <2>2, <2>3 DEF BrokerInv
<1>2. ASSUME BrokerInv, TypeInv', [Next]_vars
      PROVE  RequestOK' /\ (stage' = stage \/ Broker!Next)
  <2> USE <1>2
  <2>1. ASSUME Quiet PROVE RequestOK' /\ stage' = stage
    BY <2>1, QuietStep
  <2>2. ASSUME NEW c \in Conn, pc[c] \in {"push", "insert"} PROVE job[c] \in Request
    BY <2>2 DEF BrokerInv, TypeInv, DispatchOK
  <2>3. ASSUME NEW w \in Ws, NEW q \in asked[w], WsRelayResponse(w, q)
        PROVE  RequestOK' /\ (stage' = stage \/ Broker!Next)
    <3>1. Acknowledge(w, q) /\ UNCHANGED pc /\ w \in Endpoint
      BY <2>3 DEF WsRelayResponse, Endpoint
    <3> QED
      BY <3>1, AcknowledgeStep DEF Broker!Next
  <2>4. ASSUME NEW t \in Tcp, NEW a \in Addr, NEW q \in asked[a],
               TcpRelayResponse(t, a, q)
        PROVE  RequestOK' /\ (stage' = stage \/ Broker!Next)
    <3>1. Acknowledge(a, q) /\ a \in Endpoint
      BY <2>4 DEF TcpRelayResponse, Endpoint
    <3>2. \A c \in Conn : pc'[c] # pc[c] =>
            pc[c] \notin {"push", "insert"} /\ pc'[c] \notin {"push", "insert"}
      BY <2>4 DEF TcpRelayResponse, BrokerInv, TypeInv, TypeOK
    <3> QED
      BY <3>1, <3>2, AcknowledgeStep DEF Broker!Next
  <2>5. ASSUME NEW c \in Conn, Client(c)
        PROVE  RequestOK' /\ (stage' = stage \/ Broker!Next)
    BY <2>1, <2>3, <2>4, <2>5, LookupStep, QuietActions DEF Client
  <2>6. ASSUME NEW c \in Conn, HandlerStep(c)
        PROVE  RequestOK' /\ (stage' = stage \/ Broker!Next)
    <3>1. CASE Push(c)
      BY <2>2, <3>1, PushStep DEF Push, Broker!Next
    <3>2. CASE Insert(c)
      BY <2>2, <3>2, InsertStep DEF Insert, Broker!Next
    <3> QED
      BY <2>1, <2>6, <3>1, <3>2, QuietActions DEF HandlerStep
  <2>7. ASSUME NEW w \in Ws, Writer(w) PROVE RequestOK' /\ stage' = stage
    BY <2>1, <2>7, QuietActions DEF Conn
  <2>8. CASE (\E a \in Addr : Udp(a)) \/ UNCHANGED vars
    BY <2>1, <2>8
    DEF Quiet, Udp, UdpRegisterPeer, UdpDeliver, UdpLose, vars, server, history
  <2> QED
    BY <2>5, <2>6, <2>7, <2>8 DEF Next
<1>3. stage' = stage => UNCHANGED [q \in Request |-> PunchStage(q)]
  BY DEF stage
<1>4. BrokerInv /\ TypeInv' /\ [Next]_vars =>
        BrokerInv' /\ [Broker!Next]_([q \in Request |-> PunchStage(q)])
  BY <1>2, <1>3 DEF BrokerInv
<1> QED
  BY <1>1, <1>4, TypeInvariant, PTL DEF Spec, ImplementsPunchBroker, Broker!Spec
=============================================================================
