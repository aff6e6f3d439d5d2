----------------------------- MODULE RelayPair -----------------------------
(***************************************************************************)
(* xyzen-relay: how two accept loops, one for TCP and one for WebSocket,   *)
(* pair the connections they accept through one shared waiting slot.       *)
(*                                                                         *)
(* pair_or_wait takes the slot in one critical section and fills it in     *)
(* another, so each loop has a control point in between.  What a pair does *)
(* until it ends is left open here; Relay adds it.                         *)
(***************************************************************************)
CONSTANTS Tcp,    \* connections to the TCP listener
          Ws,     \* connections to the WebSocket listener
          None    \* the absent value

Conn == Tcp \cup Ws
Task == {"tcp", "ws"}

ASSUME RelayAssumption == Tcp \cap Ws = {} /\ None \notin Conn

VARIABLES conn,      \* what the relay knows of each connection
          pc,        \* where each accept loop is
          hand,      \* the connection each accept loop is dealing with
          slot,      \* the waiting side
          partner    \* the other side of a connection that was paired

vars == <<conn, pc, hand, slot, partner>>

Clients(k) == IF k = "tcp" THEN Tcp ELSE Ws

Init == /\ conn = [c \in Conn |-> "new"]
        /\ pc = [k \in Task |-> "accept"]
        /\ hand = [k \in Task |-> None]
        /\ slot = None
        /\ partner = [c \in Conn |-> None]

\* A client connects; the kernel queues it until the loop accepts it.
Arrive(c) == /\ conn[c] = "new"
             /\ conn' = [conn EXCEPT ![c] = "backlog"]
             /\ UNCHANGED <<pc, hand, slot, partner>>

\* accept(): the WebSocket loop runs the handshake before it accepts again.
Accept(k, c) ==
  /\ pc[k] = "accept" /\ c \in Clients(k) /\ conn[c] = "backlog"
  /\ conn' = [conn EXCEPT ![c] = "accepted"]
  /\ hand' = [hand EXCEPT ![k] = c]
  /\ pc' = [pc EXCEPT ![k] = IF k = "tcp" THEN "take" ELSE "handshake"]
  /\ UNCHANGED <<slot, partner>>

HandshakeDone == /\ pc["ws"] = "handshake"
                 /\ pc' = [pc EXCEPT !["ws"] = "take"]
                 /\ UNCHANGED <<conn, hand, slot, partner>>

HandshakeFail == /\ pc["ws"] = "handshake"
                 /\ conn' = [conn EXCEPT ![hand["ws"]] = "refused"]
                 /\ hand' = [hand EXCEPT !["ws"] = None]
                 /\ pc' = [pc EXCEPT !["ws"] = "accept"]
                 /\ UNCHANGED <<slot, partner>>

Pair(c, d) == partner' = [partner EXCEPT ![c] = d, ![d] = c]

\* Faults: the waiter is looked at and left in the slot, or ignored.
TakeLeavesWaiter(k) ==
  /\ pc[k] = "take"
  /\ IF slot # None
     THEN /\ Pair(hand[k], slot)
          /\ hand' = [hand EXCEPT ![k] = None]
          /\ pc' = [pc EXCEPT ![k] = "accept"]
     ELSE /\ pc' = [pc EXCEPT ![k] = "store"]
          /\ UNCHANGED <<hand, partner>>
  /\ UNCHANGED <<conn, slot>>
TakeIgnoresWaiter(k) ==
  /\ pc[k] = "take"
  /\ pc' = [pc EXCEPT ![k] = "store"]
  /\ UNCHANGED <<conn, hand, slot, partner>>

\* pair_or_wait, first critical section: take the waiting side.  If there is
\* one, a task that pumps between the two is spawned.
Take(k) ==
  /\ pc[k] = "take"
  /\ slot' = None
  /\ IF slot # None
     THEN /\ Pair(hand[k], slot)
          /\ hand' = [hand EXCEPT ![k] = None]
          /\ pc' = [pc EXCEPT ![k] = "accept"]
     ELSE /\ pc' = [pc EXCEPT ![k] = "store"]
          /\ UNCHANGED <<hand, partner>>
  /\ UNCHANGED conn

\* Second critical section: replace() drops whatever is in the slot by now,
\* which closes that connection.
Store(k) ==
  /\ pc[k] = "store"
  /\ slot' = hand[k]
  /\ conn' = IF slot # None THEN [conn EXCEPT ![slot] = "closed"] ELSE conn
  /\ hand' = [hand EXCEPT ![k] = None]
  /\ pc' = [pc EXCEPT ![k] = "accept"]
  /\ UNCHANGED partner

\* The pump of a pair returns and drops both connections.
EndPair(c) ==
  /\ partner[c] # None /\ conn[c] = "accepted"
  /\ conn' = [conn EXCEPT ![c] = "closed", ![partner[c]] = "closed"]
  /\ UNCHANGED <<pc, hand, slot, partner>>

Loop(k) == (\E c \in Conn : Accept(k, c)) \/ Take(k) \/ Store(k)

Next == \/ \E c \in Conn : Arrive(c) \/ EndPair(c)
        \/ \E k \in Task : Loop(k)
        \/ HandshakeDone \/ HandshakeFail

\* The accept loops are polled; a client may never finish its handshake.
Fairness == \A k \in Task : WF_vars(Loop(k))

Spec == Init /\ [][Next]_vars /\ Fairness
-----------------------------------------------------------------------------
TypeOK ==
  /\ conn \in [Conn -> {"new", "backlog", "accepted", "refused", "closed"}]
  /\ pc \in [Task -> {"accept", "handshake", "take", "store"}]
  /\ hand \in [Task -> Conn \cup {None}]
  /\ slot \in Conn \cup {None}
  /\ partner \in [Conn -> Conn \cup {None}]

\* Pairing is a symmetric matching of distinct connections, and a connection
\* that waits or is in a loop's hands is unpaired and nowhere else: no byte
\* stream ever has two readers, whatever the loops do to the slot.
PairingIsMatching ==
  /\ \A c \in Conn : partner[c] # None =>
       partner[c] # c /\ partner[partner[c]] = c
  /\ slot # None => partner[slot] = None /\ conn[slot] = "accepted"
  /\ \A k \in Task : hand[k] # None =>
       /\ partner[hand[k]] = None /\ conn[hand[k]] = "accepted"
       /\ hand[k] # slot
       /\ \A j \in Task \ {k} : hand[j] # hand[k]

\* No accepted connection is forgotten: it is in a loop's hands, waiting, or
\* paired, until the relay closes it.
AcceptedIsHeld ==
  \A c \in Conn : conn[c] = "accepted" =>
    (\E k \in Task : hand[k] = c) \/ slot = c \/ partner[c] # None

\* Every connection the relay has accepted is in one place and in one only: in
\* a loop's hands, in the slot, or in one pair.
OnePlaceEach == PairingIsMatching /\ AcceptedIsHeld

\* "pair the next two incoming TCP connections", "same pairing" for WebSocket:
\* a connection that was accepted is closed by the relay only as half of a pair.
NoWaiterDropped == \A c \in Conn : conn[c] = "closed" => partner[c] # None

\* Some connection of listener k has been handed to pair_or_wait.
InUse(k) == \E c \in Clients(k) :
  /\ conn[c] \in {"accepted", "closed"}
  /\ hand[k] = c => pc[k] # "handshake"

\* As long as only one listener hands connections to pair_or_wait, the promise
\* is kept, whatever handshakes fail or stall on the other.
OneListenerKeepsWaiters ==
  (\E k \in Task : ~InUse(k)) => NoWaiterDropped

\* "the next two": with TCP clients alone, a waiting side is paired once another
\* client queues.
WaiterIsPaired ==
  \A c, d \in Tcp :
    slot = c /\ conn[d] = "backlog" ~> partner[c] # None \/ InUse("ws")
=============================================================================
