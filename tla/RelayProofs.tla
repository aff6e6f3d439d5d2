---------------------------- MODULE RelayProofs ----------------------------
(***************************************************************************)
(* Proofs about the relay, for any number of clients on both listeners:    *)
(* what the pairing guarantees, and that the copy loops of a pair lose,    *)
(* duplicate and reorder nothing.                                          *)
(***************************************************************************)
EXTENDS Relay, TLAPS

\* The pairing without fairness.
PairingSteps == Init /\ [][Next]_vars

\* Pumps and clients touch the pairing through the actions of RelayPair alone, so
\* that an invariant of those actions is one of the relay.
LEMMA PairingUnderPumps == RelaySpec => PairingSteps
<1>1. RelayInit => Init
  BY DEF RelayInit
<1>2. [RelayNext]_relay => [Next]_vars
  <2> SUFFICES ASSUME [RelayNext]_relay PROVE [Next]_vars
    OBVIOUS
  <2>1. ASSUME NEW c \in Conn, ClientArrive(c) PROVE Next
    BY <2>1 DEF ClientArrive, Next
  <2>2. ASSUME NEW c \in Conn, ClientReceive(c) \/ ClientLeave(c) PROVE UNCHANGED vars
    BY <2>2 DEF ClientReceive, ClientLeave
  <2>3. ASSUME NEW c \in Conn, NEW kind \in Kind, ClientSend(c, kind) PROVE UNCHANGED vars
    BY <2>3 DEF ClientSend
  <2>4. ASSUME NEW c \in Conn, Read(c) \/ Write(c) \/ ReadEof(c) PROVE UNCHANGED vars
    BY <2>4 DEF Read, Write, ReadEof
  <2>5. ASSUME NEW c \in Conn, Finish(c) \/ PumpError(c) PROVE Next
    BY <2>5 DEF Finish, PumpError, Next
  <2>6. CASE ClientHandshake
    BY <2>6 DEF ClientHandshake, Next
  <2>7. CASE PairingStep
    BY <2>7 DEF PairingStep, Next
  <2>8. CASE UNCHANGED relay
    BY <2>8 DEF relay
  <2> QED
    BY <2>1, <2>2, <2>3, <2>4, <2>5, <2>6, <2>7, <2>8 DEF RelayNext, Pump
<1> QED
  BY <1>1, <1>2, PTL DEF RelaySpec, PairingSteps
-----------------------------------------------------------------------------
(* Pairing.                                                                *)

\* A loop holds a connection exactly while it is past accept(); only accepted
\* connections are paired, and a pair is closed as a whole.
HandsOK ==
  /\ \A k \in Task : hand[k] = None <=> pc[k] = "accept"
  /\ \A c \in Conn : partner[c] # None =>
       conn[c] \in {"accepted", "closed"} /\ conn[partner[c]] = conn[c]

PairInv == TypeOK /\ PairingIsMatching /\ AcceptedIsHeld /\ HandsOK

LEMMA PairInvariant == PairingSteps => []PairInv
<1> USE RelayAssumption DEF Conn, Task
<1>1. Init => PairInv
  BY DEF Init, PairInv, TypeOK, PairingIsMatching, AcceptedIsHeld, HandsOK
<1>2. PairInv /\ [Next]_vars => PairInv'
  <2> SUFFICES ASSUME PairInv, [Next]_vars PROVE PairInv'
    OBVIOUS
  <2> USE DEF PairInv, TypeOK, PairingIsMatching, AcceptedIsHeld, HandsOK
  <2>1. ASSUME NEW c \in Conn, Arrive(c) PROVE PairInv'
    BY <2>1 DEF Arrive
  <2>2. ASSUME NEW k \in Task, NEW c \in Conn, Accept(k, c) PROVE PairInv'
    BY <2>2 DEF Accept, Clients
  <2>3. CASE HandshakeDone
    BY <2>3 DEF HandshakeDone
  <2>4. CASE HandshakeFail
    BY <2>4 DEF HandshakeFail
  <2>5. ASSUME NEW k \in Task, Take(k) PROVE PairInv'
    <3>1. CASE slot = None
      BY <2>5, <3>1 DEF Take
    <3>2. CASE slot # None
      <4> DEFINE c == hand[k]
                 d == slot
      <4>1. /\ c \in Conn /\ d \in Conn /\ c # d
            /\ partner[c] = None /\ partner[d] = None
            /\ conn[c] = "accepted" /\ conn[d] = "accepted"
        BY <2>5, <3>2 DEF Take
      <4>2. /\ pc' = [pc EXCEPT ![k] = "accept"] /\ hand' = [hand EXCEPT ![k] = None]
            /\ slot' = None /\ conn' = conn
            /\ partner' = [partner EXCEPT ![c] = d, ![d] = c]
        BY <2>5, <3>2 DEF Take, Pair
      <4>3. /\ partner'[c] = d /\ partner'[d] = c
            /\ \A e \in Conn \ {c, d} : partner'[e] = partner[e] /\ partner[e] \notin {c, d}
        BY <4>1, <4>2
      <4>4. \A j \in Task \ {k} : hand'[j] = hand[j] /\ pc'[j] = pc[j]
                                /\ (hand[j] # None => hand[j] \notin {c, d})
        BY <4>1, <4>2
      <4>5. hand'[k] = None /\ pc'[k] = "accept"
        BY <4>2
      <4> HIDE DEF c, d
      <4>6. TypeOK'
        BY <4>1, <4>2
      <4>7. PairingIsMatching'
        <5>1. \A e \in Conn : partner'[e] # None =>
                partner'[e] # e /\ partner'[partner'[e]] = e
          BY <4>1, <4>3
        <5>2. ASSUME NEW j \in Task, hand'[j] # None
              PROVE  /\ partner'[hand'[j]] = None /\ conn'[hand'[j]] = "accepted"
                     /\ hand'[j] # slot'
                     /\ \A i \in Task \ {j} : hand'[i] # hand'[j]
          BY <4>1, <4>2, <4>3, <4>4, <4>5, <5>2
        <5> QED
          BY <4>2, <5>1, <5>2
      <4>8. AcceptedIsHeld'
        <5>1. \A e \in Conn \ {c, d} : \A j \in Task : hand[j] = e => hand'[j] = e
          BY <4>4 DEF c
        <5>2. \A e \in Conn \ {c, d} : e # slot
          BY DEF d
        <5> QED
          BY <4>1, <4>2, <4>3, <5>1, <5>2
      <4>9. HandsOK'
        BY <4>1, <4>2, <4>3, <4>4, <4>5
      <4> QED
        BY <4>6, <4>7, <4>8, <4>9
    <3> QED
      BY <3>1, <3>2
  <2>6. ASSUME NEW k \in Task, Store(k) PROVE PairInv'
    <3>1. hand[k] \in Conn
      BY <2>6 DEF Store
    <3> QED
      BY <2>6, <3>1 DEF Store
  <2>7. ASSUME NEW c \in Conn, EndPair(c) PROVE PairInv'
    BY <2>7 DEF EndPair
  <2>8. CASE UNCHANGED vars
    BY <2>8 DEF vars
  <2> HIDE DEF PairInv
  <2> QED
    BY <2>1, <2>2, <2>3, <2>4, <2>5, <2>6, <2>7, <2>8 DEF Next, Loop
<1> QED
  BY <1>1, <1>2, PTL DEF PairingSteps

\* pair_or_wait pairs connections two by two: no connection is in two pairs,
\* or both waiting and paired, and none leaks out of the loops, the slot and
\* the pairs, however the two loops interleave on the slot.
THEOREM OnePlace == (Spec => []OnePlaceEach) /\ (RelaySpec => []OnePlaceEach)
BY PairInvariant, PairingUnderPumps, PTL DEF PairInv, OnePlaceEach, Spec, PairingSteps

\* A loop holds clients of its own listener.  What makes one listener alone
\* safe: when its loop stores, the slot is empty.
OneLoop ==
  /\ \A k \in Task : hand[k] # None => hand[k] \in Clients(k)
  /\ pc["tcp"] # "handshake"
  /\ \A k, j \in Task : k # j /\ ~InUse(j) /\ pc[k] = "store" => slot = None

\* As long as one listener has not handed over a connection, the relay drops
\* no waiting connection; once both have, it may.
THEOREM OneListenerIsSafe ==
  (Spec => []OneListenerKeepsWaiters) /\ (RelaySpec => []OneListenerKeepsWaiters)
<1>1. Init => OneLoop /\ OneListenerKeepsWaiters
  BY DEF Init, OneLoop, OneListenerKeepsWaiters, NoWaiterDropped, Task
<1>2. PairInv /\ OneLoop /\ OneListenerKeepsWaiters /\ [Next]_vars
        => OneLoop' /\ OneListenerKeepsWaiters'
  <2> SUFFICES ASSUME PairInv, OneLoop, OneListenerKeepsWaiters, [Next]_vars
               PROVE  OneLoop' /\ OneListenerKeepsWaiters'
    OBVIOUS
  <2> USE RelayAssumption
          DEF OneLoop, OneListenerKeepsWaiters, NoWaiterDropped, InUse, Clients, Conn,
              Task, PairInv, TypeOK, PairingIsMatching, HandsOK
  <2>1. ASSUME NEW c \in Conn, Arrive(c) PROVE OneLoop' /\ OneListenerKeepsWaiters'
    BY <2>1 DEF Arrive
  <2>2. ASSUME NEW k \in Task, NEW c \in Conn, Accept(k, c)
        PROVE  OneLoop' /\ OneListenerKeepsWaiters'
    BY <2>2 DEF Accept
  <2>3. CASE HandshakeDone
    BY <2>3 DEF HandshakeDone
  <2>4. CASE HandshakeFail
    BY <2>4 DEF HandshakeFail
  <2>5. ASSUME NEW k \in Task, Take(k) PROVE OneLoop' /\ OneListenerKeepsWaiters'
    BY <2>5 DEF Take, Pair
  <2>6. ASSUME NEW k \in Task, Store(k) PROVE OneLoop' /\ OneListenerKeepsWaiters'
    BY <2>6 DEF Store
  <2>7. ASSUME NEW c \in Conn, EndPair(c) PROVE OneLoop' /\ OneListenerKeepsWaiters'
    BY <2>7 DEF EndPair
  <2>8. CASE UNCHANGED vars
    BY <2>8 DEF vars
  <2> QED
    BY <2>1, <2>2, <2>3, <2>4, <2>5, <2>6, <2>7, <2>8 DEF Next, Loop
<1>3. PairingSteps => []OneListenerKeepsWaiters
  BY <1>1, <1>2, PairInvariant, PTL DEF PairingSteps
<1> QED
  BY <1>3, PairingUnderPumps, PTL DEF Spec, PairingSteps
-----------------------------------------------------------------------------
(* The copy loops.  What CopyOf says is kept by reading one frame, and by  *)
(* forgetting the last frames of the copy.                                 *)

\* The frames of a log carry their positions.
Numbered == \A c \in Conn : \A i \in 1..Len(log[c]) :
  log[c][i].n = i /\ (log[c][i].kind = "text" => c \in Ws)

LEMMA CopyMore ==
  ASSUME NEW c \in Conn, RelayTypeOK, Numbered,
         NEW s \in Seq(Frame), NEW n \in Nat, n < Len(log[c]), CopyOf(c, s, n)
  PROVE  /\ Due(c, log[c][n + 1]) => CopyOf(c, Append(s, log[c][n + 1]), n + 1)
         /\ ~Due(c, log[c][n + 1]) => CopyOf(c, s, n + 1)
<1> DEFINE f == log[c][n + 1]
<1>1. f.n = n + 1 /\ f \in Frame
  BY DEF RelayTypeOK, Numbered
<1>2. \A i \in 1..Len(s) : s[i].n \in 1..n /\ s[i] = log[c][s[i].n] /\ Due(c, s[i])
  BY DEF CopyOf
<1>3. \A i, j \in 1..Len(s) : i < j => s[i].n < s[j].n
  BY DEF CopyOf
<1>4. \A m \in 1..n : Due(c, log[c][m]) => \E i \in 1..Len(s) : s[i] = log[c][m]
  BY DEF CopyOf
<1>5. ASSUME Due(c, f) PROVE CopyOf(c, Append(s, f), n + 1)
  <2> DEFINE t == Append(s, f)
  <2>1. /\ t \in Seq(Frame) /\ Len(t) = Len(s) + 1 /\ Len(s) \in Nat
        /\ t[Len(s) + 1] = f /\ \A i \in 1..Len(s) : t[i] = s[i]
    BY <1>1
  <2>2. t[Len(s) + 1] = log[c][t[Len(s) + 1].n]
    BY <1>1, <2>1
  <2> HIDE DEF f, t
  <2>3. \A i \in 1..Len(t) : t[i].n \in 1..(n + 1) /\ t[i] = log[c][t[i].n] /\ Due(c, t[i])
    BY <1>1, <1>2, <1>5, <2>1, <2>2, SMTT(30)
  <2>4. \A i, j \in 1..Len(t) : i < j => t[i].n < t[j].n
    BY <1>1, <1>2, <1>3, <2>1
  <2>5. \A m \in 1..(n + 1) : Due(c, log[c][m]) => \E i \in 1..Len(t) : t[i] = log[c][m]
    <3>1. t[Len(t)] = log[c][n + 1] /\ Len(t) \in 1..Len(t)
      BY <2>1 DEF f
    <3>2. \A m \in 1..n : Due(c, log[c][m]) => \E i \in 1..Len(t) : t[i] = log[c][m]
      BY <1>4, <2>1
    <3>3. \A m \in 1..(n + 1) : m \in 1..n \/ m = n + 1
      OBVIOUS
    <3> QED
      BY <3>1, <3>2, <3>3
  <2> QED
    BY <2>3, <2>4, <2>5 DEF CopyOf, t
<1>6. ASSUME ~Due(c, f) PROVE CopyOf(c, s, n + 1)
  <2>1. \A m \in 1..(n + 1) : Due(c, log[c][m]) => m \in 1..n
    BY <1>6
  <2> QED
    BY <1>2, <1>3, <1>4, <2>1 DEF CopyOf
<1> QED
  BY <1>5, <1>6

LEMMA CopyPrefix ==
  ASSUME NEW c \in Conn, RelayTypeOK, Numbered,
         NEW s \in Seq(Frame), NEW t \in Seq(Frame), NEW n \in Nat,
         n <= Len(log[c]), CopyOf(c, s \o t, n)
  PROVE  \E m \in 0..n : CopyOf(c, s, m)
<1> DEFINE u == s \o t
<1>1. /\ u \in Seq(Frame) /\ Len(s) \in Nat /\ Len(u) >= Len(s)
      /\ \A i \in 1..Len(s) : u[i] = s[i] /\ i \in 1..Len(u)
  OBVIOUS
<1>2. \A i \in 1..Len(u) : u[i].n \in 1..n /\ u[i] = log[c][u[i].n] /\ Due(c, u[i])
  BY DEF CopyOf
<1>3. \A i, j \in 1..Len(u) : i < j => u[i].n < u[j].n
  BY DEF CopyOf
<1>4. \A m \in 1..n : Due(c, log[c][m]) => \E i \in 1..Len(u) : u[i] = log[c][m]
  BY DEF CopyOf
<1>5. CASE Len(s) = 0
  BY <1>5, SMTT(30) DEF CopyOf
<1>6. CASE Len(s) > 0
  <2> DEFINE k == Len(s)
             m == u[k].n
  <2>1. k \in 1..Len(u) /\ m \in 1..n
    BY <1>1, <1>2, <1>6
  <2> HIDE DEF u, m
  <2>2. \A i \in 1..k : s[i].n \in 1..m /\ s[i] = log[c][s[i].n] /\ Due(c, s[i])
    <3> SUFFICES ASSUME NEW i \in 1..k
                 PROVE  s[i].n \in 1..m /\ s[i] = log[c][s[i].n] /\ Due(c, s[i])
      OBVIOUS
    <3>1. u[i] = s[i] /\ i \in 1..Len(u)
      BY <1>1
    <3>2. u[i].n <= m
      BY <1>2, <1>3, <2>1, <3>1 DEF m
    <3> QED
      BY <1>2, <2>1, <3>1, <3>2
  <2>3. \A i, j \in 1..k : i < j => s[i].n < s[j].n
    BY <1>1, <1>3
  <2>4. ASSUME NEW q \in 1..m, Due(c, log[c][q])
        PROVE  \E i \in 1..k : s[i] = log[c][q]
    <3>1. PICK i \in 1..Len(u) : u[i] = log[c][q]
      BY <1>4, <2>1, <2>4
    <3>2. log[c][q].n = q
      BY <2>1 DEF Numbered
    <3>3. i <= k
      BY <1>3, <2>1, <3>1, <3>2 DEF m
    <3> QED
      BY <1>1, <3>1, <3>3, SMTT(30)
  <2>5. CopyOf(c, s, m)
    BY <2>2, <2>3, <2>4 DEF CopyOf
  <2> QED
    BY <2>1, <2>5
<1> QED
  BY <1>1, <1>5, <1>6

\* A copy is judged by the frames of the log it is a copy of, and by the pair.
LEMMA CopyStable ==
  ASSUME NEW c \in Conn, NEW s \in Seq(Frame), NEW n \in Nat, CopyOf(c, s, n),
         partner'[c] = partner[c], \A m \in 1..n : log'[c][m] = log[c][m]
  PROVE  CopyOf(c, s, n)'
BY DEF CopyOf, Due

\* A connection that is not paired has its frames unread and has got nothing.
Idle == \A c \in Conn : partner[c] = None =>
  up[c] = log[c] /\ chunk[c] = << >> /\ down[c] = << >> /\ got[c] = << >>

\* The frames a client sent last are the ones the relay has not read.
Unread == \A c \in Conn :
  /\ Taken(c) \in Nat
  /\ \A i \in 1..Len(up[c]) : up[c][i] = log[c][Taken(c) + i]

\* While the receiving client is there, open or closed pair, what was read from
\* c is in the loop's hands, in the other socket, or received.
NothingLost == \A c \in Conn :
  partner[c] # None /\ client[partner[c]] # "gone" => CopyOf(c, Passed(c), Taken(c))

DataInv == RelayTypeOK /\ Numbered /\ Idle /\ Unread /\ NothingLost /\ ReceivedIsPrefix

\* Pairs last; a new pair is made of two connections that were not paired.
LEMMA PairsLast ==
  ASSUME PairInv, [Next]_vars, NEW c \in Conn
  PROVE  /\ partner[c] # None => partner'[c] = partner[c]
         /\ partner[c] = None /\ partner'[c] # None => partner[partner'[c]] = None
<1> USE RelayAssumption DEF PairInv, TypeOK, PairingIsMatching, Conn, Task
<1>1. CASE UNCHANGED vars
  BY <1>1 DEF vars
<1>2. ASSUME NEW d \in Conn, Arrive(d) \/ EndPair(d) PROVE UNCHANGED partner
  BY <1>2 DEF Arrive, EndPair
<1>3. CASE HandshakeDone \/ HandshakeFail
  BY <1>3 DEF HandshakeDone, HandshakeFail
<1>4. ASSUME NEW k \in Task, (\E d \in Conn : Accept(k, d)) \/ Store(k)
      PROVE  UNCHANGED partner
  BY <1>4 DEF Accept, Store
<1>5. ASSUME NEW k \in Task, Take(k)
      PROVE  /\ partner[c] # None => partner'[c] = partner[c]
             /\ partner[c] = None /\ partner'[c] # None => partner[partner'[c]] = None
  BY <1>5 DEF Take, Pair
<1> QED
  BY <1>1, <1>2, <1>3, <1>4, <1>5 DEF Next, Loop

\* A step that moves no frame keeps the invariant, whatever it pairs, as long
\* as no client comes back that had gone from a pair.
LEMMA QuietStep ==
  ASSUME PairInv, PairInv', DataInv, [Next]_vars, UNCHANGED data,
         client' \in [Conn -> {"new", "shaking", "up", "half", "gone"}],
         \A d \in Conn : partner[d] # None /\ client[d] = "gone" => client'[d] = "gone"
  PROVE  DataInv'
<1> USE DEF DataInv
<1>1. UNCHANGED <<up, chunk, down, eof, log, got>>
  BY DEF data
<1>2. RelayTypeOK'
  BY <1>1 DEF RelayTypeOK, PairInv
<1>3. Numbered' /\ Unread'
  BY <1>1 DEF Numbered, Unread, Taken
<1>4. Idle'
  BY <1>1, PairsLast DEF Idle
<1>5. \A c \in Conn : partner[c] = None =>
        Taken(c) = 0 /\ CopyOf(c, << >>, 0)'
  <2>1. \A c \in Conn : partner[c] = None => Taken(c) = 0
    BY DEF Idle, Taken, RelayTypeOK
  <2>2. \A c \in Conn : CopyOf(c, << >>, 0)'
    BY DEF CopyOf
  <2> QED
    BY <2>1, <2>2
<1>6. NothingLost'
  <2> SUFFICES ASSUME NEW c \in Conn, partner'[c] # None, client'[partner'[c]] # "gone"
               PROVE  CopyOf(c, Passed(c), Taken(c))'
    BY DEF NothingLost
  <2>1. Taken(c)' = Taken(c) /\ Taken(c) \in Nat /\ Taken(c) <= Len(log[c])
    BY <1>1 DEF Taken, Unread, RelayTypeOK
  <2>2. CASE partner[c] # None
    <3>1. partner'[c] = partner[c] /\ partner[c] \in Conn
      BY <2>2, PairsLast DEF PairInv, TypeOK
    <3>2. partner[partner[c]] # None
      BY <2>2, <3>1, RelayAssumption DEF PairInv, PairingIsMatching
    <3>3. client[partner[c]] # "gone"
      BY <3>1, <3>2
    <3>4. Passed(c)' = Passed(c) /\ Passed(c) \in Seq(Frame)
      BY <1>1, <3>1 DEF Passed, RelayTypeOK
    <3> QED
      BY <1>1, <2>1, <2>2, <3>1, <3>3, <3>4, CopyStable DEF NothingLost
  <2>3. CASE partner[c] = None
    <3>1. partner'[c] \in Conn /\ partner[partner'[c]] = None
      BY <2>3, PairsLast DEF PairInv, TypeOK
    <3>2. Passed(c)' = << >>
      BY <1>1, <2>3, <3>1 DEF Passed, Idle
    <3> QED
      BY <1>5, <2>1, <2>3, <3>2
  <2> QED
    BY <2>2, <2>3
<1>7. ReceivedIsPrefix'
  <2> SUFFICES ASSUME NEW d \in Conn, partner'[d] # None
               PROVE  (\E n \in 0..Len(log[partner[d]]) : CopyOf(partner[d], got[d], n))'
    BY <1>1, PairsLast DEF ReceivedIsPrefix, Idle
  <2>1. PICK e \in Conn : partner'[d] = e
    BY DEF PairInv, TypeOK
  <2>2. PICK s \in Seq(Frame) : got[d] = s /\ got'[d] = s
    BY <1>1 DEF RelayTypeOK
  <2>3. CASE partner[d] # None
    <3>1. partner[d] = e /\ partner[e] # None /\ partner'[e] = partner[e]
      BY <2>1, <2>3, PairsLast, RelayAssumption DEF PairInv, PairingIsMatching
    <3>2. PICK n \in 0..Len(log[e]) : CopyOf(e, s, n)
      BY <2>2, <2>3, <3>1 DEF ReceivedIsPrefix
    <3>3. CopyOf(e, s, n)'
      BY <1>1, <3>1, <3>2, CopyStable
    <3> QED
      BY <1>1, <2>1, <2>2, <3>2, <3>3
  <2>4. CASE partner[d] = None
    <3>1. s = << >>
      BY <2>2, <2>4 DEF Idle
    <3>2. CopyOf(e, << >>, 0)'
      BY DEF CopyOf
    <3>3. 0 \in 0..Len(log'[e])
      BY <1>1 DEF RelayTypeOK
    <3> QED
      BY <2>1, <2>2, <3>1, <3>2, <3>3
  <2> QED
    BY <2>3, <2>4
<1> QED
  BY <1>2, <1>3, <1>4, <1>6, <1>7

\* The other side of a pair has this side as its partner.
LEMMA Partners ==
  ASSUME PairInv, NEW c \in Conn, partner[c] # None
  PROVE  /\ partner[c] \in Conn /\ partner[c] # c /\ partner[partner[c]] = c
         /\ partner[partner[c]] # None
         /\ \A e \in Conn : partner[e] = partner[c] => e = c
BY RelayAssumption DEF PairInv, TypeOK, PairingIsMatching, Conn

\* Passed(c) and Taken(c) as numbers and sequences.
LEMMA DataTypes ==
  ASSUME PairInv, DataInv, NEW c \in Conn
  PROVE  /\ Len(log[c]) \in Nat /\ Len(up[c]) \in Nat /\ Taken(c) \in 0..Len(log[c])
         /\ Len(up[c]) = Len(log[c]) - Taken(c)
         /\ partner[c] # None => Passed(c) \in Seq(Frame)
BY Partners DEF DataInv, RelayTypeOK, Unread, Taken, Passed

LEMMA SendStep ==
  ASSUME PairInv, DataInv, NEW c \in Conn, NEW kind \in Kind, ClientSend(c, kind)
  PROVE  DataInv'
<1> DEFINE f == [n |-> Len(log[c]) + 1, kind |-> kind]
<1>1. /\ log' = [log EXCEPT ![c] = Append(@, f)] /\ up' = [up EXCEPT ![c] = Append(@, f)]
      /\ UNCHANGED <<conn, pc, hand, slot, partner, client, chunk, down, eof, got>>
      /\ f \in Frame /\ f.n = Len(log[c]) + 1 /\ (f.kind = "text" => c \in Ws)
  BY DEF ClientSend, DataInv, RelayTypeOK, vars, Frame
<1> HIDE DEF f
<1>2. RelayTypeOK'
  BY <1>1 DEF DataInv, RelayTypeOK, TypeOK
<1>3. /\ log[c] \in Seq(Frame) /\ up[c] \in Seq(Frame)
      /\ log'[c] = Append(log[c], f) /\ up'[c] = Append(up[c], f)
      /\ \A e \in Conn \ {c} : log'[e] = log[e] /\ up'[e] = up[e]
  BY <1>1 DEF DataInv, RelayTypeOK
<1>4. /\ Len(log'[c]) = Len(log[c]) + 1 /\ log'[c][Len(log[c]) + 1] = f
      /\ Len(up'[c]) = Len(up[c]) + 1 /\ up'[c][Len(up[c]) + 1] = f
      /\ \A i \in 1..Len(log[c]) : log'[c][i] = log[c][i]
      /\ \A i \in 1..Len(up[c]) : up'[c][i] = up[c][i]
  BY <1>1, <1>3
<1>5. Numbered'
  <2> SUFFICES ASSUME NEW e \in Conn, NEW i \in 1..Len(log'[e])
               PROVE  log'[e][i].n = i /\ (log'[e][i].kind = "text" => e \in Ws)
    BY DEF Numbered
  <2>1. CASE e # c
    BY <1>3, <2>1, ZenonT(60) DEF DataInv, Numbered
  <2>2. CASE e = c
    <3>1. i \in 1..Len(log[c]) \/ i = Len(log[c]) + 1
      BY <1>3, <1>4, <2>2
    <3> QED
      BY <1>1, <1>4, <2>2, <3>1 DEF DataInv, Numbered
  <2> QED
    BY <2>1, <2>2
<1>6. Idle'
  BY <1>1, <1>3 DEF DataInv, Idle
<1>7. \A e \in Conn : Taken(e)' = Taken(e)
  <2>1. Taken(c)' = Taken(c)
    BY <1>4, DataTypes DEF Taken
  <2>2. \A e \in Conn \ {c} : Taken(e)' = Taken(e)
    BY <1>3 DEF Taken
  <2> QED
    BY <2>1, <2>2
<1>8. Unread'
  <2> SUFFICES ASSUME NEW e \in Conn
               PROVE  \A i \in 1..Len(up'[e]) : up'[e][i] = log'[e][Taken(e) + i]
    BY <1>7 DEF DataInv, Unread
  <2>1. CASE e # c
    BY <1>3, <2>1 DEF DataInv, Unread
  <2>2. CASE e = c
    <3> SUFFICES ASSUME NEW i \in 1..Len(up'[c]) PROVE up'[c][i] = log'[c][Taken(c) + i]
      BY <2>2
    <3>1. CASE i = Len(up[c]) + 1
      <4>1. Taken(c) + i = Len(log[c]) + 1
        <5>1. Taken(c) \in Nat /\ Len(log[c]) \in Nat /\ Len(up[c]) = Len(log[c]) - Taken(c)
          BY DataTypes
        <5> QED
          BY <3>1, <5>1
      <4> QED
        BY <1>4, <3>1, <4>1
    <3>2. CASE i # Len(up[c]) + 1
      <4>1. i \in 1..Len(up[c]) /\ Taken(c) + i \in 1..Len(log[c])
        BY <1>4, <3>2, DataTypes, SMTT(30)
      <4> QED
        BY <1>4, <4>1 DEF DataInv, Unread
    <3> QED
      BY <3>1, <3>2
  <2> QED
    BY <2>1, <2>2
<1>9. ASSUME NEW e \in Conn, NEW m \in 1..Len(log[e]) PROVE log'[e][m] = log[e][m]
  BY <1>3, <1>4
<1>10. NothingLost'
  <2> SUFFICES ASSUME NEW e \in Conn, partner[e] # None, client[partner[e]] # "gone"
               PROVE  CopyOf(e, Passed(e), Taken(e))'
    BY <1>1 DEF NothingLost
  <2>1. CopyOf(e, Passed(e), Taken(e)) /\ Passed(e)' = Passed(e) /\ Taken(e)' = Taken(e)
    BY <1>1, <1>7 DEF DataInv, NothingLost, Passed
  <2>2. Passed(e) \in Seq(Frame) /\ Taken(e) \in Nat /\ Taken(e) <= Len(log[e])
    BY DataTypes
  <2>3. \A m \in 1..Taken(e) : log'[e][m] = log[e][m]
    BY <1>9, <2>2, DataTypes
  <2> QED
    BY <1>1, <2>1, <2>2, <2>3, CopyStable
<1>11. ReceivedIsPrefix'
  <2> SUFFICES ASSUME NEW d \in Conn, partner[d] # None
               PROVE  (\E n \in 0..Len(log[partner[d]]) : CopyOf(partner[d], got[d], n))'
    BY <1>1 DEF DataInv, ReceivedIsPrefix
  <2>1. PICK e \in Conn : partner[d] = e /\ partner'[d] = e
    BY <1>1, Partners
  <2>2. PICK s \in Seq(Frame) : got[d] = s /\ got'[d] = s
    BY <1>1 DEF DataInv, RelayTypeOK
  <2>3. PICK n \in 0..Len(log[e]) : CopyOf(e, s, n)
    BY <2>1, <2>2 DEF DataInv, ReceivedIsPrefix
  <2>4. n \in 0..Len(log'[e])
    <3>1. Len(log[e]) \in Nat
      BY DataTypes
    <3>2. Len(log'[e]) = Len(log[e]) \/ Len(log'[e]) = Len(log[e]) + 1
      BY <1>3, <1>4
    <3> QED
      BY <3>1, <3>2
  <2>5. CopyOf(e, s, n)'
    BY <1>1, <1>9, <2>3, CopyStable, DataTypes
  <2> QED
    BY <2>1, <2>2, <2>4, <2>5
<1> QED
  BY <1>2, <1>5, <1>6, <1>8, <1>10, <1>11 DEF DataInv

LEMMA CopySame ==
  ASSUME UNCHANGED <<partner, log>>, NEW c, NEW s, NEW n PROVE CopyOf(c, s, n)' = CopyOf(c, s, n)
BY DEF CopyOf, Due

\* What a client receives moves from its socket to what it has: Passed of its
\* partner stays, and what it has is the first part of it.
LEMMA ReceiveStep ==
  ASSUME PairInv, DataInv, NEW d \in Conn, ClientReceive(d)
  PROVE  DataInv'
<1>1. /\ got' = [got EXCEPT ![d] = Append(@, Head(down[d]))]
      /\ down' = [down EXCEPT ![d] = Tail(@)] /\ down[d] # << >> /\ client[d] # "gone"
      /\ UNCHANGED <<conn, pc, hand, slot, partner, client, up, chunk, eof, log>>
  BY DEF ClientReceive, vars
<1>2. /\ got[d] \in Seq(Frame) /\ down[d] \in Seq(Frame)
      /\ got'[d] = Append(got[d], Head(down[d])) /\ down'[d] = Tail(down[d])
      /\ \A e \in Conn \ {d} : got'[e] = got[e] /\ down'[e] = down[e]
  BY <1>1 DEF DataInv, RelayTypeOK
<1>3. Head(down[d]) \in Frame /\ got'[d] \in Seq(Frame) /\ down'[d] \in Seq(Frame)
  BY <1>1, <1>2
<1>4. RelayTypeOK'
  BY <1>1, <1>2, <1>3 DEF DataInv, RelayTypeOK, TypeOK
<1>5. Numbered' /\ Unread'
  BY <1>1 DEF DataInv, Numbered, Unread, Taken
<1>6. partner[d] # None
  BY <1>1 DEF DataInv, Idle
<1>7. Idle'
  BY <1>1, <1>2, <1>6 DEF DataInv, Idle
<1>8. ASSUME NEW e \in Conn, partner[e] # None PROVE Passed(e)' = Passed(e)
  <2>1. CASE partner[e] # d
    BY <1>1, <1>2, <1>8, <2>1, Partners, ZenonT(60) DEF Passed
  <2>2. CASE partner[e] = d
    <3>1. chunk[e] \in Seq(Frame)
      BY DEF DataInv, RelayTypeOK
    <3>2. \A g, w, t \in Seq(Frame) : w # << >> =>
            Append(g, Head(w)) \o Tail(w) \o t = g \o w \o t
      OBVIOUS
    <3>3. Append(got[d], Head(down[d])) \o Tail(down[d]) \o chunk[e] = got[d] \o down[d] \o chunk[e]
      BY <1>1, <1>2, <3>1, <3>2
    <3> QED
      BY <1>1, <1>2, <2>2, <3>3 DEF Passed
  <2> QED
    BY <2>1, <2>2
<1>9. NothingLost'
  <2> SUFFICES ASSUME NEW e \in Conn, partner[e] # None, client[partner[e]] # "gone"
               PROVE  CopyOf(e, Passed(e), Taken(e))'
    BY <1>1 DEF NothingLost
  <2>1. CopyOf(e, Passed(e), Taken(e)) /\ Passed(e)' = Passed(e) /\ Taken(e)' = Taken(e)
    BY <1>1, <1>8 DEF DataInv, NothingLost, Taken
  <2> QED
    BY <1>1, <2>1, CopySame
<1>10. ReceivedIsPrefix'
  <2> SUFFICES ASSUME NEW g \in Conn, partner[g] # None
               PROVE  (\E n \in 0..Len(log[partner[g]]) : CopyOf(partner[g], got[g], n))'
    BY <1>1, <1>2, <1>6 DEF DataInv, ReceivedIsPrefix
  <2>1. PICK e \in Conn : partner[g] = e /\ partner'[g] = e
    BY <1>1, Partners
  <2>2. CASE g # d
    <3>1. PICK n \in 0..Len(log[e]) : CopyOf(e, got[g], n)
      BY <2>1 DEF DataInv, ReceivedIsPrefix
    <3>2. CopyOf(e, got[g], n)'
      BY <1>1, <1>2, <2>2, <3>1, CopySame
    <3> QED
      BY <1>1, <2>1, <3>2
  <2>3. CASE g = d
    <3>1. partner[e] = d /\ partner[e] # None
      BY <2>1, <2>3, Partners
    <3>2. chunk[e] \in Seq(Frame)
      BY DEF DataInv, RelayTypeOK
    <3>3. down'[d] \o chunk[e] \in Seq(Frame)
      BY <1>3, <3>2
    <3>4. PICK s \in Seq(Frame), t \in Seq(Frame) : s = got'[d] /\ t = down'[d] \o chunk[e]
      BY <1>3, <3>3
    <3>5. Passed(e)' = got'[d] \o down'[d] \o chunk[e]
      BY <1>1, <3>1 DEF Passed
    <3>6. Passed(e) = s \o t
      <4>1. \A x, y, z \in Seq(Frame) : x \o y \o z = x \o (y \o z)
        OBVIOUS
      <4>2. got'[d] \o down'[d] \o chunk[e] = got'[d] \o (down'[d] \o chunk[e])
        BY <1>3, <3>2, <4>1, ZenonT(60)
      <4>3. Passed(e)' = Passed(e)
        BY <1>8, <3>1
      <4> QED
        BY <3>4, <3>5, <4>2, <4>3
    <3>7. CopyOf(e, s \o t, Taken(e)) /\ Taken(e) \in Nat /\ Taken(e) <= Len(log[e])
      <4>1. CopyOf(e, Passed(e), Taken(e))
        BY <1>1, <3>1 DEF DataInv, NothingLost
      <4>2. Len(log[e]) \in Nat /\ Taken(e) \in 0..Len(log[e])
        BY DataTypes
      <4> QED
        BY <3>6, <4>1, <4>2
    <3>8. PICK m \in 0..Taken(e) : CopyOf(e, s, m)
      BY <3>7, CopyPrefix DEF DataInv
    <3>9. CopyOf(e, s, m)' /\ m \in 0..Len(log'[e])
      BY <1>1, <3>7, <3>8, CopySame, DataTypes
    <3> QED
      BY <2>1, <2>3, <3>4, <3>9
  <2> QED
    BY <2>2, <2>3
<1> QED
  BY <1>4, <1>5, <1>7, <1>9, <1>10 DEF DataInv

\* The relay reads one frame: it is dropped when it is text for a TCP peer, and
\* in the loop's hands otherwise.
LEMMA ReadStep ==
  ASSUME PairInv, DataInv, NEW c \in Conn, Read(c)
  PROVE  DataInv'
<1> DEFINE f == Head(up[c])
<1>1. /\ up' = [up EXCEPT ![c] = Tail(@)]
      /\ chunk' = [chunk EXCEPT ![c] = IF Copies(c, f) THEN <<f>> ELSE << >>]
      /\ up[c] # << >> /\ chunk[c] = << >> /\ partner[c] # None
      /\ UNCHANGED <<conn, pc, hand, slot, partner, client, down, eof, log, got>>
  BY DEF Read, Pumped, vars
<1>2. up[c] \in Seq(Frame) /\ f \in Frame /\ Tail(up[c]) \in Seq(Frame)
  BY <1>1 DEF DataInv, RelayTypeOK
<1>3. /\ up'[c] = Tail(up[c]) /\ chunk'[c] = IF Copies(c, f) THEN <<f>> ELSE << >>
      /\ chunk'[c] \in Seq(Frame) /\ Len(chunk'[c]) <= 1
      /\ \A e \in Conn \ {c} : up'[e] = up[e] /\ chunk'[e] = chunk[e]
  BY <1>1, <1>2 DEF DataInv, RelayTypeOK
<1>4. RelayTypeOK'
  <2>1. up' \in [Conn -> Seq(Frame)] /\ chunk' \in [Conn -> Seq(Frame)]
    BY <1>1, <1>2, <1>3 DEF DataInv, RelayTypeOK
  <2>2. \A e \in Conn : Len(chunk'[e]) <= 1
    BY <1>3 DEF DataInv, RelayTypeOK
  <2> QED
    BY <1>1, <2>1, <2>2 DEF DataInv, RelayTypeOK, TypeOK
<1>5. Numbered' /\ Idle'
  BY <1>1, <1>3 DEF DataInv, Numbered, Idle
<1>6. /\ Len(up[c]) >= 1 /\ Len(up'[c]) = Len(up[c]) - 1 /\ f = up[c][1]
      /\ \A i \in 1..Len(up'[c]) : up'[c][i] = up[c][i + 1]
  <2>1. \A s \in Seq(Frame) : s # << >> =>
          /\ Len(s) >= 1 /\ Len(Tail(s)) = Len(s) - 1 /\ Head(s) = s[1]
          /\ \A i \in 1..Len(Tail(s)) : Tail(s)[i] = s[i + 1]
    BY SMTT(30)
  <2>2. PICK s \in Seq(Frame) : s = up[c]
    BY <1>2
  <2>3. up'[c] = Tail(s) /\ f = Head(s) /\ s # << >>
    BY <1>1, <1>3, <2>2
  <2>4. /\ Len(s) >= 1 /\ Len(Tail(s)) = Len(s) - 1 /\ Head(s) = s[1]
        /\ \A i \in 1..Len(Tail(s)) : Tail(s)[i] = s[i + 1]
    BY <2>1, <2>3
  <2> HIDE DEF f
  <2> QED
    BY <2>2, <2>3, <2>4
<1>7. /\ Taken(c) \in Nat /\ Len(log[c]) \in Nat /\ Taken(c) < Len(log[c])
      /\ Taken(c)' = Taken(c) + 1 /\ f = log[c][Taken(c) + 1]
  <2>1. /\ Taken(c) \in Nat /\ Len(log[c]) \in Nat /\ Len(up[c]) \in Nat
        /\ Len(up[c]) = Len(log[c]) - Taken(c)
    BY DataTypes
  <2>2. Taken(c)' = Len(log[c]) - Len(up'[c])
    BY <1>1 DEF Taken
  <2>3. 1 \in 1..Len(up[c])
    BY <1>6, <2>1
  <2>4. up[c][1] = log[c][Taken(c) + 1]
    BY <2>3 DEF DataInv, Unread
  <2>5. Len(up'[c]) = Len(up[c]) - 1 /\ Len(up[c]) >= 1
    BY <1>6
  <2>6. Taken(c)' = Taken(c) + 1 /\ Taken(c) < Len(log[c])
    BY <2>1, <2>2, <2>5
  <2> QED
    BY <1>6, <2>1, <2>4, <2>6
<1>8. \A e \in Conn \ {c} : Taken(e)' = Taken(e)
  BY <1>1, <1>3 DEF Taken
<1>9. Unread'
  <2>1. \A e \in Conn \ {c} : Taken(e)' \in Nat
                           /\ \A i \in 1..Len(up'[e]) : up'[e][i] = log'[e][Taken(e)' + i]
    BY <1>1, <1>3, <1>8 DEF DataInv, Unread
  <2>2. ASSUME NEW i \in 1..Len(up'[c]) PROVE up'[c][i] = log'[c][Taken(c)' + i]
    <3>1. i + 1 \in 1..Len(up[c]) /\ Taken(c) + 1 + i = Taken(c) + (i + 1)
      <4>1. Len(up[c]) \in Nat /\ Len(up'[c]) = Len(up[c]) - 1 /\ Taken(c) \in Nat
        BY <1>2, <1>6, <1>7
      <4> QED
        BY <4>1
    <3> QED
      BY <1>1, <1>6, <1>7, <3>1 DEF DataInv, Unread
  <2>3. Taken(c)' \in Nat
    BY <1>7
  <2> QED
    BY <2>1, <2>2, <2>3 DEF Unread
<1> HIDE DEF f
<1>10. Copies(c, f) <=> Due(c, f)
  <2>1. f.kind = "text" => c \in Ws
    BY <1>7 DEF DataInv, Numbered
  <2>2. f.kind \in {"binary", "text"}
    BY <1>2 DEF Frame, Kind
  <2> QED
    BY <2>1, <2>2, RelayAssumption DEF Copies, CopiesText, Due
<1>11. NothingLost'
  <2> SUFFICES ASSUME NEW e \in Conn, partner[e] # None, client[partner[e]] # "gone"
               PROVE  CopyOf(e, Passed(e), Taken(e))'
    BY <1>1 DEF NothingLost
  <2>1. CopyOf(e, Passed(e), Taken(e))
    BY DEF DataInv, NothingLost
  <2>2. CASE e # c
    <3>1. Passed(e)' = Passed(e) /\ Taken(e)' = Taken(e)
      BY <1>1, <1>3, <1>8, <2>2 DEF Passed
    <3> QED
      BY <1>1, <2>1, <3>1, CopySame
  <2>3. CASE e = c
    <3> DEFINE s == got[partner[c]] \o down[partner[c]]
    <3>1. got[partner[c]] \in Seq(Frame) /\ down[partner[c]] \in Seq(Frame)
      BY <1>1, Partners DEF DataInv, RelayTypeOK
    <3>2. s \in Seq(Frame)
      BY <3>1
    <3>3. Passed(c) = s \o chunk[c] /\ Passed(c)' = s \o chunk'[c]
      BY <1>1 DEF Passed
    <3> HIDE DEF s
    <3>4. s \o << >> = s /\ s \o <<f>> = Append(s, f)
      BY <1>2, <3>2
    <3>5. CopyOf(c, s, Taken(c))
      BY <1>1, <2>1, <2>3, <3>3, <3>4
    <3>6. CASE Due(c, f)
      <4>1. CopyOf(c, Append(s, f), Taken(c) + 1)
        BY <1>7, <3>2, <3>5, <3>6, CopyMore DEF DataInv
      <4>2. Passed(c)' = Append(s, f)
        BY <1>3, <1>10, <3>3, <3>4, <3>6
      <4> QED
        BY <1>1, <1>7, <2>3, <4>1, <4>2, CopySame
    <3>7. CASE ~Due(c, f)
      <4>1. CopyOf(c, s, Taken(c) + 1)
        BY <1>7, <3>2, <3>5, <3>7, CopyMore DEF DataInv
      <4>2. Passed(c)' = s
        BY <1>3, <1>10, <3>3, <3>4, <3>7
      <4> QED
        BY <1>1, <1>7, <2>3, <4>1, <4>2, CopySame
    <3> QED
      BY <3>6, <3>7
  <2> QED
    BY <2>2, <2>3
<1>12. ReceivedIsPrefix'
  BY <1>1, CopySame DEF DataInv, ReceivedIsPrefix
<1> QED
  BY <1>4, <1>5, <1>9, <1>11, <1>12 DEF DataInv

\* The relay writes the frame it holds: Passed stays, unless the receiver is gone.
LEMMA WriteStep ==
  ASSUME PairInv, DataInv, NEW c \in Conn, Write(c)
  PROVE  DataInv'
<1> DEFINE d == partner[c]
<1>1. /\ chunk' = [chunk EXCEPT ![c] = << >>] /\ d # None
      /\ \/ client[d] # "gone" /\ down' = [down EXCEPT ![d] = @ \o chunk[c]]
         \/ client[d] = "gone" /\ down' = down
      /\ UNCHANGED <<conn, pc, hand, slot, partner, client, up, eof, log, got>>
  BY DEF Write, Pumped, vars
<1>2. /\ d \in Conn /\ partner[d] # None
      /\ \A e \in Conn : partner[e] = d => e = c
  BY <1>1, Partners
<1> HIDE DEF d
<1>3. down[d] \in Seq(Frame) /\ chunk[c] \in Seq(Frame) /\ got[d] \in Seq(Frame)
  BY <1>2 DEF DataInv, RelayTypeOK
<1>4. /\ chunk'[c] = << >> /\ \A e \in Conn \ {c} : chunk'[e] = chunk[e]
      /\ \A e \in Conn \ {d} : down'[e] = down[e]
      /\ client[d] # "gone" => down'[d] = down[d] \o chunk[c]
      /\ down'[d] \in Seq(Frame)
  <2>1. down[d] \o chunk[c] \in Seq(Frame)
    BY <1>3
  <2>2. chunk \in [Conn -> Seq(Frame)] /\ down \in [Conn -> Seq(Frame)]
    BY DEF DataInv, RelayTypeOK
  <2>3. chunk'[c] = << >> /\ \A e \in Conn \ {c} : chunk'[e] = chunk[e]
    BY <1>1, <2>2
  <2>4. CASE client[d] = "gone"
    BY <1>1, <1>3, <2>3, <2>4
  <2>5. CASE client[d] # "gone"
    <3>1. down'[d] = down[d] \o chunk[c] /\ \A e \in Conn \ {d} : down'[e] = down[e]
      BY <1>1, <1>2, <2>2, <2>5
    <3> QED
      BY <2>1, <2>3, <3>1
  <2> QED
    BY <2>4, <2>5
<1>5. RelayTypeOK'
  <2>1. chunk' \in [Conn -> Seq(Frame)] /\ \A e \in Conn : Len(chunk'[e]) <= 1
    BY <1>1, <1>4 DEF DataInv, RelayTypeOK
  <2>2. down' \in [Conn -> Seq(Frame)]
    BY <1>1, <1>2, <1>4 DEF DataInv, RelayTypeOK
  <2> QED
    BY <1>1, <2>1, <2>2 DEF DataInv, RelayTypeOK, TypeOK
<1>6. Numbered' /\ Unread'
  BY <1>1 DEF DataInv, Numbered, Unread, Taken
<1>7. Idle'
  <2> SUFFICES ASSUME NEW e \in Conn, partner[e] = None
               PROVE  up[e] = log[e] /\ chunk'[e] = << >> /\ down'[e] = << >> /\ got[e] = << >>
    BY <1>1 DEF Idle
  <2>1. e # c /\ e # d
    BY <1>1, <1>2 DEF d
  <2> QED
    BY <1>4, <2>1 DEF DataInv, Idle
<1>8. NothingLost'
  <2> SUFFICES ASSUME NEW e \in Conn, partner[e] # None, client[partner[e]] # "gone"
               PROVE  CopyOf(e, Passed(e), Taken(e))'
    BY <1>1 DEF NothingLost
  <2>1. CopyOf(e, Passed(e), Taken(e)) /\ Taken(e)' = Taken(e)
    BY <1>1 DEF DataInv, NothingLost, Taken
  <2>2. Passed(e)' = Passed(e)
    <3>1. CASE e # c
      <4>1. partner[e] \in Conn \ {d}
        BY <1>2, <3>1, Partners
      <4> QED
        BY <1>1, <1>4, <3>1, <4>1 DEF Passed
    <3>2. CASE e = c
      <4>1. Passed(e)' = got[d] \o down'[d] \o << >>
        BY <1>1, <1>4, <3>2 DEF Passed, d
      <4>2. Passed(e) = got[d] \o down[d] \o chunk[c]
        BY <3>2 DEF Passed, d
      <4>3. \A x, y, z \in Seq(Frame) : x \o (y \o z) = x \o y \o z
        OBVIOUS
      <4>4. \A x \in Seq(Frame) : x \o << >> = x
        OBVIOUS
      <4>5. down'[d] = down[d] \o chunk[c] /\ got[d] \o down'[d] \in Seq(Frame)
        <5>1. down'[d] = down[d] \o chunk[c]
          BY <1>4, <3>2 DEF d
        <5>2. got[d] \o down'[d] \in Seq(Frame)
          BY <1>3, <1>4
        <5> QED
          BY <5>1, <5>2
      <4>6. got[d] \o (down[d] \o chunk[c]) = got[d] \o down[d] \o chunk[c]
        BY <1>3, <4>3
      <4> QED
        BY <4>1, <4>2, <4>4, <4>5, <4>6
    <3> QED
      BY <3>1, <3>2
  <2> QED
    BY <1>1, <2>1, <2>2, CopySame
<1>9. ReceivedIsPrefix'
  BY <1>1, CopySame DEF DataInv, ReceivedIsPrefix
<1> QED
  BY <1>5, <1>6, <1>7, <1>8, <1>9 DEF DataInv

LEMMA DataInvariant == RelaySpec => []DataInv
<1>1. RelayInit => DataInv
  <2> SUFFICES ASSUME RelayInit PROVE DataInv
    OBVIOUS
  <2>1. RelayTypeOK
    BY DEF RelayInit, Init, RelayTypeOK, TypeOK
  <2>2. \A c \in Conn : partner[c] = None /\ log[c] = << >> /\ up[c] = << >>
    BY DEF RelayInit, Init
  <2>3. Numbered /\ Unread
    <3>1. \A c \in Conn : Len(log[c]) = 0 /\ Len(up[c]) = 0
      BY <2>2
    <3>2. Numbered
      BY <3>1 DEF Numbered
    <3>3. \A c \in Conn : Taken(c) = 0
      BY <3>1 DEF Taken
    <3>4. Unread
      BY <3>1, <3>3 DEF Unread
    <3> QED
      BY <3>2, <3>4
  <2>4. Idle /\ NothingLost /\ ReceivedIsPrefix
    BY <2>2 DEF RelayInit, Idle, NothingLost, ReceivedIsPrefix
  <2> QED
    BY <2>1, <2>3, <2>4 DEF DataInv
<1>2. PairInv /\ PairInv' /\ [Next]_vars /\ DataInv /\ [RelayNext]_relay => DataInv'
  <2> SUFFICES ASSUME PairInv, PairInv', [Next]_vars, DataInv, [RelayNext]_relay
               PROVE  DataInv'
    OBVIOUS
  <2>1. /\ client \in [Conn -> {"new", "shaking", "up", "half", "gone"}]
        /\ \A c \in Conn : conn[c] = "new" => partner[c] = None
    BY DEF DataInv, RelayTypeOK, PairInv, HandsOK
  <2>2. ASSUME NEW c \in Conn, ClientArrive(c) PROVE DataInv'
    <3>1. conn[c] = "new" /\ UNCHANGED data
          /\ client' = [client EXCEPT ![c] = IF c \in Tcp THEN "up" ELSE "shaking"]
      BY <2>2 DEF ClientArrive, Arrive
    <3> QED
      BY <2>1, <3>1, QuietStep
  <2>3. ASSUME NEW c \in Conn, ClientReceive(c) PROVE DataInv'
    BY <2>3, ReceiveStep
  <2>4. ASSUME NEW c \in Conn, ClientLeave(c) PROVE DataInv'
    <3>1. UNCHANGED data /\ client[c] # "gone"
          /\ \E x \in {"half", "gone"} : client' = [client EXCEPT ![c] = x]
      BY <2>4 DEF ClientLeave
    <3> QED
      BY <2>1, <3>1, QuietStep
  <2>5. ASSUME NEW c \in Conn, NEW kind \in Kind, ClientSend(c, kind) PROVE DataInv'
    BY <2>5, SendStep
  <2>6. ASSUME NEW c \in Conn, Read(c) PROVE DataInv'
    BY <2>6, ReadStep
  <2>7. ASSUME NEW c \in Conn, Write(c) PROVE DataInv'
    BY <2>7, WriteStep
  <2>8. ASSUME NEW c \in Conn, ReadEof(c) PROVE DataInv'
    <3>1. /\ eof' \in [Conn -> BOOLEAN]
          /\ UNCHANGED <<conn, pc, hand, slot, partner, client, up, chunk, down, log, got>>
      BY <2>8 DEF ReadEof, vars, DataInv, RelayTypeOK
    <3>2. RelayTypeOK'
      BY <3>1 DEF DataInv, RelayTypeOK, TypeOK
    <3>3. Numbered' /\ Idle' /\ Unread'
      BY <3>1 DEF DataInv, Numbered, Idle, Unread, Taken
    <3>4. NothingLost'
      <4> SUFFICES ASSUME NEW e \in Conn, partner[e] # None, client[partner[e]] # "gone"
                   PROVE  CopyOf(e, Passed(e), Taken(e))'
        BY <3>1 DEF NothingLost
      <4>1. CopyOf(e, Passed(e), Taken(e))
        BY DEF DataInv, NothingLost
      <4>2. Passed(e)' = Passed(e) /\ Taken(e)' = Taken(e)
        BY <3>1 DEF Passed, Taken
      <4> QED
        BY <3>1, <4>1, <4>2, CopySame
    <3>5. ReceivedIsPrefix'
      BY <3>1, CopySame DEF DataInv, ReceivedIsPrefix
    <3> QED
      BY <3>2, <3>3, <3>4, <3>5 DEF DataInv
  <2>9. ASSUME NEW c \in Conn, Finish(c) \/ PumpError(c) PROVE DataInv'
    <3>1. UNCHANGED <<client, data>>
      BY <2>9 DEF Finish, PumpError
    <3> QED
      BY <2>1, <3>1, QuietStep
  <2>10. CASE ClientHandshake
    <3>1. UNCHANGED data /\ client[hand["ws"]] = "shaking"
          /\ client' = [client EXCEPT ![hand["ws"]] = "up"]
      BY <2>10 DEF ClientHandshake
    <3> QED
      BY <2>1, <3>1, QuietStep
  <2>11. CASE PairingStep
    <3>1. UNCHANGED <<client, data>>
      BY <2>11 DEF PairingStep
    <3> QED
      BY <2>1, <3>1, QuietStep
  <2>12. CASE UNCHANGED relay
    BY <2>1, <2>12, QuietStep DEF relay
  <2> QED
    BY <2>2, <2>3, <2>4, <2>5, <2>6, <2>7, <2>8, <2>9, <2>10, <2>11, <2>12
       DEF RelayNext, Pump
<1> QED
  BY <1>1, <1>2, PairInvariant, PairingUnderPumps, PTL DEF RelaySpec, PairingSteps

\* The copy loops lose, duplicate and reorder nothing: while a pair lasts and the
\* receiving client is there, the frames it was sent are received, on their way
\* or unread, whatever the lengths of the buffers.
THEOREM NoFrameIsLost == RelaySpec => []PumpIsLossless
<1>1. PairInv /\ DataInv => PumpIsLossless
  <2> SUFFICES ASSUME PairInv, DataInv, NEW c \in Conn,
                      partner[c] # None, client[partner[c]] # "gone"
               PROVE  /\ Taken(c) >= 0
                      /\ up[c] = SubSeq(log[c], Taken(c) + 1, Len(log[c]))
                      /\ CopyOf(c, Passed(c), Taken(c))
    BY DEF PumpIsLossless, Pumped
  <2>1. CopyOf(c, Passed(c), Taken(c))
    BY DEF DataInv, NothingLost
  <2>2. /\ Taken(c) \in Nat /\ Len(log[c]) \in Nat /\ Taken(c) <= Len(log[c])
        /\ Len(up[c]) = Len(log[c]) - Taken(c)
        /\ log[c] \in Seq(Frame) /\ up[c] \in Seq(Frame)
        /\ \A i \in 1..Len(up[c]) : up[c][i] = log[c][Taken(c) + i]
    BY DataTypes DEF DataInv, RelayTypeOK, Unread
  <2>3. \A s, t \in Seq(Frame), k \in Nat :
          /\ k <= Len(s) /\ Len(t) = Len(s) - k
          /\ \A i \in 1..Len(t) : t[i] = s[k + i]
          => t = SubSeq(s, k + 1, Len(s))
    OBVIOUS
  <2>4. up[c] = SubSeq(log[c], Taken(c) + 1, Len(log[c]))
    BY <2>2, <2>3
  <2> QED
    BY <2>1, <2>2, <2>4
<1> QED
  BY <1>1, PairInvariant, PairingUnderPumps, DataInvariant, PTL DEF PairingSteps

\* Whatever fails, a client has received a copy of the first frames its partner
\* sent, and nothing when it was never paired.
THEOREM ReceivedInOrder == RelaySpec => []ReceivedIsPrefix
BY DataInvariant, PTL DEF DataInv
=============================================================================
