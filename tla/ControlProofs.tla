--------------------------- MODULE ControlProofs ---------------------------
(***************************************************************************)
(* Proofs about the control plane, for any number of concurrent calls,     *)
(* users, ids and events.                                                  *)
(***************************************************************************)
EXTENDS Control, TLAPS

USE ControlAssumption DEF Running

(***************************************************************************)
(* Bindings.  BindInv says what each statement may rely on when it runs,   *)
(* however long ago the statement before it ran.                           *)
(***************************************************************************)

\* A handler that is past its insert, or that found a binding, has the id its
\* user is bound to; one about to insert has drawn an id.
IdsOK ==
  \A c \in Calls :
    /\ pc[c] \in {"audit", "answer"} => bound[UserOf[c]] = id[c] /\ id[c] # None
    /\ pc[c] = "insert" => id[c] # None
    /\ pc[c] \in {"new", "select", "fresh"} => tries[c] < MaxTries

\* Every answer is still right.
ToldOK == \A u \in Users, i \in Ids : <<u, i>> \in told => bound[u] = i

\* A late call finds its user's binding.
LateOK ==
  \A c \in late : /\ bound[UserOf[c]] # None
                  /\ pc[c] \in {"select", "answer", "done", "gone"}

BindInv == TypeOK /\ IdsOK /\ ToldOK /\ LateOK

LEMMA AppendType == ASSUME NEW S, NEW s \in Seq(S), NEW r \in S
                    PROVE  Append(s, r) \in Seq(S)
OBVIOUS

LEMMA BindInvariant == Spec => []BindInv
<1>1. Init => BindInv
  BY DEF Init, BindInv, TypeOK, IdsOK, ToldOK, LateOK, Row
<1>2. BindInv /\ [Next]_vars => BindInv'
  <2> SUFFICES ASSUME BindInv, [Next]_vars PROVE BindInv'
    OBVIOUS
  <2> USE DEF BindInv, TypeOK, IdsOK, ToldOK, LateOK, Goto
  <2>1. ASSUME NEW c \in Calls, Call(c) PROVE BindInv'
    <3>1. /\ UNCHANGED <<bound, told, audit, id, tries, emitted>>
          /\ pc[c] = "new" /\ pc' = [pc EXCEPT ![c] = "select"]
          /\ late' = late \/ late' = late \cup {c}
          /\ c \in late' \ late => bound[UserOf[c]] # None
      BY <2>1 DEF Call, peers
    <3>2. TypeOK' /\ IdsOK' /\ ToldOK'
      BY <3>1
    <3>3. LateOK'
      BY <3>1
    <3> QED
      BY <3>2, <3>3
  <2>2. ASSUME NEW c \in Calls, Select(c) PROVE BindInv'
    <3>1. /\ UNCHANGED <<bound, told, audit, tries, emitted, late>> /\ pc[c] = "select"
          /\ \/ /\ bound[UserOf[c]] = None /\ id' = id
                /\ pc' = [pc EXCEPT ![c] = "fresh"]
             \/ /\ bound[UserOf[c]] # None /\ id' = [id EXCEPT ![c] = bound[UserOf[c]]]
                /\ pc' = [pc EXCEPT ![c] = "answer"]
      BY <2>2 DEF Select, peers
    <3>2. TypeOK' /\ ToldOK'
      BY <3>1, ZenonT(60)
    <3>3. IdsOK'
      <4>1. CASE bound[UserOf[c]] = None
        BY <3>1, <4>1
      <4>2. CASE bound[UserOf[c]] # None
        <5>1. id' = [id EXCEPT ![c] = bound[UserOf[c]]] /\ pc' = [pc EXCEPT ![c] = "answer"]
          BY <3>1, <4>2
        <5>2. \A d \in Calls \ {c} : id'[d] = id[d] /\ pc'[d] = pc[d]
          BY <5>1
        <5>3. id'[c] = bound[UserOf[c]] /\ pc'[c] = "answer"
          BY <5>1
        <5> QED
          BY <3>1, <4>2, <5>2, <5>3
      <4> QED
        BY <4>1, <4>2
    <3>4. LateOK'
      BY <3>1
    <3> QED
      BY <3>2, <3>3, <3>4
  <2>3. ASSUME NEW c \in Calls, Fresh(c) PROVE BindInv'
    <3>1. PICK i \in Ids :
            \/ /\ id' = [id EXCEPT ![c] = i] /\ pc' = [pc EXCEPT ![c] = "insert"]
               /\ tries' = tries
            \/ /\ tries[c] + 1 < MaxTries /\ tries' = [tries EXCEPT ![c] = @ + 1]
               /\ pc' = pc /\ id' = id
            \/ /\ tries[c] + 1 = MaxTries /\ tries' = [tries EXCEPT ![c] = @ + 1]
               /\ pc' = [pc EXCEPT ![c] = "failed"] /\ id' = id
      BY <2>3 DEF Fresh
    <3>2. UNCHANGED <<bound, told, audit, emitted, late>> /\ pc[c] = "fresh"
      BY <2>3 DEF Fresh, peers
    <3>3. TypeOK' /\ ToldOK'
      <4>1. tries' = tries \/ (tries' = [tries EXCEPT ![c] = @ + 1] /\ tries[c] < MaxTries)
        BY <3>1, <3>2
      <4>2. tries' \in [Calls -> 0..MaxTries]
        <5>1. tries \in [Calls -> 0..MaxTries]
          OBVIOUS
        <5>2. tries[c] < MaxTries => tries[c] + 1 \in 0..MaxTries
          BY <5>1
        <5> HIDE DEF BindInv
        <5> QED
          BY <4>1, <5>1, <5>2
      <4>3. pc' \in [Calls -> Running \cup {"new", "done", "failed", "gone"}]
        BY <3>1
      <4>4. id' \in [Calls -> Ids \cup {None}]
        BY <3>1
      <4> QED
        BY <3>2, <4>2, <4>3, <4>4
    <3>4. IdsOK'
      BY <3>1, <3>2
    <3>5. LateOK'
      BY <3>1, <3>2
    <3> QED
      BY <3>3, <3>4, <3>5
  <2>4. ASSUME NEW c \in Calls, Insert(c) PROVE BindInv'
    <3>1. UNCHANGED <<told, audit, id, tries, emitted, late>> /\ pc[c] = "insert"
      BY <2>4 DEF Insert
    <3>2. CASE bound' = bound /\ pc' = [pc EXCEPT ![c] = "failed"]
      BY <3>1, <3>2
    <3>3. CASE /\ bound[UserOf[c]] = None /\ pc' = [pc EXCEPT ![c] = "audit"]
               /\ bound' = [bound EXCEPT ![UserOf[c]] = id[c]]
      <4>1. TypeOK' /\ ToldOK'
        BY <3>1, <3>3
      <4>2. IdsOK'
        BY <3>1, <3>3
      <4>3. LateOK'
        BY <3>1, <3>3
      <4> QED
        BY <4>1, <4>2, <4>3
    <3> QED
      BY <2>4, <3>2, <3>3 DEF Insert
  <2>5. ASSUME NEW c \in Calls, Record(c) PROVE BindInv'
    <3>1. audit' \in Seq(Row)
      <4>1. BindRow(UserOf[c], id[c]) \in Row
        BY <2>5 DEF Record, BindRow, Row
      <4> QED
        <5>1. audit' = audit \/ audit' = Append(audit, BindRow(UserOf[c], id[c]))
          BY <2>5 DEF Record
        <5>2. audit \in Seq(Row)
          OBVIOUS
        <5> HIDE DEF BindInv
        <5> QED
          BY <4>1, <5>1, <5>2, AppendType, Zenon
    <3>2. /\ UNCHANGED <<bound, told, id, tries, emitted, late>> /\ pc[c] = "audit"
          /\ pc' = [pc EXCEPT ![c] = "answer"]
      BY <2>5 DEF Record, peers
    <3> QED
      BY <3>1, <3>2
  <2>6. ASSUME NEW c \in Calls, Answer(c) PROVE BindInv'
    BY <2>6 DEF Answer
  <2>7. ASSUME NEW c \in Calls, DbError(c) \/ Abandon(c) PROVE BindInv'
    BY <2>7, ZenonT(60) DEF DbError, Abandon, peers
  <2>8. ASSUME NEW u \in Users, get_peer(u) PROVE BindInv'
    BY <2>8 DEF get_peer, handlers
  <2>9. ASSUME NEW e \in Events, emit(e) PROVE BindInv'
    BY <2>9 DEF emit, peers, handlers
  <2>10. ASSUME NEW e \in Events, ingest_audit(e) PROVE BindInv'
    <3>1. audit' \in Seq(Row)
      <4>1. EventRow(e) \in Row
        BY DEF EventRow, Row
      <4> QED
        <5>1. audit' = audit \/ audit' = Append(audit, EventRow(e))
          BY <2>10 DEF ingest_audit
        <5>2. audit \in Seq(Row)
          OBVIOUS
        <5> HIDE DEF BindInv
        <5> QED
          BY <4>1, <5>1, <5>2, AppendType, Zenon
    <3> QED
      BY <2>10, <3>1 DEF ingest_audit, peers, handlers
  <2>11. CASE UNCHANGED vars
    BY <2>11 DEF vars, peers, handlers
  <2> HIDE DEF BindInv
  <2> QED
    BY <2>1, <2>2, <2>3, <2>4, <2>5, <2>6, <2>7, <2>8, <2>9, <2>10, <2>11
       DEF Next, Step
<1> QED
  BY <1>1, <1>2, PTL DEF Spec

\* The state has its type; a handler never draws more than MaxTries ids.
THEOREM TypeCorrect == Spec => []TypeOK
BY BindInvariant, PTL DEF BindInv

\* A call made after its user's id was given out never draws an id and never
\* fails for a conflict with another call.
THEOREM AnsweredForGood == Spec => []BoundStaysAnswered
<1>1. BindInv => BoundStaysAnswered
  BY DEF BindInv, LateOK, BoundStaysAnswered
<1> QED
  BY <1>1, BindInvariant, PTL

\* The handlers, interleaved statement by statement, implement PeerBinding: one
\* binding for each user, for good, and every answer tells it.
THEOREM BindingImplemented == Spec => ImplementsPeerBinding
<1>1. Init => Binding!Init
  BY DEF Init, Binding!Init
<1>2. BindInv /\ [Next]_vars => [Binding!Next]_<<bound, told>>
  <2> SUFFICES ASSUME BindInv, [Next]_vars, ~ UNCHANGED <<bound, told>>
               PROVE  Binding!Next
    OBVIOUS
  <2> USE DEF BindInv, TypeOK, IdsOK
  <2>1. ASSUME NEW c \in Calls, Insert(c) PROVE Binding!Next
    <3>1. Binding!Bind(UserOf[c], id[c]) /\ id[c] \in Ids
      BY <2>1 DEF Insert, Taken, Binding!Bind
    <3> QED
      BY <3>1 DEF Binding!Next
  <2>2. ASSUME NEW c \in Calls, Answer(c) PROVE Binding!Next
    <3>1. Binding!Tell(UserOf[c])
      BY <2>2 DEF Answer, Binding!Tell
    <3> QED
      BY <3>1 DEF Binding!Next
  <2>3. ASSUME NEW u \in Users, get_peer(u) PROVE Binding!Next
    BY <2>3 DEF get_peer, Binding!Tell, Binding!Next
  <2>4. ASSUME NEW c \in Calls,
               Call(c) \/ Select(c) \/ Fresh(c) \/ Record(c) \/ DbError(c) \/ Abandon(c)
        PROVE  FALSE
    BY <2>4 DEF Call, Select, Fresh, Record, DbError, Abandon, peers
  <2>5. ASSUME NEW e \in Events, emit(e) \/ ingest_audit(e) PROVE FALSE
    BY <2>5 DEF emit, ingest_audit, peers
  <2>6. CASE UNCHANGED vars
    BY <2>6 DEF vars, peers
  <2> QED
    BY <2>1, <2>2, <2>3, <2>4, <2>5, <2>6 DEF Next, Step
<1> QED
  BY <1>1, <1>2, BindInvariant, PTL DEF Spec, ImplementsPeerBinding, Binding!Spec
-----------------------------------------------------------------------------
(***************************************************************************)
(* The audit table.  A row is written once because the right to write it   *)
(* is used up: one call inserts the binding of a user, and each event is   *)
(* posted once.                                                            *)
(***************************************************************************)

Logged(k, s) == \E i \in 1..Len(audit) : audit[i].kind = k /\ audit[i].subject = s

\* Only the call that inserted a binding may record it, and has not yet.
RecordOnce ==
  \A c \in Calls : pc[c] = "audit" =>
    /\ ~Logged("peer_bound", UserOf[c])
    /\ \A d \in Calls : pc[d] = "audit" /\ UserOf[d] = UserOf[c] => d = c

IngestOnce == \A e \in Events : emitted[e] # "over" => ~Logged("event", e)

AuditInv == AuditIsTruthful /\ RecordOnce /\ IngestOnce

\* What a row appended to the table changes: itself.
LEMMA AppendedRow ==
  ASSUME NEW r \in Row, audit \in Seq(Row), audit' = Append(audit, r),
         ~Logged(r.kind, r.subject), AuditIsTruthful, UNCHANGED bound,
         r.kind = "peer_bound" => bound[r.subject] = r.peer_id
  PROVE  /\ AuditIsTruthful'
         /\ \A k, s : Logged(k, s)' => Logged(k, s) \/ (k = r.kind /\ s = r.subject)
<1>1. /\ Len(audit') = Len(audit) + 1 /\ Len(audit) \in Nat
      /\ \A i \in 1..Len(audit) : audit'[i] = audit[i]
      /\ audit'[Len(audit) + 1] = r
  OBVIOUS
<1> DEFINE n == Len(audit)
<1> HIDE DEF n
<1>2. /\ n \in Nat /\ Len(audit') = n + 1 /\ audit'[n + 1] = r
      /\ \A i \in 1..n : audit'[i] = audit[i]
      /\ \A i \in 1..(n + 1) : i \in 1..n \/ i = n + 1
  BY <1>1 DEF n
<1>3. \A i \in 1..n : ~(audit[i].kind = r.kind /\ audit[i].subject = r.subject)
  BY DEF n, Logged
<1>4. AuditIsTruthful'
  BY <1>2, <1>3 DEF AuditIsTruthful, n
<1>5. \A k, s : Logged(k, s)' => Logged(k, s) \/ (k = r.kind /\ s = r.subject)
  <2> SUFFICES ASSUME NEW k, NEW s, Logged(k, s)'
               PROVE  Logged(k, s) \/ (k = r.kind /\ s = r.subject)
    OBVIOUS
  <2>1. PICK i \in 1..(n + 1) : audit'[i].kind = k /\ audit'[i].subject = s
    BY <1>2 DEF Logged
  <2>2. CASE i = n + 1
    BY <1>2, <2>1, <2>2
  <2>3. CASE i \in 1..n
    <3>1. audit[i].kind = k /\ audit[i].subject = s
      BY <1>2, <2>1, <2>3
    <3> QED
      BY <2>3, <3>1 DEF Logged, n
  <2> QED
    BY <1>2, <2>2, <2>3
<1> QED
  BY <1>4, <1>5

LEMMA AuditInvariant == Spec => []AuditInv
<1>1. Init => AuditInv
  BY DEF Init, AuditInv, AuditIsTruthful, RecordOnce, IngestOnce, Logged
<1>2. BindInv /\ AuditInv /\ [Next]_vars => AuditInv'
  <2> SUFFICES ASSUME BindInv, AuditInv, [Next]_vars PROVE AuditInv'
    OBVIOUS
  <2> USE DEF BindInv, TypeOK, IdsOK, AuditInv, Goto
  <2>1. ASSUME UNCHANGED <<bound, audit, emitted>>,
               \A c \in Calls : pc'[c] = "audit" => pc[c] = "audit"
        PROVE  AuditInv'
    BY <2>1 DEF AuditIsTruthful, RecordOnce, IngestOnce, Logged
  <2>2. ASSUME NEW c \in Calls,
               Call(c) \/ Select(c) \/ Fresh(c) \/ Answer(c) \/ DbError(c) \/ Abandon(c)
        PROVE  AuditInv'
    BY <2>1, <2>2 DEF Call, Select, Fresh, Answer, DbError, Abandon, peers
  <2>3. ASSUME NEW c \in Calls, Insert(c) PROVE AuditInv'
    <3>1. CASE bound[UserOf[c]] # None \/ Taken(id[c])
      BY <2>1, <2>3, <3>1 DEF Insert
    <3>2. CASE ~(bound[UserOf[c]] # None \/ Taken(id[c]))
      <4>1. /\ bound' = [bound EXCEPT ![UserOf[c]] = id[c]] /\ UNCHANGED <<audit, emitted>>
            /\ pc' = [pc EXCEPT ![c] = "audit"] /\ bound[UserOf[c]] = None
        BY <2>3, <3>2 DEF Insert
      <4>2. ~Logged("peer_bound", UserOf[c])
        <5> SUFFICES ASSUME NEW i \in 1..Len(audit), audit[i].kind = "peer_bound",
                            audit[i].subject = UserOf[c]
                     PROVE  FALSE
          BY DEF Logged
        <5>1. audit[i] \in Row
          OBVIOUS
        <5>2. bound[UserOf[c]] = audit[i].peer_id
          BY DEF AuditIsTruthful
        <5>3. audit[i].peer_id \in Ids
          BY <5>1 DEF Row
        <5> QED
          BY <4>1, <5>2, <5>3
      <4>3. AuditIsTruthful'
        BY <4>1, <4>2 DEF AuditIsTruthful, Logged
      <4>4. RecordOnce'
        <5>1. \A d \in Calls : pc[d] = "audit" => UserOf[d] # UserOf[c]
          BY <4>1
        <5>2. \A k, s : Logged(k, s)' <=> Logged(k, s)
          BY <4>1 DEF Logged
        <5> QED
          BY <4>1, <4>2, <5>1, <5>2 DEF RecordOnce
      <4> QED
        BY <4>1, <4>3, <4>4 DEF IngestOnce, Logged
    <3> QED
      BY <3>1, <3>2
  <2>4. ASSUME NEW c \in Calls, Record(c) PROVE AuditInv'
    <3>1. CASE UNCHANGED audit
      BY <2>1, <2>4, <3>1 DEF Record, peers
    <3>2. CASE audit' = Append(audit, BindRow(UserOf[c], id[c]))
      <4> DEFINE r == BindRow(UserOf[c], id[c])
      <4>1. /\ r \in Row /\ r.kind = "peer_bound" /\ r.subject = UserOf[c]
            /\ bound[r.subject] = r.peer_id
        BY <2>4 DEF Record, BindRow, Row
      <4>2. /\ UNCHANGED <<bound, emitted>> /\ pc[c] = "audit"
            /\ pc' = [pc EXCEPT ![c] = "answer"]
        BY <2>4 DEF Record, peers
      <4>3. ~Logged(r.kind, r.subject)
        BY <4>1, <4>2 DEF RecordOnce
      <4> HIDE DEF r
      <4>4. /\ AuditIsTruthful'
            /\ \A k, s : Logged(k, s)' => Logged(k, s) \/ (k = r.kind /\ s = r.subject)
        BY <3>2, <4>1, <4>2, <4>3, AppendedRow DEF r
      <4>5. RecordOnce'
        BY <4>1, <4>2, <4>4 DEF RecordOnce
      <4>6. IngestOnce'
        BY <4>1, <4>2, <4>4 DEF IngestOnce
      <4> QED
        BY <4>4, <4>5, <4>6
    <3> QED
      BY <2>4, <3>1, <3>2 DEF Record
  <2>5. ASSUME NEW u \in Users, get_peer(u) PROVE AuditInv'
    BY <2>1, <2>5 DEF get_peer, handlers
  <2>6. ASSUME NEW e \in Events, emit(e) PROVE AuditInv'
    BY <2>6 DEF emit, peers, handlers, AuditIsTruthful, RecordOnce, IngestOnce, Logged
  <2>7. ASSUME NEW e \in Events, ingest_audit(e) PROVE AuditInv'
    <3>1. /\ UNCHANGED <<bound, pc>> /\ emitted[e] = "posted"
          /\ emitted' = [emitted EXCEPT ![e] = "over"]
      BY <2>7 DEF ingest_audit, peers, handlers
    <3>2. CASE UNCHANGED audit
      BY <3>1, <3>2 DEF AuditIsTruthful, RecordOnce, IngestOnce, Logged
    <3>3. CASE audit' = Append(audit, EventRow(e))
      <4> DEFINE r == EventRow(e)
      <4>1. r \in Row /\ r.kind = "event" /\ r.subject = e
        BY DEF EventRow, Row
      <4>2. ~Logged(r.kind, r.subject)
        BY <3>1, <4>1 DEF IngestOnce
      <4> HIDE DEF r
      <4>3. /\ AuditIsTruthful'
            /\ \A k, s : Logged(k, s)' => Logged(k, s) \/ (k = r.kind /\ s = r.subject)
        BY <3>1, <3>3, <4>1, <4>2, AppendedRow DEF r
      <4>4. RecordOnce'
        BY <3>1, <4>1, <4>3 DEF RecordOnce
      <4>5. IngestOnce'
        BY <3>1, <4>1, <4>3 DEF IngestOnce
      <4> QED
        BY <4>3, <4>4, <4>5
    <3> QED
      BY <2>7, <3>2, <3>3 DEF ingest_audit
  <2>8. CASE UNCHANGED vars
    BY <2>1, <2>8 DEF vars, peers, handlers
  <2> HIDE DEF AuditInv
  <2> QED
    BY <2>2, <2>3, <2>4, <2>5, <2>6, <2>7, <2>8 DEF Next, Step
<1> QED
  BY <1>1, <1>2, BindInvariant, PTL DEF Spec

\* Every peer_bound row names the binding its user has, there is one per user,
\* and an event is recorded at most once.
THEOREM AuditTells == Spec => []AuditIsTruthful
BY AuditInvariant, PTL DEF AuditInv
=============================================================================
