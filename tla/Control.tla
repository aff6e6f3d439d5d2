------------------------------ MODULE Control ------------------------------
(***************************************************************************)
(* The control plane: its two tables, the handlers that run concurrently   *)
(* over them, and the audit events the rendezvous server posts.  A step of *)
(* a handler is one SQL statement; statements are atomic, handlers are     *)
(* not.  A handler may be dropped at any await: its client hung up or the  *)
(* process ended; what was written stays.                                  *)
(***************************************************************************)
EXTENDS Naturals, Sequences

CONSTANTS Users, Ids, None,
          Calls,      \* POST /v1/peers requests
          UserOf,     \* the user each of them is for
          Events,     \* audit events of the rendezvous server
          MaxTries    \* draws of a fresh id

ASSUME ControlAssumption ==
  /\ None \notin Ids
  /\ UserOf \in [Calls -> Users]
  /\ MaxTries \in Nat \ {0}

VARIABLES bound,    \* table peers: the id of each user
          audit,    \* table audit, by id
          pc, id,   \* bind_peer handlers: next statement, the peer id they have
          tries,    \* draws of each handler that collided
          emitted,  \* what has become of each event
          told,     \* history: answers given
          late      \* history: calls made after an answer about their user

peers == <<bound, told>>
handlers == <<pc, id, tries>>
vars == <<peers, audit, handlers, emitted, late>>

Running == {"select", "fresh", "insert", "audit", "answer"}
Taken(i) == \E u \in Users : bound[u] = i

BindRow(u, i) == [kind |-> "peer_bound", subject |-> u, peer_id |-> i]
EventRow(e) == [kind |-> "event", subject |-> e, peer_id |-> None]

Init ==
  /\ bound = [u \in Users |-> None] /\ audit = << >>
  /\ pc = [c \in Calls |-> "new"] /\ id = [c \in Calls |-> None]
  /\ tries = [c \in Calls |-> 0]
  /\ emitted = [e \in Events |-> "no"]
  /\ told = {} /\ late = {}
-----------------------------------------------------------------------------
(* bind_peer.                                                              *)

Goto(c, to) == pc' = [pc EXCEPT ![c] = to]

Call(c) ==
  /\ pc[c] = "new" /\ Goto(c, "select")
  /\ late' = IF \E i \in Ids : <<UserOf[c], i>> \in told
             THEN late \cup {c} ELSE late
  /\ UNCHANGED <<peers, audit, id, tries, emitted>>

\* Fault: a new id for every call.
SelectNothing(c) ==
  /\ pc[c] = "select" /\ Goto(c, "fresh")
  /\ UNCHANGED <<peers, audit, id, tries, emitted, late>>

\* "Idempotent: if already bound, return existing."
Select(c) ==
  /\ pc[c] = "select"
  /\ \/ bound[UserOf[c]] = None /\ Goto(c, "fresh") /\ UNCHANGED id
     \/ /\ bound[UserOf[c]] # None /\ Goto(c, "answer")
        /\ id' = [id EXCEPT ![c] = bound[UserOf[c]]]
  /\ UNCHANGED <<peers, audit, tries, emitted, late>>

\* Fault: the count of draws starts again.
FreshForever(c) ==
  /\ pc[c] = "fresh"
  /\ \E i \in Ids :
       \/ /\ ~Taken(i) /\ id' = [id EXCEPT ![c] = i] /\ Goto(c, "insert")
          /\ UNCHANGED tries
       \/ /\ Taken(i) /\ tries' = [tries EXCEPT ![c] = (@ + 1) % MaxTries]
          /\ UNCHANGED <<pc, id>>
  /\ UNCHANGED <<peers, audit, emitted, late>>

\* ids::fresh: one draw and its look at the table.
Fresh(c) ==
  /\ pc[c] = "fresh"
  /\ \E i \in Ids :
       \/ /\ ~Taken(i) /\ id' = [id EXCEPT ![c] = i] /\ Goto(c, "insert")
          /\ UNCHANGED tries
       \/ /\ Taken(i) /\ tries[c] + 1 < MaxTries
          /\ tries' = [tries EXCEPT ![c] = @ + 1] /\ UNCHANGED <<pc, id>>
       \/ /\ Taken(i) /\ tries[c] + 1 = MaxTries
          /\ tries' = [tries EXCEPT ![c] = @ + 1] /\ Goto(c, "failed")
          /\ UNCHANGED id
  /\ UNCHANGED <<peers, audit, emitted, late>>

\* Faults: the statement replaces a row that is there; its failure is ignored.
InsertOrReplace(c) ==
  /\ pc[c] = "insert" /\ Goto(c, "audit")
  /\ bound' = [u \in Users |-> IF u = UserOf[c] THEN id[c]
                               ELSE IF bound[u] = id[c] THEN None ELSE bound[u]]
  /\ UNCHANGED <<audit, id, tries, emitted, told, late>>

InsertOrIgnore(c) ==
  /\ pc[c] = "insert" /\ Goto(c, "audit")
  /\ bound' = IF bound[UserOf[c]] = None /\ ~Taken(id[c])
              THEN [bound EXCEPT ![UserOf[c]] = id[c]] ELSE bound
  /\ UNCHANGED <<audit, id, tries, emitted, told, late>>

\* The primary key and the UNIQUE column decide between rivals.
Insert(c) ==
  /\ pc[c] = "insert"
  /\ LET conflict == bound[UserOf[c]] # None \/ Taken(id[c])
     IN \/ conflict /\ Goto(c, "failed") /\ UNCHANGED bound
        \/ /\ ~conflict /\ Goto(c, "audit")
           /\ bound' = [bound EXCEPT ![UserOf[c]] = id[c]]
  /\ UNCHANGED <<audit, id, tries, emitted, told, late>>

\* audit::record: "never fail the caller".
Record(c) ==
  /\ pc[c] = "audit" /\ Goto(c, "answer")
  /\ \/ audit' = Append(audit, BindRow(UserOf[c], id[c]))
     \/ UNCHANGED audit
  /\ UNCHANGED <<peers, id, tries, emitted, late>>

Answer(c) ==
  /\ pc[c] = "answer" /\ Goto(c, "done")
  /\ told' = told \cup {<<UserOf[c], id[c]>>}
  /\ UNCHANGED <<bound, audit, id, tries, emitted, late>>

\* A statement fails for a reason of its own, and so does its call.
DbError(c) ==
  /\ pc[c] \in {"select", "fresh", "insert"} /\ Goto(c, "gone")
  /\ UNCHANGED <<peers, audit, id, tries, emitted, late>>

\* The handler's future is dropped.
Abandon(c) ==
  /\ pc[c] \in Running /\ Goto(c, "gone")
  /\ UNCHANGED <<peers, audit, id, tries, emitted, late>>
-----------------------------------------------------------------------------
get_peer(u) ==
  /\ bound[u] # None
  /\ told' = told \cup {<<u, bound[u]>>}
  /\ UNCHANGED <<bound, audit, handlers, emitted, late>>

\* Auditor::emit: a task of its own posts the event, once.
emit(e) ==
  /\ emitted[e] = "no" /\ emitted' = [emitted EXCEPT ![e] = "posted"]
  /\ UNCHANGED <<peers, audit, handlers, late>>

\* Fault: the task posts again when it hears nothing within two seconds.
IngestAgain(e) ==
  /\ emitted[e] = "posted"
  /\ audit' = Append(audit, EventRow(e))
  /\ emitted' \in {emitted, [emitted EXCEPT ![e] = "over"]}
  /\ UNCHANGED <<peers, handlers, late>>

\* ingest_audit records it; or the request, or its statement, fails.  Either
\* way the emitter never hears of it.
ingest_audit(e) ==
  /\ emitted[e] = "posted" /\ emitted' = [emitted EXCEPT ![e] = "over"]
  /\ audit' = Append(audit, EventRow(e)) \/ UNCHANGED audit
  /\ UNCHANGED <<peers, handlers, late>>
-----------------------------------------------------------------------------
Step(c) == Select(c) \/ Fresh(c) \/ Insert(c) \/ Record(c) \/ Answer(c)

Next == \/ \E c \in Calls : Call(c) \/ Step(c) \/ DbError(c) \/ Abandon(c)
        \/ \E u \in Users : get_peer(u)
        \/ \E e \in Events : emit(e) \/ ingest_audit(e)

\* Handlers are polled and each statement comes to an end, good or bad.
Fairness == \A c \in Calls : WF_vars(Step(c) \/ DbError(c))

Spec == Init /\ [][Next]_vars /\ Fairness
-----------------------------------------------------------------------------
Row == [kind : {"peer_bound"}, subject : Users, peer_id : Ids]
       \cup [kind : {"event"}, subject : Events, peer_id : {None}]

TypeOK ==
  /\ bound \in [Users -> Ids \cup {None}]
  /\ audit \in Seq(Row)
  /\ pc \in [Calls -> Running \cup {"new", "done", "failed", "gone"}]
  /\ id \in [Calls -> Ids \cup {None}]
  /\ tries \in [Calls -> 0..MaxTries]
  /\ emitted \in [Events -> {"no", "posted", "over"}]
  /\ told \subseteq Users \X Ids
  /\ late \subseteq Calls

Binding == INSTANCE PeerBinding

\* However the statements of concurrent binds interleave, fail or are cut off:
\* a user is bound once and for good, no two users share an id, and every
\* answer is the one binding of its user.
ImplementsPeerBinding == Binding!Spec

\* "bind alice again, must return same peer_id": a call made after an answer
\* about its user never fails for a conflict; only the database can fail it.
BoundStaysAnswered == \A c \in late : pc[c] \notin {"fresh", "insert", "failed"}

\* The audit table says what happened: a peer_bound row names the binding its
\* user has, and there is one per user; an event is there at most once.
AuditIsTruthful ==
  \A i \in 1..Len(audit) :
    /\ audit[i].kind = "peer_bound" => bound[audit[i].subject] = audit[i].peer_id
    /\ \A j \in 1..Len(audit) :
         audit[i].kind = audit[j].kind /\ audit[i].subject = audit[j].subject => i = j

\* "Loops up to 16 times": a call ends, however the draws collide.
BindsEnd == \A c \in Calls : pc[c] \in Running ~> pc[c] \notin Running
=============================================================================
