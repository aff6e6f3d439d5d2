---------------------------- MODULE PunchBroker ----------------------------
(***************************************************************************)
(* What the rendezvous server promises about a punch request, whatever     *)
(* transport carries it: the target is asked to relay, then the requester  *)
(* waits, at most one requester waits per target (a later one supersedes   *)
(* it), and a waiting requester is answered at most once.                  *)
(***************************************************************************)
CONSTANTS Request,    \* the punch requests
          TargetOf    \* TargetOf[q] is the peer id that request q names

VARIABLE stage        \* stage[q] is how far the broker has taken request q

Stage == {"idle", "asked", "waiting", "answered", "superseded"}

Init == stage = [q \in Request |-> "idle"]

\* The target is asked to relay on behalf of q.
Ask(q) == /\ stage[q] = "idle"
          /\ stage' = [stage EXCEPT ![q] = "asked"]

\* q starts waiting for the target's acknowledgement and takes the place of
\* whichever request was waiting for the same target.
Wait(q) ==
  /\ stage[q] = "asked"
  /\ stage' = [p \in Request |->
                 IF p = q THEN "waiting"
                 ELSE IF stage[p] = "waiting" /\ TargetOf[p] = TargetOf[q]
                      THEN "superseded" ELSE stage[p]]

\* Some acknowledgement releases q.
Answer(q) == /\ stage[q] = "waiting"
             /\ stage' = [stage EXCEPT ![q] = "answered"]

Next == \E q \in Request : Ask(q) \/ Wait(q) \/ Answer(q)

Spec == Init /\ [][Next]_stage
-----------------------------------------------------------------------------
\* One requester waits per target: the broker never has to choose between two
\* requesters of one peer.
OneWaiterPerTarget ==
  \A p, q \in Request :
    stage[p] = "waiting" /\ stage[q] = "waiting" /\ TargetOf[p] = TargetOf[q]
      => p = q
=============================================================================
