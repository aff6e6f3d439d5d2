---------------------------- MODULE PeerBinding ----------------------------
(***************************************************************************)
(* What the control plane promises about peer ids: a user is bound once,   *)
(* to an id nobody else has, for good, and whoever asks is told that id.   *)
(***************************************************************************)
CONSTANTS Users, Ids, None

VARIABLES bound,   \* the id of each user
          told     \* the answers given: pairs of a user and an id

Init == bound = [u \in Users |-> None] /\ told = {}

Bind(u, i) == /\ bound[u] = None /\ \A v \in Users : bound[v] # i
              /\ bound' = [bound EXCEPT ![u] = i]
              /\ UNCHANGED told

Tell(u) == /\ bound[u] # None
           /\ told' = told \cup {<<u, bound[u]>>}
           /\ UNCHANGED bound

Next == \E u \in Users : Tell(u) \/ \E i \in Ids : Bind(u, i)

Spec == Init /\ [][Next]_<<bound, told>>
=============================================================================
