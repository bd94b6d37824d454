------------------------------ MODULE Delivery ------------------------------
(***************************************************************************)
(* What a CouchDB peer promises about the changes of its database: each of *)
(* them is dispatched, once.                                               *)
(***************************************************************************)
EXTENDS Naturals

CONSTANT MaxChanges   \* bound on changes

VARIABLES
    made,   \* how many changes there were
    got     \* got[i]: how often change i was dispatched

Init ==
    /\ made = 0
    /\ got = [i \in 1..MaxChanges |-> 0]

Publish == made < MaxChanges /\ made' = made + 1 /\ UNCHANGED got

Deliver(i) ==
    /\ i <= made /\ got[i] = 0
    /\ got' = [got EXCEPT ![i] = 1]
    /\ UNCHANGED made

Next == Publish \/ \E i \in 1..MaxChanges : Deliver(i)

Spec ==
    /\ Init /\ [][Next]_<<made, got>>
    /\ \A i \in 1..MaxChanges : WF_<<made, got>>(Deliver(i))
=============================================================================
