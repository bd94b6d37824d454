----------------------------- MODULE SyncGroup ------------------------------
(***************************************************************************)
(* What the bridge promises for one file, seen from the directories alone: *)
(* each peer of a group holds a copy of a register that users write one at *)
(* a time, an edit reaches every copy before the next one is made, and a   *)
(* copy only ever changes to the register's value.                         *)
(***************************************************************************)
EXTENDS Hub

CONSTANTS Content, Empty, Absent

VARIABLES
    copy,   \* copy[p]: the file at peer p
    last    \* last[g]: the last edit made in group g

File == Content \cup {Empty, Absent}

Init ==
    /\ copy = [p \in Peer |-> Absent]
    /\ last = [g \in Groups |-> Absent]

Edit(p, f) ==
    /\ \A q \in Peer : Group[q] = Group[p] => copy[q] = last[Group[p]]
    /\ copy' = [copy EXCEPT ![p] = f]
    /\ last' = [last EXCEPT ![Group[p]] = f]

Deliver(p) ==
    /\ copy[p] # last[Group[p]]
    /\ copy' = [copy EXCEPT ![p] = last[Group[p]]]
    /\ UNCHANGED last

Next == \E p \in Peer : Deliver(p) \/ \E f \in File : Edit(p, f)

Spec ==
    /\ Init /\ [][Next]_<<copy, last>>
    /\ \A p \in Peer : WF_<<copy, last>>(Deliver(p))
=============================================================================
