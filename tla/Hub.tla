-------------------------------- MODULE Hub ---------------------------------
(***************************************************************************)
(* The hub's routing (internal/hub/hub.go).  Peers are numbered in the     *)
(* order they were registered; Dispatch offers a change to each target in  *)
(* that order.                                                             *)
(***************************************************************************)
EXTENDS Naturals

CONSTANTS
    NumPeers,   \* how many peers RegisterPeer was called for
    Group       \* Group[p]: the group peer p was configured with

Peer   == 1..NumPeers
Groups == {Group[p] : p \in Peer}

ASSUME NumPeersAssumption == NumPeers \in Nat \ {0}
ASSUME GroupAssumption    == Group = [p \in Peer |-> Group[p]]

(* Mutants: the loop stops after the first target; it forgets the group. *)
Targets_FirstOnly(p) == {q \in Peer : q = p + 1 /\ Group[q] = Group[p]}
Targets_AnyGroup(p)  == Peer \ {p}

(* The peers a dispatch from p goes to: its group, without p itself. *)
Targets(p) == {q \in Peer : q # p /\ Group[q] = Group[p]}

(* q is the next of the peers in todo that the loop over h.peers reaches. *)
IsNext(q, todo) == q \in todo /\ \A r \in todo : q <= r
=============================================================================
