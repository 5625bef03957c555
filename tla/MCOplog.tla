------------------------------ MODULE MCOplog ------------------------------
(***************************************************************************)
(* Small instances of Oplog for TLC: payload sets the configurations pick. *)
(***************************************************************************)
EXTENDS Oplog

Event == [kind |-> "event", type |-> "note"]
Add(p) == [kind |-> "add", peer |-> p]
Remove(p) == [kind |-> "remove", peer |-> p]
Genesis(peers) ==
    [kind |-> "genesis", peers |-> peers, policy |-> "all", type |-> "note"]

NoPayload == {}
EventsOnly == {Event}
\* A peer is removed and added back, and members remove each other.
ExpelPayload == {Add(2), Remove(1), Remove(2)}
\* What other software may sign on a topic it is or is not a member of.
StrangePayload == {Add(2), Genesis({1})}
=============================================================================
