-------------------------- MODULE MCPendingBuffer --------------------------
(* Small instances of PendingBuffer: dependency graphs, topics and charges. *)
EXTENDS PendingBuffer, TLC

\* Sources are only compared with each other.
Sources == Permutations(Source)

\* A chain with a shortcut, and a second topic.
ShortcutDeps == <<{}, {1}, {1, 2}, {3}, {}, {5}>>
ShortcutTopics == <<"t1", "t1", "t1", "t1", "t2", "t2">>
ShortcutCharges == <<1, 1, 1, 2, 1, 2>>

\* An operation and its genesis.
PairDeps == <<{}, {1}>>
PairTopics == <<"t1", "t1">>
PairCharges == <<1, 1>>
=============================================================================
