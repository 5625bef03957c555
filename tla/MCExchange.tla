----------------------------- MODULE MCExchange -----------------------------
(* Small worlds for Exchange: one topic of two members, 1 and 2, with a    *)
(* third member, 9, that is not modelled and only writes.                  *)
EXTENDS Exchange

History == <<
  [author |-> 9, seq |-> 1, deps |-> {}, past |-> {}, adds |-> {1, 2}, drops |-> {}],         \* 1
  [author |-> 1, seq |-> 1, deps |-> {}, past |-> {}, adds |-> {1, 2}, drops |-> {}],         \* 2
  [author |-> 2, seq |-> 1, deps |-> {}, past |-> {}, adds |-> {1, 2}, drops |-> {}],         \* 3
  [author |-> 1, seq |-> 2, deps |-> {2}, past |-> {2}, adds |-> {}, drops |-> {}],           \* 4
  [author |-> 2, seq |-> 1, deps |-> {2}, past |-> {2}, adds |-> {}, drops |-> {}],           \* 5
  [author |-> 9, seq |-> 1, deps |-> {2}, past |-> {2}, adds |-> {}, drops |-> {}],           \* 6
  [author |-> 9, seq |-> 1, deps |-> {4}, past |-> {2, 4}, adds |-> {}, drops |-> {}],        \* 7
  [author |-> 2, seq |-> 2, deps |-> {3}, past |-> {3}, adds |-> {}, drops |-> {}],           \* 8
  [author |-> 2, seq |-> 2, deps |-> {5}, past |-> {2, 5}, adds |-> {}, drops |-> {2}]        \* 9
>>

Link == {<<1, 2>>, <<2, 1>>}

World(written, links, lost, asks) ==
  [ops |-> written, links |-> links, faults |-> lost, asks |-> asks]

\* The rival branches of nodes 1 and 2, whose attempts cross; the same with a
\* stream lost and a caller's obligation; a branch of member 9 that replaces
\* the topic at any moment; two forks of member 9's actor, in a history of more
\* than one page; and node 2 leaving with a write of its own behind it.
Scenes == {
  World({2, 3, 8}, Link, 0, {}),
  World({2, 3, 4}, {<<2, 1>>}, 1, {}),
  World({1, 2, 6}, {<<1, 2>>}, 1, {}),
  World({1, 2, 4}, {<<1, 2>>}, 0, {<<1, 4>>, <<1, 8>>}),
  World({2, 4, 6, 7}, {<<1, 2>>}, 1, {}),
  World({2, 5, 9}, Link, 0, {}),
  World({2, 5, 9}, {<<1, 2>>}, 0, {<<1, 2>>})}
=============================================================================
