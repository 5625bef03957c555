--------------------------- MODULE MCFjallStaging ---------------------------
(* Instances of FjallStaging for TLC. *)
EXTENDS FjallStaging

\* Branch 1 makes source 1 a member with its second op and source 2 with its third; branch 2
\* names source 2 in its genesis and never source 1.
JoinedLate == (1 :> (1 :> 2 @@ 2 :> 3)) @@ (2 :> (1 :> 4 @@ 2 :> 1))

Offer(s, t, b, ops) == [source |-> s, topic |-> t, branch |-> b, ops |-> ops]

\* Fragments of both branches from both sources for topic 1, two of which make a buffered op ready,
\* and two of topic 2: one is staged, so that its call expires, reclaims and charges beside those of
\* topic 1, and one is admitted directly and leaves an op in the active buffer.
Mixed == {Offer(1, 1, 1, {1, 2}), Offer(2, 1, 1, {1, 3}), Offer(2, 1, 1, {2}),
          Offer(1, 1, 2, {1, 2}), Offer(2, 1, 2, {1, 2}), Offer(2, 2, 1, {1, 2}),
          Offer(2, 2, 2, {1, 3})}
=============================================================================
