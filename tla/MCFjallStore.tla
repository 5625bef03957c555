---------------------------- MODULE MCFjallStore ----------------------------
(* Small databases for FjallStore. *)
EXTENDS FjallStore

MCActor == {<<0, 0>>, <<0, 1>>, <<1, 0>>, <<1, 1>>}

Op(actor, seq, deps) == [actor |-> actor, seq |-> seq, deps |-> deps]

Bounds(crashes, losses, resets, purges) ==
    [crashes |-> crashes, losses |-> losses, resets |-> resets, purges |-> purges,
     rejects |-> 0]

\* Histories of a store of schema 1: one that branches and joins.
OldOps == <<Op(<<0, 0>>, 1, {}), Op(<<0, 1>>, 1, {1}), Op(<<1, 0>>, 1, {1}),
            Op(<<1, 1>>, 1, {2}), Op(<<0, 0>>, 2, {3, 4})>>

OldRecords ==
    {Row("ak", 1, 1, 1, {1}, {}), Row("ak", 1, 2, 2, {1, 2}, {}),
     Row("ob", 1, 3, 1, {1}, {}), Row("ob", 1, 4, 1, {2}, {7}),
     Row("ob", 1, 5, 1, {}, {8}), Row("ob", 1, 6, 1, {}, {9}),
     Row("ob", 1, 7, 2, {}, {})}

OldPending == {[op |-> 11, missing |-> {2, 12}], [op |-> 12, missing |-> {6}]}

\* An upgrade by one or two facades, with room for so many records in a transaction.
Upgrade(facades, room, crashes) ==
    [schema |-> 1, ops |-> OldOps, rows |-> OldRecords, pending |-> OldPending,
     indexes |-> {<<0, 1>>, <<0, 2>>, <<0, 3>>}, facades |-> facades, room |-> room,
     step |-> 2, maxops |-> 5, epoch |-> 0, actors |-> {}, left |-> Bounds(crashes, 0, 0, 0)]

\* The upgraded store goes on to admit an operation at any place of its history.
Resume == [Upgrade({1}, 20, 0) EXCEPT !.maxops = 6, !.actors = Actor]

\* A new store: histories of any shape, by so many facades.
Fresh(facades, actors, maxops, bounds) ==
    [schema |-> 0, ops |-> <<>>, rows |-> {}, pending |-> {}, indexes |-> {},
     facades |-> facades, room |-> 20, step |-> 2, maxops |-> maxops, epoch |-> 0,
     actors |-> actors, left |-> bounds]

\* A buffered operation that waits for nothing more, and one behind it.
ReadyPending == {[op |-> 11, missing |-> {2, 12}], [op |-> 12, missing |-> {5}]}

\* A purge of the upgraded store in steps, perhaps of one that has lost a record or
\* rejected what it buffered.
Purge(step, crashes) ==
    [Upgrade({1}, 20, crashes) EXCEPT
       !.step = step, !.pending = ReadyPending,
       !.left = [Bounds(crashes, 1, 0, 1) EXCEPT !.rejects = 1]]

\* A new history in a store whose old one, with clocks in nodes, was reset or purged.
Renew ==
    [Upgrade({1}, 20, 0) EXCEPT
       !.maxops = 8, !.epoch = 1, !.actors = {<<0, 0>>, <<0, 1>>},
       !.step = 3, !.left = Bounds(0, 0, 1, 1)]

MCScenes ==
    {Upgrade({1, 2}, 6, 2), Upgrade({1, 2}, 9, 1), Resume,
     Fresh({1}, Actor, 4, Bounds(0, 0, 0, 0)),
     Fresh({1, 2}, {<<0, 0>>, <<0, 1>>}, 3, Bounds(1, 1, 1, 0)),
     Purge(1, 1), Purge(2, 1), Purge(3, 1), Renew}
=============================================================================
