----------------------------- MODULE TopicBirth -----------------------------
(***************************************************************************)
(* What a store promises of a topic this node does not hold yet: history   *)
(* served by a source stays hidden in that source's own stage, and the     *)
(* topic appears in one step, with the whole contiguous history of one     *)
(* stage and the buffered ops of every stage on the same branch.  There is *)
(* no half born topic, no topic mixed from two stages, no stage that comes *)
(* back under an old session.  storage/memory/staging.rs keeps this        *)
(* promise under one lock; the Fjall store keeps it over many transactions *)
(* and restarts, which FjallStaging shows.                                 *)
(***************************************************************************)
EXTENDS Naturals, FiniteSets

CONSTANTS Source,   \* peers that serve history
          Topic,    \* topics this node may come to hold
          Branch,   \* candidate geneses of a topic, smaller wins
          Span       \* ops on a branch, the genesis included

VARIABLES staged,   \* staged[s][t]: the stage of source s for topic t
          born      \* born[t]: the topic as every reader of the store sees it

birthVars == <<staged, born>>

Op == Branch \X (1..Span)

\* No stage, and a topic this node does not hold.
Nothing == [genesis |-> 0, session |-> 0, ops |-> {}, pending |-> {}]
Unborn == [genesis |-> 0, ops |-> {}, pending |-> {}]

\* The contiguous ops of branch g that `ops` holds: those whose whole past is there.
Contiguous(ops, g) == {o \in ops : o[1] = g /\ \A i \in 1..o[2] : <<g, i>> \in ops}

BirthInit ==
    /\ staged = [s \in Source |-> [t \in Topic |-> Nothing]]
    /\ born = [t \in Topic |-> Unborn]

Stages == {staged[s][t] : s \in Source, t \in Topic} \ {Nothing}

\* A stage opens empty for an unborn topic, under a session no open stage has.
OpenStage(s, t) ==
    /\ staged[s][t] = Nothing /\ staged'[s][t] # Nothing
    /\ born[t] = Unborn
    /\ \E g \in Branch :
          LET session == staged'[s][t].session
          IN  /\ staged' = [staged EXCEPT ![s][t] = [Nothing EXCEPT !.genesis = g, !.session = session]]
              /\ \A stage \in Stages : session > stage.session
    /\ UNCHANGED born

\* `new` keeps everything `old` holds, admits a contiguous history of branch g that never shrinks,
\* and may leave ops buffered although they became contiguous.
Extends(new, old, g) ==
    /\ old.ops \subseteq new.ops
    /\ old.ops \cup old.pending \subseteq new.ops \cup new.pending
    /\ new.ops = Contiguous(new.ops, g)
    /\ new.ops \cap new.pending = {}

\* A stage takes more ops and keeps its branch and session.
FillStage(s, t) ==
    LET old == staged[s][t]
        new == staged'[s][t]
    IN  /\ old # Nothing
        /\ staged' = [staged EXCEPT ![s][t] = [old EXCEPT !.ops = new.ops, !.pending = new.pending]]
        /\ Extends(new, old, old.genesis)
        /\ UNCHANGED born

EndStage(s, t) ==
    /\ staged[s][t] # Nothing /\ staged'[s][t] = Nothing
    /\ staged' = [staged EXCEPT ![s][t] = Nothing]
    /\ UNCHANGED born

\* The ops that go with a birth on branch g: those still buffered in any stage of that branch.
Buffered(t, g) ==
    UNION {staged[p][t].pending : p \in {p \in Source : staged[p][t].genesis = g}}

\* The one step a staged topic is born in; every stage of it ends.
Birth(s, t) ==
    LET stage == staged[s][t]
    IN  /\ born[t] = Unborn /\ born'[t] # Unborn
        /\ stage # Nothing
        /\ born' = [born EXCEPT ![t] =
                      [genesis |-> stage.genesis, ops |-> stage.ops,
                       pending |-> Buffered(t, stage.genesis) \ stage.ops]]
        /\ staged' = [p \in Source |-> [staged[p] EXCEPT ![t] = Nothing]]

\* A genesis that already names both ends needs no stage: the first admission bears the topic.
DirectBirth(t) ==
    LET new == born'[t]
    IN  /\ born[t] = Unborn /\ new # Unborn
        /\ <<new.genesis, 1>> \in new.ops
        /\ born' = [born EXCEPT ![t] = [genesis |-> new.genesis, ops |-> new.ops,
                                        pending |-> new.pending]]
        /\ Extends(new, Unborn, new.genesis)
        /\ UNCHANGED staged

\* A born topic keeps its branch and everything it holds, and admits what became contiguous.
Grow(t) ==
    LET old == born[t]
        new == born'[t]
    IN  /\ old # Unborn
        /\ born' = [born EXCEPT ![t] = [old EXCEPT !.ops = new.ops, !.pending = new.pending]]
        /\ Extends(new, old, old.genesis)
        /\ UNCHANGED staged

BirthNext ==
    \/ \E s \in Source, t \in Topic :
          OpenStage(s, t) \/ FillStage(s, t) \/ EndStage(s, t) \/ Birth(s, t)
    \/ \E t \in Topic : DirectBirth(t) \/ Grow(t)

BirthSpec == BirthInit /\ [][BirthNext]_birthVars
=============================================================================
