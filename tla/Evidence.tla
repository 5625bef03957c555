------------------------------ MODULE Evidence ------------------------------
(***************************************************************************)
(* What one node of irokle knows of another node's copy of a topic:        *)
(* acknowledgements, the certified evidence they leave, and obligations.   *)
(*                                                                         *)
(* src/sync/evidence.rs turns a peer's signed acknowledgement into what it *)
(* proves here, src/storage/evidence.rs says how that record merges with   *)
(* the stored one and which owed work it settles.  The operators of this   *)
(* module are those decisions, over histories that are sets of operations; *)
(* the module Exchange gives them a state and the steps between them.      *)
(***************************************************************************)
EXTENDS Integers, FiniteSets, FiniteSetsExt

CONSTANTS
  Node,   \* the members that are modelled; a node is also its own actor
  Op,     \* operations: positive numbers in the order of their (generation, id)
  Dag     \* Dag[o] = [author, seq, deps, past, adds, drops]: the header of an
          \* operation and everything it descends from

ASSUME NodeAssumption == Node \subseteq Nat \ {0}

ASSUME DagAssumption ==
  /\ Op \subseteq Nat \ {0}
  /\ DOMAIN Dag = Op
  /\ \A o \in Op : /\ Dag[o].author \in Nat /\ Dag[o].seq \in Nat \ {0}
                   /\ Dag[o].deps \subseteq Op /\ \A d \in Dag[o].deps : d < o
                   /\ Dag[o].past = Dag[o].deps \cup UNION {Dag[d].past : d \in Dag[o].deps}
                   /\ Dag[o].adds \subseteq Node /\ Dag[o].drops \subseteq Node

Actor == {Dag[o].author : o \in Op} \cup Node

-----------------------------------------------------------------------------
(* Histories: a topic's admitted operations are a set closed under deps.   *)

Closure(S) == S \cup UNION {Dag[o].past : o \in S}

Zero == [a \in Actor |-> 0]

Clock(S) == [a \in Actor |-> Max({0} \cup {Dag[o].seq : o \in {x \in S : Dag[x].author = a}})]

Heads(S) == S \ UNION {Dag[o].deps : o \in S}

\* The genesis of a held history, or 0 for a topic that is not held.
Root(S) == IF S = {} THEN 0 ELSE CHOOSE o \in S : Dag[o].deps = {}

Covers(c, d) == \A a \in Actor : c[a] >= d[a]

Merge(c, d) == [a \in Actor |-> IF c[a] < d[a] THEN d[a] ELSE c[a]]

\* The membership controls of `n', the genesis that names it included.
Controls(S, n) == {o \in S : n \in Dag[o].adds \cup Dag[o].drops}

\* The members: those whose last membership control adds them.
Members(S) ==
  {n \in Node : \E o \in S : n \in Dag[o].adds /\ \A x \in S : x > o => n \notin Dag[x].drops}

\* A member may open a topic, and so may a node a control of the topic removed.
MayOpen(S, p) == S # {} => Controls(S, p) # {}

\* One view of a topic: what a summary, an acknowledgement and a fingerprint
\* are read from.  Its heads stand for the fingerprint.
View(S) == [gen |-> Root(S), heads |-> Heads(S), clock |-> Clock(S)]

NoView == [gen |-> 0, heads |-> {}, clock |-> Zero]

-----------------------------------------------------------------------------
(* Acknowledgements.                                                       *)

\* validate_ack_in's refusals of p's acknowledgement at n.
AckRefused(S, n, p, ack) ==
  \/ S = {}
  \/ ack.gen # Root(S)
  \/ p \notin Members(S)
  \/ ack.clock[n] > Clock(S)[n]
  \/ \E o \in ack.heads \cap S : ack.clock[Dag[o].author] < Dag[o].seq

\* Fault: the claimed clock is stored, not the ancestry of the held heads.
CertifiedClaim(S, ack) ==
  IF ack.heads \cap S = {} THEN NoView
  ELSE [gen |-> ack.gen, heads |-> ack.heads \cap S, clock |-> ack.clock]

\* What a valid acknowledgement certifies: the ancestry of its held heads, and
\* nothing when it names none.
Certified(S, ack) ==
  LET held == ack.heads \cap S IN
  IF held = {} THEN NoView
  ELSE [gen |-> ack.gen, heads |-> held, clock |-> Clock(Closure(held))]

\* Fault: the committing transaction does not look at the incarnation again.
AckCommitUnchecked(S, p, ev) ==
  IF S = {} THEN "retain"
  ELSE IF p \notin Members(S) THEN "refuse"
  ELSE "certify"

\* ack_commit: what the committing transaction does with validated evidence.
AckCommit(S, p, ev) ==
  IF S = {} THEN "retain"
  ELSE IF ev.gen # Root(S) \/ p \notin Members(S) THEN "refuse"
  ELSE "certify"

MergedAck(old, ev) ==
  IF old.gen # ev.gen THEN ev
  ELSE IF Covers(old.clock, ev.clock) THEN old
  ELSE [ev EXCEPT !.clock = Merge(old.clock, ev.clock)]

-----------------------------------------------------------------------------
(* Obligations: positions of the local history a peer is owed, and ids     *)
(* without a position that it is to be asked for.                          *)

NoDebt == [clock |-> Zero, repair |-> {}]

AckCovers(ack, gen, target) == ack.gen = gen /\ Covers(ack.clock, target)

\* merged_obligation for a clock obligation.
Owe(debt, target) == [debt EXCEPT !.clock = Merge(@, target)]

\* Fault: an entry the acknowledgement just reaches stays owed.
SettledStrict(S, debt, ack) ==
  [clock |-> [a \in Actor |-> IF ack.clock[a] > debt.clock[a] THEN 0 ELSE debt.clock[a]],
   repair |-> {o \in debt.repair : ~ (\/ o \in ack.heads
                                      \/ o \in S /\ ack.clock[Dag[o].author] >= Dag[o].seq)}]

\* settled_obligation: what `ack' leaves owed.
Settled(S, debt, ack) ==
  [clock |-> [a \in Actor |-> IF ack.clock[a] >= debt.clock[a] THEN 0 ELSE debt.clock[a]],
   repair |-> {o \in debt.repair : ~ (\/ o \in ack.heads
                                      \/ o \in S /\ ack.clock[Dag[o].author] >= Dag[o].seq)}]
=============================================================================
