------------------------------ MODULE Exchange ------------------------------
(***************************************************************************)
(* One topic replicated between the nodes of irokle by sync attempts.      *)
(*                                                                         *)
(* An attempt of node n against its peer p is the exchange src/iroh/mod.rs *)
(* runs for a topic: compare fingerprints, plan from the peer's summary,   *)
(* push a page and ask for one, fold the replies, certify the peer's       *)
(* acknowledgement, answer with an acknowledgement and a page of one's own *)
(* (the follow-up), and measure what was reached of the goal captured when *)
(* the attempt was planned.  The peer's side is the session that serves    *)
(* each stream (src/iroh/session.rs).  Every step reads and writes a store *)
(* that local writes, other peers and the other node's own attempt change  *)
(* in between; a stream may be lost, and a stream its initiator gave up on *)
(* may still be served later.                                              *)
(*                                                                         *)
(* Every modelled node is named by the genesis, so a history is admitted   *)
(* as soon as its genesis is there; joining through staged pages is the    *)
(* subject of FjallStaging, page contents that of PagePlan, admission that *)
(* of Oplog and when an attempt starts that of ResyncScheduler.            *)
(***************************************************************************)
EXTENDS Evidence, Sequences

CONSTANTS
  Worlds,     \* what a behaviour is made of: [ops, links, faults, asks], its
              \* operations, the pairs <<n, p>> along which n runs attempts
              \* against p, a bound on lost streams, and the pairs <<n, o>> for
              \* which a caller of n may put an obligation for o
  Links,      \* all pairs of the worlds
  PageOps,    \* operations in one page
  MaxRepair   \* MAX_REPAIR_IDS

ASSUME ExchangeAssumption ==
  /\ Links \subseteq Node \X Node
  /\ \A w \in Worlds : /\ w.ops \subseteq Op /\ w.asks \subseteq Node \X Op
                        /\ w.links \subseteq Links /\ w.faults \in Nat
  /\ PageOps \in Nat \ {0} /\ MaxRepair \in Nat

VARIABLES
  world,    \* what this behaviour is made of
  ops,      \* ops[n]: the admitted history of n
  pending,  \* pending[n]: buffered operations with the peer that sent them
  acks,     \* acks[n][p]: the certified evidence of p stored at n
  owed,     \* owed[n][p]: what n owes p
  asked,    \* asked[n]: a put_obligation call between its read and its writes,
            \* and the ids put so far
  ex,       \* ex[l]: the attempt along a link
  late,     \* late[l]: a stream its initiator gave up on, not served yet
  faults,   \* streams lost so far
  seen      \* seen[n]: every operation n ever admitted

store == <<ops, pending, acks, owed, seen>>
vars == <<world, ops, pending, acks, owed, asked, ex, late, faults, seen>>

-----------------------------------------------------------------------------
(* Admission of received operations, as far as replication depends on it.  *)

\* The author's position is not taken by another operation.
Free(o, S) == \A x \in S : Dag[x].author = Dag[o].author /\ Dag[x].seq = Dag[o].seq => x = o

Geneses(B) == {o \in B : Dag[o].deps = {}}

\* What a received batch does to the history S: the base it lands on (empty
\* when a smaller genesis replaces the topic), what is admitted, what is
\* buffered, and whether the whole batch is refused.  `bound' is the genesis
\* the receiver's goal names, 0 for a served stream.
Batch(S, B, bound) ==
  LET resets == S # {} /\ \E g \in Geneses(B) : g < Root(S)
      base == IF resets THEN {} ELSE S
      root == IF base = {} THEN (IF Geneses(B) = {} THEN 0 ELSE Min(Geneses(B))) ELSE Root(base)
      lost == Geneses(B) \ {root}
      kept == {o \in B \ base : Closure({o}) \cap lost = {}}
      admitted == {o \in kept : Dag[o].past \subseteq base \cup kept}
  IN [base |-> base,
      admitted |-> admitted,
      buffered |-> kept \ admitted,
      refused |-> \/ root = 0
                  \/ bound # 0 /\ root # bound
                  \/ \E o \in kept : ~ Free(o, base \cup admitted)]

\* What a commit from `source' owes q: what q did not send.
Due(q, admitted, source) == Clock({o \in admitted : q # source})

\* The obligation a commit leaves toward a member, unless its evidence covers it.
Obliged(debt, ack, root, due) == IF AckCovers(ack, root, due) THEN debt ELSE Owe(debt, due)

\* n commits `admitted' from `source' on `base', with their obligations and the
\* evidence of the members they remove, and buffers the rest.  An operation
\* that is buffered already keeps the source it came from.
Commit(n, base, admitted, buffered, source) ==
  LET fresh == base # ops[n]
      waiting == IF fresh THEN {} ELSE {w \in pending[n] : w[1] \notin admitted}
      T == base \cup admitted
      debt(q) == IF fresh THEN NoDebt ELSE owed[n][q]
      ack(q) == IF fresh THEN NoView ELSE acks[n][q]
      gone == Members(base) \ Members(T)
  IN /\ ops' = [ops EXCEPT ![n] = T]
     /\ pending' = [pending EXCEPT ![n] =
          waiting \cup {<<o, source>> : o \in buffered \ {w[1] : w \in waiting}}]
     /\ owed' = [owed EXCEPT ![n] = [q \in Node |->
          IF q \in gone THEN NoDebt
          ELSE IF q \notin Members(T) \ {n} THEN debt(q)
          ELSE Obliged(debt(q), ack(q), Root(T), Due(q, admitted, source))]]
     /\ acks' = [acks EXCEPT ![n] = [q \in Node |-> IF q \in gone THEN NoView ELSE ack(q)]]
     /\ seen' = [seen EXCEPT ![n] = @ \cup T]

\* n receives B from `source'.  A refused or already held batch changes
\* nothing; buffering alone keeps the history and its evidence.
Receive(n, B, source, bound) ==
  LET b == Batch(ops[n], B, bound) IN
  IF b.refused \/ b.admitted \cup b.buffered = {} THEN UNCHANGED store
  ELSE Commit(n, b.base, b.admitted, b.buffered, source)

\* The drain that ends a receive: one buffered operation whose dependencies are
\* there is admitted in a transaction of its own, as from the peer that sent it,
\* or rejected with all that waits for it when its position is taken.
Drain(n, w) ==
  /\ w \in pending[n] /\ Dag[w[1]].deps \subseteq ops[n]
  /\ IF Free(w[1], ops[n]) THEN Commit(n, ops[n], {w[1]}, {}, w[2])
     ELSE /\ pending' = [pending EXCEPT ![n] = {v \in @ : w[1] \notin Closure({v[1]})}]
          /\ UNCHANGED <<ops, acks, owed, seen>>
  /\ UNCHANGED <<world, asked, ex, late, faults>>

-----------------------------------------------------------------------------
(* Local writes, operations from members that are not modelled, and the    *)
(* obligations a caller puts.                                              *)

\* create_topic: a genesis of n's own where it holds nothing.  It commits with
\* what it owes the members it names.
Create(n, o) ==
  /\ Dag[o].author = n /\ Dag[o].deps = {} /\ ops[n] = {}
  /\ Commit(n, {}, {o}, {}, n)
  /\ UNCHANGED <<world, asked, ex, late, faults>>

\* publish with asynchronous replication, by a member, on the heads it holds.
Publish(n, o) ==
  /\ Dag[o].author = n /\ n \in Members(ops[n])
  /\ Dag[o].deps = Heads(ops[n]) /\ Dag[o].seq = Clock(ops[n])[n] + 1
  /\ Commit(n, ops[n], {o}, {}, n)
  /\ UNCHANGED <<world, asked, ex, late, faults>>

\* A member outside Node pushes one of its operations, signed on operations
\* that have been written.
Elsewhere(n, o) ==
  /\ o \notin ops[n] /\ Dag[o].author \notin Node
  /\ \A x \in Dag[o].past : Dag[x].author \in Node => x \in seen[Dag[x].author]
  /\ \A w \in pending[n] : w[1] # o
  /\ Receive(n, {o}, 0, 0)
  /\ store' # store
  /\ UNCHANGED <<world, asked, ex, late, faults>>

\* A caller names another node, and puts each of the world's ids once.
NoCall == [peer |-> 0, gen |-> 0, op |-> 0, known |-> FALSE]

\* put_obligation reads the branch and the position of an id ...
AskObligation(n, p, o) ==
  /\ n # p
  /\ asked[n].call = NoCall /\ o \notin asked[n].done
  /\ asked' = [asked EXCEPT ![n].call =
       [peer |-> p, gen |-> Root(ops[n]), op |-> o, known |-> o \in ops[n]]]
  /\ UNCHANGED <<world, store, ex, late, faults>>

Returns(n) == asked' = [asked EXCEPT ![n] = [call |-> NoCall, done |-> @.done \cup {@.call.op}]]

\* Fault: the write is not conditioned on the branch the ids were read from.
PutObligationBlind(n) ==
  LET a == asked[n].call IN
  /\ a # NoCall
  /\ owed' = IF a.known
               THEN [owed EXCEPT ![n][a.peer] = Owe(@, Clock({a.op}))]
               ELSE [owed EXCEPT ![n][a.peer].repair = @ \cup {a.op}]
  /\ Returns(n)
  /\ UNCHANGED <<world, ops, pending, acks, seen, ex, late, faults>>

\* ... and writes a clock entry or a repair id, if the branch is still there and
\* the repair set has room.
PutObligation(n) ==
  LET a == asked[n].call IN
  /\ a # NoCall
  /\ owed' = IF Root(ops[n]) # a.gen THEN owed
             ELSE IF a.known THEN [owed EXCEPT ![n][a.peer] = Owe(@, Clock({a.op}))]
             ELSE IF Cardinality(owed[n][a.peer].repair \cup {a.op}) > MaxRepair THEN owed
             ELSE [owed EXCEPT ![n][a.peer].repair = @ \cup {a.op}]
  /\ Returns(n)
  /\ UNCHANGED <<world, ops, pending, acks, seen, ex, late, faults>>

\* Everything kept about p goes, if p is still no member when it commits.
Clear(n, p) ==
  /\ p \notin Members(ops[n])
  /\ owed' = [owed EXCEPT ![n][p] = NoDebt]
  /\ acks' = [acks EXCEPT ![n][p] = NoView]

\* gc_stale_obligations: a departed peer is owed nothing.
DropDeparted(n, p) ==
  /\ owed[n][p] # NoDebt
  /\ Clear(n, p)
  /\ UNCHANGED <<world, ops, pending, seen, asked, ex, late, faults>>

\* A buffered operation of a branch the topic left can only expire.  One of
\* the topic's own branch is taken to be repaired within its lifetime.
Expire(n, w) ==
  /\ w \in pending[n] /\ Root(ops[n]) \notin Dag[w[1]].past
  /\ pending' = [pending EXCEPT ![n] = @ \ {w}]
  /\ UNCHANGED <<world, ops, acks, owed, seen, asked, ex, late, faults>>

-----------------------------------------------------------------------------
(* Pages, requests and goals.                                              *)

\* The ids whose absence keeps buffered operations waiting.
Missing(n) ==
  UNION {Dag[w[1]].deps : w \in pending[n]} \ ops[n]

\* A summary: the view of a topic, and the ids its digest says are missing.
Summary(n) ==
  [gen |-> Root(ops[n]), heads |-> Heads(ops[n]), clock |-> Clock(ops[n]), missing |-> Missing(n)]

NoSummary == [gen |-> 0, heads |-> {}, clock |-> Zero, missing |-> {}]

\* The digests of n's topic and of the summary agree, and both are whole.
Agrees(n, sum) == sum.heads = Heads(ops[n]) /\ sum.missing = {} /\ Missing(n) = {}

Oldest(S, k) == {o \in S : Cardinality({x \in S : x < o}) < k}

Beyond(S, clock) == {o \in S : Dag[o].seq > clock[Dag[o].author]}

NoReq == [gen |-> 0, clock |-> Zero, wants |-> {}]

\* What n asks of p: everything ahead of its clock, the heads it lacks and
\* the ids it misses, unless the id is the tip of an author that is ahead.  A
\* smaller remote genesis is asked for from the start.  A non-member, an equal
\* or a losing branch is asked for nothing.
Asks(n, p, sum) ==
  LET S == ops[n]
      ahead == {a \in Actor : sum.clock[a] > Clock(S)[a]}
      wants == {o \in (sum.heads \ S) \cup Missing(n) :
                  ~ (Dag[o].author \in ahead /\ Dag[o].seq = sum.clock[Dag[o].author])}
  IN IF S = {} \/ p \notin Members(S) THEN NoReq
     ELSE IF sum.gen \notin {0, Root(S)}
          THEN IF sum.gen < Root(S) THEN [gen |-> sum.gen, clock |-> Zero, wants |-> {}] ELSE NoReq
     ELSE IF Agrees(n, sum) \/ (ahead = {} /\ wants = {}) THEN NoReq
     ELSE [gen |-> Root(S), clock |-> Clock(S), wants |-> wants]

\* What n would push to p given p's summary.
Pushes(n, p, sum) ==
  LET S == ops[n] IN
  IF S = {} \/ p \notin Members(S) THEN {}
  ELSE IF sum.gen \notin {0, Root(S)} THEN IF sum.gen < Root(S) THEN {} ELSE S
  ELSE IF Agrees(n, sum) THEN {}
  ELSE Beyond(S, sum.clock)

\* What p serves of a request: nothing to a non-member.
Serves(S, p, req) ==
  IF req.gen = 0 \/ S = {} \/ p \notin Members(S) THEN {}
  ELSE Beyond(S, req.clock) \cup (req.wants \cap S)

StaleRequest(S, p, req) == req.gen # 0 /\ S # {} /\ p \in Members(S) /\ req.gen # Root(S)

\* n's own signed leave, once the topic no longer lists it.
Leave(S, n) ==
  {o \in S : n \notin Members(S) /\ o = Max(Controls(S, n)) /\ Dag[o].author = n}

NoGoal == [pull |-> FALSE, gen |-> 0, replaces |-> 0, in |-> Zero, out |-> Zero]

Span == 1 .. Max({Dag[o].seq : o \in Op})

\* Positions of `target' that `clock' covers.
Covered(clock, target) ==
  Cardinality({x \in Actor \X Span : x[2] <= clock[x[1]] /\ x[2] <= target[x[1]]})

Nowhere == [ok |-> TRUE, in |-> 0, out |-> 0, holes |-> 0]

\* goal_progress: an error, or how much of the goal the store shows.
Progress(n, p, goal) ==
  LET S == ops[n] IN
  IF S = {} THEN [Nowhere EXCEPT !.ok = goal.pull]
  ELSE IF goal.replaces = Root(S) THEN Nowhere
  ELSE IF goal.gen # Root(S) THEN [Nowhere EXCEPT !.ok = FALSE]
  ELSE [ok |-> TRUE,
        in |-> Covered(Clock(S), goal.in),
        out |-> IF acks[n][p].gen = Root(S) THEN Covered(acks[n][p].clock, goal.out) ELSE 0,
        holes |-> Cardinality(Missing(n))]

Reached(progress, goal) ==
  /\ progress.in = Covered(goal.in, goal.in)
  /\ progress.out = Covered(goal.out, goal.out)
  /\ progress.holes = 0

Advanced(progress, before) ==
  \/ progress.in > before.in \/ progress.out > before.out \/ progress.holes < before.holes

-----------------------------------------------------------------------------
(* The attempt.  A stage keeps only the fields a later stage reads.        *)

Rest == [at |-> "rest", sum |-> NoSummary, data |-> {}, req |-> NoReq, ack |-> NoView,
         mine |-> NoView, ev |-> NoView, goal |-> NoGoal, before |-> Nowhere, ok |-> TRUE,
         follow |-> FALSE, more |-> FALSE, outcome |-> "none"]

Ended(outcome) == [Rest EXCEPT !.outcome = outcome]

Step(n, p, from, to) ==
  /\ ex[<<n, p>>].at = from
  /\ ex' = [ex EXCEPT ![<<n, p>>] = to]

\* target_needs_sync.
NeedsSync(n, p) ==
  LET S == ops[n] IN
  /\ S # {} /\ p \in Members(S)
  /\ IF n \in Members(S)
       THEN owed[n][p] # NoDebt \/ Missing(n) # {} \/ ~ AckCovers(acks[n][p], Root(S), Clock(S))
       ELSE \E o \in Leave(S, n) : acks[n][p].clock[n] < Dag[o].seq

\* An attempt opens the topic and sends its fingerprint.  The resync loop
\* starts one when the target needs it; a caller may start one at any time.
Start(n, p) ==
  /\ Step(n, p, "rest", [Rest EXCEPT !.at = "open", !.sum = Summary(n)])
  /\ UNCHANGED <<world, store, asked, late, faults>>

\* Evidence p's acknowledgement leaves at n when its transaction commits.
Record(n, p, ev) ==
  IF ev = NoView \/ AckCommit(ops[n], p, ev) = "refuse"
    THEN UNCHANGED <<acks, owed>>
    ELSE LET merged == MergedAck(acks[n][p], ev) IN
         /\ acks' = [acks EXCEPT ![n][p] = merged]
         /\ owed' = IF AckCommit(ops[n], p, ev) = "retain" THEN owed
                    ELSE [owed EXCEPT ![n][p] = Settled(ops[n], @, merged)]

\* p answers the open and the fingerprint: a refusal, a match, or a summary.
\* A match with a member is to be recorded first.
Greet(n, p) ==
  LET match == ops[p] # {} /\ Agrees(p, ex[<<n, p>>].sum) IN
  /\ Step(n, p, "open",
       IF ~ MayOpen(ops[p], n) THEN Ended("failed")
       ELSE [Rest EXCEPT !.at = IF ~ match THEN "greeted"
                                ELSE IF n \in Members(ops[p]) THEN "compared" ELSE "matched",
                         !.sum = Summary(p)])
  /\ UNCHANGED <<world, store, asked, late, faults>>

\* record_fingerprint reads the frontier again: it is evidence if it still has
\* the compared fingerprint.  Otherwise the summary compared is the answer.
Vouch(n, p) ==
  LET a == ex[<<n, p>>] IN
  /\ Step(n, p, "compared",
       IF n \notin Members(ops[p]) THEN Ended("failed")
       ELSE IF a.sum.heads # Heads(ops[p]) THEN [a EXCEPT !.at = "greeted"]
       ELSE [a EXCEPT !.at = "vouched", !.ev = View(ops[p])])
  /\ UNCHANGED <<world, store, asked, late, faults>>

\* A later transaction commits it, and p confirms the match.
Attest(n, p) ==
  LET a == ex[<<n, p>>] IN
  /\ Step(n, p, "vouched",
       IF AckCommit(ops[p], n, a.ev) = "refuse" THEN Ended("failed")
       ELSE [a EXCEPT !.at = "matched", !.ev = NoView])
  /\ Record(p, n, a.ev)
  /\ UNCHANGED <<world, ops, pending, seen, asked, late, faults>>

\* n saw its fingerprint confirmed and certifies it, unless the topic moved on.
Match(n, p) ==
  LET matched == p \in Members(ops[n]) /\ Agrees(n, ex[<<n, p>>].sum) IN
  /\ Step(n, p, "matched",
       IF matched THEN [Rest EXCEPT !.at = "confirmed", !.ev = View(ops[n])]
       ELSE Ended("failed"))
  /\ UNCHANGED <<world, store, asked, late, faults>>

\* The evidence of n's own match is committed, and the attempt is over.
Confirm(n, p) ==
  LET a == ex[<<n, p>>] IN
  /\ Step(n, p, "confirmed",
       Ended(IF AckCommit(ops[n], p, a.ev) = "refuse" THEN "failed" ELSE "complete"))
  /\ Record(n, p, a.ev)
  /\ UNCHANGED <<world, ops, pending, seen, asked, late, faults>>

\* What an attempt sets out to reach: across two branches only the winner's
\* positions are a goal.
Goal(S, p, sum) ==
  LET rival == sum.gen \notin {0, Root(S)}
      planned == IF rival /\ sum.gen < Root(S) THEN sum.gen ELSE Root(S)
  IN [pull |-> FALSE, gen |-> planned,
      replaces |-> IF planned # Root(S) THEN Root(S) ELSE 0,
      in |-> IF p \in Members(S) /\ (~ rival \/ planned # Root(S)) THEN sum.clock ELSE Zero,
      out |-> IF p \in Members(S) /\ planned = Root(S) THEN Clock(S) ELSE Zero]

\* A topic that n does not hold is pulled from the start.
PullPlan(sum) ==
  [Rest EXCEPT !.at = "planned",
               !.req = [gen |-> sum.gen, clock |-> Zero, wants |-> {}],
               !.goal = [NoGoal EXCEPT !.pull = TRUE, !.gen = sum.gen, !.in = sum.clock]]

\* n plans from the summary: everything from one snapshot of its store.
Plan(n, p) ==
  LET S == ops[n]
      sum == ex[<<n, p>>].sum
      leave == Leave(S, n)
      push == IF leave # {} THEN IF p \in Members(S) THEN leave ELSE {} ELSE Pushes(n, p, sum)
      goal == IF leave # {} THEN [Goal(S, p, sum) EXCEPT !.in = Zero, !.out = Clock(leave)]
              ELSE Goal(S, p, sum)
      converged == p \in Members(S) /\ sum.gen = Root(S) /\ Agrees(n, sum)
  IN
  /\ Step(n, p, "greeted",
       IF S = {} THEN
         IF sum.gen = 0 THEN Ended("complete") ELSE PullPlan(sum)
       ELSE [Rest EXCEPT !.at = IF converged THEN "converged" ELSE "planned",
               !.data = Oldest(push, PageOps),
               !.more = Cardinality(push) > PageOps,
               !.req = IF leave # {} THEN NoReq ELSE Asks(n, p, sum),
               !.sum = IF leave # {} THEN NoSummary ELSE Summary(n),
               !.ev = IF converged THEN View(S) ELSE NoView,
               !.goal = goal])
  /\ UNCHANGED <<world, store, asked, late, faults>>

\* Converged since the comparison: the summary proves the match, unless the
\* topic has moved again and the plan is carried out.
Reconsider(n, p) ==
  LET a == ex[<<n, p>>] IN
  /\ Step(n, p, "converged",
       IF p \notin Members(ops[n]) THEN Ended("failed")
       ELSE IF a.ev.heads # Heads(ops[n]) THEN [a EXCEPT !.at = "planned", !.ev = NoView]
       ELSE [Rest EXCEPT !.at = "confirmed", !.ev = View(ops[n])])
  /\ UNCHANGED <<world, store, asked, late, faults>>

\* n measures where it stands and sends the page, the request and its summary.
Send(n, p) ==
  LET a == ex[<<n, p>>]
      progress == Progress(n, p, a.goal)
  IN
  /\ Step(n, p, "planned",
       IF progress.ok THEN [a EXCEPT !.at = "sent", !.before = progress]
       ELSE Ended("failed"))
  /\ UNCHANGED <<world, store, asked, late, faults>>

\* p's session admits the page of a stream.  A page that is refused leaves the
\* stream without an acknowledgement, and an empty one asks for none.
Admission(n, p, from, to) ==
  LET a == ex[<<n, p>>]
      closed == ~ MayOpen(ops[p], n)
      refused == a.data # {} /\ Batch(ops[p], a.data, 0).refused
  IN
  /\ IF a.data = {} \/ closed THEN UNCHANGED store ELSE Receive(p, a.data, n, 0)
  /\ Step(n, p, from,
       IF closed THEN Ended("failed")
       ELSE [a EXCEPT !.at = IF a.data = {} \/ refused THEN to ELSE "received",
                      !.data = {}, !.ok = ~ refused])
  /\ UNCHANGED <<world, asked, late, faults>>

Admit(n, p) == Admission(n, p, "sent", "admitted")

\* Once the drain is done, or stopped at its limit, the page is acknowledged
\* with the frontier of that moment.
Acknowledge(n, p) ==
  LET a == ex[<<n, p>>] IN
  /\ Step(n, p, "received",
       [a EXCEPT !.at = IF a.follow THEN "answered" ELSE "admitted", !.ack = View(ops[p])])
  /\ UNCHANGED <<world, store, asked, late, faults>>

\* p's session answers the summary with a request of its own and serves the
\* request it was sent.
Reply(n, p) ==
  LET a == ex[<<n, p>>]
      page == Serves(ops[p], n, a.req)
      stale == StaleRequest(ops[p], n, a.req)
  IN
  /\ Step(n, p, "admitted",
       [a EXCEPT !.at = "replied", !.sum = NoSummary,
                 !.data = IF stale THEN {} ELSE Oldest(page, PageOps),
                 !.more = @ \/ (~ stale /\ Cardinality(page) > PageOps),
                 !.req = IF a.sum = NoSummary THEN NoReq ELSE Asks(p, n, a.sum),
                 !.ok = @ /\ ~ stale])
  /\ UNCHANGED <<world, store, asked, late, faults>>

\* The page n cuts for the peer's request, from its history S.
FollowPage(S, p, a) ==
  LET page == Serves(S, p, a.req) IN
  IF StaleRequest(S, p, a.req) THEN [ok |-> FALSE, data |-> {}, more |-> FALSE]
  ELSE [ok |-> TRUE, data |-> Oldest(page, PageOps), more |-> Cardinality(page) > PageOps]

\* n folds the replies: it admits the page on the branch of its goal ...
Fold(n, p) ==
  LET a == ex[<<n, p>>]
      refused == a.data # {} /\ Batch(ops[n], a.data, a.goal.gen).refused
  IN
  /\ IF a.data = {} THEN UNCHANGED store ELSE Receive(n, a.data, p, a.goal.gen)
  /\ Step(n, p, "replied",
       [a EXCEPT !.at = IF a.data = {} \/ refused THEN "returned" ELSE "drained",
                 !.data = {}, !.ok = @ /\ ~ refused])
  /\ UNCHANGED <<world, asked, late, faults>>

\* ... acknowledges it after the drain ...
Return(n, p) ==
  LET a == ex[<<n, p>>] IN
  /\ Step(n, p, "drained", [a EXCEPT !.at = "returned", !.mine = View(ops[n])])
  /\ UNCHANGED <<world, store, asked, late, faults>>

\* ... and cuts a page for the peer's request.
Follow(n, p) ==
  LET a == ex[<<n, p>>]
      page == FollowPage(ops[n], p, a)
  IN
  /\ Step(n, p, "returned",
       [a EXCEPT !.at = "folded", !.req = NoReq, !.data = page.data,
                 !.more = @ \/ page.more, !.ok = @ /\ page.ok])
  /\ UNCHANGED <<world, store, asked, late, faults>>

\* n validates p's acknowledgement against one snapshot.  A refused one fails
\* the attempt, and one that names nothing held here certifies nothing.
Certify(n, p) ==
  LET a == ex[<<n, p>>]
      refused == a.ack # NoView /\ AckRefused(ops[n], n, p, a.ack)
  IN
  /\ Step(n, p, "folded",
       [a EXCEPT !.at = "certified", !.ack = NoView, !.ok = @ /\ ~ refused,
                 !.ev = IF a.ack = NoView \/ refused THEN NoView ELSE Certified(ops[n], a.ack)])
  /\ UNCHANGED <<world, store, asked, late, faults>>

\* An attempt has a follow-up stream when it owes an acknowledgement or a page.
Follows(a) == a.mine # NoView \/ a.data # {}

\* n commits what was certified, if its own transaction still allows it, and
\* goes on to the follow-up stream or to the measure of its goal.
Apply(n, p) ==
  LET a == ex[<<n, p>>]
      ok == a.ok /\ ~ (a.ev # NoView /\ AckCommit(ops[n], p, a.ev) = "refuse")
  IN
  /\ Step(n, p, "certified",
       IF ~ ok THEN Ended("failed")
       ELSE [a EXCEPT !.ev = NoView,
                      !.follow = Follows(a),
                      !.at = IF Follows(a) THEN "follow" ELSE "measure"])
  /\ Record(n, p, a.ev)
  /\ UNCHANGED <<world, ops, pending, seen, asked, late, faults>>

\* p's session serves the follow-up: the page first ...
AdmitFollow(n, p) == Admission(n, p, "follow", "answered")

\* ... then n's acknowledgement is validated ...
Prove(n, p) ==
  LET a == ex[<<n, p>>]
      refused == a.mine # NoView /\ AckRefused(ops[p], p, n, a.mine)
  IN
  /\ Step(n, p, "answered",
       [a EXCEPT !.at = "proven", !.mine = NoView, !.ok = @ /\ ~ refused,
                 !.ev = IF a.mine = NoView \/ refused THEN NoView ELSE Certified(ops[p], a.mine)])
  /\ UNCHANGED <<world, store, asked, late, faults>>

\* The replies of the follow-up stream are folded like the first ones.
Returned(a, ok) == [a EXCEPT !.at = "folded", !.ev = NoView, !.follow = FALSE, !.ok = @ /\ ok]

\* ... and committed.  The replies go back to n to be certified in turn.
Settle(n, p) ==
  LET a == ex[<<n, p>>]
      refused == a.ev # NoView /\ AckCommit(ops[p], n, a.ev) = "refuse"
  IN
  /\ Step(n, p, "proven", Returned(a, ~ refused))
  /\ Record(p, n, a.ev)
  /\ UNCHANGED <<world, ops, pending, seen, asked, late, faults>>

\* Fault: an attempt is complete when it advanced and no page is left.
OutcomeAdvanced(progress, a) ==
  IF ~ progress.ok THEN "failed"
  ELSE IF ~ a.more THEN "complete"
  ELSE IF Advanced(progress, a.before) THEN "advanced"
  ELSE "failed"

\* run_batch_exchange's verdict: complete, a page closer to the goal, or failed.
Outcome(progress, a) ==
  IF ~ progress.ok THEN "failed"
  ELSE IF Reached(progress, a.goal) /\ ~ a.more THEN "complete"
  ELSE IF Advanced(progress, a.before) THEN "advanced"
  ELSE "failed"

Measure(n, p) ==
  LET a == ex[<<n, p>>] IN
  /\ Step(n, p, "measure", Ended(Outcome(Progress(n, p, a.goal), a)))
  /\ UNCHANGED <<world, store, asked, late, faults>>

\* A stream fails, or a node stops: the attempt is over, committed work stays.
Lose(n, p) ==
  /\ faults < world.faults /\ ex[<<n, p>>].at # "rest"
  /\ ex' = [ex EXCEPT ![<<n, p>>] = Ended("failed")]
  /\ faults' = faults + 1
  /\ UNCHANGED <<world, store, asked, late>>

NoStream == [data |-> {}, mine |-> NoView]

\* n gives up on a stream that p will still read.
Abandon(n, p) ==
  LET a == ex[<<n, p>>] IN
  /\ faults < world.faults /\ a.at \in {"sent", "follow"} /\ late[<<n, p>>] = NoStream
  /\ late' = [late EXCEPT ![<<n, p>>] = [data |-> a.data, mine |-> a.mine]]
  /\ ex' = [ex EXCEPT ![<<n, p>>] = Ended("failed")]
  /\ faults' = faults + 1
  /\ UNCHANGED <<world, store, asked>>

\* p reads the page of an abandoned stream ...
LateAdmit(n, p) ==
  LET m == late[<<n, p>>] IN
  /\ m.data # {}
  /\ IF MayOpen(ops[p], n) THEN Receive(p, m.data, n, 0) ELSE UNCHANGED store
  /\ late' = [late EXCEPT ![<<n, p>>].data = {}]
  /\ UNCHANGED <<world, asked, ex, faults>>

\* ... and applies its acknowledgement.
LateProve(n, p) ==
  LET m == late[<<n, p>>] IN
  /\ m.data = {} /\ m.mine # NoView
  /\ IF AckRefused(ops[p], p, n, m.mine) THEN UNCHANGED <<acks, owed>>
     ELSE Record(p, n, Certified(ops[p], m.mine))
  /\ late' = [late EXCEPT ![<<n, p>>] = NoStream]
  /\ UNCHANGED <<world, ops, pending, seen, asked, ex, faults>>

-----------------------------------------------------------------------------

Init ==
  /\ world \in Worlds
  /\ ops = [n \in Node |-> {}]
  /\ pending = [n \in Node |-> {}]
  /\ acks = [n \in Node |-> [p \in Node |-> NoView]]
  /\ owed = [n \in Node |-> [p \in Node |-> NoDebt]]
  /\ asked = [n \in Node |-> [call |-> NoCall, done |-> {}]]
  /\ ex = [l \in Links |-> Rest]
  /\ late = [l \in Links |-> NoStream]
  /\ faults = 0
  /\ seen = [n \in Node |-> {}]

\* The steps of one attempt, at either end.
Proceed(n, p) ==
  \/ Greet(n, p) \/ Vouch(n, p) \/ Attest(n, p) \/ Match(n, p) \/ Confirm(n, p)
  \/ Plan(n, p) \/ Reconsider(n, p) \/ Send(n, p) \/ Admit(n, p) \/ Acknowledge(n, p)
  \/ Reply(n, p) \/ Fold(n, p) \/ Return(n, p) \/ Follow(n, p) \/ Certify(n, p)
  \/ Apply(n, p) \/ AdmitFollow(n, p) \/ Prove(n, p) \/ Settle(n, p) \/ Measure(n, p)

Next ==
  \/ \E n \in Node, o \in world.ops : Create(n, o) \/ Publish(n, o) \/ Elsewhere(n, o)
  \/ \E c \in world.asks, p \in Node : AskObligation(c[1], p, c[2])
  \/ \E n \in Node : PutObligation(n)
  \/ \E n \in Node, p \in Node : DropDeparted(n, p)
  \/ \E n \in Node : \E w \in pending[n] : Drain(n, w) \/ Expire(n, w)
  \/ \E l \in world.links :
                      \/ Start(l[1], l[2]) \/ Proceed(l[1], l[2])
                      \/ Lose(l[1], l[2]) \/ Abandon(l[1], l[2])
                      \/ LateAdmit(l[1], l[2]) \/ LateProve(l[1], l[2])

Spec == Init /\ [][Next]_vars

\* The resync loop starts every attempt a target needs, sooner or later, and
\* an attempt that is under way is carried on.  A buffered operation that is
\* never repaired expires, and one that is ready is drained.  Nothing obliges a
\* write.
FairSpec ==
  /\ Spec
  /\ \A l \in Links :
       /\ []<>(ex[l].at # "rest" \/ l \notin world.links \/ ~ NeedsSync(l[1], l[2])) \/ []<><<Start(l[1], l[2])>>_vars
       /\ []<>(ex[l].at = "rest") \/ []<><<ex'[l] # ex[l]>>_vars
  /\ \A n \in Node :
       /\ []<>(\A w \in pending[n] : Root(ops[n]) \in Dag[w[1]].past) \/ []<><<\E w \in pending[n] : Expire(n, w)>>_vars
       /\ []<>(\A w \in pending[n] : ~ Dag[w[1]].deps \subseteq ops[n]) \/ []<><<\E w \in pending[n] : Drain(n, w)>>_vars

-----------------------------------------------------------------------------
(* Properties.                                                             *)

\* Every field of the stores, of the attempts and of the streams keeps its
\* type, a history is closed under its dependencies, and evidence and
\* obligations exist only for other nodes.
TypeOK ==
  /\ world \in Worlds
  /\ \A n \in Node :
       /\ ops[n] \subseteq world.ops /\ \A o \in ops[n] : Dag[o].deps \subseteq ops[n]
       /\ \A w \in pending[n] : w[1] \in world.ops \ ops[n]
       /\ seen[n] \subseteq world.ops /\ ops[n] \subseteq seen[n]
       /\ acks[n][n] = NoView /\ owed[n][n] = NoDebt
       /\ \A p \in Node : /\ acks[n][p].gen \in Op \cup {0}
                          /\ acks[n][p].heads \subseteq ops[n]
                          /\ owed[n][p].repair \subseteq Op
                          /\ Cardinality(owed[n][p].repair) <= MaxRepair
  /\ \A l \in Links : /\ ex[l].data \subseteq world.ops /\ late[l].data \subseteq world.ops
                      /\ ex[l].outcome \in {"none", "complete", "advanced", "failed"}
  /\ faults \in 0 .. world.faults

\* Evidence is never more than the peer admitted: every operation the ancestry
\* of a certified record covers at n, p has held.  What lets peer_reached_op
\* tell a writer that its operation is safe with a peer.
AckSound ==
  \A n, p \in Node :
    acks[n][p].gen # 0 =>
      \A o \in ops[n] : Dag[o].seq <= acks[n][p].clock[Dag[o].author] => o \in seen[p]

\* Nothing a node holds is forgotten toward a member: the peer has held it, or
\* its position is still owed.
OwedOrHeld ==
  \A n \in Node : \A p \in Members(ops[n]) \ {n} : \A o \in ops[n] :
    o \in seen[p] \/ owed[n][p].clock[Dag[o].author] >= Dag[o].seq

\* What a node owes it can serve: the evidence and the clock obligations of a
\* topic name positions of the branch it holds, also after a reset.
OwedServable ==
  \A n, p \in Node :
    /\ Covers(Clock(ops[n]), owed[n][p].clock)
    /\ acks[n][p].gen \in {0, Root(ops[n])}

\* A completed attempt reached its goal: every operation n pushed toward is
\* held by p, and every position of p's summary is covered at n, whatever
\* happened to either store since the attempt was planned.
CompleteIsTrue ==
  [][\A l \in Links :
       LET n == l[1]
           p == l[2]
           goal == ex[l].goal
       IN (ex[l].at = "measure" /\ ex'[l].outcome = "complete") =>
            /\ \A o \in ops[n] : Dag[o].seq <= goal.out[Dag[o].author] => o \in seen[p]
            /\ Covers(Clock(ops[n]), goal.in)
            /\ Root(ops[n]) = goal.gen]_vars

Forked == \E x, y \in UNION {ops[n] : n \in Node} :
            x # y /\ Dag[x].author = Dag[y].author /\ Dag[x].seq = Dag[y].seq /\ Dag[x].deps # {}

\* Replication settles: from some point on a node that is a member where another
\* syncs with it holds all that the other holds and is owed no position, also
\* when it started with nothing.  Left out are histories with a forked actor, a
\* receiver that removed the other, one on a smaller branch, which is its own to
\* deliver, and one without the topic whose only source has left it.
Converges ==
  <>[](~ Forked => \A l \in world.links :
         /\ l[2] \in Members(ops[l[1]])
         /\ IF ops[l[2]] = {} THEN l[1] \in Members(ops[l[1]])
            ELSE l[1] \in Members(ops[l[2]]) /\ Root(ops[l[1]]) <= Root(ops[l[2]])
         => ops[l[1]] \subseteq ops[l[2]] /\ owed[l[1]][l[2]].clock = Zero)

=============================================================================
