------------------------------ MODULE PagePlan ------------------------------
(***************************************************************************)
(* How a peer that is behind pulls the history of a topic page by page:    *)
(* the request it builds from its clock (sync/request.rs), the bounded     *)
(* traversal that plans a page (sync/plan.rs), and the plan the responder  *)
(* keeps between two requests (sync/continuation.rs, sync/mod.rs).         *)
(*                                                                         *)
(* One operation is the pair <<actor, seq>>; a clock maps actors to the    *)
(* length of the prefix held.  A slice is a number of charges, one for     *)
(* each step of the traversal; a record is charged each time it is taken,  *)
(* as if the pool of loaded ones had dropped it.  Operations all have the  *)
(* same size.                                                              *)
(***************************************************************************)
EXTENDS Integers, Sequences, TLC, SequencesExt, FiniteSets, FiniteSetsExt

CONSTANTS
    Actor,          \* a set of positive integers, the order of actor ids
    MaxSeq,         \* operations of one actor
    Histories,      \* a sequence of histories the responder may hold
    Items,          \* request_items: hints one request names at most
    PageOps,        \* operations one page carries at most
    PageActors,     \* page_actors: heads in the active set at most
    PagePositions,  \* page_positions: unknown actors one plan collects
    Visits,         \* page_visits: charges of one slice
    Mode,           \* how requests are answered: "named", "informed", "push"
    Collisions,     \* sets of actors a filter may wrongly hold
    MaxLost,        \* exchanges that are cut
    MaxEvictions,   \* kept plans that are dropped
    MaxWipes,       \* times the requester loses its store
    MaxOutside      \* operations the requester gets from somebody else

ASSUME ModeAssumption == Mode \subseteq {"named", "informed", "push"}
ASSUME LimitAssumption == {Items, PageOps, PageActors, PagePositions, Visits} \subseteq Nat \ {0}

VARIABLES
    case,       \* the history the responder holds, how the requester asks, its filter,
                \* whether it stages what it gets
    srv,        \* the responder's clock
    held,       \* the requester's clock
    session,    \* the staging session of a requester that stages
    know,       \* RequestKnowledge of the requester
    req,        \* the request being answered
    kept,       \* the continuation the responder keeps for the requester
    plan,       \* the traversal in progress
    page,       \* the page on its way to the requester
    broken,     \* records of the responder that can no longer be read
    lost, evictions, wipes, outside

vars == <<case, srv, held, session, know, req, kept, plan, page,
          broken, lost, evictions, wipes, outside>>
faults == <<broken, lost, evictions, wipes, outside>>

None == [none |-> TRUE]
NoActor == 0
NoSession == -1
Ops == Actor \X (1..MaxSeq)
Zero == [a \in Actor |-> 0]
Dominates(c, d) == \A a \in Actor : c[a] >= d[a]
\* Dependencies, generations, index rows and headers that are missing, records that
\* may go missing, the clock at first and at last.
hist == Histories[case.history]
Deps(o) == hist.deps[o[1]][o[2]]
Gen(o) == hist.gen[o[1]][o[2]]
\* get_header and the operation record of a stored position.
HasHeader(o) == o \notin hist.noHeader
Indexed(o) == o \notin hist.noIndex
HasRecord(o) == HasHeader(o) /\ o \notin broken
Holds(c, o) == o[2] <= c[o[1]]
Set(c, a, s) == [c EXCEPT ![a] = s]
-----------------------------------------------------------------------------
(***************************************************************************)
(* The request.                                                            *)
(***************************************************************************)
WholeWindow == [after |-> NoActor, through |-> NoActor, filtered |-> FALSE, behind |-> {}]

InWindow(w, a) == a > w.after /\ (w.through = NoActor \/ a <= w.through)
\* Mutant: a filter that is there is taken to miss every actor.
WindowHoldsFiltered(w, a) == InWindow(w, a) \/ w.filtered

WindowHolds(w, a) == InWindow(w, a) \/ (w.filtered /\ a \notin w.behind)

Behind(local, remote) == {a \in Actor : remote[a] > local[a]}

NoKnowledge == [after |-> NoActor, positions |-> <<>>]

\* Mutant: needed positions are forgotten.
SettleForgetful(k, w, positions, continued) ==
    IF continued THEN k ELSE [after |-> w.through, positions |-> <<>>]

\* RequestKnowledge::settle; the counters that bound empty attempts in a row
\* are left out, as the requester of this model always tries again, and so is
\* the capacity of the list, which is far above the actors of an instance.
SettleKnowledge(k, w, positions, continued) ==
    IF continued THEN k
    ELSE [after |-> w.through,
          positions |->
            IF positions = {} THEN <<>>
            ELSE LET front == SetToSortSeq(positions, <)
                     old == SelectSeq(k.positions, LAMBDA a : a \notin positions)
                 IN  front \o old]

\* Hints of at most one operation for the actors of `named', then for the run
\* of `behind' after `after' that fits, and the window over that run.
WindowRanges(local, remote, after, named) ==
    LET behind == Behind(local, remote)
        from == IF \E a \in behind : a > after THEN after ELSE NoActor
        run == {a \in behind : a > from}
        free == Items - Cardinality(named)
        \* The run ends before the first actor whose hint no longer fits.
        inRun == {a \in run : Cardinality({b \in run \ named : b <= a}) <= free}
        through == IF inRun = run THEN NoActor
                   ELSE IF inRun = {} THEN from ELSE Max(inRun)
        w == [after |-> from, through |-> through, filtered |-> FALSE, behind |-> {}]
        omitted == {a \in behind \ named : ~InWindow(w, a)}
    IN  [hints |-> [a \in named \cup inRun |->
                        [from |-> local[a], to |-> Max({local[a], Min({remote[a], local[a] + 1})})]],
         window |-> w, omitted |-> omitted]

\* request_ranges, up to the filter: a Bloom filter holds every actor of
\* `omitted' and may hold others, and there is none when it grows too large.
WithFilter(r, filtered, extra) ==
    [hints |-> r.hints,
     window |-> [r.window EXCEPT !.filtered = filtered,
                                 !.behind = IF filtered THEN r.omitted \cup extra ELSE {}]]

RequestRanges(local, remote, k, filtered, extra) ==
    LET behind == Behind(local, remote)
        pick(s, n) == Range(SubSeq(s, 1, Min({Len(s), n})))
        ahead == SelectSeq(k.positions, LAMBDA a : a \in behind)
        named == pick(ahead, Items - 1)
        first == WithFilter(WindowRanges(local, remote, k.after, named), filtered, extra)
        unheld == SelectSeq(k.positions,
                            LAMBDA a : a \notin behind /\ ~WindowHolds(first.window, a))
        more == named \cup pick(unheld, Items - 1 - Cardinality(named))
    IN  IF Cardinality(behind) <= Items
        THEN [hints |-> [a \in behind |-> [from |-> local[a], to |-> remote[a]]],
              window |-> WholeWindow]
        ELSE IF more = named THEN first
        ELSE WithFilter(WindowRanges(local, remote, k.after, more), filtered, extra)

Named(r) == DOMAIN r.hints
\* page_request: the credit is what the hints span, and at least one.
Credit(hints) == Max({1, MapThenSumSet(LAMBDA a : hints[a].to - hints[a].from, DOMAIN hints)})
-----------------------------------------------------------------------------
(***************************************************************************)
(* What a request says of the requester's positions: ActorScope.           *)
(***************************************************************************)
Informed(r) == r.mode = "informed"
Unknown(r, a) == ~Informed(r) /\ a \notin Named(r) /\ ~WindowHolds(r.window, a)
HoldsPrefix(r, o) == Informed(r) /\ o[1] \notin Named(r) /\ Holds(r.summary, o)
\* known_prefix; 0 where the code has None, as every use takes a maximum.
KnownPrefix(r, a) ==
    IF a \in Named(r) THEN r.hints[a].from ELSE IF Informed(r) THEN r.summary[a] ELSE 0
-----------------------------------------------------------------------------
(***************************************************************************)
(* The frontier of a plan.                                                 *)
(***************************************************************************)
NewScan == [cleared |-> {}, needed |-> << >>, at |-> NoActor, stale |-> FALSE, ancestry |-> <<>>]

\* Frontier::new and the cursor a fresh plan starts from.
NewFrontier(r, peer, local) ==
    [covered |-> peer, pending |-> <<>>, updates |-> <<>>, active |-> {},
     selecting |-> Informed(r) /\ Cardinality(Named(r)) > PageActors, chosen |-> {},
     remainder |-> FALSE,
     deferred |-> {a \in Actor : local[a] > 0
                       /\ (~Informed(r) /\ Named(r) # {} => a \in Named(r))},
     suspended |-> [a \in Actor |-> <<>>], resumable |-> <<>>, state |-> [a \in Actor |-> "none"],
     reached |-> Zero, blocked |-> {}, missing |-> {}, positions |-> << >>,
     checked |-> << >>, more |-> FALSE,
     offered |-> <<>>, floor |-> None, offerPositions |-> {}, offerMissing |-> {},
     replay |-> 0, replaying |-> FALSE, evictable |-> FALSE]

OfferFloor(f) == IF f.floor = None THEN f.covered ELSE f.floor

\* A new revision: every scan looks at its needed actors again.
Revise(f) == [f EXCEPT !.checked = [o \in DOMAIN @ |-> [@[o] EXCEPT !.stale = TRUE]]]

Observe(f, a, s) ==
    IF s > f.covered[a] THEN Revise([f EXCEPT !.covered[a] = s]) ELSE f

Discover(f, a, s) ==
    Revise([f EXCEPT !.covered[a] = s,
                     !.floor = IF @ = None THEN @ ELSE Set(@, a, s),
                     !.positions = RestrictDomain(@, LAMBDA b : b # a)])

\* Frontier::confirm: the positions a request names are known now.
ConfirmHint(f, r, local, a) ==
    LET known == Min({r.hints[a].from, local[a]})
        g == IF a \in DOMAIN f.positions
             THEN Revise([f EXCEPT !.positions = RestrictDomain(@, LAMBDA b : b # a)]) ELSE f
    IN  Observe(g, a, known)
Confirm(f, r, local) ==
    FoldSet(LAMBDA a, g : ConfirmHint(g, r, local, a), f, Named(r))

ClearOffer(f) ==
    [f EXCEPT !.offered = <<>>, !.offerPositions = {}, !.offerMissing = {},
              !.floor = None, !.replay = 0, !.replaying = FALSE]

\* The page that was answered is kept by its identifiers until it is confirmed.
CaptureOffer(f, p, floor) ==
    IF f.replaying \/ p.ops = <<>> THEN f
    ELSE LET ids == Range(p.ops)
             first(a) == Min({o[2] : o \in {x \in ids : x[1] = a}})
             actors == {o[1] : o \in ids}
         IN  [f EXCEPT !.offered = [i \in DOMAIN p.ops |-> [op |-> p.ops[i], held |-> FALSE]],
                       !.floor = [a \in Actor |-> IF a \in actors
                                                  THEN Max({floor[a], first(a) - 1})
                                                  ELSE f.covered[a]],
                       !.offerPositions = p.positions, !.offerMissing = p.missing,
                       !.replay = 1]

\* Mutant: a page that is not wholly confirmed is replayed from its start.
ConfirmOfferNone(f, r, full) ==
    IF full THEN ClearOffer(f) ELSE [f EXCEPT !.replay = 1, !.replaying = f.offered # <<>>]

\* The part of the offered page the request does not confirm is replayed.
ConfirmOffer(f, r, full) ==
    LET confirmed(o) ==
            IF Informed(r)
            THEN Holds(r.summary, o) /\ (o[1] \in Named(r) => r.hints[o[1]].from >= o[2])
            ELSE IF o[1] \in Named(r) THEN r.hints[o[1]].from >= o[2]
            ELSE WindowHolds(r.window, o[1])
        marked == [i \in DOMAIN f.offered |->
                      [f.offered[i] EXCEPT !.held = confirmed(f.offered[i].op)]]
        open == {i \in DOMAIN marked : ~marked[i].held}
    IN  IF full \/ open = {} THEN ClearOffer(f)
        ELSE [f EXCEPT !.offered = marked, !.replay = Min(open), !.replaying = TRUE]

\* Whether a plan without data moves on when it is resumed.
Advancing(f) ==
    \/ f.replaying \/ f.selecting
    \/ f.updates # <<>> \/ f.pending # <<>>
    \/ f.active # {} \/ f.resumable # <<>> \/ f.deferred # {}
-----------------------------------------------------------------------------
(***************************************************************************)
(* Moves of one head between the sets of the frontier.                     *)
(***************************************************************************)
Limit(q, a) == Min({q.goal[a], q.local[a]})
\* The heads that wait for an actor, with the position each one needs.
Waiting(f, a) == f.suspended[a]

Activate(f, a, after, limit) ==
    [f EXCEPT !.pending = Append(@, [actor |-> a, after |-> after, limit |-> limit]),
              !.state[a] = "active"]
\* An update goes through the heads that wait for its actor one by one.
Update(kind, a, s) == [kind |-> kind, actor |-> a, seq |-> s, index |-> 1, raised |-> 0]
Wake(f, a, s) ==
    IF Waiting(f, a) = <<>> THEN f
    ELSE [f EXCEPT !.updates = Append(@, Update("wake", a, s))]
Reach(f, r, a, limit) ==
    LET g == [f EXCEPT !.state[a] = "reached", !.reached[a] = limit]
    IN  IF Waiting(f, a) # <<>>
        THEN [g EXCEPT !.updates = Append(@, Update("raise", a, limit))]
        ELSE IF Informed(r) THEN [g EXCEPT !.state[a] = "none"] ELSE g
Stop(f, a) ==
    LET g == [f EXCEPT !.state[a] = "blocked", !.more = TRUE]
    IN  IF Waiting(f, a) = <<>> THEN g
        ELSE [g EXCEPT !.updates = Append(@, Update("stop", a, 0))]
Block(f, o) == Stop([f EXCEPT !.blocked = @ \cup {o}], o[1])

\* `head' waits until actor dep[1] has been sent up to dep[2].
Suspend(f, q, head, dep) ==
    LET a == dep[1]
        park(g) == [g EXCEPT !.state[head.op[1]] = "suspended",
                             !.suspended[a] = Append(@, [need |-> dep[2], head |-> head])]
    IN  CASE f.state[a] = "blocked" -> Block(f, head.op)
          [] f.state[a] \in {"active", "suspended"} -> park(f)
          [] f.state[a] = "reached" ->
                IF f.reached[a] >= dep[2] \/ (~Informed(q.req) /\ dep[2] > q.local[a])
                THEN Block(f, head.op)
                ELSE park(Activate(f, a, f.reached[a], dep[2]))
          [] f.state[a] = "none" ->
                park(Activate(f, a, f.covered[a], Max({dep[2], Limit(q, a)})))

\* The last entry takes the place of the one removed.
SwapRemove(W, i) == IF i = Len(W) THEN Front(W) ELSE [Front(W) EXCEPT ![i] = Last(W)]

\* The entry that the first update of the queue looks at: the last one for a stop.
UpdateAt(f) ==
    LET u == Head(f.updates)
    IN  IF u.kind = "stop" THEN Len(Waiting(f, u.actor)) ELSE u.index
UpdateDone(f) == UpdateAt(f) \notin DOMAIN Waiting(f, Head(f.updates).actor)

\* The first update has seen every head that waits, and costs nothing.  A raise moves
\* its actor on if a head needs that, and then looks for those that wait in vain.
EndUpdate(f, q) ==
    LET u == Head(f.updates)
        a == u.actor
        g == [f EXCEPT !.updates = Tail(@)]
        up == IF u.raised = 0 THEN g ELSE Activate(g, a, u.seq, u.raised)
    IN  CASE u.kind = "raise" ->
                [up EXCEPT !.updates = <<[u EXCEPT !.kind = "finish", !.index = 1]>> \o @]
          [] u.kind = "finish" ->
                IF Informed(q.req) /\ f.state[a] = "reached" THEN [g EXCEPT !.state[a] = "none"]
                ELSE g
          [] OTHER -> g

\* The first update on one head that waits; blocking a head may queue an update for
\* those that wait for its actor.
SettleUpdate(f, q) ==
    LET u == Head(f.updates)
        a == u.actor
        i == UpdateAt(f)
        w == Waiting(f, a)[i]
        onward == [f EXCEPT !.updates[1].index = i + 1]
        removed == [f EXCEPT !.suspended[a] = SwapRemove(@, i)]
        beyond == w.need > u.seq /\ (Informed(q.req) \/ w.need <= q.local[a])
    IN  CASE u.kind = "wake" ->
                IF w.need <= u.seq THEN [removed EXCEPT !.resumable = Append(@, w.head)]
                ELSE onward
          [] u.kind = "raise" ->
                IF beyond THEN [onward EXCEPT !.updates[1].raised = Max({@, w.need})]
                ELSE onward
          [] u.kind = "finish" ->
                IF w.need <= u.raised THEN onward ELSE Block(removed, w.head.op)
          [] u.kind = "stop" -> Block(removed, w.head.op)
-----------------------------------------------------------------------------
(***************************************************************************)
(* Answering a request: response_known.                                    *)
(***************************************************************************)
NoPage == [ops |-> <<>>, more |-> FALSE, missing |-> {}, positions |-> {}, continued |-> FALSE]

\* clamp_actor_range: where the plan takes the peer to be, and its goal.
ClampFrom(r, local, a) ==
    IF a \in Named(r) /\ r.hints[a].from < local[a] THEN r.hints[a].from ELSE local[a]
ClampTo(r, local, a) ==
    IF a \in Named(r) /\ r.hints[a].from < local[a]
    THEN Max({r.hints[a].from, Min({r.hints[a].to, local[a]})}) ELSE local[a]

ForwardRemaining(r, goal, ops) ==
    \E a \in Named(r) :
        LET sent == Cardinality({s \in (r.hints[a].from + 1)..MaxSeq :
                        \A t \in (r.hints[a].from + 1)..s : <<a, t>> \in Range(ops)})
        IN  Min({r.hints[a].to, goal[a]}) > r.hints[a].from + sent

\* A plan from the start.  With a summary the clock holds the named actors only.
FreshPlan(r) ==
    LET local == IF Informed(r) THEN [a \in Actor |-> IF a \in Named(r) THEN srv[a] ELSE 0] ELSE srv
        goal == [a \in Actor |-> IF r.mode = "push" THEN local[a] ELSE ClampTo(r, local, a)]
        peer == [a \in Actor |->
                    CASE r.mode = "push" -> r.summary[a]
                      [] Informed(r) -> IF a \in Named(r) THEN Min({r.hints[a].from, local[a]}) ELSE 0
                      [] OTHER -> ClampFrom(r, local, a)]
    IN  [req |-> r, local |-> local, goal |-> goal, f |-> NewFrontier(r, peer, local)]

\* Continuation::resume.
Resumable(c, r) ==
    /\ c.informed = Informed(r)
    /\ LET floor == OfferFloor(c.f)
       IN  IF Informed(r)
           THEN /\ c.scope = r.scope
                /\ \A a \in Actor : r.summary[a] >= floor[a]
                /\ \A a \in Named(r) : r.hints[a].from >= floor[a]
           ELSE /\ c.window = r.window
                /\ \A a \in Named(r) :
                      \/ a \in DOMAIN c.named
                      \/ c.f.covered[a] = r.hints[a].from
                      \/ ~WindowHolds(c.window, a) /\ r.hints[a].from <= c.local[a]
                /\ \A a \in DOMAIN c.named :
                      IF a \in Named(r)
                      THEN r.hints[a].from >= Max({c.named[a], floor[a]})
                      ELSE WindowHolds(c.window, a)

\* Whether the request confirms all the plan has sent.
FullyConfirmed(c, r) ==
    /\ \A a \in Named(r) : r.hints[a].from >= c.f.covered[a]
    /\ IF Informed(r)
       THEN Dominates(r.summary, c.f.covered)
       ELSE \A a \in DOMAIN c.named :
               IF a \in Named(r)
               THEN r.hints[a].from >= Max({c.named[a], c.f.covered[a]})
               ELSE WindowHolds(c.window, a)

ResumedPlan(c, r) ==
    LET met == {a \in DOMAIN c.named : a \notin Named(r) /\ WindowHolds(c.window, a)}
        told == {a \in Named(r) : ~WindowHolds(c.window, a) /\ a \notin DOMAIN c.named}
        f1 == IF Informed(r) THEN c.f
              ELSE FoldSet(LAMBDA a, f : Discover(f, a, c.local[a]), c.f, met)
        f2 == IF Informed(r) THEN f1
              ELSE FoldSet(LAMBDA a, f : Discover(f, a, r.hints[a].from), f1, told)
        f3 == ConfirmOffer(f2, r, FullyConfirmed(c, r))
    IN  [req |-> r, local |-> c.local, goal |-> c.goal, f |-> Confirm(f3, r, c.local)]

\* One entry of the page replayed: one the request confirms raises the floor, another
\* is sent again.  The page, the slice or a record that cannot be read ends the replay.
ReplayOne(s, i) ==
    LET o == s.f.offered[i].op
    IN  IF s.stop \/ Len(s.ops) >= s.budget \/ s.left = 0 THEN [s EXCEPT !.stop = TRUE]
        ELSE IF s.f.offered[i].held
        THEN [s EXCEPT !.left = @ - 1, !.f.replay = i + 1, !.f.floor[o[1]] = Max({@, o[2]})]
        ELSE IF ~HasRecord(o)
        THEN [s EXCEPT !.left = @ - 1, !.stop = TRUE, !.f.offerMissing = @ \cup {o}]
        ELSE [s EXCEPT !.left = @ - 1, !.f.replay = i + 1, !.ops = Append(@, o)]

\* replay_page.
ReplayPage(f, budget) ==
    LET s == FoldLeft(ReplayOne,
                      [f |-> f, ops |-> <<>>, budget |-> budget, left |-> Visits, stop |-> FALSE],
                      [k \in 1..(Len(f.offered) - f.replay + 1) |-> f.replay + k - 1])
        missing == s.f.offerMissing
        g == IF s.f.replay > Len(f.offered) THEN ClearOffer(s.f)
             ELSE [s.f EXCEPT !.offerMissing = f.offerMissing]
    IN  [f |-> [g EXCEPT !.evictable = s.ops # <<>>], left |-> s.left,
         page |-> [ops |-> s.ops, more |-> TRUE, missing |-> missing,
                   positions |-> f.offerPositions,
                   continued |-> g.replaying /\ s.ops = <<>> /\ missing = {}]]

\* The plan is kept for the peer, with the window and hints it now answers.
Keep(q, f) ==
    [scope |-> q.req.scope, informed |-> Informed(q.req),
     window |-> IF Informed(q.req) THEN WholeWindow ELSE q.req.window,
     named |-> IF Informed(q.req) THEN << >> ELSE [a \in Named(q.req) |-> q.req.hints[a].from],
     local |-> q.local, goal |-> q.goal, f |-> f]

\* The request is taken up: replay the last page, or go on to the traversal.
Begin ==
    /\ req # None /\ plan = None /\ page = None
    /\ LET resumed == kept # None /\ req.mode # "push" /\ Resumable(kept, req)
           q == IF resumed THEN ResumedPlan(kept, req) ELSE FreshPlan(req)
           f == [q.f EXCEPT !.more = FALSE, !.evictable = FALSE]
           budget == IF req.mode = "push" THEN PageOps ELSE Min({PageOps, Credit(req.hints)})
           replayed == IF f.replaying THEN ReplayPage(f, budget)
                       ELSE [f |-> f, left |-> Visits, page |-> NoPage]
       IN  IF replayed.f.replaying
           THEN /\ kept' = Keep(q, replayed.f)
                /\ page' = replayed.page
                /\ UNCHANGED plan
           ELSE /\ plan' = [req |-> q.req, local |-> q.local, goal |-> q.goal,
                            f |-> replayed.f, floor |-> OfferFloor(f),
                            replayed |-> replayed.page,
                            rest |-> budget - Len(replayed.page.ops), ops |-> <<>>,
                            head |-> None, scan |-> NewScan, left |-> replayed.left,
                            snapshot |-> srv,
                            phase |-> IF Len(replayed.page.ops) = budget THEN "full" ELSE "top"]
                /\ kept' = IF req.mode = "push" THEN kept ELSE None
                /\ UNCHANGED page
    /\ UNCHANGED <<case, srv, held, session, know, req, faults>>
-----------------------------------------------------------------------------
(***************************************************************************)
(* The loop of Pager::plan.  Each step costs one charge of the slice.      *)
(***************************************************************************)
At(phase) == plan # None /\ plan.phase = phase
Go(f, phase, cost) ==
    plan' = [plan EXCEPT !.f = f, !.phase = phase, !.left = @ - cost]
\* The slice ends here; a head in hand goes back with its scan.
End(f) ==
    plan' = [plan EXCEPT !.phase = "ended", !.head = None, !.scan = NewScan, !.f =
                IF plan.head = None THEN f
                ELSE [f EXCEPT !.active = @ \cup {plan.head},
                               !.checked = (plan.head.op :> plan.scan) @@ @]]
server == <<case, srv, held, session, know, req, kept, page, faults>>

Top ==
    /\ At("top")
    /\ IF Len(plan.ops) >= plan.rest \/ plan.left = 0 THEN End(plan.f)
       ELSE IF plan.f.updates = <<>> THEN Go(plan.f, "fill", 0)
       ELSE IF UpdateDone(plan.f) THEN Go(EndUpdate(plan.f, plan), "top", 0)
       ELSE Go(SettleUpdate(plan.f, plan), "top", 1)
    /\ UNCHANGED server

\* Pager::head: the next operation of an actor in the snapshot of the request, or why
\* there is none: the index ends, has a gap, or names an operation without a header.
HeadOf(f, scan) ==
    LET a == scan.actor
        listed == {s \in (scan.after + 1)..plan.snapshot[a] : Indexed(<<a, s>>)}
        o == <<a, Min(listed)>>
        lacks(x) == [f |-> Stop([f EXCEPT !.missing = @ \cup {x}], a), head |-> None]
    IN  IF listed = {} THEN [f |-> Stop(f, a), head |-> None]
        ELSE IF ~HasHeader(o) THEN lacks(o)
        ELSE IF o[2] # scan.after + 1 THEN lacks(<<a, o[2] - 1>>)
        ELSE [f |-> f, head |-> [op |-> o, limit |-> scan.limit]]

Before(h, k) ==
    \/ Gen(h.op) < Gen(k.op)
    \/ Gen(h.op) = Gen(k.op) /\ h.op[1] < k.op[1]

\* Pager::select: of more named actors than the active set takes, keep the
\* heads that come first, then end the slice.
Select ==
    /\ At("fill") /\ plan.f.selecting
    /\ LET f == plan.f
       IN  CASE f.pending = <<>> /\ f.deferred = {} ->
                    End([f EXCEPT !.selecting = FALSE, !.chosen = {}, !.active = @ \cup f.chosen,
                                  !.state = [a \in Actor |-> IF \E h \in f.chosen : h.op[1] = a
                                                             THEN "active" ELSE @[a]]])
             [] plan.left = 0 -> End(f)
             [] f.pending # <<>> ->
                    LET r == HeadOf([f EXCEPT !.pending = Tail(@)], Head(f.pending))
                        all == r.f.chosen \cup {r.head}
                        last == CHOOSE h \in all : \A k \in all \ {h} : Before(k, h)
                    IN  IF r.head = None THEN Go(r.f, "fill", 1)
                        ELSE IF Cardinality(all) <= PageActors
                        THEN Go([r.f EXCEPT !.chosen = all], "fill", 1)
                        ELSE Go([r.f EXCEPT !.chosen = all \ {last}, !.remainder = TRUE], "fill", 1)
             [] OTHER ->
                    LET a == Min(f.deferred)
                        g == [f EXCEPT !.deferred = @ \ {a}]
                    IN  IF f.covered[a] < Limit(plan, a)
                        THEN Go([g EXCEPT !.pending = Append(@, [actor |-> a, after |-> f.covered[a],
                                                                  limit |-> Limit(plan, a)])], "fill", 1)
                        ELSE Go(g, "fill", 1)
    /\ UNCHANGED server

\* Pager::fill: heads enter the active set while it has room.
Fill ==
    /\ At("fill") /\ ~plan.f.selecting
    /\ LET f == plan.f
       IN  CASE plan.left = 0 -> End(f)
             [] plan.left > 0 /\ Cardinality(f.active) < PageActors /\ f.pending # <<>> ->
                    LET r == HeadOf([f EXCEPT !.pending = Tail(@)], Head(f.pending))
                    IN  Go(IF r.head = None THEN r.f
                           ELSE [r.f EXCEPT !.active = @ \cup {r.head}], "fill", 1)
             [] plan.left > 0 /\ Cardinality(f.active) < PageActors
                    /\ f.pending = <<>> /\ f.resumable # <<>> ->
                    LET h == Head(f.resumable)
                    IN  Go([f EXCEPT !.resumable = Tail(@), !.active = @ \cup {h},
                                     !.state[h.op[1]] = "active"], "fill", 1)
             [] plan.left > 0 /\ Cardinality(f.active) < PageActors
                    /\ f.pending = <<>> /\ f.resumable = <<>> /\ f.deferred # {} ->
                    LET a == Min(f.deferred)
                        g == [f EXCEPT !.deferred = @ \ {a}]
                    IN  IF f.state[a] # "none" \/ Limit(plan, a) <= f.covered[a]
                        THEN Go(g, "fill", 1)
                        ELSE Go(Activate(g, a, f.covered[a], Limit(plan, a)), "fill", 1)
             [] OTHER -> Go(f, "pop", 0)
    /\ UNCHANGED server

\* An operation of the page, or one the peer turns out to hold, moves its actor on.
Advance(f, a, seq, limit) ==
    LET g == Wake(f, a, seq)
    IN  IF seq < limit THEN Activate(g, a, seq, limit) ELSE Reach(g, plan.req, a, limit)

\* The lowest head of the active set is taken, and skipped when it is covered.
Pop ==
    /\ At("pop")
    /\ IF plan.f.active = {} THEN plan' = [plan EXCEPT !.phase = "drained"]
       ELSE LET f == plan.f
                h == CHOOSE x \in f.active : \A k \in f.active \ {x} : Before(x, k)
                a == h.op[1]
                g == Observe([f EXCEPT !.active = @ \ {h}], a, Min({KnownPrefix(plan.req, a), h.limit}))
            IN  IF Holds(g.covered, h.op) THEN Go(Advance(g, a, g.covered[a], h.limit), "top", 1)
                ELSE IF ~HasRecord(h.op)
                THEN Go(Block([g EXCEPT !.missing = @ \cup {h.op}], h.op), "top", 1)
                ELSE LET known == IF h.op \in DOMAIN g.checked THEN g.checked[h.op] ELSE NewScan
                     IN  plan' = [plan EXCEPT
                            !.f = [g EXCEPT !.checked = RestrictDomain(@, LAMBDA o : o # h.op)],
                            !.head = h, !.phase = "wait", !.left = @ - 1,
                            !.scan = IF known.stale THEN [known EXCEPT !.stale = FALSE, !.at = NoActor]
                                     ELSE known]
    /\ UNCHANGED server

\* need_position and demand, where they have room.
RoomFor(f, a) == a \in DOMAIN f.positions \/ Cardinality(DOMAIN f.positions) < PagePositions
Need(f, a, gen) ==
    [f EXCEPT !.positions = (a :> IF a \in DOMAIN @ THEN Min({@[a], gen}) ELSE gen) @@ @]
CanDemand(f, scan, a) ==
    /\ a \in DOMAIN scan.needed \/ Cardinality(DOMAIN scan.needed) < PagePositions
    /\ RoomFor(f, a)
Demand(scan, o) ==
    [scan EXCEPT !.needed = (o[1] :> IF o[1] \in DOMAIN @
                                     THEN [seq |-> Max({@[o[1]].seq, o[2]}), gen |-> Min({@[o[1]].gen, Gen(o)})]
                                     ELSE [seq |-> o[2], gen |-> Gen(o)]) @@ @]
LowestOp(S) == CHOOSE o \in S : \A p \in S \ {o} : o[1] < p[1] \/ (o[1] = p[1] /\ o[2] < p[2])

\* A head that waits for another actor is suspended with its scan.
Park(f, scan, dep) ==
    plan' = [plan EXCEPT !.head = None, !.scan = NewScan, !.phase = "top", !.left = @ - 1,
                !.f = Suspend([f EXCEPT !.checked = (plan.head.op :> scan) @@ @], plan, plan.head, dep)]
Refuse(f) ==
    plan' = [plan EXCEPT !.head = None, !.scan = NewScan, !.phase = "top", !.left = @ - 1,
                         !.f = Block(f, plan.head.op)]
\* Observe while a scan is in hand: it looks at its needed actors again later.
Look(f, scan) == plan' = [plan EXCEPT !.f = f, !.left = @ - 1, !.scan =
                            IF f.covered = plan.f.covered THEN scan ELSE [scan EXCEPT !.stale = TRUE]]

\* wait_for, first loop: the unknown actors an earlier slice found.
WaitNeeded ==
    /\ At("wait")
    /\ LET scan == plan.scan
           rest == {a \in DOMAIN scan.needed : a > scan.at}
           a == Min(rest)
           n == scan.needed[a]
           f == Observe(plan.f, a, Min({KnownPrefix(plan.req, a), n.seq}))
           seen == [scan EXCEPT !.at = a]
       IN  /\ rest # {}
           /\ IF plan.left = 0 THEN End(plan.f)
              ELSE IF Unknown(plan.req, a)
              THEN IF RoomFor(f, a) THEN Look(Need(f, a, n.gen), seen) ELSE End(f)
              ELSE IF HoldsPrefix(plan.req, <<a, n.seq>>) \/ f.covered[a] >= n.seq
              THEN Look(f, [seen EXCEPT !.needed = RestrictDomain(@, LAMBDA b : b # a)])
              ELSE Park(f, scan, <<a, n.seq>>)
    /\ UNCHANGED server

NeededSeen == \A a \in DOMAIN plan.scan.needed : a <= plan.scan.at

\* unknown_ancestors: the ancestors, of unknown actors, of an unknown dependency.
WaitAncestors ==
    /\ At("wait") /\ NeededSeen /\ plan.scan.ancestry # <<>>
    /\ LET f == plan.f
           scan == plan.scan
           top == Last(scan.ancestry)
           under == Front(scan.ancestry)
           d == LowestOp(top.left)
           visited == Append(under, [top EXCEPT !.left = @ \ {d}])
           deeper == /\ HasHeader(d) /\ Unknown(plan.req, d[1])
                     /\ d[1] \in DOMAIN scan.needed => scan.needed[d[1]].seq < d[2]
       IN  IF plan.left = 0 THEN End(f)
           ELSE IF top.left = {}
                   \/ (~Unknown(plan.req, top.op[1])
                         /\ (HoldsPrefix(plan.req, top.op) \/ Holds(f.covered, top.op)))
           THEN Look(f, [scan EXCEPT !.ancestry = under])
           ELSE IF ~deeper THEN Look(f, [scan EXCEPT !.ancestry = visited])
           ELSE IF ~CanDemand(f, scan, d[1]) THEN End(f)
           ELSE Look(Need(f, d[1], Gen(d)),
                     [Demand(scan, d) EXCEPT !.ancestry = Append(visited, [op |-> d, left |-> Deps(d)])])
    /\ UNCHANGED server

\* wait_for, second loop: the dependencies not cleared yet, or the send.
WaitDeps ==
    /\ At("wait") /\ NeededSeen /\ plan.scan.ancestry = <<>>
    /\ LET scan == plan.scan
           open == Deps(plan.head.op) \ scan.cleared
           d == LowestOp(open)
           f0 == Observe(plan.f, d[1], Min({KnownPrefix(plan.req, d[1]), d[2]}))
           f == IF HoldsPrefix(plan.req, d) THEN Observe(f0, d[1], d[2]) ELSE f0
           clear == [scan EXCEPT !.cleared = @ \cup {d}]
       IN  /\ open # {}
           /\ IF plan.left = 0 THEN End(plan.f)
              ELSE IF d \in plan.f.blocked THEN Refuse(plan.f)
              ELSE IF ~HasHeader(d) THEN Refuse([plan.f EXCEPT !.missing = @ \cup {d}])
              ELSE IF HoldsPrefix(plan.req, d) THEN Look(f, clear)
              ELSE IF Unknown(plan.req, d[1])
              THEN IF ~CanDemand(f, scan, d[1]) THEN End(f)
                   ELSE Look(Need(f, d[1], Gen(d)),
                             [Demand(clear, d) EXCEPT !.ancestry = <<[op |-> d, left |-> Deps(d)]>>])
              ELSE IF ~Holds(f.covered, d) THEN Park(f, scan, d)
              ELSE Look(f, clear)
    /\ UNCHANGED server

\* Nothing is open: the operation joins the page, unless a position is needed.
WaitDone ==
    /\ At("wait") /\ NeededSeen /\ plan.scan.ancestry = <<>>
    /\ Deps(plan.head.op) \subseteq plan.scan.cleared
    /\ LET o == plan.head.op
           f == Observe([plan.f EXCEPT !.blocked = @ \ {o}], o[1], o[2])
       IN  IF DOMAIN plan.scan.needed # {} THEN End(plan.f)
           ELSE plan' = [plan EXCEPT !.ops = Append(@, o), !.phase = "top", !.head = None,
                                     !.scan = NewScan, !.f = Advance(f, o[1], o[2], plan.head.limit)]
    /\ UNCHANGED server
-----------------------------------------------------------------------------
\* deepest: the positions whose records have the lowest generation.
Deepest(needed, limit) ==
    {a \in DOMAIN needed :
        Cardinality({b \in DOMAIN needed : \/ needed[b] < needed[a]
                                           \/ needed[b] = needed[a] /\ b < a}) < limit}

\* The end of response_known: the page, and the plan that is kept for the next.
Finish ==
    /\ plan # None /\ plan.phase \in {"ended", "drained", "full"}
    /\ LET f == plan.f
           r == plan.req
           full == plan.phase = "full"
           left == \/ f.more \/ f.remainder \/ f.selecting
                   \/ f.active # {} \/ f.pending # <<>> \/ f.resumable # <<>>
                   \/ \E a \in Actor : Waiting(f, a) # <<>>
                   \/ f.deferred # {}
           found == IF full THEN << >> ELSE f.positions
           limit == Min({PagePositions, Max({1, Cardinality(Named(r)) - 1})})
           stays == /\ plan.phase = "ended" /\ left
                    /\ plan.ops = <<>> \/ ~f.remainder
           dropped == stays /\ Dominates(f.covered, plan.goal) /\ DOMAIN found = {}
           needed == [a \in plan.replayed.positions |-> 0] @@ found
           ops == plan.replayed.ops \o plan.ops
           p == [ops |-> ops,
                 more |-> \/ ~full /\ left /\ ~dropped
                          \/ ForwardRemaining(r, plan.goal, ops),
                 missing |-> plan.replayed.missing \cup (IF full THEN {} ELSE f.missing),
                 positions |-> Deepest(needed, limit), continued |-> FALSE]
           keeps == (full \/ (stays /\ ~dropped)) /\ p.more
           g == CaptureOffer([f EXCEPT !.evictable = ops # <<>>], p, plan.floor)
       IN  IF r.mode = "push"
           THEN /\ page' = [NoPage EXCEPT !.ops = plan.ops, !.more = left]
                /\ UNCHANGED kept
           ELSE /\ page' = [p EXCEPT !.continued =
                        keeps /\ ~full /\ ops = <<>> /\ p.positions = {} /\ Advancing(g)]
                /\ kept' = IF keeps THEN Keep(plan, g) ELSE None
    /\ plan' = None
    /\ UNCHANGED <<case, srv, held, session, know, req, faults>>
-----------------------------------------------------------------------------
(***************************************************************************)
(* The requester, the responder's writers, and what may go wrong.          *)
(***************************************************************************)
Init ==
    /\ case \in [history : DOMAIN Histories, mode : Mode, filtered : BOOLEAN, collides : Collisions,
                  staged : BOOLEAN]
    /\ case.mode # "named" => case.filtered
    /\ case.mode # "informed" => ~case.staged
    /\ case.mode # "named" \/ ~case.filtered => case.collides = {}
    /\ srv = hist.start
    /\ held = Zero
    /\ session = 0
    /\ know = NoKnowledge
    /\ req = None /\ kept = None /\ plan = None /\ page = None
    /\ broken = {} /\ lost = 0 /\ evictions = 0 /\ wipes = 0 /\ outside = 0

\* peer_scope: whether the requester has the topic, or else the session it stages it
\* in.  Only the latter tells a store that was lost from one that was not.
PeerScope ==
    IF held = Zero THEN [topic |-> FALSE, session |-> NoSession]
    ELSE IF case.staged THEN [topic |-> FALSE, session |-> session]
    ELSE [topic |-> TRUE, session |-> NoSession]

\* negotiate_inner and plan_pull: ask for what the peer's summary shows beyond
\* the local clock; a push answers the requester's own summary instead.
Request ==
    /\ req = None
    /\ Behind(held, srv) # {}
    /\ LET ranges == IF case.mode = "push" THEN [hints |-> << >>, window |-> WholeWindow]
                     ELSE RequestRanges(held, srv, know, case.filtered, case.collides)
       IN  req' = [mode |-> case.mode, hints |-> ranges.hints, window |-> ranges.window,
                   summary |-> IF case.mode = "named" THEN Zero ELSE held, scope |-> PeerScope]
    /\ UNCHANGED <<case, srv, held, session, know, kept, plan, page, faults>>

\* The page arrives: the store takes what its ancestry allows, in order.
Admit(c, o) ==
    IF o[2] = c[o[1]] + 1 /\ \A d \in Deps(o) : Holds(c, d) THEN Set(c, o[1], o[2]) ELSE c
Receive ==
    /\ page # None
    /\ held' = FoldLeft(Admit, held, page.ops)
    /\ know' = IF req.mode = "push" THEN know
               ELSE SettleKnowledge(know, req.window, page.positions, page.continued)
    /\ req' = None /\ page' = None
    /\ UNCHANGED <<case, srv, session, kept, plan, faults>>

\* The exchange is cut after the page was planned.
Lose ==
    /\ page # None /\ lost < MaxLost
    /\ lost' = lost + 1
    /\ req' = None /\ page' = None
    /\ UNCHANGED <<case, srv, held, session, know, kept, plan, broken, evictions, wipes, outside>>

\* Continuations::keep gives the slot of a data-producing plan to another goal,
\* and drops any plan nobody resumed for CONTINUATION_IDLE.
Evict ==
    /\ kept # None /\ evictions < MaxEvictions
    /\ evictions' = evictions + 1
    /\ kept' = None
    /\ UNCHANGED <<case, srv, held, session, know, req, plan, page, broken, lost, wipes, outside>>

\* The requester restarts without its store; its exchange is gone with it.
Wipe ==
    /\ wipes < MaxWipes /\ plan = None
    /\ wipes' = wipes + 1
    /\ held' = Zero /\ session' = session + 1 /\ know' = NoKnowledge
    /\ req' = None /\ page' = None
    /\ UNCHANGED <<case, srv, kept, plan, broken, lost, evictions, outside>>

\* Another peer sends the requester an operation, at any time.
Outside ==
    /\ outside < MaxOutside
    /\ outside' = outside + 1
    /\ \E o \in Ops : /\ Holds(hist.end, o) /\ ~Holds(held, o)
                      /\ Admit(held, o) # held
                      /\ held' = Admit(held, o)
    /\ UNCHANGED <<case, srv, session, know, req, kept, plan, page, broken, lost, evictions, wipes>>

\* The responder stores an operation.
Grow ==
    /\ \E a \in Actor :
          /\ srv[a] < hist.end[a]
          /\ \A d \in Deps(<<a, srv[a] + 1>>) : Holds(srv, d)
          /\ srv' = [srv EXCEPT ![a] = @ + 1]
    /\ UNCHANGED <<case, held, session, know, req, kept, plan, page, faults>>

\* Records of the responder are lost to its disk; their headers stay.
Damage ==
    /\ broken # hist.fragile
    /\ broken' = hist.fragile
    /\ UNCHANGED <<case, srv, held, session, know, req, kept, plan, page,
                   lost, evictions, wipes, outside>>

PlanStep == \/ Top \/ Select \/ Fill \/ Pop
            \/ WaitNeeded \/ WaitAncestors \/ WaitDeps \/ WaitDone
Next ==
    \/ Request \/ Begin \/ PlanStep \/ Finish
    \/ Receive \/ Lose \/ Evict \/ Wipe \/ Outside \/ Grow \/ Damage

Spec == Init /\ [][Next]_vars
\* The requester asks again as long as it is behind (the resync loop retries a
\* dirty target), a request is answered and a page that is not lost arrives.
\* This is weak fairness of Request, of Begin \/ PlanStep \/ Finish and of
\* Receive, with ENABLED and the steps written as what they amount to here.
FairSpec ==
    /\ Spec
    /\ []<>~(req = None /\ Behind(held, srv) # {}) \/ []<><<req = None /\ req' # None>>_vars
    /\ []<>~(req # None /\ page = None)
          \/ []<><<plan' # plan \/ (page = None /\ page' # None)>>_vars
    /\ []<>~(page # None) \/ []<><<page # None /\ page' = None>>_vars
-----------------------------------------------------------------------------
TypeOK ==
    /\ srv \in [Actor -> 0..MaxSeq] /\ held \in [Actor -> 0..MaxSeq]
    /\ plan # None => /\ plan.f.active \subseteq [op : Ops, limit : 0..MaxSeq]
                      /\ Cardinality(plan.f.active) <= PageActors + 1
    /\ page # None => Range(page.ops) \subseteq Ops

\* Every operation of a page that arrives can be stored at once: its ancestry
\* is held or comes earlier in the page (Pager: "merging forward ranges by
\* generation so dependencies come first").
PagesAdmissible ==
    page # None =>
        \A i \in DOMAIN page.ops : \A d \in Deps(page.ops[i]) :
            Holds(held, d) \/ \E j \in 1..(i - 1) : page.ops[j] = d

\* A page never repeats what the request it answers shows to be held, also when
\* it replays a page the requester got in part or goes on with an old plan.
NothingHeldIsSent ==
    page # None =>
        \A o \in Range(page.ops) :
            /\ o[1] \in Named(req) => o[2] > req.hints[o[1]].from
            /\ req.mode = "named" /\ o[1] \notin Named(req) => ~WindowHolds(req.window, o[1])
            /\ req.mode # "named" => ~Holds(req.summary, o)

\* A requester that keeps asking a responder whose records can all be read
\* ends up with all of them, whatever limits cut its requests, the pages and the
\* slices, and however exchanges are cut, plans dropped and stores lost.
PullCompletes ==
    case.mode # "push" /\ hist.noIndex = {} /\ hist.noHeader = {} /\ hist.fragile = {}
        => <>[]Dominates(held, srv)
=============================================================================
