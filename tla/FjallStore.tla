----------------------------- MODULE FjallStore -----------------------------
(***************************************************************************)
(* The persistent store of one topic (storage/fjall/store.rs): its rows,   *)
(* the upgrade from schema 1 in bounded transactions, the admission of an  *)
(* operation, the reset of the topic and its purge in steps, by one or two *)
(* facades of a database that may stop between any two transactions.       *)
(*                                                                         *)
(* A transaction is one step: the database is serialisable, and a conflict *)
(* only repeats the transaction.  Rows are kept by the prefix of their key *)
(* where two kinds of record share one.  Observed clocks are tries of      *)
(* ActorClock: small ones are stored inside the metadata, large ones as    *)
(* node rows shared by all metadata of the topic.                          *)
(***************************************************************************)
EXTENDS ActorClock

CONSTANTS
    Actor,     \* actor ids, sequences of Depth nibbles
    Facade,    \* open handles of the database
    Inline,    \* entries of a clock stored inside its metadata (INLINE_CLOCK_ENTRIES)
    Batch,     \* records per upgrade transaction (MIGRATION_RECORDS)
    BatchEntries, \* clock entries per upgrade transaction (MIGRATION_ENTRIES)
    MaxRejected,  \* rejected operations remembered of a topic (MAX_REJECTED)
    Scenes     \* the databases and bounds to explore

VARIABLES
    db,        \* the rows of the database
    fac,       \* what each facade is doing
    cache,     \* each facade's clock cache
    dag,       \* the operations there are: what each op id stands for
    left,      \* bounds: crashes, losses, resets, purges still to happen
    purging,   \* a purge has begun and none has returned since
    lost,      \* operations whose record or metadata the disk has lost
    scene      \* the scene explored

vars == <<db, fac, cache, dag, left, purging, lost, scene>>

Idle == [kind |-> "none", op |-> 0, heads |-> {}, clock |-> NoNode]

\* An acknowledgement (prefix "ak") or an obligation ("ob") of either schema, owing
\* the positions `clock' and the operations `ids'.  `form' is the schema of the
\* record, `converted' whether its key has the prefix of converted records.
Row(prefix, form, id, peer, clock, ids) ==
    [prefix |-> prefix, form |-> form, id |-> id, peer |-> peer, clock |-> clock,
     ids |-> ids, converted |-> FALSE]

-----------------------------------------------------------------------------
(* Histories. *)

RECURSIVE Past(_, _)
Past(o, ops) == ops[o].deps \union UNION {Past(d, ops) : d \in ops[o].deps}

\* What an operation's observed clock is to say: the highest position of each
\* actor among the operations before it.
PastClock(o, ops) ==
    LET past == Past(o, ops)
    IN [a \in {ops[p].actor : p \in past} |->
           Max({ops[p].seq : p \in {q \in past : ops[q].actor = a}})]

AsFunction(clock) ==
    LET e == Entries(clock)
    IN [a \in {e[i][1] : i \in DOMAIN e} |->
           e[CHOOSE i \in DOMAIN e : e[i][1] = a][2]]

HeadsOf(S, ops) == {o \in S : \A p \in S : o \notin ops[p].deps}

\* meta_for_projected: the clocks of the dependencies, each with its author's position.
ObservedClock(deps, ops, meta) ==
    FoldLeft(LAMBDA clock, d :
                Observe(Merge(clock, meta[d].clock), ops[d].actor, ops[d].seq),
             NoNode, SetToSortSeq(deps, <))

\* The n-th operation of an old history, with the clock schema 1 stored inline.
RECURSIVE OldMeta(_, _)
OldMeta(n, ops) ==
    IF n = 0 THEN <<>>
    ELSE LET before == OldMeta(n - 1, ops)
         IN Append(before, [layout |-> 1, clock |-> ObservedClock(ops[n].deps, ops, before)])

-----------------------------------------------------------------------------
(* Rows of the topic. *)

Edges(S, ops) == {e \in S \X S : e[1] \in ops[e[2]].deps}

Index(S, ops) == {[actor |-> ops[o].actor, seq |-> ops[o].seq, op |-> o] : o \in S}

\* Each actor's highest position.
Tips(S, ops) ==
    {x \in Index(S, ops) : \A y \in Index(S, ops) : y.actor = x.actor => y.seq <= x.seq}

TopicClock(S, ops) ==
    FoldLeft(LAMBDA clock, o : Observe(clock, ops[o].actor, ops[o].seq),
             NoNode, SetToSortSeq(S, <))

EmptyRows ==
    [schema |-> 0, phase |-> 0, cursor |-> NoSeq,
     rows |-> {},           \* ak, ob and their converted forms
     po |-> {},             \* buffered operations of schema 1: [op, missing]
     pm |-> {},             \* those of schema 2
     pw |-> {},             \* waiter rows <<dep, op>>; <<0, i>> is an index row of schema 1
     rj |-> {},             \* rejected operations <<op, n>>, the n-th of the topic
     rq |-> {},             \* the same by order, <<n, op>>
     rc |-> <<0, 0>>,       \* the oldest number remembered and the next to give
     ss |-> {},             \* peers with a sync status
     o |-> {}, m |-> <<>>, to |-> {}, ch |-> {}, as |-> {}, at |-> {}, cn |-> {},
     h |-> {}, ac |-> NoNode, epoch |-> 0]

OldRows(s) ==
    LET S == DOMAIN s.ops
    IN [EmptyRows EXCEPT
          !.schema = 1, !.rows = s.rows, !.po = s.pending, !.pw = s.indexes,
          !.ss = {r.peer : r \in s.rows},
          !.o = S, !.m = OldMeta(Len(s.ops), s.ops), !.to = S, !.ch = Edges(S, s.ops),
          !.as = Index(S, s.ops), !.at = Tips(S, s.ops), !.h = HeadsOf(S, s.ops),
          !.ac = TopicClock(S, s.ops)]

\* Some `n' of the records under a prefix, in the order of the database.
Some(S, n) == IF Cardinality(S) <= n THEN S ELSE CHOOSE T \in kSubset(n, S) : TRUE

\* What a clock written as a list of entries decodes to.
Decoded(clock) == FromEntries(Entries(clock))

-----------------------------------------------------------------------------
(* The upgrade of schema 1.  A phase takes the rows and returns them changed, *)
(* with the number of records it handled and whether that was all of them.   *)

Phase(d, items, all, ok) ==
    [d |-> d, cost |-> Cardinality(items), done |-> items = all, ok |-> ok]

Under(d, prefix, converted) ==
    {r \in d.rows : r.prefix = prefix /\ r.converted = converted}

\* A converted acknowledgement names no genesis and so certifies nothing.
LegacyAcks(d, limit) ==
    LET all == Under(d, "ak", FALSE)
        items == Some(all, limit)
    IN Phase([d EXCEPT !.rows = (@ \ items) \union
                 {[r EXCEPT !.form = 2, !.converted = TRUE] : r \in items}],
             items, all, \A r \in items : r.form = 1)

\* An obligation is for a clock if it names positions, else for a repair.
Kind(r) == IF r.clock # {} THEN "clock" ELSE "repair"

SameKey(r, q) == r.peer = q.peer /\ Kind(r) = Kind(q)

\* Obligations with one key become one; one that owes nothing is dropped.
LegacyObligations(d, limit) ==
    LET all == Under(d, "ob", FALSE)
        items == Some(all, limit)
        owing == {r \in items : r.clock # {} \/ r.ids # {}}
        held == Under(d, "ob", TRUE)
        like(r) == {q \in owing \union held : SameKey(q, r)}
        merged == {[Row("ob", 2, 0, r.peer,
                        UNION {q.clock : q \in like(r)},
                        IF Kind(r) = "clock" THEN {} ELSE UNION {q.ids : q \in like(r)})
                      EXCEPT !.converted = TRUE] : r \in owing}
    IN Phase([d EXCEPT !.rows = (@ \ (items \union UNION {like(r) : r \in owing}))
                                  \union merged],
             items, all, \A r \in items : r.form = 1)

\* Every row under the prefixes of the old indexes goes, whatever wrote it.
LegacyIndexes(d, limit) ==
    LET items == Some(d.pw, limit)
    IN Phase([d EXCEPT !.pw = @ \ items], items, d.pw, TRUE)

\* A buffered operation with the waiter rows of what it still misses.
Imported(d, p) == [d EXCEPT !.pm = @ \union {p}, !.pw = @ \union (p.missing \X {p.op})]

LegacyPending(d, limit) ==
    LET items == Some(d.po, limit)
        waits(p) == {x \in p.missing : x \notin d.o \/ x \notin DOMAIN d.m}
        take(x, p) == Imported([x EXCEPT !.po = @ \ {p}], [p EXCEPT !.missing = waits(p)])
    IN Phase(FoldLeft(take, d, SetToSeq(items)), items, d.po, TRUE)

PlaceConverted(d, limit) ==
    LET all == {r \in d.rows : r.converted}
        items == Some(all, limit)
    IN Phase([d EXCEPT !.rows = (@ \ items) \union
                 {[r EXCEPT !.converted = FALSE] : r \in items}], items, all, TRUE)

\* Mutant: the buffered operations are imported before the old indexes are removed.
ImportFirst(d, phase, limit) ==
    CASE phase = 0 -> LegacyAcks(d, limit)
      [] phase = 1 -> LegacyObligations(d, limit)
      [] phase = 2 -> LegacyPending(d, limit)
      [] phase = 3 -> LegacyIndexes(d, limit)
      [] phase = 4 -> PlaceConverted(d, limit)

LegacyPhase(d, phase, limit) ==
    CASE phase = 0 -> LegacyAcks(d, limit)
      [] phase = 1 -> LegacyObligations(d, limit)
      [] phase = 2 -> LegacyIndexes(d, limit)
      [] phase = 3 -> LegacyPending(d, limit)
      [] phase = 4 -> PlaceConverted(d, limit)

\* Finished phases continue in the same transaction; after the last one the version
\* and the cursor of the metadata rewrite are set with it.
RECURSIVE LegacyRows(_, _, _, _, _)
LegacyRows(d, phase, limit, cost, ok) ==
    IF phase > 4
    THEN [d |-> [d EXCEPT !.schema = 2, !.phase = 0, !.cursor = 0],
          cost |-> cost, ok |-> ok, more |-> FALSE]
    ELSE LET r == LegacyPhase(d, phase, limit)
         IN IF r.done
            THEN LegacyRows(r.d, phase + 1, limit, cost + r.cost, ok /\ r.ok)
            ELSE [d |-> [r.d EXCEPT !.phase = phase],
                  cost |-> cost + r.cost, ok |-> ok /\ r.ok, more |-> TRUE]

\* Mutant: a node the cache holds is taken for stored.
TrustCache(t, o, clock, held) ==
    LET nodes == IF clock.len > Inline
                 THEN VisitNodes(clock, t.d.cn \union DOMAIN t.cache.names) ELSE {}
        meta == IF clock.len > Inline THEN [layout |-> 3, clock |-> clock]
                ELSE [layout |-> 2, clock |-> Decoded(clock)]
    IN [t EXCEPT !.d.cn = @ \union nodes,
                 !.d.m = With(@, o, meta),
                 !.cost = @ + 1 + Cardinality(nodes),
                 !.cache = IF clock.len > Inline THEN Keep(@, clock, held) ELSE @]

\* tx_put_meta in a transaction `t' with its rows, cost and the facade's cache: a
\* large clock adds the nodes not held, and the cache keeps it at once.  `held' gives
\* the allocations the clock shares.
PutMeta(t, o, clock, held) ==
    LET nodes == IF clock.len > Inline THEN VisitNodes(clock, t.d.cn) ELSE {}
        meta == IF clock.len > Inline THEN [layout |-> 3, clock |-> clock]
                ELSE [layout |-> 2, clock |-> Decoded(clock)]
        cost == t.cost + 1 + Cardinality(nodes)
    IN IF t.cost > t.room THEN t
       ELSE [t EXCEPT
               !.d.cn = @ \union nodes,
               !.d.m = With(@, o, meta),
               !.cost = cost,
               !.cache = IF clock.len > Inline /\ cost <= t.room THEN Keep(@, clock, held)
                         ELSE @]

\* The next metadata records of the old layout, or all that are left: a record is
\* taken while fewer than `limit' are and their clocks stay within BatchEntries.
Taken(d, limit) ==
    LET todo == {o \in DOMAIN d.m : o > d.cursor}
        before(o) == {p \in todo : p < o}
    IN {o \in todo :
          /\ Cardinality(before(o)) < limit
          /\ MapThenSumSet(LAMBDA p : d.m[p].clock.len, before(o)) <= BatchEntries}

ClockRows(d, limit, c) ==
    LET taken == Taken(d, limit)
        ended == \A o \in DOMAIN d.m : o > d.cursor => o \in taken
        t == FoldLeft(LAMBDA x, o : PutMeta(x, o, d.m[o].clock, <<>>),
                      [d |-> d, cost |-> 0, room |-> scene.room, cache |-> c],
                      SetToSortSeq(taken, <))
    IN [t EXCEPT !.d.cursor = IF ended THEN NoSeq ELSE Max(taken \union {d.cursor})]
       @@ [ok |-> \A o \in taken : d.m[o].layout = 1]

-----------------------------------------------------------------------------
(* Removal. *)

\* One operation of tx_remove_ops: its child edges, the edges to its dependencies,
\* then its rows.  Once the limit is reached the rest waits for the next call.
RemoveOp(t, o, limit) ==
    LET room == Max({limit - t.rows, 0})
        below == Some({e \in t.d.ch : e[1] = o}, room)
        above == IF o \in DOMAIN t.d.m
                 THEN {e \in t.d.ch \ below : e[2] = o /\ e[1] \in dag[o].deps} ELSE {}
        some == Some(above, room - Cardinality(below))
    IN IF t.full THEN t
       ELSE IF room = 0 \/ Cardinality(below) = room
       THEN [t EXCEPT !.d.ch = @ \ below, !.rows = @ + Cardinality(below), !.full = TRUE]
       ELSE IF some # above
       THEN [t EXCEPT !.d.ch = @ \ (below \union some), !.rows = limit, !.full = TRUE]
       ELSE [t EXCEPT !.d.ch = @ \ (below \union above),
                      !.d.o = @ \ {o}, !.d.to = @ \ {o},
                      !.d.m = [x \in DOMAIN @ \ {o} |-> @[x]],
                      !.rows = @ + Cardinality(below \union above) + 3]

RemoveOps(d, limit) ==
    FoldLeft(LAMBDA t, o : RemoveOp(t, o, limit),
             [d |-> d, rows |-> 0, full |-> FALSE],
             SubSeq(SetToSortSeq(d.to, <), 1, Min({limit, Cardinality(d.to)})))

\* A limit that nothing reaches.
Unlimited == 1000

\* tx_remove_pending: a buffered operation goes with the waiter rows of what its
\* record says it misses.
Unbuffered(d, o) ==
    LET held == {p \in d.pm : p.op = o}
    IN [d EXCEPT !.pm = @ \ held, !.pw = @ \ UNION {p.missing \X {o} : p \in held}]

DropPending(d, items) == FoldLeft(LAMBDA x, p : Unbuffered(x, p.op), d, SetToSeq(items))

\* tx_reset_topic.
ResetRows(d) ==
    [DropPending(RemoveOps(d, Unlimited).d, d.pm) EXCEPT
       !.epoch = @ + 1, !.h = {}, !.ac = NoNode, !.as = {}, !.at = {}, !.ss = {}, !.cn = {},
       !.rows = {}, !.rj = {}, !.rq = {}, !.rc = <<0, 0>>]

\* The buffered operations that wait for one of `ops', directly or not, and `ops'.
RECURSIVE WaiterClosure(_, _)
WaiterClosure(d, ops) ==
    LET more == {w[2] : w \in {x \in d.pw : x[1] \in ops}} \ ops
    IN IF more = {} THEN ops ELSE WaiterClosure(d, ops \union more)

\* One operation of a rejected subtree: its buffered copy goes, its id is remembered.
Rejected(d, o) ==
    LET n == d.rc[2]
        gone == Unbuffered(d, o)
    IN IF \E x \in d.rj : x[1] = o THEN gone
       ELSE [gone EXCEPT !.rj = @ \union {<<o, n>>}, !.rq = @ \union {<<n, o>>},
                         !.rc[2] = n + 1]

\* The oldest rejections beyond the limit are forgotten.
Forgotten(d) ==
    LET oldest == Max({d.rc[1], d.rc[2] - MaxRejected})
        past == {x \in d.rq : x[1] < oldest}
    IN [d EXCEPT !.rj = {x \in @ : <<x[2], x[1]>> \notin past}, !.rq = @ \ past,
                 !.rc[1] = oldest]

\* tx_reject_subtree.
RejectSubtree(d, o) ==
    Forgotten(FoldLeft(Rejected, d, SetToSortSeq(WaiterClosure(d, {o}), <)))

-----------------------------------------------------------------------------
(* Admission. *)

\* The checks of tx_admit_batch on one new operation, and on one whose rows the
\* chain already accounts for.
Accounted(d, o) ==
    \/ o \in d.o \/ o \in DOMAIN d.m
    \/ \E x \in d.as : x.op = o
    \/ \E e \in d.ch : e[1] = o

Follows(d, o) ==
    LET tip == {x \in d.at : x.actor = dag[o].actor}
    IN IF tip = {} THEN dag[o].seq = 1 ELSE \A x \in tip : dag[o].seq = x.seq + 1

Admissible(d, o) ==
    /\ \A x \in d.as : x.actor = dag[o].actor /\ x.seq = dag[o].seq => x.op = o
    /\ Accounted(d, o) \/ Follows(d, o)
    /\ \A p \in dag[o].deps : p \in d.o /\ p \in DOMAIN d.m

\* Mutant: a refilled operation becomes the tip.
LatestTip(at, x) == {y \in at : y.actor # x.actor} \union {x}

\* The tip only advances.
Advanced(at, x) ==
    LET tip == {y \in at : y.actor = x.actor}
    IN IF \A y \in tip : y.seq < x.seq THEN (at \ tip) \union {x} ELSE at

\* What waited for an operation waits for it no longer.
Settled(d, o) ==
    [d EXCEPT !.pm = {[p EXCEPT !.missing = @ \ {o}] : p \in @},
              !.pw = {w \in @ : w[1] # o}]

\* The allocations that a clock built on the stored ones of `deps' shares with them.
SharedNodes(d, deps, names) ==
    LET clocks == {d.m[p].clock : p \in {q \in deps : d.m[q].layout = 3}}
        nodes == UNION {Subtree(c) : c \in clocks}
    IN [x \in nodes \intersect DOMAIN names |-> names[x]]

\* Its rows, the removal of its buffered copy and the waiters it settles.
AdmitRows(t, o, clock) ==
    LET d == t.d
        x == [actor |-> dag[o].actor, seq |-> dag[o].seq, op |-> o]
        heads == IF Accounted(d, o) THEN d.h ELSE (d.h \ dag[o].deps) \union {o}
        put == [d EXCEPT
                  !.o = @ \union {o}, !.to = @ \union {o},
                  !.ch = @ \union (dag[o].deps \X {o}),
                  !.as = @ \union {x}, !.at = Advanced(@, x),
                  !.ac = Observe(@, x.actor, x.seq), !.h = heads]
    IN PutMeta([t EXCEPT !.d = Settled(Unbuffered(put, o), o)], o, clock,
               SharedNodes(d, dag[o].deps, t.cache.names))

-----------------------------------------------------------------------------
(* Facades. *)

Init ==
    \E s \in Scenes :
        /\ scene = s
        /\ dag = s.ops
        /\ db = IF s.schema = 1 THEN OldRows(s) ELSE EmptyRows
        /\ fac = [f \in Facade |-> [pc |-> "closed", limit |-> Batch, plan |-> Idle]]
        /\ cache = [f \in Facade |-> EmptyCache]
        /\ left = s.left
        /\ purging = FALSE
        /\ lost = {}

At(f, pc) == f \in scene.facades /\ fac[f].pc = pc

Goto(f, pc) == fac' = [fac EXCEPT ![f].pc = pc, ![f].limit = Batch]

\* Mutant: a store of the current version is opened without looking for a cursor.
OpenCurrent(f) ==
    /\ At(f, "closed")
    /\ Goto(f, IF db.schema = 1 THEN "legacy" ELSE "open")
    /\ db' = IF db.schema = 0 THEN [db EXCEPT !.schema = 2] ELSE db
    /\ UNCHANGED <<cache, dag, left, purging, lost, scene>>

\* upgrade_schema: a new database is given the current version.
Open(f) ==
    /\ At(f, "closed")
    /\ Goto(f, CASE db.schema = 0 -> "open" [] db.schema = 1 -> "legacy"
                 [] db.schema = 2 -> "clock")
    /\ db' = IF db.schema = 0 THEN [db EXCEPT !.schema = 2] ELSE db
    /\ UNCHANGED <<cache, dag, left, purging, lost, scene>>

\* A transaction too large for its buffer is tried again with half the records.
Halved(x) ==
    IF x.limit > 1 THEN [x EXCEPT !.limit = (@ + 1) \div 2] ELSE [x EXCEPT !.pc = "failed"]

LegacyStep(f) ==
    /\ At(f, "legacy")
    /\ LET r == LegacyRows(db, db.phase, fac[f].limit, 0, TRUE)
       IN IF db.schema # 1 THEN Goto(f, "version") /\ UNCHANGED db
          ELSE /\ db' = IF r.ok /\ r.cost <= scene.room THEN r.d ELSE db
               /\ fac' = [fac EXCEPT ![f] =
                            IF ~r.ok THEN [@ EXCEPT !.pc = "failed"]
                            ELSE IF r.cost > scene.room THEN Halved(@)
                            ELSE [@ EXCEPT !.pc = IF r.more THEN "legacy" ELSE "version"]]
    /\ UNCHANGED <<cache, dag, left, purging, lost, scene>>

CheckVersion(f) ==
    /\ At(f, "version")
    /\ Goto(f, IF db.schema = 2 THEN "clock" ELSE "open")
    /\ UNCHANGED <<db, cache, dag, left, purging, lost, scene>>

\* The cache keeps what a transaction wrote even if it then fails.
ClockStep(f) ==
    /\ At(f, "clock")
    /\ LET r == ClockRows(db, fac[f].limit, cache[f])
       IN IF db.cursor = NoSeq THEN Goto(f, "open") /\ UNCHANGED <<db, cache>>
          ELSE /\ cache' = [cache EXCEPT ![f] = IF r.ok THEN r.cache ELSE @]
               /\ db' = IF r.ok /\ r.cost <= scene.room THEN r.d ELSE db
               /\ fac' = [fac EXCEPT ![f] =
                            IF ~r.ok THEN [@ EXCEPT !.pc = "failed"]
                            ELSE IF r.cost > scene.room THEN Halved(@) ELSE @]
    /\ UNCHANGED <<dag, left, purging, lost, scene>>

\* An idle facade of a store that no purge has begun to empty.
Ready(f) == At(f, "open") /\ fac[f].plan.kind = "none" /\ ~purging

Readable(o) == o \in db.o /\ o \in DOMAIN db.m

\* The observed clock of a stored operation, through the cache.
Loaded(f, o) ==
    db.m[o].layout = 3 => Loads(db.m[o].clock, db.cn, DOMAIN cache[f].names)

KeepLoaded(c, o) == IF db.m[o].layout = 3 THEN Keep(c, db.m[o].clock, c.names) ELSE c

\* Building an operation reads the clocks of its dependencies.
Propose(f, kind, o, ops) ==
    /\ \A p \in ops[o].deps : Readable(p) /\ Loaded(f, p)
    /\ dag' = ops
    /\ fac' = [fac EXCEPT ![f].plan =
                  [kind |-> kind, op |-> o, heads |-> db.h,
                   clock |-> ObservedClock(ops[o].deps, ops, db.m)]]
    /\ cache' = [cache EXCEPT ![f] =
                  FoldLeft(KeepLoaded, @, SetToSortSeq(ops[o].deps, <))]
    /\ UNCHANGED <<db, left, purging, lost, scene>>

\* A new operation of `actor' on top of `deps'.  Its author knows its own chain.
Plan(f, actor, deps) ==
    /\ Ready(f)
    /\ Len(dag) < scene.maxops /\ db.epoch >= scene.epoch
    /\ (deps = {}) = (db.h = {})
    /\ LET tip == {x \in db.at : x.actor = actor}
           seq == 1 + Max({0} \union {x.seq : x \in tip})
       IN /\ \A x \in tip : x.op \in deps \union UNION {Past(p, dag) : p \in deps}
          /\ Propose(f, "admit", Len(dag) + 1,
                     Append(dag, [actor |-> actor, seq |-> seq, deps |-> deps]))

\* A rival genesis that is to replace the history held.
PlanReset(f, actor) ==
    /\ Ready(f)
    /\ Len(dag) < scene.maxops
    /\ db.h # {} /\ left.resets > 0
    /\ Propose(f, "reset", Len(dag) + 1,
               Append(dag, [actor |-> actor, seq |-> 1, deps |-> {}]))

\* A lost record arrives again from a peer.
PlanRefill(f, o) ==
    /\ Ready(f)
    /\ o \in lost
    /\ Propose(f, "admit", o, dag)

\* put_admitted_batch and reset_topic_and_admit: one transaction, refused when the
\* heads and state it was built on have changed.
Commit(f) ==
    LET plan == fac[f].plan
        base == IF plan.kind = "reset" THEN ResetRows(db) ELSE db
        t == AdmitRows([d |-> base, cost |-> 0, room |-> Unlimited, cache |-> cache[f]],
                       plan.op, plan.clock)
    IN /\ At(f, "open") /\ ~purging
       /\ plan.kind # "none"
       /\ fac' = [fac EXCEPT ![f].plan = Idle]
       /\ IF plan.heads # db.h \/ ~Admissible(base, plan.op)
          THEN UNCHANGED <<db, cache, lost, left>>
          ELSE /\ db' = t.d
               /\ cache' = [cache EXCEPT ![f] = t.cache]
               /\ lost' = IF plan.kind = "reset" THEN {} ELSE lost \ {plan.op}
               /\ left' = IF plan.kind = "reset" THEN [left EXCEPT !.resets = @ - 1]
                          ELSE left
       /\ UNCHANGED <<dag, purging, scene>>

\* Reading an operation's metadata brings its clock into the cache.
Read(f, o) ==
    /\ Ready(f)
    /\ o \in DOMAIN db.m /\ Loaded(f, o)
    /\ cache' = [cache EXCEPT ![f] = KeepLoaded(@, o)]
    /\ UNCHANGED <<db, fac, dag, left, purging, lost, scene>>

\* A buffered operation that waits for nothing turns out invalid.
Reject(f, o) ==
    /\ Ready(f)
    /\ left.rejects > 0
    /\ \E p \in db.pm : p.op = o /\ p.missing = {}
    /\ db' = RejectSubtree(db, o)
    /\ left' = [left EXCEPT !.rejects = @ - 1]
    /\ UNCHANGED <<fac, cache, dag, purging, lost, scene>>

\* The disk loses the record or the metadata of an operation.
Lose(o) ==
    /\ left.losses > 0
    /\ db.schema = 2 /\ db.cursor = NoSeq /\ ~purging
    /\ Readable(o)
    /\ \/ db' = [db EXCEPT !.o = @ \ {o}]
       \/ db' = [db EXCEPT !.m = [x \in DOMAIN @ \ {o} |-> @[x]]]
    /\ lost' = lost \union {o}
    /\ left' = [left EXCEPT !.losses = @ - 1]
    /\ UNCHANGED <<fac, cache, dag, purging, scene>>

\* The process stops; what was committed stays.
Crash ==
    /\ left.crashes > 0
    /\ left' = [left EXCEPT !.crashes = @ - 1]
    /\ fac' = [f \in Facade |-> [pc |-> "closed", limit |-> Batch, plan |-> Idle]]
    /\ cache' = [f \in Facade |-> EmptyCache]
    /\ UNCHANGED <<db, dag, purging, lost, scene>>

-----------------------------------------------------------------------------
(* purge_topic, alone on the store until it returns. *)

\* A purge, or one that resumes what a stopped one left.
BeginPurge(f) ==
    /\ At(f, "open")
    /\ \A g \in Facade : fac[g].plan.kind = "none" /\ fac[g].pc \in {"open", "closed"}
    /\ purging \/ left.purges > 0
    /\ left' = IF purging THEN left ELSE [left EXCEPT !.purges = @ - 1]
    /\ purging' = TRUE
    /\ Goto(f, "ops")
    /\ UNCHANGED <<db, cache, dag, lost, scene>>

PurgeOps(f) ==
    /\ At(f, "ops")
    /\ LET r == RemoveOps(db, scene.step)
       IN /\ db' = r.d
          /\ IF r.rows = 0 THEN Goto(f, "pending") ELSE UNCHANGED fac
    /\ UNCHANGED <<cache, dag, left, purging, lost, scene>>

PurgePending(f) ==
    /\ At(f, "pending")
    /\ LET items == Some(db.pm, 1)
       IN /\ db' = DropPending(db, items)
          /\ IF items = {} THEN Goto(f, "rejected") ELSE UNCHANGED fac
    /\ UNCHANGED <<cache, dag, left, purging, lost, scene>>

\* tx_drop_rejected: the ids first, then their order, with what is left of the step.
PurgeRejected(f) ==
    /\ At(f, "rejected")
    /\ LET ids == Some(db.rj, scene.step)
           order == Some(db.rq, scene.step - Cardinality(ids))
       IN /\ db' = [db EXCEPT !.rj = @ \ ids, !.rq = @ \ order]
          /\ IF Cardinality(ids) + Cardinality(order) = scene.step THEN UNCHANGED fac
             ELSE Goto(f, "as")
    /\ UNCHANGED <<cache, dag, left, purging, lost, scene>>

\* The prefixes a purge empties one after the other, and what follows each.
After == [as |-> "at", at |-> "ss", ss |-> "cn", cn |-> "ak", ak |-> "ob", ob |-> "reset"]

\* The rows under one prefix in steps; a step that is not full is the last.
PurgeRows(f) ==
    LET pc == fac[f].pc
        table == IF pc \in {"ak", "ob"} THEN "rows" ELSE pc
        items == Some(IF table = "rows" THEN Under(db, pc, FALSE) ELSE db[pc], scene.step)
    IN /\ f \in scene.facades /\ pc \in DOMAIN After
       /\ db' = [db EXCEPT ![table] = @ \ items]
       /\ IF Cardinality(items) = scene.step THEN UNCHANGED fac ELSE Goto(f, After[pc])
       /\ UNCHANGED <<cache, dag, left, purging, lost, scene>>

EndPurge(f) ==
    /\ At(f, "reset")
    /\ db' = ResetRows(db)
    /\ Goto(f, "open")
    /\ purging' = FALSE
    /\ lost' = {}
    /\ UNCHANGED <<cache, dag, left, scene>>

-----------------------------------------------------------------------------
Ops == DOMAIN dag

\* The steps of a facade that is opening the store or purging the topic.
Busy(f) ==
    \/ LegacyStep(f) \/ CheckVersion(f) \/ ClockStep(f)
    \/ PurgeOps(f) \/ PurgePending(f) \/ PurgeRejected(f) \/ PurgeRows(f) \/ EndPurge(f)

Next ==
    \/ \E f \in Facade :
          \/ Open(f) \/ Busy(f) \/ Commit(f) \/ BeginPurge(f)
          \/ \E a \in scene.actors : PlanReset(f, a) \/ \E deps \in SUBSET Ops : Plan(f, a, deps)
          \/ \E o \in Ops : PlanRefill(f, o) \/ Read(f, o)
          \/ \E p \in db.pm : Reject(f, p.op)
    \/ \E o \in Ops : Lose(o)
    \/ Crash

Spec == Init /\ [][Next]_vars

\* A facade that has begun a loop goes on with it; its owner opens the store, and
\* resumes a purge that was cut off.  Everything else may stop for ever.
Looping(f) == f \in scene.facades /\ fac[f].pc \notin {"closed", "open", "failed"}

Fairness ==
    \A f \in Facade :
        /\ WF_vars(Open(f))
        /\ []<>~Looping(f) \/ []<><<Busy(f)>>_vars
        /\ WF_vars(purging /\ BeginPurge(f))

FairSpec == Spec /\ Fairness

-----------------------------------------------------------------------------
(* Properties. *)

Current == db.schema = 2 /\ db.cursor = NoSeq

\* Outside a purge every table of the topic says the same: the child edges, the index
\* by position, the tips, the heads and the topic's clock are those of the operations
\* listed, only a lost record or its metadata is missing, the rejections are listed in
\* their order, and once nothing is listed nothing is left behind (tx_admit_batch,
\* tx_remove_ops, tx_reject_subtree, purge_topic).
RowsExact ==
    LET S == db.to
    IN ~purging =>
        /\ S = db.o \union DOMAIN db.m
        /\ S \ lost = db.o \intersect DOMAIN db.m
        /\ db.ch = Edges(S, dag)
        /\ db.as = Index(S, dag)
        /\ db.at = Tips(S, dag)
        /\ db.h = HeadsOf(S, dag)
        /\ Same(db.ac, TopicClock(S, dag))
        /\ db.rq = {<<x[2], x[1]>> : x \in db.rj}
        /\ S = {} => /\ db.cn = {} /\ db.pm = {} /\ db.pw = {} /\ db.rows = {}
                     /\ db.rj = {} /\ db.ss = {}

\* Outside a purge the observed clock of every stored operation can be read from the
\* rows alone and says exactly what is in its past, however it was merged, shared with
\* other clocks or rewritten (tx_put_meta, visit_nodes, loaded_clock); and the check of a
\* copied set of nodes accepts the topic's roots (ClockScan::validate).
ClockIsPast ==
    ~purging => \A o \in DOMAIN db.m :
        /\ AsFunction(db.m[o].clock) = PastClock(o, dag)
        /\ db.m[o].clock.len = Cardinality(DOMAIN PastClock(o, dag))
        /\ db.m[o].layout = 3 => /\ Loads(db.m[o].clock, db.cn, {})
                                 /\ ScanValidates(db.m[o].clock, db.cn)

\* No step of the upgrade drops or repeats anything, whatever stopped it and whoever
\* goes on with it: until the topic is reset, what was owed to each peer and each
\* buffered operation is in exactly one record; at schema 2 nothing of schema 1 is left,
\* the waiter rows are those of the records, and the metadata still in the old layout
\* is that beyond the cursor.  An open facade finds none of it (migrate_schema_two,
\* finish_clock_migration).
UpgradeKeeps ==
    LET owed(p, rows) == UNION {r.clock : r \in {q \in rows : q.prefix = "ob" /\ q.peer = p}}
        repair(p, rows) ==
            UNION {r.ids : r \in {q \in rows : /\ q.prefix = "ob" /\ q.peer = p
                                               /\ q.clock = {}}}
        acks(p, rows) == {r.clock : r \in {q \in rows : q.prefix = "ak" /\ q.peer = p}}
        Peers == {r.peer : r \in scene.rows}
    IN /\ \A f \in Facade : fac[f].pc # "failed"
       /\ \A f \in Facade : fac[f].pc = "open" => Current
       /\ db.epoch = 0 /\ ~purging =>
            /\ \A p \in Peers : /\ owed(p, db.rows) = owed(p, scene.rows)
                                /\ repair(p, db.rows) = repair(p, scene.rows)
                                /\ acks(p, db.rows) = acks(p, scene.rows)
            /\ left.rejects = scene.left.rejects =>
                  {p.op : p \in db.po \union db.pm} = {p.op : p \in scene.pending}
            /\ {p.op : p \in db.po} \intersect {p.op : p \in db.pm} = {}
       /\ db.schema = 2 =>
            /\ db.po = {}
            /\ \A r \in db.rows : r.form = 2 /\ ~r.converted
            /\ \A r, q \in db.rows : r.prefix = q.prefix /\ SameKey(r, q) => r = q
            /\ db.pw = UNION {p.missing \X {p.op} : p \in db.pm}
            /\ \A p \in db.pm : p.missing \intersect db.o \intersect DOMAIN db.m = {}
       /\ \A o \in DOMAIN db.m :
            db.m[o].layout = 1 <=> db.schema = 1 \/ (db.cursor # NoSeq /\ o > db.cursor)

\* The cache counts the references to each allocation it retains exactly, though equal
\* nodes may be held twice: one is retained as long as a latest clock reaches it and no
\* longer, each is counted once, and together they stay within the limit
\* (CacheInner::remember, release, trim).
CacheExact ==
    \A f \in Facade :
        LET c == cache[f]
            held == UNION {Subtree(c.latest[i]) : i \in DOMAIN c.latest}
        IN /\ c.roots = ToSet(c.latest)
           /\ Cardinality(c.roots) = Len(c.latest)
           /\ DOMAIN c.refs = held
           /\ \A x \in held :
                c.refs[x] = Cardinality({r \in c.roots : r = x})
                              + Cardinality({y \in held : x \in ToSet(Children(y))})
           /\ c.nodes = Cardinality(held)
           /\ c.nodes <= CacheNodes

\* On the clocks in store the trie operations agree with the map they stand for, though
\* equal clocks may differ in shape: merge takes the higher position, intersect the lower
\* of those both hold, selected and a selective decoding restrict, and dominates and
\* equality compare entries.  Setting a position to zero removes it; one observed at zero
\* is an entry that a merge keeps and that no comparison by dominance sees.
ClockAlgebra ==
    LET new == Max({0} \union DOMAIN db.m)
    IN new # 0 => \A o \in DOMAIN db.m :
        LET x == db.m[new].clock
            y == db.m[o].clock
            both == {a \in Actor : Lookup(x, a) # NoSeq /\ Lookup(y, a) # NoSeq}
        IN /\ \A a \in Actor :
                /\ Lookup(Merge(x, y), a) = Max({Lookup(x, a), Lookup(y, a)})
                /\ Lookup(Intersect(x, y), a) =
                     IF a \in both THEN Min({Lookup(x, a), Lookup(y, a)}) ELSE NoSeq
                /\ Get(Advance(x, a), a) = Get(x, a) + 1
                /\ Lookup(y, a) = NoSeq =>
                     LET z == Observe(y, a, 0)
                     IN /\ Lookup(z, a) = 0 /\ Same(SetTo(z, a, 0), y)
                        /\ Dominates(x, z) <=> Dominates(x, y)
                        /\ Lookup(Merge(x, z), a) = Max({Lookup(x, a), 0})
                        /\ Same(SetTo(Merge(x, z), a, 0), SetTo(Merge(x, y), a, 0))
                /\ Same(Merge(SetTo(x, a, 0), SetTo(y, a, 0)), SetTo(Merge(x, y), a, 0))
                /\ Same(Selected(x, Actor \ {a}), SetTo(x, a, 0))
                /\ DecodeCounted(Entries(x), {a}) = [clock |-> Selected(x, {a}), count |-> x.len]
           /\ Same(Merge(x, y), Merge(y, x))
           /\ Dominates(x, y) <=> Same(Merge(x, y), x)

\* An upgrade that was begun is finished, and so is a purge, though either is cut off
\* again and again (upgrade_schema, purge_topic).
Finishes ==
    /\ []<>(db.schema # 1 /\ db.cursor = NoSeq)
    /\ []<>~purging
=============================================================================
