----------------------------- MODULE ActorClock -----------------------------
(***************************************************************************)
(* The persistent radix trie behind actor clocks (clock.rs), its stored    *)
(* nodes and the cache of loaded ones (clock_store.rs), and the check of a *)
(* copied set of nodes (clock_scan.rs), as operators.                      *)
(*                                                                         *)
(* An actor is a sequence of Depth nibbles.  A node is a record; a leaf    *)
(* has level Depth and no kids, a branch maps the nibbles of its bitmap to *)
(* its children.  The hash that names a stored node determines the node,   *)
(* children included, so a node stands for its own name: a set of nodes is *)
(* a set of stored rows, and a row is readable as a clock only if the rows *)
(* of its children are.                                                    *)
(***************************************************************************)
EXTENDS Integers, Sequences, FiniteSets, FiniteSetsExt, SequencesExt

CONSTANTS
    Depth,        \* nibbles of an actor id (64)
    CacheNodes    \* nodes the cache may retain (CACHE_BYTES)

NoSeq == -1       \* None, where a position is optional

\* The empty clock: no root.
NoNode == [level |-> Depth, key |-> <<>>, seq |-> NoSeq, len |-> 0, kids |-> <<>>]

Leaf(actor, seq) ==
    [level |-> Depth, key |-> actor, seq |-> seq, len |-> 1, kids |-> <<>>]

IsLeaf(node) == node.level = Depth

Nibble(actor, level) == actor[level + 1]

\* Depth where the ids are equal.
FirstDifference(a, b) ==
    IF a = b THEN Depth ELSE Min({l \in 0 .. Depth - 1 : a[l + 1] # b[l + 1]})

Total(kids) == MapThenSumSet(LAMBDA d : kids[d].len, DOMAIN kids)

Branch(level, key, kids) ==
    [level |-> level, key |-> key, seq |-> NoSeq, len |-> Total(kids), kids |-> kids]

\* The children of a branch in slot order.
Children(node) ==
    LET digits == SetToSortSeq(DOMAIN node.kids, <)
    IN [i \in DOMAIN digits |-> node.kids[digits[i]]]

With(kids, d, node) ==
    [x \in DOMAIN kids \union {d} |-> IF x = d THEN node ELSE kids[x]]

Pair(level, a, b) ==
    Branch(level, a.key,
           [d \in {Nibble(a.key, level), Nibble(b.key, level)} |->
               IF d = Nibble(a.key, level) THEN a ELSE b])

\* A branch over `kids' keyed by its first child; a single child replaces it.
Collapsed(level, kids) ==
    IF DOMAIN kids = {} THEN NoNode
    ELSE LET first == kids[Min(DOMAIN kids)]
         IN IF Cardinality(DOMAIN kids) = 1 THEN first
            ELSE Branch(level, first.key, kids)

-----------------------------------------------------------------------------
(* Reading and changing a trie. *)

RECURSIVE Lookup(_, _)
Lookup(node, actor) ==
    IF IsLeaf(node) THEN IF node.key = actor THEN node.seq ELSE NoSeq
    ELSE LET d == Nibble(actor, node.level)
         IN IF d \in DOMAIN node.kids THEN Lookup(node.kids[d], actor) ELSE NoSeq

\* `seq' is NoSeq to remove the actor; the result is NoNode when nothing is left.
RECURSIVE SetNode(_, _, _)
SetNode(node, actor, seq) ==
    LET at == FirstDifference(node.key, actor)
    IN IF IsLeaf(node) /\ node.key = actor
       THEN IF seq = NoSeq THEN NoNode ELSE Leaf(actor, seq)
       ELSE IF at < node.level
       THEN IF seq = NoSeq THEN node ELSE Pair(at, node, Leaf(actor, seq))
       ELSE LET d == Nibble(actor, node.level)
                held == d \in DOMAIN node.kids
                child == IF held THEN SetNode(node.kids[d], actor, seq)
                         ELSE IF seq = NoSeq THEN NoNode ELSE Leaf(actor, seq)
            IN IF child = NoNode
               THEN Collapsed(node.level,
                              [x \in DOMAIN node.kids \ {d} |-> node.kids[x]])
               ELSE Collapsed(node.level, With(node.kids, d, child))

Observed(node, actor, seq) ==
    IF Lookup(node, actor) >= seq THEN node ELSE SetNode(node, actor, seq)

RECURSIVE Union(_, _)

\* The deeper of two branches joins the child of the upper one that it falls
\* under; the upper branch keeps its key.
Graft(upper, lower) ==
    LET d == Nibble(lower.key, upper.level)
        kids == With(upper.kids, d,
                       IF d \in DOMAIN upper.kids THEN Union(upper.kids[d], lower)
                       ELSE lower)
    IN Branch(upper.level, upper.key, kids)

\* A side that already has every child is returned as it is, key included.
UnionChildren(a, b) ==
    LET kids == [d \in DOMAIN a.kids \union DOMAIN b.kids |->
                   IF d \notin DOMAIN b.kids THEN a.kids[d]
                   ELSE IF d \notin DOMAIN a.kids THEN b.kids[d]
                   ELSE Union(a.kids[d], b.kids[d])]
    IN IF kids = a.kids THEN a ELSE IF kids = b.kids THEN b
       ELSE Branch(a.level, a.key, kids)

\* Mutant: two branches are joined child by child at whatever levels they are.
LevelBlind(a, b) ==
    LET at == FirstDifference(a.key, b.key)
    IN IF a = b THEN a
       ELSE IF IsLeaf(b) THEN Observed(a, b.key, b.seq)
       ELSE IF IsLeaf(a) THEN Observed(b, a.key, a.seq)
       ELSE IF at < a.level /\ at < b.level THEN Pair(at, a, b)
       ELSE UnionChildren(a, b)

Union(a, b) ==
    LET at == FirstDifference(a.key, b.key)
    IN IF a = b THEN a
       ELSE IF IsLeaf(b) THEN Observed(a, b.key, b.seq)
       ELSE IF IsLeaf(a) THEN Observed(b, a.key, a.seq)
       ELSE IF at < a.level /\ at < b.level THEN Pair(at, a, b)
       ELSE IF a.level = b.level THEN UnionChildren(a, b)
       ELSE IF a.level < b.level THEN Graft(a, b)
       ELSE Graft(b, a)

RECURSIVE SelectedNode(_, _)
SelectedNode(node, actors) ==
    IF IsLeaf(node) THEN IF node.key \in actors THEN node ELSE NoNode
    ELSE LET kept == [d \in DOMAIN node.kids |-> SelectedNode(node.kids[d], actors)]
         IN IF kept = node.kids THEN node
            ELSE Collapsed(node.level,
                           [d \in {x \in DOMAIN kept : kept[x] # NoNode} |-> kept[d]])

\* The entries in order, as iter and every encoding of a clock yields them.
RECURSIVE Entries(_)
Entries(node) ==
    IF node = NoNode THEN <<>>
    ELSE IF IsLeaf(node) THEN <<<<node.key, node.seq>>>>
    ELSE LET kids == Children(node)
         IN FlattenSeq([i \in DOMAIN kids |-> Entries(kids[i])])

-----------------------------------------------------------------------------
(* Clocks: a root, or none. *)

Put(clock, actor, seq) ==
    IF Lookup(clock, actor) = seq THEN clock
    ELSE IF clock = NoNode THEN Leaf(actor, seq)
    ELSE SetNode(clock, actor, seq)

Get(clock, actor) == Max({Lookup(clock, actor), 0})

Observe(clock, actor, seq) == Put(clock, actor, Max({Get(clock, actor), seq}))

Advance(clock, actor) == Put(clock, actor, Get(clock, actor) + 1)

\* Zero removes the entry.
SetTo(clock, actor, seq) == Put(clock, actor, IF seq = 0 THEN NoSeq ELSE seq)

Merge(own, theirs) ==
    IF own = NoNode THEN theirs ELSE IF theirs = NoNode THEN own ELSE Union(own, theirs)

\* The clock a sequence of entries decodes to.
FromEntries(entries) ==
    FoldLeft(LAMBDA clock, e : Put(clock, e[1], e[2]), NoNode, entries)

\* Decoding the entries of some actors only, with the number of all.
DecodeCounted(entries, actors) ==
    [clock |-> FromEntries(SelectSeq(entries, LAMBDA e : e[1] \in actors)),
     count |-> Len(entries)]

Intersect(own, other) ==
    LET small == IF own.len <= other.len THEN own ELSE other
        large == IF own.len <= other.len THEN other ELSE own
        held == SelectSeq(Entries(small), LAMBDA e : Lookup(large, e[1]) # NoSeq)
    IN FromEntries([i \in DOMAIN held |->
                      <<held[i][1], Min({held[i][2], Lookup(large, held[i][1])})>>])

Dominates(own, other) ==
    \A e \in ToSet(Entries(other)) : Get(own, e[1]) >= e[2]

\* Few actors of a large clock are looked up one by one, in the order of their ids.
Selected(clock, actors) ==
    IF 2 * Cardinality(actors) >= clock.len
    THEN IF clock = NoNode THEN clock ELSE SelectedNode(clock, actors)
    ELSE FromEntries(SelectSeq(Entries(clock), LAMBDA e : e[1] \in actors))

Same(own, other) == own.len = other.len /\ Entries(own) = Entries(other)

-----------------------------------------------------------------------------
(* Stored nodes. *)

RECURSIVE Subtree(_)
Subtree(node) == {node} \union UNION {Subtree(node.kids[d]) : d \in DOMAIN node.kids}

\* The rows a clock adds to `rows': the subtree of a held node is not visited.
RECURSIVE VisitNodes(_, _)
VisitNodes(node, rows) ==
    IF node \in rows THEN {}
    ELSE {node} \union UNION {VisitNodes(node.kids[d], rows) : d \in DOMAIN node.kids}

\* A child lies below its parent: it branches later and shares the nibbles before.
Below(child, node) ==
    /\ child.level > node.level
    /\ FirstDifference(child.key, node.key) >= node.level

WellShaped(node) ==
    ~IsLeaf(node) =>
        /\ Cardinality(DOMAIN node.kids) >= 2
        /\ \A d \in DOMAIN node.kids : Nibble(node.kids[d].key, node.level) = d
        /\ Total(node.kids) = node.len

\* Whether load returns the clock named by `node': each node is cached, or its row
\* is there and well shaped and its children load below it.
RECURSIVE Loads(_, _, _)
Loads(node, rows, cached) ==
    node \notin cached =>
        /\ node \in rows /\ WellShaped(node)
        /\ \A d \in DOMAIN node.kids : /\ Loads(node.kids[d], rows, cached)
                                       /\ Below(node.kids[d], node)

\* ClockScan: every collected row is checked once, then a root need only be among them.
ScanValidates(root, rows) ==
    /\ \A node \in rows : WellShaped(node)
    /\ \A node \in rows : \A d \in DOMAIN node.kids :
          node.kids[d] \in rows /\ Below(node.kids[d], node)
    /\ root \in rows

-----------------------------------------------------------------------------
(* The cache: the latest clocks, and a count of the references to each      *)
(* allocation they retain, from retained parents and as a root.  Nodes built *)
(* apart are different allocations, whatever they hold; `names' says which   *)
(* retained allocation the hash of a node leads to.                          *)

EmptyCache == [latest |-> <<>>, roots |-> {}, refs |-> <<>>, nodes |-> 0, names |-> <<>>]

Without(f, x) == [y \in DOMAIN f \ {x} |-> f[y]]

\* The allocations of a clock: `held' gives those of the nodes that it shares, the
\* others are new, at an address that none of `used' has.
RECURSIVE Placed(_, _, _)
Placed(node, held, used) ==
    IF node \in DOMAIN held THEN held[node]
    ELSE [node |-> node,
          address |-> Min((0 .. Cardinality(used)) \ {x.address : x \in {y \in used : y.node = node}}),
          kids |-> [d \in DOMAIN node.kids |-> Placed(node.kids[d], held, used)]]

RECURSIVE Remember(_, _)
Remember(cache, stack) ==
    IF stack = <<>> THEN cache
    ELSE LET place == Last(stack)
         IN IF place \in DOMAIN cache.refs
            THEN Remember([cache EXCEPT !.refs[place] = @ + 1], Front(stack))
            ELSE Remember([cache EXCEPT !.refs = With(@, place, 1), !.nodes = @ + 1,
                                        !.names = With(@, place.node, place)],
                          Front(stack) \o Children(place))

\* The name of an allocation that is freed leads nowhere, even if another allocation
\* of the node is retained.
Freed(cache, place) ==
    [cache EXCEPT !.refs = Without(@, place), !.nodes = @ - 1,
                  !.names = IF place.node \in DOMAIN @ /\ @[place.node] = place
                            THEN Without(@, place.node) ELSE @]

RECURSIVE Release(_, _)
Release(cache, stack) ==
    IF stack = <<>> THEN cache
    ELSE LET place == Last(stack)
         IN IF place \in DOMAIN cache.refs /\ cache.refs[place] > 1
            THEN Release([cache EXCEPT !.refs[place] = @ - 1], Front(stack))
            ELSE Release(Freed(cache, place), Front(stack) \o Children(place))

RECURSIVE Trim(_)
Trim(cache) ==
    IF cache.nodes <= CacheNodes \/ cache.latest = <<>> THEN cache
    ELSE LET root == Head(cache.latest)
         IN Trim(Release([cache EXCEPT !.latest = Tail(@), !.roots = @ \ {root}],
                         <<root>>))

\* Mutant: a clock that is already among the latest is held again.
KeepAgain(cache, clock, held) ==
    IF clock = NoNode \/ 2 * clock.len > CacheNodes THEN cache
    ELSE LET root == Placed(clock, held, DOMAIN cache.refs)
             counted == Remember(cache, <<root>>)
         IN Trim([counted EXCEPT !.roots = @ \union {root},
                                 !.latest = Append(@, root)])

\* Hold a clock that shares the allocations `held'.  The same allocation is not held
\* again; an equal clock built apart is.
Keep(cache, clock, held) ==
    LET root == Placed(clock, held, DOMAIN cache.refs)
        counted == Remember(cache, <<root>>)
    IN IF clock = NoNode \/ 2 * clock.len > CacheNodes \/ root \in cache.roots THEN cache
       ELSE Trim([counted EXCEPT !.roots = @ \union {root},
                                 !.latest = Append(@, root)])
=============================================================================
