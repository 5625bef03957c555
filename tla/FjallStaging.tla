---------------------------- MODULE FjallStaging ----------------------------
(***************************************************************************)
(* Bootstrapping a topic this node does not hold, on the Fjall store:      *)
(* node/bootstrap.rs over storage/fjall/provisional.rs.  Every transaction *)
(* is one step.  A namespace lives in one slot of a fixed pool of          *)
(* keyspaces; activation claims the topic, copies the frozen namespace in  *)
(* chunks and publishes in one last transaction; an ended namespace's slot *)
(* is emptied in chunks and then released.  Calls for different topics     *)
(* interleave, calls for one topic are ordered by its owner lock, and a    *)
(* crash between any two transactions keeps only what was committed.       *)
(*                                                                         *)
(* An op is <<branch, position>>; one op is one byte and one record.  The  *)
(* membership a history proves is the constant Joined.  The ops of a       *)
(* branch form a chain, so an id has one waiter at most and the waiter     *)
(* quota of the pending buffer never binds.  Admission into a topic that   *)
(* is already active is Oplog's subject and only its outcome on one branch *)
(* is repeated here.                                                       *)
(***************************************************************************)
EXTENDS Integers, FiniteSets, SequencesExt

CONSTANTS Source, Topic, Branch, Span, Caller,
          Joined,           \* Joined[b][s]: the op of branch b after which s and this node are members
          Offers,           \* the fragments that may arrive: [source, topic, branch, ops]
          Namespaces,       \* StagingLimits.namespaces, also the size of the slot pool
          SourceNamespaces, TotalBytes, SourceBytes, NamespaceBytes,
          MaxPending,       \* MAX_PENDING_OPS_TOTAL of a keyspace's pending buffer
          SourcePending,    \* MAX_PENDING_OPS_PER_SOURCE
          TopicPending,     \* MAX_PENDING_OPS_PER_TOPIC
          Chunk,            \* records one copy or clearing transaction moves
          Idle,             \* STAGED_IDLE_MS
          MaxTime, MaxCalls, MaxCrashes

ASSUME StagingAssumption ==
    /\ Source \subseteq Nat /\ Branch \subseteq Nat \ {0} /\ Caller \subseteq Nat \ {0}
    /\ {Span, Namespaces, Chunk} \subseteq Nat \ {0}
    /\ Joined \in [Branch -> [Source -> Nat \ {0}]]
    /\ Offers \subseteq [source : Source, topic : Topic, branch : Branch, ops : SUBSET (1..Span)]

VARIABLES ns,        \* bn records: ns[s][t], or NoNamespace
          slots,     \* bs and bq records: slots[i], or Free
          disk,      \* disk[i]: op records in the keyspace of slot i, while staging the admitted ops
          buf,       \* buf[i]: buffered ops in the keyspace of slot i
          sessions,  \* bc: the durable session counter
          claim,     \* ba: the session that claimed the activation of t, or 0
          topics,    \* ts, h, ac: genesis and position of an active topic, or NoTopic
          recs,      \* recs[t]: op records of t in the active keyspace
          pend,      \* pend[t]: buffered ops of t in the active keyspace, each with its source
          owed,      \* owed[t][p]: clock an activation owes peer p
          now,       \* wall clock
          lock,      \* owner lock of t: the caller that holds it, or NoCaller
          pc, loc,   \* each caller's place in the code and its locals
          up,        \* the node has resumed its bootstraps
          calls, crashes

store == <<ns, slots, disk, buf, sessions, claim, topics, recs, pend, owed>>
vars == <<ns, slots, disk, buf, sessions, claim, topics, recs, pend, owed, now, lock, pc, loc,
          up, calls, crashes>>

Op == Branch \X (1..Span)
Slot == 0..(Namespaces - 1)
NoCaller == 0
NoNamespace == [session |-> 0]
NoTopic == [genesis |-> 0]
Free == [session |-> 0, clearing |-> FALSE]

Contiguous(ops, g) == {o \in ops : o[1] = g /\ \A i \in 1..o[2] : <<g, i>> \in ops}
Ops(b, positions) == {<<b, i>> : i \in positions}

Live == {k \in Source \X Topic : ns[k[1]][k[2]] # NoNamespace}
Record(k) == ns[k[1]][k[2]]

\* The ops a keyspace stores, admitted or buffered, and its bytes.
Stored(i) == disk[i] \cup buf[i]
Bytes(record) == Cardinality(Stored(record.slot))
BytesOf(keys) == Cardinality(UNION {{k} \X Stored(Record(k).slot) : k \in keys})

\* A caller's locals.  `seen` is the ProvisionalTopic it read, `work` the namespaces it still
\* discards or resumes, `clear` the slots it still empties, `keys` the records of a chunk it read
\* or has still to copy, `goal` the TopicState it expects, `then` where it returns to, `failed`
\* an admission error it reports once the activation was tried.
Locals == [mode |-> "idle", source |-> 0, topic |-> 0, branch |-> 0, ops |-> {}, now |-> 0,
           seen |-> NoNamespace, work |-> {}, clear |-> {}, keys |-> {}, goal |-> 0, then |-> "",
           failed |-> FALSE]

Init ==
    /\ ns = [s \in Source |-> [t \in Topic |-> NoNamespace]]
    /\ slots = [i \in Slot |-> Free]
    /\ disk = [i \in Slot |-> {}]
    /\ buf = [i \in Slot |-> {}]
    /\ sessions = 0
    /\ claim = [t \in Topic |-> 0]
    /\ topics = [t \in Topic |-> NoTopic]
    /\ recs = [t \in Topic |-> {}]
    /\ pend = [t \in Topic |-> {}]
    /\ owed = [t \in Topic |-> [p \in Source |-> 0]]
    /\ now = 0
    /\ lock = [t \in Topic |-> NoCaller]
    /\ pc = [c \in Caller |-> "idle"]
    /\ loc = [c \in Caller |-> Locals]
    /\ up = TRUE
    /\ calls = 0
    /\ crashes = 0

Goto(c, place) == pc' = [pc EXCEPT ![c] = place]

\* Move to `place` with new locals.
Step(c, place, locals) == Goto(c, place) /\ loc' = [loc EXCEPT ![c] = locals]

\* The call returns: the owner lock goes, a resume goes on with its next namespace.
Return(c) ==
    IF loc[c].mode = "resume"
    THEN Step(c, "resume", [Locals EXCEPT !.mode = "resume", !.work = loc[c].work]) /\ UNCHANGED lock
    ELSE Step(c, "idle", Locals) /\ lock' = [lock EXCEPT ![loc[c].topic] = NoCaller]

\* bootstrap_unknown found the topic active: the lock goes and the data is received into it.
Active(c) ==
    /\ lock' = [lock EXCEPT ![loc[c].topic] = NoCaller]
    /\ Step(c, "receive", [Locals EXCEPT !.mode = "data", !.source = loc[c].source,
                              !.topic = loc[c].topic, !.branch = loc[c].branch, !.ops = loc[c].ops])

Finished(c) == IF loc[c].mode = "data" /\ ~loc[c].failed THEN Active(c) ELSE Return(c)

env == <<now, up, calls, crashes>>
----------------------------------------------------------------------------
(* The registry's transactions.                                            *)

\* tx_end_namespace: the records go, the slots clear and stay charged.
Ended(keys) ==
    LET gone == {Record(k).slot : k \in keys}
    IN  /\ ns' = [s \in Source |-> [t \in Topic |->
                     IF <<s, t>> \in keys THEN NoNamespace ELSE ns[s][t]]]
        /\ slots' = [i \in Slot |->
                     IF i \in gone
                     THEN [slots[i] EXCEPT !.clearing = TRUE, !.bytes = Cardinality(Stored(i))]
                     ELSE slots[i]]

\* Mutant: the bytes of ended sessions are not charged.
ChargedLive(own, from) == BytesOf({k \in Live : Record(k).session # own /\ k[1] \in from})

\* Charge of the namespaces and clearing slots other than `own`, of source s or of every source.
Charged(own, from) ==
    BytesOf({k \in Live : Record(k).session # own /\ k[1] \in from})
    + MapThenSumSet(LAMBDA i : slots[i].bytes,
                    {i \in Slot : slots[i].clearing /\ slots[i].source \in from})

\* tx_staging_quota and StagingQuota.check: `more` new bytes in the namespace of key k.  A buffered
\* op that is admitted is charged again beside its buffered copy, which goes only with the commit.
Fits(k, more) ==
    LET after == Bytes(Record(k)) + more
        own == Record(k).session
    IN  \/ more = 0
        \/ /\ after <= NamespaceBytes
           /\ Charged(own, Source) + after <= TotalBytes
           /\ Charged(own, {k[1]}) + after <= SourceBytes

\* fenced: the namespace still has the session the caller read.
Fenced(c) ==
    /\ loc[c].seen # NoNamespace
    /\ ns[loc[c].source][loc[c].topic].session = loc[c].seen.session

Key(c) == <<loc[c].source, loc[c].topic>>

\* A write through the view: the ops it admits and the ops it buffers, then tx_fence_commit.
Written(c, admitted, buffered) ==
    LET slot == Record(Key(c)).slot
    IN  /\ disk' = [disk EXCEPT ![slot] = @ \cup admitted]
        /\ buf' = [buf EXCEPT ![slot] = (@ \ admitted) \cup buffered]
        /\ ns' = [ns EXCEPT ![loc[c].source][loc[c].topic].revision = @ + 1]
        /\ UNCHANGED <<slots, sessions, claim, topics, recs, pend, owed>>

\* Mutant: any state of the session that was read is discarded.
DiscardableSession(k, seen) == ns[k[1]][k[2]].session = seen.session

\* discard_namespace: only the namespace exactly as it was read, never one that is activating.
Discardable(k, seen) == ns[k[1]][k[2]] = seen /\ ~seen.activating
----------------------------------------------------------------------------
(* The entry points.                                                       *)

\* expire_bootstraps reads the namespaces idle past the limit.
Expired ==
    {<<k, Record(k)>> : k \in {k \in Live :
        ~Record(k).activating /\ Record(k).updated + Idle < now}}

\* Threads are interchangeable: a new call runs as the first caller that is idle.
FirstIdle(c) == pc[c] = "idle" /\ \A d \in Caller : d < c => pc[d] # "idle"

\* bootstrap_unknown up to its first discard.  The owner lock orders the calls of one topic.
BootstrapUnknown(c) ==
    /\ FirstIdle(c) /\ up /\ calls < MaxCalls
    /\ calls' = calls + 1
    /\ \E offer \in Offers :
          LET t == offer.topic
              data == [Locals EXCEPT !.mode = "data", !.source = offer.source, !.topic = t,
                                     !.branch = offer.branch, !.ops = Ops(offer.branch, offer.ops)]
          IN  IF topics[t] # NoTopic
              THEN Step(c, "receive", data) /\ UNCHANGED lock
              ELSE /\ lock[t] = NoCaller
                   /\ lock' = [lock EXCEPT ![t] = c]
                   /\ Step(c, "expire", [data EXCEPT !.now = now, !.work = Expired])
    /\ UNCHANGED <<store, now, up, crashes>>

\* finish_bootstrap for a topic that is not active and has a namespace of s.
FinishBootstrap(c) ==
    /\ FirstIdle(c) /\ up /\ calls < MaxCalls
    /\ calls' = calls + 1
    /\ \E k \in Live :
          /\ topics[k[2]] = NoTopic
          /\ lock[k[2]] = NoCaller
          /\ lock' = [lock EXCEPT ![k[2]] = c]
          /\ Step(c, "prove", [Locals EXCEPT !.mode = "finish", !.source = k[1], !.topic = k[2],
                                             !.seen = Record(k)])
    /\ UNCHANGED <<store, now, up, crashes>>

\* resume_bootstraps: the node opens with every namespace it finds registered.
Resume(c) ==
    /\ pc[c] = "resume"
    /\ IF loc[c].work = {}
       THEN up' = TRUE /\ Step(c, "idle", Locals)
       ELSE \E entry \in loc[c].work :
              /\ Step(c, "prove", [Locals EXCEPT !.mode = "resume", !.source = entry[1][1],
                                      !.topic = entry[1][2], !.seen = entry[2],
                                      !.work = loc[c].work \ {entry}])
              /\ UNCHANGED up
    /\ UNCHANGED <<store, lock, now, calls, crashes>>

\* One discard of expire_bootstraps or of make_room, each followed by reclaim_slots.
DiscardNext(c) ==
    /\ pc[c] \in {"expire", "evict"}
    /\ IF loc[c].work = {}
       THEN /\ Goto(c, IF pc[c] = "expire" THEN "direct" ELSE "admit")
            /\ UNCHANGED <<store, loc>>
       ELSE \E entry \in loc[c].work :
              /\ \A other \in loc[c].work : pc[c] = "evict" =>
                    \/ Bytes(entry[2]) < Bytes(other[2])
                    \/ Bytes(entry[2]) = Bytes(other[2]) /\ entry[1][1] <= other[1][1]
              /\ IF Discardable(entry[1], entry[2])
                 THEN /\ Ended({entry[1]})
                      /\ Step(c, "scan", [loc[c] EXCEPT !.work = @ \ {entry}, !.then = pc[c]])
                      /\ UNCHANGED <<disk, buf, sessions, claim, topics, recs, pend, owed>>
                 ELSE /\ Step(c, pc[c], [loc[c] EXCEPT !.work = @ \ {entry}])
                      /\ UNCHANGED store
    /\ UNCHANGED <<lock, env>>

\* A genesis naming this node and the source needs no stage while the topic has none.
Direct(c) ==
    /\ pc[c] = "direct"
    /\ IF /\ <<loc[c].branch, 1>> \in loc[c].ops
          /\ Joined[loc[c].branch][loc[c].source] = 1
          /\ \A k \in Live : k[2] # loc[c].topic
       THEN Active(c)
       ELSE Goto(c, "lookup") /\ UNCHANGED <<loc, lock>>
    /\ UNCHANGED <<store, env>>

\* The match of bootstrap_unknown on the source's namespace and the fragment's genesis.
Lookup(c) ==
    LET current == Record(Key(c))
        anchored == <<loc[c].branch, 1>> \in loc[c].ops
        Take(place) == Step(c, place, [loc[c] EXCEPT !.seen = current]) /\ UNCHANGED lock
    IN  /\ pc[c] = "lookup"
        /\ CASE current = NoNamespace /\ anchored -> Take("opening")
             [] current = NoNamespace /\ ~anchored -> Return(c)
             [] current # NoNamespace /\ current.activating -> Take("prove")
             [] OTHER ->
                  IF anchored /\ loc[c].branch < current.genesis THEN Take("replace")
                  ELSE IF anchored /\ loc[c].branch > current.genesis THEN Return(c)
                  ELSE Take("room")
        /\ UNCHANGED <<store, env>>

\* A smaller genesis replaces the stage, unless the stage changed since it was read.
Replace(c) ==
    /\ pc[c] = "replace"
    /\ IF Discardable(Key(c), loc[c].seen)
       THEN /\ Ended({Key(c)})
            /\ Step(c, "scan", [loc[c] EXCEPT !.then = "opening"])
            /\ UNCHANGED <<disk, buf, sessions, claim, topics, recs, pend, owed, lock>>
       ELSE Return(c) /\ UNCHANGED store
    /\ UNCHANGED env
----------------------------------------------------------------------------
(* reclaim_slots: read a chunk, delete it under a check, release.          *)

Clears(entry) == slots[entry[1]].clearing /\ slots[entry[1]].session = entry[2]

\* The slot a caller empties now: the first in key order.
Clearing(c) == CHOOSE entry \in loc[c].clear : \A other \in loc[c].clear : entry[1] <= other[1]

\* The first records of `keys` in key order, at most one chunk.
FirstChunk(keys) ==
    CHOOSE part \in SUBSET keys :
        /\ Cardinality(part) = IF Cardinality(keys) < Chunk THEN Cardinality(keys) ELSE Chunk
        /\ \A a \in part, b \in keys \ part : a[1] < b[1] \/ (a[1] = b[1] /\ a[2] < b[2])

\* Every reclaim starts here, the one before an open included.
ReclaimSlots(c) ==
    LET clear == {<<i, slots[i].session>> : i \in {i \in Slot : slots[i].clearing}}
        then == IF pc[c] = "opening" THEN "open" ELSE loc[c].then
    IN  /\ pc[c] \in {"scan", "opening"}
        /\ Step(c, IF clear = {} THEN then ELSE "read",
                [loc[c] EXCEPT !.clear = clear, !.then = IF clear = {} THEN "" ELSE then])
        /\ UNCHANGED <<store, lock, env>>

ReadChunk(c) ==
    /\ pc[c] = "read"
    /\ Step(c, "delete", [loc[c] EXCEPT !.keys = FirstChunk(Stored(Clearing(c)[1]))])
    /\ UNCHANGED <<store, lock, env>>

NextSlot(c) ==
    LET rest == loc[c].clear \ {Clearing(c)}
    IN  Step(c, IF rest = {} THEN loc[c].then ELSE "read",
             [loc[c] EXCEPT !.clear = rest, !.keys = {},
                            !.then = IF rest = {} THEN "" ELSE loc[c].then])

DeleteChunk(c) ==
    /\ pc[c] = "delete"
    /\ IF Clears(Clearing(c))
       THEN /\ disk' = [disk EXCEPT ![Clearing(c)[1]] = @ \ loc[c].keys]
            /\ buf' = [buf EXCEPT ![Clearing(c)[1]] = @ \ loc[c].keys]
            /\ Step(c, IF Cardinality(loc[c].keys) < Chunk THEN "release" ELSE "read",
                    [loc[c] EXCEPT !.keys = {}])
       ELSE NextSlot(c) /\ UNCHANGED <<disk, buf>>
    /\ UNCHANGED <<ns, slots, sessions, claim, topics, recs, pend, owed, lock, env>>

ReleaseSlot(c) ==
    LET i == Clearing(c)[1]
    IN  /\ pc[c] = "release"
        /\ slots' = IF Clears(Clearing(c)) /\ Stored(i) = {} THEN [slots EXCEPT ![i] = Free] ELSE slots
        /\ NextSlot(c)
        /\ UNCHANGED <<ns, disk, buf, sessions, claim, topics, recs, pend, owed, lock, env>>
----------------------------------------------------------------------------
(* Staging a fragment.                                                     *)

\* open_namespace after its reclaim: the registered namespace, or a new session in a free slot.
OpenNamespace(c) ==
    LET free == {i \in Slot : slots[i] = Free}
        slot == CHOOSE i \in free : \A j \in free : i <= j
        fresh == [genesis |-> loc[c].branch, session |-> sessions + 1, updated |-> loc[c].now,
                  activating |-> FALSE, revision |-> 0, slot |-> slot]
        held == Record(Key(c))
        full == \/ Cardinality(Live) >= Namespaces
                \/ Cardinality({k \in Live : k[1] = loc[c].source}) >= SourceNamespaces
                \/ free = {}
        same == <<disk, buf, claim, topics, recs, pend, owed>>
    IN  /\ pc[c] = "open"
        /\ IF topics[loc[c].topic] # NoTopic
           THEN Return(c) /\ UNCHANGED store
           ELSE IF held # NoNamespace
           THEN Step(c, "room", [loc[c] EXCEPT !.seen = held]) /\ UNCHANGED <<store, lock>>
           ELSE IF full
           THEN Return(c) /\ UNCHANGED store
           ELSE /\ ns' = [ns EXCEPT ![loc[c].source][loc[c].topic] = fresh]
                /\ slots' = [slots EXCEPT ![slot] = [session |-> fresh.session, clearing |-> FALSE,
                                                      source |-> loc[c].source, bytes |-> 0]]
                /\ sessions' = sessions + 1
                /\ Step(c, "room", [loc[c] EXCEPT !.seen = fresh])
                /\ UNCHANGED <<same, lock>>
        /\ UNCHANGED env

\* reclaim_count: how many losers, weakest first, must go before `incoming` fits; NoRoom if all
\* of them are not enough.
NoRoom == -1

ReclaimCount(total, incoming, sizes) ==
    LET Kept(n) == total - FoldSet(LAMBDA i, sum : sum + sizes[i], 0, 1..n)
        enough == {n \in 0..Cardinality(DOMAIN sizes) : Kept(n) + incoming <= TotalBytes}
    IN  IF enough = {} THEN NoRoom ELSE Min(enough)

\* make_room: refuse, or name the weaker stages of the topic that have to go.
Weaker(a, b) == Bytes(Record(a)) < Bytes(Record(b))
                \/ (Bytes(Record(a)) = Bytes(Record(b)) /\ a[1] < b[1])

MakeRoom(c) ==
    LET key == Key(c)
        incoming == Cardinality(loc[c].ops \ Stored(loc[c].seen.slot))
        held(from) == BytesOf({k \in Live : k[1] \in from})
        losers == {k \in Live : k[2] = key[2] /\ k[1] # key[1] /\ ~Record(k).activating /\ Weaker(k, key)}
        order == SetToSortSeq(losers, Weaker)
        count == ReclaimCount(held(Source), incoming,
                              [i \in DOMAIN order |-> Bytes(Record(order[i]))])
    IN  /\ pc[c] = "room"
        /\ IF \/ ~Fenced(c)
              \/ held({key[1]}) + incoming > SourceBytes
              \/ count = NoRoom
           THEN Return(c)
           ELSE /\ Step(c, "evict", [loc[c] EXCEPT
                        !.work = {<<order[i], Record(order[i])>> : i \in 1..count}])
                /\ UNCHANGED lock
        /\ UNCHANGED <<store, env>>

\* The view takes writes: its session is registered and its activation has not begun.
Writable(c) == Fenced(c) /\ ~Record(Key(c)).activating

\* receive_preverified into the namespace: the ops whose past is admitted or in the fragment, in
\* one transaction; none when there is no such op.
Admit(c) ==
    LET held == disk[loc[c].seen.slot]
        ready == (Contiguous(held \cup loc[c].ops, loc[c].seen.genesis) \cap loc[c].ops) \ held
        rest == Step(c, "buffer", [loc[c] EXCEPT !.keys = (loc[c].ops \ held) \ ready])
    IN  /\ pc[c] = "admit"
        /\ IF ~Fenced(c) \/ (ready # {} /\ (~Writable(c) \/ ~Fits(Key(c), Cardinality(ready))))
           THEN Step(c, "touch", [loc[c] EXCEPT !.failed = TRUE]) /\ UNCHANGED store
           ELSE /\ rest
                /\ IF ready = {} THEN UNCHANGED store ELSE Written(c, ready, {})
        /\ UNCHANGED <<lock, env>>

\* put_pending_bound, a transaction for each op that still misses its past: one already buffered
\* is charged nothing, another needs staging bytes and a place in the keyspace's own buffer.
Buffer(c) ==
    LET op == CHOOSE o \in loc[c].keys : \A other \in loc[c].keys : o[2] <= other[2]
        held == buf[loc[c].seen.slot]
        room == /\ Fits(Key(c), 1)
                /\ Cardinality(held) < Min({MaxPending, SourcePending, TopicPending})
    IN  /\ pc[c] = "buffer"
        /\ IF loc[c].keys = {}
           THEN Goto(c, "ready") /\ UNCHANGED <<store, loc>>
           ELSE IF ~Writable(c) \/ ~(op \in held \/ room)
           THEN Step(c, "touch", [loc[c] EXCEPT !.failed = TRUE, !.keys = {}]) /\ UNCHANGED store
           ELSE Written(c, {}, {op}) /\ Step(c, "buffer", [loc[c] EXCEPT !.keys = @ \ {op}])
        /\ UNCHANGED <<lock, env>>

\* The same call then admits the buffered ops that became ready, a transaction each.  One that does
\* not fit stays buffered and fails nothing; a session that ended fails the read.
DrainReady(c) ==
    LET slot == loc[c].seen.slot
        next == <<loc[c].seen.genesis, Cardinality(disk[slot]) + 1>>
    IN  /\ pc[c] = "ready"
        /\ IF ~Fenced(c)
           THEN Step(c, "touch", [loc[c] EXCEPT !.failed = TRUE]) /\ UNCHANGED store
           ELSE IF next \notin buf[slot] \/ ~Writable(c) \/ ~Fits(Key(c), 1)
           THEN Goto(c, "touch") /\ UNCHANGED <<store, loc>>
           ELSE Written(c, {next}, {}) /\ UNCHANGED <<pc, loc>>
        /\ UNCHANGED <<lock, env>>

TouchNamespace(c) ==
    /\ pc[c] = "touch"
    /\ Goto(c, "prove")
    /\ ns' = IF Fenced(c) /\ Record(Key(c)).updated < loc[c].now
             THEN [ns EXCEPT ![loc[c].source][loc[c].topic].updated = loc[c].now] ELSE ns
    /\ UNCHANGED <<slots, disk, buf, sessions, claim, topics, recs, pend, owed, loc, lock, env>>
----------------------------------------------------------------------------
(* Activation.                                                             *)

\* The position a namespace's admitted history reaches: its state, heads and clock.
Reach(record) == Cardinality(disk[record.slot])

\* activate_proven up to activate_provisional: only a history that makes this node and the source
\* members is activated, unless its activation already began.
ActivateProven(c) ==
    /\ pc[c] = "prove"
    /\ IF \/ ~Fenced(c)
          \/ Reach(Record(Key(c))) = 0
          \/ /\ Joined[loc[c].seen.genesis][loc[c].source] > Reach(Record(Key(c)))
             /\ ~loc[c].seen.activating
       THEN Return(c)
       ELSE /\ Step(c, "claim", [loc[c] EXCEPT !.goal = Reach(Record(Key(c)))])
            /\ UNCHANGED lock
    /\ UNCHANGED <<store, env>>

\* claim_activation: one transaction claims the topic and freezes the namespace at `goal`.
ClaimActivation(c) ==
    LET record == Record(Key(c))
        t == loc[c].topic
    IN  /\ pc[c] = "claim"
        /\ IF ~Fenced(c)
           THEN Return(c) /\ UNCHANGED store
           ELSE IF \/ topics[t] # NoTopic
                   \/ claim[t] \notin {0, record.session}
                   \/ Reach(record) # loc[c].goal
           THEN Goto(c, "conflict") /\ UNCHANGED <<store, loc, lock>>
           ELSE /\ IF ~record.activating \/ claim[t] = 0
                   THEN /\ ns' = [ns EXCEPT ![loc[c].source][t] =
                                    [record EXCEPT !.activating = TRUE, !.revision = @ + 1]]
                        /\ claim' = [claim EXCEPT ![t] = record.session]
                   ELSE UNCHANGED <<ns, claim>>
                /\ Step(c, "copy", [loc[c] EXCEPT !.keys = Stored(record.slot)])
                /\ UNCHANGED <<slots, disk, buf, sessions, topics, recs, pend, owed, lock>>
        /\ UNCHANGED env

\* tx_claimed: the topic is inactive and this session holds its claim.
Claimed(c) == topics[loc[c].topic] = NoTopic /\ claim[loc[c].topic] = loc[c].seen.session

\* copy_namespace, one chunk: the admitted records go to the active keyspace.
CopyChunk(c) ==
    LET part == FirstChunk(loc[c].keys)
        admitted == disk[loc[c].seen.slot]
    IN  /\ pc[c] = "copy"
        /\ IF ~Claimed(c)
           THEN Goto(c, "conflict") /\ UNCHANGED <<recs, loc>>
           ELSE /\ recs' = [recs EXCEPT ![loc[c].topic] = @ \cup (part \cap admitted)]
                /\ Step(c, IF Cardinality(part) < Chunk THEN "publish" ELSE "copy",
                        [loc[c] EXCEPT !.keys = @ \ part])
        /\ UNCHANGED <<ns, slots, disk, buf, sessions, claim, topics, pend, owed, lock, env>>

\* The ops buffered for t in the active keyspace.
Waiting(t) == {entry[1] : entry \in pend[t]}

\* check_pending_quota over a whole buffer: in total, of each source and of each topic.
PendingFits(buffer) ==
    LET count(from) == Cardinality({x \in UNION {{t} \X buffer[t] : t \in Topic} : x[2][2] \in from})
    IN  /\ count(Source) <= MaxPending
        /\ \A s \in Source : count({s}) <= SourcePending
        /\ \A t \in Topic : Cardinality(buffer[t]) <= TopicPending

\* Mutant: only the activating namespace's buffered ops move.
MovedOwn(k) == {<<o, k[1]>> : o \in buf[Record(k).slot] \ recs[k[2]]}

\* tx_move_pending for the namespace k and then for the others of its branch, in key order: every
\* buffered op the active keyspace does not hold moves once, charged to the source that staged it
\* first.  An op behind a rejected id would be skipped, but ids are rejected only in a topic that
\* has a state, and k's has none.
Moved(k) ==
    LET kin == {j \in Live : j[2] = k[2] /\ Record(j).genesis = Record(k).genesis}
        holders(o) == {j[1] : j \in {j \in kin : o \in buf[Record(j).slot]}}
        ops == UNION {buf[Record(j).slot] : j \in kin} \ (recs[k[2]] \cup Waiting(k[2]))
    IN  {<<o, IF k[1] \in holders(o) THEN k[1] ELSE Min(holders(o))>> : o \in ops}

AfterMove(k) == [pend EXCEPT ![k[2]] = @ \cup Moved(k)]

\* finish_activation: the one transaction that makes the copies the active topic, owes its clock
\* to the other members, moves the buffered ops and ends every namespace of the topic.
Publish(c) ==
    LET t == loc[c].topic
        g == loc[c].seen.genesis
        members == {p \in Source : Joined[g][p] <= loc[c].goal} \ {loc[c].source}
    IN  /\ pc[c] = "publish"
        /\ IF ~Claimed(c) \/ Reach(Record(Key(c))) # loc[c].goal
           THEN Goto(c, "conflict") /\ UNCHANGED <<store, loc, lock>>
           ELSE IF ~PendingFits(AfterMove(Key(c)))
           THEN Return(c) /\ UNCHANGED store
           ELSE /\ claim' = [claim EXCEPT ![t] = 0]
                /\ topics' = [topics EXCEPT ![t] = [genesis |-> g, reach |-> loc[c].goal]]
                /\ owed' = [owed EXCEPT ![t] =
                              [p \in Source |-> IF p \in members THEN loc[c].goal ELSE @[p]]]
                /\ pend' = AfterMove(Key(c))
                /\ Ended({k \in Live : k[2] = t})
                /\ Step(c, "scan", [loc[c] EXCEPT !.then = "drain"])
                /\ UNCHANGED <<disk, buf, sessions, recs, lock>>
        /\ UNCHANGED env

\* Topic t on branch g with `ops` admitted and `waiting` buffered.
Becomes(t, g, ops, waiting) ==
    /\ recs' = [recs EXCEPT ![t] = ops]
    /\ pend' = [pend EXCEPT ![t] = {entry \in waiting : entry[1] \notin ops}]
    /\ topics' = [topics EXCEPT ![t] = [genesis |-> g, reach |-> Cardinality(ops)]]

\* What is admitted once the ready ops of `waiting` have drained.
Drained(g, ops, waiting) == ops \cup Contiguous(ops \cup {entry[1] : entry \in waiting}, g)

\* reconcile_pending_ops after the activation.
ReconcilePending(c) ==
    LET t == loc[c].topic
        g == topics[t].genesis
    IN  /\ pc[c] = "drain"
        /\ Becomes(t, g, Drained(g, recs[t], pend[t]), pend[t])
        /\ Finished(c)
        /\ UNCHANGED <<ns, slots, disk, buf, sessions, claim, owed, env>>

\* AdmissionConflict out of activate_provisional: an error while the topic is inactive.
ActivationConflict(c) ==
    /\ pc[c] = "conflict"
    /\ IF topics[loc[c].topic] = NoTopic THEN Return(c) ELSE Goto(c, "stale") /\ UNCHANGED <<loc, lock>>
    /\ UNCHANGED <<store, env>>

\* The topic is active: the namespace of this session is looked up ...
StaleStage(c) ==
    /\ pc[c] = "stale"
    /\ IF Fenced(c)
       THEN Step(c, "drop", [loc[c] EXCEPT !.seen = Record(Key(c))]) /\ UNCHANGED lock
       ELSE Finished(c)
    /\ UNCHANGED <<store, env>>

\* ... and discarded, which fails when it changed in between.
DropStage(c) ==
    /\ pc[c] = "drop"
    /\ IF Discardable(Key(c), loc[c].seen)
       THEN /\ Ended({Key(c)})
            /\ Step(c, "scan", [loc[c] EXCEPT !.then = "finished"])
            /\ UNCHANGED <<disk, buf, sessions, claim, topics, recs, pend, owed, lock>>
       ELSE Return(c) /\ UNCHANGED store
    /\ UNCHANGED env

ConflictSettled(c) ==
    /\ pc[c] = "finished"
    /\ Finished(c)
    /\ UNCHANGED <<store, env>>

\* Mutant: a first admission does not look for an activation claim.
FirstAdmissionUnclaimed(t) == topics[t] = NoTopic

\* tx_admit_batch of a topic with no state: refused while an activation of it is claimed.
FirstAdmission(t) == topics[t] = NoTopic /\ claim[t] = 0

\* receive_data_preverified, by then without the owner lock.  A first admission is refused while
\* an activation of the topic is claimed, and when an op of it lies there as a copy.  What is complete is admitted, the rest buffered until the
\* buffer refuses an op, which fails the call; otherwise the ready ops drain.
ReceiveData(c) ==
    LET t == loc[c].topic
        b == loc[c].branch
        g == IF topics[t] = NoTopic THEN b ELSE topics[t].genesis
        ops == recs[t] \cup Contiguous(recs[t] \cup loc[c].ops, g)
        left == {entry \in pend[t] : entry[1] \notin ops}
        rest == SetToSortSeq(loc[c].ops \ (ops \cup Waiting(t)), LAMBDA x, y : x[2] < y[2])
        waiting(n) == left \cup {<<rest[i], loc[c].source>> : i \in 1..n}
        taken == Max({n \in 0..Len(rest) : PendingFits([pend EXCEPT ![t] = waiting(n)])})
    IN  /\ pc[c] = "receive"
        /\ IF \/ FirstAdmission(t) /\ loc[c].ops \cap recs[t] = {}
              \/ topics[t] # NoTopic /\ (b = g \/ <<b, 1>> \notin loc[c].ops)
           THEN Becomes(t, g, IF taken < Len(rest) THEN ops ELSE Drained(g, ops, waiting(taken)),
                        waiting(taken))
           ELSE UNCHANGED <<recs, pend, topics>>
        /\ Step(c, "idle", Locals)
        /\ UNCHANGED <<ns, slots, disk, buf, sessions, claim, owed, lock, env>>
----------------------------------------------------------------------------
(* The node stops anywhere and opens again.                                *)

Crash ==
    /\ crashes < MaxCrashes
    /\ up \/ \E c \in Caller : pc[c] # "idle"
    /\ crashes' = crashes + 1
    /\ up' = FALSE
    /\ pc' = [c \in Caller |-> "idle"]
    /\ loc' = [c \in Caller |-> Locals]
    /\ lock' = [t \in Topic |-> NoCaller]
    /\ UNCHANGED <<store, now, calls>>

\* Mutant: a claimed activation is not resumed.
ResumableUnclaimed == {<<k, Record(k)>> : k \in {k \in Live : ~Record(k).activating}}

\* resume_bootstraps goes through every namespace the store registers.
Resumable == {<<k, Record(k)>> : k \in Live}

Restart ==
    LET c == Min(Caller)
    IN  /\ ~up
        /\ \A d \in Caller : pc[d] = "idle"
        /\ Step(c, "resume", [Locals EXCEPT !.mode = "resume", !.work = Resumable])
        /\ UNCHANGED <<store, lock, env>>

WallClock ==
    /\ now < MaxTime
    /\ now' = now + 1
    /\ UNCHANGED <<store, lock, pc, loc, up, calls, crashes>>

CallerStep(c) ==
    \/ Resume(c) \/ DiscardNext(c) \/ Direct(c) \/ Lookup(c) \/ Replace(c)
    \/ ReclaimSlots(c) \/ ReadChunk(c) \/ DeleteChunk(c) \/ ReleaseSlot(c)
    \/ OpenNamespace(c) \/ MakeRoom(c) \/ Admit(c) \/ Buffer(c) \/ DrainReady(c)
    \/ TouchNamespace(c) \/ ActivateProven(c) \/ ClaimActivation(c) \/ CopyChunk(c) \/ Publish(c)
    \/ ReconcilePending(c) \/ ActivationConflict(c) \/ StaleStage(c) \/ DropStage(c)
    \/ ConflictSettled(c) \/ ReceiveData(c)

Next ==
    \/ \E c \in Caller : BootstrapUnknown(c) \/ FinishBootstrap(c) \/ CallerStep(c)
    \/ Crash \/ Restart \/ WallClock

Spec == Init /\ [][Next]_vars

\* A call that began goes on until it returns, and a node that stopped is opened again: the
\* threads of a running node are scheduled, and an embedder that never reopens asks for nothing.
Fairness ==
    /\ \A c \in Caller : []<>(pc[c] = "idle") \/ []<><<CallerStep(c)>>_vars
    /\ WF_vars(Restart)

FairSpec == Spec /\ Fairness
----------------------------------------------------------------------------
(* Properties.                                                             *)

Place == {"idle", "resume", "expire", "direct", "lookup", "replace", "opening", "scan", "read",
          "delete", "release", "open", "room", "evict", "admit", "buffer", "ready", "touch",
          "prove", "claim", "copy", "publish", "drain", "conflict", "stale", "drop", "finished",
          "receive"}

\* The types of the store's records and of every caller's place, and the discipline of the owner
\* lock of bootstrap_unknown: its holder is inside a call for that topic.
TypeOK ==
    /\ \A k \in Live : Record(k) \in [genesis : Branch, session : 1..sessions, updated : 0..MaxTime,
                                      activating : BOOLEAN, revision : Nat, slot : Slot]
    /\ \A i \in Slot : slots[i] = Free \/ slots[i] \in
          [session : 1..sessions, clearing : BOOLEAN, source : Source, bytes : 0..NamespaceBytes]
    /\ disk \in [Slot -> SUBSET Op] /\ buf \in [Slot -> SUBSET Op]
    /\ claim \in [Topic -> 0..sessions]
    /\ \A t \in Topic : topics[t] = NoTopic \/ topics[t] \in [genesis : Branch, reach : 1..Span]
    /\ recs \in [Topic -> SUBSET Op] /\ pend \in [Topic -> SUBSET (Op \X Source)]
    /\ owed \in [Topic -> [Source -> 0..Span]]
    /\ pc \in [Caller -> Place]
    /\ \A t \in Topic : lock[t] # NoCaller => pc[lock[t]] # "idle" /\ loc[lock[t]].topic = t

\* "Copies stay invisible until the state record names the topic": an active topic holds exactly
\* the contiguous history its state claims, with nothing left over from an activation that was
\* interrupted or from another stage.
WholeHistory ==
    \A t \in Topic : topics[t] # NoTopic =>
        recs[t] = Ops(topics[t].genesis, 1..topics[t].reach)

\* An activation claim and its frozen namespace go together: a claimed topic is inactive and the
\* claiming session is registered and activating, a namespace is activating only under its own
\* claim, and copies exist in an inactive topic only under a claim on the branch they belong to.
\* Otherwise a restart would find copies nobody finishes, or a claim nobody can take over.
ClaimOwned ==
    \A t \in Topic :
        /\ claim[t] # 0 => /\ topics[t] = NoTopic
                           /\ \E s \in Source : ns[s][t].session = claim[t] /\ ns[s][t].activating
        /\ \A s \in Source : ns[s][t] # NoNamespace /\ ns[s][t].activating => claim[t] = ns[s][t].session
        /\ topics[t] = NoTopic /\ recs[t] # {} =>
              \E s \in Source : /\ claim[t] # 0 /\ ns[s][t].session = claim[t]
                                /\ recs[t] \subseteq disk[ns[s][t].slot]

\* The staging limits hold for what the keyspaces really store, bytes of ended sessions included,
\* however calls, discards, partial deletes and crashes interleave; and no slot serves two sessions.
StagedWithinLimits ==
    LET stored(from) == Cardinality(UNION {{i} \X Stored(i) :
                            i \in {i \in Slot : slots[i] # Free /\ slots[i].source \in from}})
    IN  /\ stored(Source) <= TotalBytes
        /\ \A s \in Source : stored({s}) <= SourceBytes
        /\ \A i \in Slot : slots[i] = Free => Stored(i) = {}
        /\ \A k \in Live : LET slot == slots[Record(k).slot] IN
              slot.session = Record(k).session /\ ~slot.clearing /\ slot.source = k[1]
        /\ \A j, k \in Live : Record(j).slot = Record(k).slot => j = k

\* The many transactions of an activation are one birth: FjallStaging implements TopicBirth.
Births == INSTANCE TopicBirth WITH
    staged <- [s \in Source |-> [t \in Topic |->
                 IF ns[s][t] = NoNamespace
                 THEN [genesis |-> 0, session |-> 0, ops |-> {}, pending |-> {}]
                 ELSE [genesis |-> ns[s][t].genesis, session |-> ns[s][t].session,
                       ops |-> disk[ns[s][t].slot], pending |-> buf[ns[s][t].slot]]]],
    born <- [t \in Topic |->
                 IF topics[t] = NoTopic THEN [genesis |-> 0, ops |-> {}, pending |-> {}]
                 ELSE [genesis |-> topics[t].genesis, ops |-> recs[t], pending |-> Waiting(t)]]

\* Whatever the interleaving and wherever the node stops, a reader of the store sees stages open,
\* fill and end, and a topic appear at once with the whole history of one stage.
AtomicBirth == Births!BirthSpec

\* The namespace whose session claimed t.
Claimant(t) == {k \in Live : k[2] = t /\ Record(k).session = claim[t]}

\* A claimed activation is published once the node stays up, unless the active store's pending
\* buffer refuses the ops that have to move with it: no crash point leaves a topic claimed for good.
\* And a claimed topic is born on the claimed branch, whoever else offers it a genesis meanwhile.
ClaimCompletes ==
    /\ \A t \in Topic : claim[t] # 0 ~>
           (topics[t] # NoTopic \/ \E k \in Claimant(t) : ~PendingFits(AfterMove(k)))
    /\ [][\A t \in Topic : claim[t] # 0 /\ topics'[t] # NoTopic =>
             \E k \in Claimant(t) : topics'[t].genesis = Record(k).genesis]_vars
=============================================================================
