--------------------------- MODULE PendingBuffer ---------------------------
(***************************************************************************)
(* The buffer of operations that wait for missing dependencies, as the     *)
(* memory store keeps it (src/storage/memory/mod.rs): a record for each    *)
(* buffered operation, the indexes by dependency and by readiness, the     *)
(* usage counters that the quotas are checked against, the ids rejected    *)
(* for good and the times the expiry sweep first saw an operation.         *)
(*                                                                         *)
(* Every action but Read holds the store's lock.  Oplog.tla abstracts the  *)
(* buffer to the set of its records and leaves the quotas out.             *)
(***************************************************************************)
EXTENDS Integers, FiniteSets, SequencesExt

CONSTANTS
    Op,              \* operation ids, named in their order
    Deps,            \* Deps[i]: the dependencies of i
    Topic,           \* topics
    TopicOf,         \* TopicOf[i]: the topic of i
    Charge,          \* Charge[i]: serialized bytes of i
    Source,          \* peers that send operations
    MaxOps,          \* MAX_PENDING_OPS_TOTAL
    MaxBytes,        \* MAX_PENDING_BYTES_TOTAL
    MaxSourceOps,    \* MAX_PENDING_OPS_PER_SOURCE
    MaxSourceBytes,  \* MAX_PENDING_BYTES_PER_SOURCE
    MaxTopicOps,     \* MAX_PENDING_OPS_PER_TOPIC
    MaxTopicBytes,   \* MAX_PENDING_BYTES_PER_TOPIC
    MaxWaiters,      \* MAX_PENDING_WAITERS_PER_DEP
    MaxMissing,      \* MAX_PENDING_MISSING_DEPS
    MaxRejected,     \* MAX_REJECTED_PER_TOPIC
    MaxIdle,         \* PENDING_IDLE_MS
    MaxTime          \* bound of the clock

ASSUME DagAssumption ==
    /\ Deps \in [Op -> SUBSET Op]
    /\ TopicOf \in [Op -> Topic]
    /\ Charge \in [Op -> Nat \ {0}]
    /\ \A i \in Op : i \notin Deps[i] /\ \A d \in Deps[i] : TopicOf[d] = TopicOf[i]

ASSUME LimitAssumption ==
    /\ {MaxOps, MaxBytes, MaxSourceOps, MaxSourceBytes, MaxTopicOps, MaxTopicBytes} \subseteq Nat
    /\ {MaxWaiters, MaxMissing, MaxRejected, MaxIdle, MaxTime} \subseteq Nat

VARIABLES
    stored,     \* ids stored complete
    records,    \* id -> PendingRecord, for the buffered ids
    waiters,    \* waiters[d]: buffered ids indexed under dependency d
    ready,      \* the index of buffered ids with nothing left to wait for
    total,      \* usage of the whole buffer
    bySource,   \* usage per source
    byTopic,    \* usage per topic
    rejected,   \* rejected[t]: ids in rejection order
    since,      \* id -> time at which a sweep first saw it
    calls,      \* puts that have read their missing dependencies
    now,        \* the clock
    entered     \* id -> time at which it was buffered

vars == <<stored, records, waiters, ready, total, bySource, byTopic, rejected, since, calls,
          now, entered>>

----------------------------------------------------------------------------
(* Records, indexes and usage *)

Pending == DOMAIN records
RejectedIds(t) == ToSet(rejected[t])

NoUsage == [ops |-> 0, bytes |-> 0]
Charged(usage, bytes) == [ops |-> usage.ops + 1, bytes |-> usage.bytes + bytes]

\* PendingUsage::refunded for each member of S; an underflow fails the call.
BytesOf(S) == SumFunctionOnSet(Charge, S)
Refunded(usage, S) ==
    [ops |-> usage.ops - Cardinality(S), bytes |-> usage.bytes - BytesOf(S)]

From(S, s) == {i \in S : records[i].source = s}
In(S, t) == {i \in S : TopicOf[i] = t}

\* Fault: only the immediate waiters are found.
DirectWaiters(d) == waiters[d]

\* waiter_closure_locked: the least set that holds the waiters of d and the
\* waiters of its members.
WaiterClosure(d) ==
    {i \in Pending \ {d} : \A C \in SUBSET Pending :
        (waiters[d] \subseteq C /\ \A j \in C : waiters[j] \subseteq C) => i \in C}

\* Fault: a removed operation stays indexed under what it waited for.
StaleWaiters(S) == waiters

\* unwait_locked, for each member of S.
WaitersWithout(S) == [d \in Op |-> waiters[d] \ {i \in S : d \in records[i].missing}]

\* remove_pending_locked, for each member of S.  It leaves `since' alone.
RemovePending(S) ==
    /\ records' = [i \in Pending \ S |-> records[i]]
    /\ waiters' = WaitersWithout(S)
    /\ ready' = ready \ S
    /\ total' = Refunded(total, S)
    /\ bySource' = [s \in Source |-> Refunded(bySource[s], From(S, s))]
    /\ byTopic' = [t \in Topic |-> Refunded(byTopic[t], In(S, t))]
    /\ entered' = [i \in Pending \ S |-> entered[i]]

----------------------------------------------------------------------------
(* Buffering *)

\* build_batch reads what i misses ahead of the commit and of the put.  The
\* topic's turn admits one such call of a topic at a time.
Read(s, i) ==
    /\ \A c \in calls : TopicOf[c.op] # TopicOf[i]
    /\ i \notin stored /\ Deps[i] \ stored # {}
    /\ calls' = calls \cup {[op |-> i, source |-> s, missing |-> Deps[i] \ stored]}
    /\ UNCHANGED <<stored, records, waiters, ready, total, bySource, byTopic, rejected, since,
                   now, entered>>

\* Fault: a dependency that was stored meanwhile goes unnoticed.
NeverConflicts(c) == FALSE

\* A dependency read as missing is stored by now: AdmissionConflict.
Conflicts(c) == c.missing \cap stored # {}

Rejects(c) == ({c.op} \cup c.missing) \cap RejectedIds(TopicOf[c.op]) # {}

WaitersFull(c) ==
    \E d \in c.missing :
       /\ c.op \in Pending => d \notin records[c.op].missing
       /\ Cardinality(waiters[d]) >= MaxWaiters

\* Fault: the operation about to be charged is not counted.
QuotaFullLate(c) ==
    \/ total.ops > MaxOps
    \/ total.bytes > MaxBytes
    \/ bySource[c.source].ops > MaxSourceOps
    \/ bySource[c.source].bytes > MaxSourceBytes
    \/ byTopic[TopicOf[c.op]].ops > MaxTopicOps
    \/ byTopic[TopicOf[c.op]].bytes > MaxTopicBytes

\* check_pending_quota refuses.
QuotaFull(c) ==
    \/ total.ops >= MaxOps
    \/ total.bytes + Charge[c.op] > MaxBytes
    \/ bySource[c.source].ops >= MaxSourceOps
    \/ bySource[c.source].bytes + Charge[c.op] > MaxSourceBytes
    \/ byTopic[TopicOf[c.op]].ops >= MaxTopicOps
    \/ byTopic[TopicOf[c.op]].bytes + Charge[c.op] > MaxTopicBytes

\* What put_pending_bound answers, in the order of its checks.
Answer(c) ==
    IF Cardinality(c.missing) > MaxMissing THEN "TooManyMissing"
    ELSE IF c.op \in stored THEN "Stored"
    ELSE IF Conflicts(c) THEN "AdmissionConflict"
    ELSE IF Rejects(c) THEN "RejectedOp"
    ELSE IF c.op \in Pending /\ records[c.op].missing = c.missing THEN "Known"
    ELSE IF WaitersFull(c) THEN "WaiterQuota"
    ELSE IF c.op \notin Pending /\ QuotaFull(c) THEN "PendingQuota"
    ELSE "Buffered"

\* put_pending_bound: a known operation keeps its source and its charge.
PutPending(c) ==
    LET i == c.op
        known == i \in Pending
    IN  /\ calls' = calls \ {c}
        /\ IF Answer(c) # "Buffered"
           THEN UNCHANGED <<records, waiters, ready, total, bySource, byTopic, entered>>
           ELSE /\ records' = [j \in Pending \cup {i} |->
                     IF j # i THEN records[j]
                     ELSE [source  |-> IF known THEN records[i].source ELSE c.source,
                           missing |-> c.missing]]
                /\ waiters' = [d \in Op |-> IF d \in c.missing THEN waiters[d] \cup {i}
                                            ELSE waiters[d] \ {i}]
                /\ ready' = IF c.missing = {} THEN ready \cup {i} ELSE ready \ {i}
                /\ IF known THEN UNCHANGED <<total, bySource, byTopic, entered>>
                   ELSE /\ total' = Charged(total, Charge[i])
                        /\ bySource' = [bySource EXCEPT ![c.source] = Charged(@, Charge[i])]
                        /\ byTopic' = [byTopic EXCEPT ![TopicOf[i]] = Charged(@, Charge[i])]
                        /\ entered' = [j \in Pending \cup {i} |->
                                         IF j = i THEN now ELSE entered[j]]
        /\ UNCHANGED <<stored, rejected, since, now>>

----------------------------------------------------------------------------
(* Leaving the buffer *)

\* settle_waiters_locked: the waits of a buffered operation once B is stored.
Settled(i, B) == records[i].missing \ B

\* admit_batch_locked, for a batch B of one topic: each member leaves the
\* buffer, and its waiters stop waiting for it.
Admit(B) ==
    LET kept == Pending \ B
    IN  /\ B # {} /\ B \cap stored = {}
        /\ \A i \in B : Deps[i] \subseteq stored \cup B
        /\ \A i, j \in B : TopicOf[i] = TopicOf[j]
        /\ stored' = stored \cup B
        /\ records' = [i \in kept |-> [records[i] EXCEPT !.missing = Settled(i, B)]]
        /\ waiters' = [d \in Op |-> IF d \in B THEN {} ELSE waiters[d] \ B]
        /\ ready' = (ready \ B) \cup
                    {i \in kept : records[i].missing \cap B # {} /\ Settled(i, B) = {}}
        /\ LET S == B \cap Pending
           IN  /\ total' = Refunded(total, S)
               /\ bySource' = [s \in Source |-> Refunded(bySource[s], From(S, s))]
               /\ byTopic' = [t \in Topic |-> Refunded(byTopic[t], In(S, t))]
        /\ entered' = [i \in kept |-> entered[i]]
        /\ UNCHANGED <<rejected, since, calls, now>>

\* Rejection order with the ids of `fresh' appended, the oldest dropped.
Remember(ids, fresh) ==
    LET all == ids \o fresh
    IN  IF Len(all) <= MaxRejected THEN all
        ELSE SubSeq(all, Len(all) - MaxRejected + 1, Len(all))

\* reject_pending_subtree, for a ready operation whose failure is permanent.
RejectSubtree(i) ==
    LET subtree == {i} \cup WaiterClosure(i)
        t == TopicOf[i]
        fresh == SetToSortSeq(subtree \ RejectedIds(t), <)
    IN  /\ i \in ready
        /\ RemovePending(subtree)
        /\ rejected' = [rejected EXCEPT ![t] = Remember(@, fresh)]
        /\ UNCHANGED <<stored, since, calls, now>>

\* purge_pending_waiters of a genesis that lost.
PurgeWaiters(g) ==
    /\ g \notin stored /\ Deps[g] = {} /\ waiters[g] # {}
    /\ RemovePending(WaiterClosure(g))
    /\ UNCHANGED <<stored, rejected, since, calls, now>>

\* expire_pending: forgets the times of what left the buffer, times what it
\* sees first, and drops what waited too long along with its waiters.
ExpirePending ==
    LET Seen(i) == IF i \in DOMAIN since THEN since[i] ELSE now
        expired == {i \in Pending : Seen(i) + MaxIdle < now}
        subtrees == expired \cup UNION {WaiterClosure(i) : i \in expired}
    IN  /\ Pending # {} \/ DOMAIN since # {}
        /\ RemovePending(subtrees)
        /\ since' = [i \in Pending \ subtrees |-> Seen(i)]
        /\ UNCHANGED <<stored, rejected, calls, now>>

\* reset_topic_locked, within a turn of the topic.
ResetTopic(t) ==
    /\ In(stored, t) # {}
    /\ \A c \in calls : TopicOf[c.op] # t
    /\ stored' = stored \ In(stored, t)
    /\ RemovePending(In(Pending, t))
    /\ rejected' = [rejected EXCEPT ![t] = << >>]
    /\ UNCHANGED <<since, calls, now>>

Tick ==
    /\ now < MaxTime
    /\ now' = now + 1
    /\ UNCHANGED <<stored, records, waiters, ready, total, bySource, byTopic, rejected, since,
                   calls, entered>>

----------------------------------------------------------------------------

Init ==
    /\ stored = {}
    /\ records = [i \in {} |-> {}]
    /\ waiters = [d \in Op |-> {}]
    /\ ready = {}
    /\ total = NoUsage
    /\ bySource = [s \in Source |-> NoUsage]
    /\ byTopic = [t \in Topic |-> NoUsage]
    /\ rejected = [t \in Topic |-> << >>]
    /\ since = [i \in {} |-> 0]
    /\ calls = {}
    /\ now = 0
    /\ entered = [i \in {} |-> 0]

Next ==
    \/ \E s \in Source, i \in Op : Read(s, i)
    \/ \E c \in calls : PutPending(c)
    \/ \E B \in SUBSET Op : Admit(B)
    \/ \E i \in ready : RejectSubtree(i)
    \/ \E g \in Op : PurgeWaiters(g)
    \/ ExpirePending
    \/ \E t \in Topic : ResetTopic(t)
    \/ Tick

Spec == Init /\ [][Next]_vars

----------------------------------------------------------------------------
(* Properties *)

\* The tables have the shapes their code gives them.
TypeOK ==
    /\ stored \subseteq Op
    /\ Pending \subseteq Op
    /\ records \in [Pending -> [source : Source, missing : SUBSET Op]]
    /\ waiters \in [Op -> SUBSET Op]
    /\ ready \subseteq Op
    /\ calls \subseteq [op : Op, source : Source, missing : SUBSET Op]
    /\ DOMAIN rejected = Topic
    /\ \A t \in Topic : RejectedIds(t) \subseteq In(Op, t) /\ Len(rejected[t]) <= MaxRejected
    /\ now \in Nat

\* The two indexes say what the records say, after any history of puts,
\* admissions, rejections, purges, sweeps and resets: an operation is found
\* under each dependency it misses and under no other, and the drain sees
\* exactly the operations with nothing left to wait for.
IndexesAgree ==
    /\ \A d \in Op : waiters[d] = {i \in Pending : d \in records[i].missing}
    /\ ready = {i \in Pending : records[i].missing = {}}

\* A buffered operation waits for exactly its dependencies that are not stored,
\* although they were read ahead of the put: none is left waiting for what has
\* arrived, and none is offered to the drain too early.
WaitsExact == \A i \in Pending : i \notin stored /\ records[i].missing = Deps[i] \ stored

\* The counters are the sums over the records, so no refund can underflow, and
\* they respect the quotas of the pool, of each source and of each topic.
UsageExact ==
    LET Used(S) == [ops |-> Cardinality(S), bytes |-> BytesOf(S)]
        Within(usage, ops, bytes) == usage.ops <= ops /\ usage.bytes <= bytes
    IN  /\ total = Used(Pending) /\ Within(total, MaxOps, MaxBytes)
        /\ \A s \in Source : /\ bySource[s] = Used(From(Pending, s))
                             /\ Within(bySource[s], MaxSourceOps, MaxSourceBytes)
        /\ \A t \in Topic : /\ byTopic[t] = Used(In(Pending, t))
                            /\ Within(byTopic[t], MaxTopicOps, MaxTopicBytes)
        /\ \A d \in Op : Cardinality(waiters[d]) <= MaxWaiters

\* Nothing rejected is buffered, and nothing waits for it, as long as the
\* rejection is remembered, and the memory holds no id twice.
RejectedStaysOut ==
    \A t \in Topic :
       /\ Cardinality(RejectedIds(t)) = Len(rejected[t])
       /\ \A i \in In(Pending, t) :
             ({i} \cup records[i].missing) \cap RejectedIds(t) = {}

\* An operation expires only when it, or a buffered one it waits for, has been
\* in the buffer for longer than the idle time.
ExpiryStep ==
    ExpirePending =>
       \A i \in Pending \ DOMAIN records' :
          \E j \in Pending : /\ i = j \/ i \in WaiterClosure(j)
                             /\ entered[j] + MaxIdle < now
ExpiresOnlyIdle == [][ExpiryStep]_vars
=============================================================================
