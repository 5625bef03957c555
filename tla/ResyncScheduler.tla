-------------------------- MODULE ResyncScheduler --------------------------
(***************************************************************************)
(* The resync scheduler (src/iroh/scheduler.rs) and the loop that serves   *)
(* it (src/iroh/mod.rs): callers request a resync of a (peer, topic)       *)
(* target, the loop claims due targets for batch tasks, and every claim is *)
(* completed, or released when its task is aborted.                        *)
(*                                                                         *)
(* Time is abstracted to its order: `queue' holds the unclaimed targets    *)
(* whose next_due has passed, in next_due order; an unclaimed target that  *)
(* is not in it waits for its deadline.  A failure count is zero or not.   *)
(***************************************************************************)
EXTENDS Integers, FiniteSets, SequencesExt

CONSTANTS
    Peer,          \* remote peers
    Topic,         \* topics
    MaxSlots,      \* MAX_RESYNC_PEERS: outbound peer slots
    MaxTopics,     \* MAX_RESYNC_TOPICS: targets of one turn
    MaxManual,     \* manual syncs at a time
    Overrun,       \* the deadline of a batch may pass while it publishes results
    MaxAttempt,    \* u64::MAX: attempt ids before exhaustion
    MaxRequests    \* requests in all

ASSUME BoundsAssumption ==
    /\ MaxSlots \in Nat \ {0}
    /\ MaxTopics \in Nat \ {0}
    /\ MaxManual \in Nat
    /\ Overrun \in BOOLEAN
    /\ MaxAttempt \in Nat
    /\ MaxRequests \in Nat

Key == Peer \X Topic
PeerOf(k) == k[1]

VARIABLES
    targets,    \* key -> ScheduledResync, for the keys in the map
    queue,      \* unclaimed targets that are due, oldest deadline first
    live,       \* attempts registered as live
    held,       \* claims owned by a lease or a claim guard
    tasks,      \* turns in the JoinSet
    ended,      \* those of them that have finished
    manual,     \* manual syncs that hold an outbound slot
    attempt,    \* NEXT_ATTEMPT
    loop,       \* "dispatch", "arm" the deadline, or "wait" in the select
    armed,      \* the targets whose deadline the loop sleeps for
    permit,     \* the stored permit of `notify'
    asked,      \* asked[k]: requests made for k so far
    served,     \* served[k]: requests a clean attempt is known to cover
    forced,     \* forced[k]: the number of the newest force request
    pushed      \* pushed[k]: the newest force request that an attempt covered

targetVars == <<targets, queue>>
loopVars == <<tasks, ended, loop, armed>>
ghostVars == <<asked, served, forced, pushed>>
vars == <<targets, queue, live, held, tasks, ended, manual, attempt, loop, armed, permit,
          asked, served, forced, pushed>>

----------------------------------------------------------------------------
(* Targets *)

None == 0

Target(requested, active, force, failing) ==
    [requested |-> requested, active |-> active, force |-> force, failing |-> failing]

Known(k) == k \in DOMAIN targets
Claimed(k) == Known(k) /\ targets[k].active # None
Due(k) == k \in ToSet(queue)

With(k, target) == [j \in DOMAIN targets \cup {k} |-> IF j = k THEN target ELSE targets[j]]
Without(k) == [j \in DOMAIN targets \ {k} |-> targets[j]]
Enqueue(k) == IF Due(k) THEN queue ELSE Append(queue, k)

\* Fault: due_targets does not ask which peers have a turn.
NeverBusy(p) == FALSE

\* busy_peers: a peer takes one turn at a time.
Busy(p) == \E k \in DOMAIN targets : PeerOf(k) = p /\ targets[k].active # None

----------------------------------------------------------------------------
(* Requests *)

\* Fault: new work takes the target from the attempt that owns it.
RequestedAnew(t, force) ==
    Target(t.requested + 1, None, IF force THEN t.requested + 1 ELSE t.force, t.failing)

\* A known target with one more request: its attempt keeps it.
Requested(t, force) ==
    Target(t.requested + 1, t.active, IF force THEN t.requested + 1 ELSE t.force, t.failing)

\* Bound: no more than MaxRequests requests are made.
MayAsk == FoldFunction(+, 0, asked) < MaxRequests

\* schedule_after without a delay, the only way it is called.
Schedule(k, force) ==
    /\ MayAsk
    /\ IF Known(k)
       THEN /\ targets' = With(k, Requested(targets[k], force))
            /\ queue' = IF ~Claimed(k) /\ (~targets[k].failing \/ force)
                        THEN Enqueue(k) ELSE queue
       ELSE /\ targets' = With(k, Target(1, None, IF force THEN 1 ELSE None, FALSE))
            /\ queue' = Append(queue, k)
    /\ asked' = [asked EXCEPT ![k] = @ + 1]
    /\ forced' = IF force THEN [forced EXCEPT ![k] = asked[k] + 1] ELSE forced
    /\ permit' = TRUE
    /\ UNCHANGED <<live, held, loopVars, manual, attempt, served, pushed>>

\* reconsider: the tables and the wake-up it leaves, for its callers.
Reconsider(k) ==
    IF Claimed(k) THEN UNCHANGED <<targets, queue, permit, asked>>
    ELSE /\ IF Known(k)
            THEN /\ UNCHANGED targets
                 /\ queue' = IF targets[k].failing THEN queue ELSE Enqueue(k)
            ELSE /\ targets' = With(k, Target(1, None, None, FALSE))
                 /\ queue' = Append(queue, k)
         /\ permit' = TRUE
         /\ asked' = [asked EXCEPT ![k] = @ + 1]

\* reconsider_target, once peer evidence shows the target needs a sync.
ReconsiderTarget(k) ==
    /\ MayAsk
    /\ Reconsider(k)
    /\ UNCHANGED <<live, held, loopVars, manual, attempt, served, forced, pushed>>

\* peer_reachable: the backoff of every target of the peer ends.
PeerReachable(p) ==
    LET failing == {k \in DOMAIN targets : PeerOf(k) = p /\ targets[k].failing}
        rearmed == {k \in failing : targets[k].active = None /\ ~Due(k)}
    IN  /\ failing # {}
        /\ targets' = [k \in DOMAIN targets |->
              IF k \in failing
              THEN Target(targets[k].requested, targets[k].active, targets[k].force, FALSE)
              ELSE targets[k]]
        /\ \E order \in SetToSeqs(rearmed) : queue' = queue \o order
        /\ permit' = TRUE
        /\ UNCHANGED <<live, held, loopVars, manual, attempt, ghostVars>>

\* The deadline of a waiting target passes.
Elapse(k) ==
    /\ Known(k) /\ ~Claimed(k) /\ ~Due(k)
    /\ queue' = Append(queue, k)
    /\ UNCHANGED <<targets, live, held, loopVars, manual, attempt, permit, ghostVars>>

----------------------------------------------------------------------------
(* The loop *)

FreePermits == MaxSlots - Cardinality(tasks \ ended) - Cardinality(manual)

\* The slots dispatch_due_resyncs takes: finished tasks count until joined.
Slots ==
    IF FreePermits < MaxSlots - Cardinality(tasks) THEN FreePermits
    ELSE MaxSlots - Cardinality(tasks)

\* due_targets: by deadline, one turn for each of the first peers, and no turn
\* for a peer that already has one.
Ready == SelectSeq(queue, LAMBDA k : ~Busy(PeerOf(k)))

Picked(slots) ==
    LET Mine(i) == {j \in 1..Len(Ready) : PeerOf(Ready[j]) = PeerOf(Ready[i])}
        Ahead(i) == {PeerOf(Ready[j]) : j \in {l \in 1..Len(Ready) :
                                                 \A m \in Mine(i) : l < m}}
    IN  {i \in 1..Len(Ready) :
           /\ Cardinality(Ahead(i)) < slots
           /\ Cardinality({j \in Mine(i) : j < i}) < MaxTopics}

\* The claims taken for the picked positions, while attempt ids last.  They are
\* numbered by deadline, where the code goes peer by peer: the order shows only
\* in which of them are refused at exhaustion.
Claims(slots) ==
    LET Number(i) == attempt + Cardinality({j \in Picked(slots) : j < i})
        Turn(i) == CHOOSE n \in {Number(j) : j \in Picked(slots)} :
                      \E j \in Picked(slots) :
                         /\ n = Number(j) /\ PeerOf(Ready[j]) = PeerOf(Ready[i])
                         /\ \A l \in Picked(slots) :
                               PeerOf(Ready[l]) = PeerOf(Ready[i]) => j <= l
    IN  {[key     |-> Ready[i],
          attempt |-> Number(i),
          covered |-> targets[Ready[i]].requested,
          force   |-> targets[Ready[i]].force,
          turn    |-> Turn(i),
          stage   |-> "lease",
          upto    |-> asked[Ready[i]]] :
            i \in {j \in Picked(slots) : Number(j) <= MaxAttempt}}

\* dispatch_due_resyncs: takes the free slots, claims that many peers' turns,
\* and spawns a batch task for each.
Dispatch ==
    /\ loop = "dispatch"
    /\ LET claims == IF Slots = 0 THEN {} ELSE Claims(Slots)
           ClaimOf(k) == CHOOSE c \in claims : c.key = k
           keys == {c.key : c \in claims}
           turns == {c.turn : c \in claims}
       IN  /\ targets' = [k \in DOMAIN targets |->
                 IF k \in keys
                 THEN Target(targets[k].requested, ClaimOf(k).attempt, targets[k].force,
                             targets[k].failing)
                 ELSE targets[k]]
           /\ queue' = SelectSeq(queue, LAMBDA k : k \notin keys)
           /\ live' = live \cup {<<c.key, c.attempt>> : c \in claims}
           /\ held' = held \cup claims
           /\ tasks' = tasks \cup turns
           /\ attempt' = attempt + Cardinality(claims)
    /\ loop' = "arm"
    /\ UNCHANGED <<ended, armed, manual, permit, ghostVars>>

\* next_due: behind a peer's turn no deadline is armed.
ArmedTargets == {k \in DOMAIN targets : ~Claimed(k) /\ ~Busy(PeerOf(k))}

\* next_resync_wake: with every slot taken no deadline is armed at all.
Arm ==
    LET inFlight == Max({MaxSlots - FreePermits, Cardinality(tasks)})
    IN  /\ loop = "arm"
        /\ armed' = IF inFlight >= MaxSlots THEN {} ELSE ArmedTargets
        /\ loop' = "wait"
        /\ UNCHANGED <<targetVars, live, held, tasks, ended, manual, attempt, permit,
                       ghostVars>>

\* The select of spawn_resync_loop: a finished task, a notification, or the
\* deadline it armed.
Wake ==
    /\ loop = "wait"
    /\ \/ \E t \in ended : tasks' = tasks \ {t} /\ ended' = ended \ {t} /\ UNCHANGED permit
       \/ permit /\ permit' = FALSE /\ UNCHANGED <<tasks, ended>>
       \/ (\E k \in armed : Due(k)) /\ UNCHANGED <<tasks, ended, permit>>
    /\ loop' = "dispatch"
    /\ armed' = {}
    /\ UNCHANGED <<targetVars, live, held, manual, attempt, ghostVars>>

----------------------------------------------------------------------------
(* Claims *)

\* A completion whose claim does not own its target returns early; OwnerKnown
\* shows that this never happens to a claim that is still held.
Owns(c) == Known(c.key) /\ targets[c.key].active = c.attempt
Consume(c) == Owns(c) /\ held' = held \ {c}

\* Fault: a completion ends every attempt of its target.
EndTarget(c) == live' = {l \in live : l[1] # c.key}

\* end_attempt: only the attempt itself.
EndAttempt(c) == live' = live \ {<<c.key, c.attempt>>}

\* publish_results, or the timeout's drain: claims of the lease that have a
\* result move into guards that a control job owns.
Publish(cs) ==
    /\ \A c \in cs : c.stage = "lease"
    /\ held' = (held \ cs) \cup {[c EXCEPT !.stage = "job"] : c \in cs}
    /\ UNCHANGED <<targetVars, live, loopVars, manual, attempt, permit, ghostVars>>

\* Fault: only a newer force request counts as newer work.
NewerForce(c) == targets[c.key].force # c.force

\* Work that arrived during the attempt.
NewerWork(c) == targets[c.key].requested # c.covered \/ targets[c.key].force # c.force

\* complete_clean: the entry goes unless work arrived during the attempt.
CleanTarget(c) ==
    LET k == c.key
        t == targets[k]
    IN  /\ IF NewerWork(c)
           THEN /\ targets' = With(k, Target(t.requested, None, t.force, FALSE))
                /\ queue' = Append(queue, k)
                /\ permit' = TRUE
           ELSE /\ targets' = Without(k)
                /\ UNCHANGED <<queue, permit>>
        /\ served' = [served EXCEPT ![k] = c.upto]
        /\ pushed' = IF c.force # None THEN [pushed EXCEPT ![k] = c.upto] ELSE pushed
        /\ UNCHANGED <<loopVars, manual, attempt, asked, forced>>

\* should_attempt finds nothing to do: completed without an exchange.
SkipClean(c) ==
    /\ c.stage = "lease"
    /\ Consume(c)
    /\ CleanTarget(c)
    /\ UNCHANGED live

\* record_results of a topic whose exchange left nothing to do.
CompleteClean(c) ==
    /\ c.stage = "job"
    /\ Consume(c) /\ EndAttempt(c)
    /\ CleanTarget(c)

\* Fault: every force request counts as served.
ForceServed(c) == None

\* Only the force request that the attempt covered is served.
ForceAfter(c) == IF targets[c.key].force = c.force THEN None ELSE targets[c.key].force

\* complete_dirty: the next page, or the next interval, of the same target.
CompleteDirty(c) ==
    LET k == c.key
        t == targets[k]
    IN  /\ c.stage = "job"
        /\ Consume(c) /\ EndAttempt(c)
        /\ targets' = With(k, Target(t.requested, None, ForceAfter(c), FALSE))
        /\ queue' = IF t.requested = c.covered THEN queue ELSE Append(queue, k)
        /\ permit' = TRUE
        /\ pushed' = IF c.force # None THEN [pushed EXCEPT ![k] = c.upto] ELSE pushed
        /\ UNCHANGED <<loopVars, manual, attempt, asked, served, forced>>

\* complete_failed: retried after a backoff, and then whatever evidence says.
CompleteFailed(c) ==
    LET k == c.key
        t == targets[k]
    IN  /\ c.stage = "job"
        /\ Consume(c) /\ EndAttempt(c)
        /\ targets' = With(k, Target(t.requested, None, t.requested, TRUE))
        /\ permit' = TRUE
        /\ UNCHANGED <<queue, loopVars, manual, attempt, ghostVars>>

\* release_claim, from the Drop of a lease or of a claim guard: its task was
\* aborted or panicked, or its job never ran.
ReleaseClaim(c) ==
    LET k == c.key
        t == targets[k]
    IN  /\ Consume(c) /\ EndAttempt(c)
        /\ targets' = With(k, Target(t.requested, None, t.force, t.failing))
        /\ permit' = TRUE
        /\ UNCHANGED <<queue, loopVars, manual, attempt, ghostVars>>

\* A batch task ends once its lease is empty and the jobs it awaits have run.
\* A batch whose deadline passes in that await drops it, not the job: the
\* guards of a job outlive the task.
TaskEnds(turn) ==
    /\ turn \in tasks \ ended
    /\ \A c \in held : c.turn = turn => Overrun /\ c.stage = "job"
    /\ ended' = ended \cup {turn}
    /\ UNCHANGED <<targetVars, live, held, tasks, manual, attempt, loop, armed, permit,
                   ghostVars>>

----------------------------------------------------------------------------
(* Manual syncs *)

\* A manual sync takes a slot and registers an attempt for its topics.  (Once
\* ids are exhausted it would register nothing; that is left out.)
ManualStart(p, topics) ==
    /\ Cardinality(manual) < MaxManual /\ FreePermits > 0
    /\ attempt <= MaxAttempt
    /\ attempt' = attempt + 1
    /\ LET keys == {p} \X topics
       IN  /\ live' = live \cup (keys \X {attempt})
           /\ manual' = manual \cup {[attempt |-> attempt, keys |-> keys, stage |-> "sync"]}
    /\ UNCHANGED <<targetVars, held, loopVars, permit, ghostVars>>

\* The result of one topic: counted, then reported as evidence.
ManualRecord(m, k) ==
    /\ m.stage = "sync" /\ k \in m.keys
    /\ MayAsk
    /\ live' = live \ {<<k, m.attempt>>}
    /\ manual' = (manual \ {m}) \cup {[m EXCEPT !.keys = @ \ {k}]}
    /\ Reconsider(k) \/ UNCHANGED <<targets, queue, permit, asked>>
    /\ UNCHANGED <<held, loopVars, attempt, served, forced, pushed>>

\* The sync returns: LiveAttempts ends what was not recorded, and the Drop of
\* the slot notifies the loop ahead of the permit, a field of it.
ManualReturn(m) ==
    /\ m.stage = "sync"
    /\ live' = {l \in live : l[2] # m.attempt}
    /\ permit' = TRUE
    /\ manual' = (manual \ {m}) \cup {[m EXCEPT !.stage = "notified"]}
    /\ UNCHANGED <<targetVars, held, loopVars, attempt, ghostVars>>

ManualRelease(m) ==
    /\ m.stage = "notified"
    /\ manual' = manual \ {m}
    /\ UNCHANGED <<targetVars, live, held, loopVars, attempt, permit, ghostVars>>

----------------------------------------------------------------------------

Init ==
    /\ targets = [k \in {} |-> None]
    /\ queue = << >>
    /\ live = {}
    /\ held = {}
    /\ tasks = {} /\ ended = {}
    /\ manual = {}
    /\ attempt = 1
    /\ loop = "dispatch"
    /\ armed = {}
    /\ permit = FALSE
    /\ asked = [k \in Key |-> 0]
    /\ served = [k \in Key |-> 0]
    /\ forced = [k \in Key |-> 0]
    /\ pushed = [k \in Key |-> 0]

\* What ends a claim: its batch is bounded by a deadline, and every way out of
\* it settles the claim or drops it.
Settle(c) ==
    SkipClean(c) \/ CompleteClean(c) \/ CompleteDirty(c)
    \/ CompleteFailed(c) \/ ReleaseClaim(c)

Next ==
    \/ \E k \in Key : \/ \E force \in BOOLEAN : Schedule(k, force)
                      \/ ReconsiderTarget(k)
                      \/ Elapse(k)
    \/ \E p \in Peer : PeerReachable(p)
    \/ Dispatch
    \/ Arm
    \/ Wake
    \/ \E cs \in SUBSET held \ {{}} : Publish(cs)
    \/ \E c \in held : Settle(c)
    \/ \E t \in tasks : TaskEnds(t)
    \/ \E p \in Peer : \E topics \in SUBSET Topic \ {{}} : ManualStart(p, topics)
    \/ \E m \in manual : \/ \E k \in m.keys : ManualRecord(m, k)
                        \/ ManualReturn(m)
                        \/ ManualRelease(m)

Spec == Init /\ [][Next]_vars

\* The runtime polls the loop and the tasks, deadlines pass, and syncs return.
Fairness ==
    /\ WF_vars(Dispatch) /\ WF_vars(Arm) /\ WF_vars(Wake)
    /\ \A k \in Key : /\ WF_vars(Elapse(k))
                      /\ WF_vars(\E c \in held : c.key = k /\ Settle(c))
    /\ WF_vars(\E t \in tasks : TaskEnds(t))
    /\ WF_vars(\E m \in manual : ManualReturn(m) \/ ManualRelease(m))

FairSpec == Spec /\ Fairness

----------------------------------------------------------------------------
(* Properties *)

\* The map, the queue and the counters keep their types, and the outbound slots
\* are never oversubscribed by tasks, finished ones included, and manual syncs
\* (dispatch_due_resyncs).
TypeOK ==
    /\ DOMAIN targets \subseteq Key
    /\ \A k \in DOMAIN targets :
          /\ targets[k].requested \in 1..MaxRequests
          /\ targets[k].active \in 0..MaxAttempt
          /\ targets[k].force \in 0..targets[k].requested
    /\ ToSet(queue) \subseteq {k \in DOMAIN targets : ~Claimed(k)}
    /\ live \subseteq Key \X (1..MaxAttempt)
    /\ ended \subseteq tasks
    /\ Cardinality(tasks \ ended) + Cardinality(manual) <= MaxSlots
    /\ Cardinality(tasks) <= MaxSlots
    /\ attempt \in 1..(MaxAttempt + 1)

\* A claimed target has exactly one owner, and a claim that is held owns its
\* target: no abort, timeout or lost job leaves a target in flight for ever
\* (ResyncLease, ClaimGuard).
OwnerKnown ==
    /\ \A c \in held : Known(c.key) /\ targets[c.key].active = c.attempt
    /\ \A k \in DOMAIN targets :
          targets[k].active # None =>
             \E c \in held : c.key = k /\ \A d \in held \ {c} : d.key # k

\* A request is never forgotten: a target leaves the scheduler only when an
\* attempt that began after its newest request found nothing left to do
\* (complete_clean).
NoLostRequest == \A k \in Key : ~Known(k) => served[k] = asked[k]

\* A force request stays until an attempt that saw it has run, however many
\* attempts were in flight when it was made.
ForceSurvives ==
    \A k \in Key : forced[k] > pushed[k] => Known(k) /\ targets[k].force # None

\* A peer has one turn at a time: every claim held on it came from the same
\* dispatch (busy_peers, due_targets).
OneTurn == \A c, d \in held : PeerOf(c.key) = PeerOf(d.key) => c.turn = d.turn

\* What is still owed a completion is live: the first completion of a claim, or
\* of a manual sync's topic, is counted, whatever other syncs of the same target
\* start and end meanwhile (end_attempt, LiveAttempts).
OwedIsLive ==
    /\ \A c \in held : <<c.key, c.attempt>> \in live
    /\ \A m \in manual : m.stage = "sync" => \A k \in m.keys : <<k, m.attempt>> \in live

\* A target that is due is claimed, unless attempt ids are exhausted: the loop
\* misses no wake-up, though requests, completions and finished tasks race its
\* way into the select.
DueIsClaimed == \A k \in Key : Due(k) ~> (~Due(k) \/ attempt > MaxAttempt)
=============================================================================
