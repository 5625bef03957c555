# A TLA+ verification project for irokle

irokle replicates topics as signed Merkle DAGs of operations. Peers create
operations locally, exchange them in pages, and must end with the same history
whatever the order of delivery. This directory models the parts of the code
where that is hard, checks them with TLC and proves the central facts of the
operation log and of the pending buffer with TLAPS. Paths below are relative to
the crate's `src/`.

## Parts

| Part | Source | State | Hard behaviour | Module |
|---|---|---|---|---|
| Operation log | `oplog/admission.rs`, `topology.rs`, `membership.rs`, `creation.rs`, `genesis.rs`, `pending.rs` | operations, heads, topic state, journal, seal, rejected ids | order and overlap of batches, membership judged at the dependencies, rival geneses, forks after a lost store | `Oplog` |
| Pending buffer | `storage/memory/mod.rs`, `storage/record.rs` | records, waiters, ready index, usage, rejections, first-seen times | puts based on an earlier read; six ways out must keep every index and counter | `PendingBuffer` |
| Resync scheduler and loop | `iroh/scheduler.rs`, `iroh/mod.rs` | targets, live attempts, tasks, slots, armed deadline | requests during an attempt, aborted tasks, late completions, missed wake-ups | `ResyncScheduler` |
| Sync pages | `sync/request.rs`, `plan.rs`, `continuation.rs`, `mod.rs`, `types.rs` | the requester's window, the responder's plan | bounded slices and windows over a moving history, plans resumed late | `PagePlan` |
| Peer evidence | `sync/evidence.rs`, `storage/evidence.rs` | acknowledgements, obligations | checked in one snapshot, applied in another transaction | `Evidence` |
| Sync attempts | `iroh/mod.rs`, `iroh/session.rs`, `node/mod.rs` | attempts at both ends, streams | crossing attempts, writes and resets in between, lost and late streams | `Exchange` (with `Evidence`) |
| Bootstrap and staging | `node/bootstrap.rs`, `storage/fjall/provisional.rs`, `storage/memory/staging.rs` | namespaces, slots, activation claims | a crash between any two transactions, two sources and branches of a topic | `TopicBirth`, `FjallStaging` |
| Fjall store | `storage/fjall/store.rs`, `fjall/pending.rs` | the rows of a topic, schema, migration cursor | bounded upgrade and purge, crashes, a second facade | `FjallStore` (with `ActorClock`) |
| Actor clocks | `clock.rs`, `clock_store.rs`, `clock_scan.rs` | trie nodes, stored nodes, cache | equal clocks of different shape, shared nodes, reference counts | `ActorClock` |

How they interact: the node (`node/`) writes through the operation log, which
commits to a store; the store holds the history with its clocks, the pending
buffer, the journal and the evidence. The resync loop asks the scheduler which
(peer, topic) targets are due and runs sync attempts. An attempt plans pages,
which the other end admits to its log, and exchanges acknowledgements, which
settle what is owed. A topic the node is not yet a member of is staged first.

`PROJECT.json` lists every part of the crate, those without a module included.

## Modules

Operators whose comment begins with "Fault" or "Mutant" are deliberate errors;
each is substituted for the definition that follows it to confirm that a
property notices.

### Oplog

Replicas of one topic. `signed` maps every id ever signed to its body; a body
carries its whole ancestry (`past`), which stands for the observed clock. For
each replica: `ops`, `heads`, `topic` (the `TopicState` record), `pending`,
`rejected`, `journal` (evictions), `sealed`. `released` (evictions handed back)
and `lost` (stores that were lost) are history.

| Action | Code |
|---|---|
| `CreateTopic`, `CreateTopicWithEvent` | `create_topic_effects`, `create_genesis_effects` |
| `CreateEvent`, `CreateControl` | `create_local_effects` with `next_local_op`, `validate_op`, `topic_state_after` |
| `ReceiveSome`, `ReceiveFrom` | `receive_ops_admission`: `resolve_genesis_collision`, `build_batch`, `put_admitted_batch` or `reset_topic_and_admit`, then the buffering of the rest |
| `Serves` | who offers what to whom: a peer outside the membership is owed nothing (`node/mod.rs`, `sync/evidence.rs`) |
| `Drain` | the drain loop of `receive_ops_admission`, one ready operation, with `pending_verdict` and `reject_pending_subtree` |
| `ExpirePending`, `ClearEviction`, `SealTopic` | the storage calls of these names |
| `SignForeign`, `LoseStore` | environment: other software that signs records; a store restored from nothing |

Ids are integers, so the order of hashes that the tie-break compares is the
order of numbers. Signatures always verify. `AdmitError` and `PendingError`
return the first failing check in the order of the code. A batch is one atomic
step: admission commits under an expected state and is repeated otherwise. Byte
limits, the projection cache, the binding of a receive to one genesis (it
belongs to the session) and the repair of half-stored records are left out.

### PendingBuffer

The tables of the memory store for buffered operations, over a fixed dependency
graph. `Read` is the part of a call that reads the missing dependencies;
`PutPending` is `put_pending_bound`, later, under the lock; between them
`Admit`, `RejectSubtree`, `PurgeWaiters`, `ExpirePending` may run. A reset of
the topic waits for its turn. `Answer` gives the checks of the put in their
order. `entered` is history: when an operation was last buffered. The branch of
the put for a known operation with other missing dependencies is translated and
never taken, which `WaitsExact` explains: both lists are exact.

### ResyncScheduler

The target map, the loop, the batch tasks and manual syncs. Time is reduced to
order: `queue` holds the unclaimed targets whose deadline has passed; `Elapse`
lets one pass. `held` is the set of claims, each in its task's lease or in the
guards of a control job; `tasks` and `ended` are the JoinSet; `permit` is the
stored notification. `Overrun` says whether the deadline of a batch can pass
while a control job holds claims of it: the await is dropped and the job goes
on. `asked`, `served`, `forced`, `pushed` are history. A failure count is zero
or not; the sweep and the persisted obligations appear as calls of `Schedule`.

### PagePlan

One requester that is behind and one responder. An operation is the pair
(actor, seq); a clock maps actors to prefixes. `Request` builds hints and a
window from the requester's clock and its `RequestKnowledge`; `Begin` takes up a
kept plan, replays an unconfirmed offer or starts a plan; the steps of
`PlanStep` are the loop of `Pager::plan`, one charge of the slice each:
selection and filling of the active heads, the wait for dependencies, with
suspension, waking and blocking; `Finish` closes the page and keeps the plan;
`Receive` admits it and settles the window. The updates of suspended heads (wake,
raise, finish, stop) are the queue of `Pager::settle`, one head and one charge
at a time, so a slice may end inside one and the next request goes on there. A
kept plan is taken up again only for a request of the same window or, when
informed, of the same scope (which names the requester's staging session), whose
hints agree with what the plan offered (`Continuation::resume`). A replayed offer charges the slice for each
operation too; with the slice it was planned under it always fits, since
planning charged at least as much. A filter may wrongly hold an actor
(`Collisions`). `Mode` distinguishes a named window, an informed request (the
responder knows the requester's clock) and a push. Exchanges are cut, plans
dropped, the requester's store lost, operations come from elsewhere, the
responder grows and loses records. All operations have one size.

### Evidence and Exchange

`Evidence` holds the decisions as operators: what an acknowledgement certifies
here (`Certified`), what may be committed (`AckCommit`), how evidence merges,
and what of an obligation remains (`Settled`). `Exchange` gives them a state: for
every node its history, buffer, evidence and debts, and for every link one
attempt, whose steps follow the code from `Greet` (fingerprints) over `Match`,
`Plan`, `Send`, `Admit`, `Reply`, `Fold`, `Certify`, `Apply`, the follow-up
(`AdmitFollow`, `Prove`, `Settle`) to `Measure`. Where the code reads in one
transaction and writes in another, the two are steps of their own (`Vouch`,
`Attest`, `Confirm`, `Reconsider`, `Acknowledge`, `Return`, `Follow`). `Create`, `Publish`, `Elsewhere` write;
`AskObligation` and `PutObligation` are the two halves of `put_obligation`.
`Lose` cuts a stream at any stage, which also covers a node that stops;
`Abandon` leaves a stream that `LateAdmit` and `LateProve` serve afterwards.
`seen` is history: what a node ever held. Left out: integrity holes in admitted
history, whitelists, sealed topics and the journal (in `Oplog`), receipts and
request logs, two attempts of one node to one peer at a time, the status
records, and the choice of sync peers (every other member is one). Every
modelled node is named by the genesis, so staging does not arise.

### TopicBirth and FjallStaging

`TopicBirth` is the promise: history of a topic the node does not hold stays in
a stage per source, and the topic appears in one step with the whole contiguous
history of one stage; the memory store does this under one lock. `FjallStaging`
is the Fjall store's way: namespaces in a pool of slots, sessions, an activation
that claims the topic, copies in chunks and publishes, slots cleared in chunks,
calls ordered by an owner lock per topic, and `Crash` and `Restart` between any
two transactions, with `resume_bootstraps`. A slot holds admitted operations
(`disk`) and buffered ones (`buf`): a fragment is admitted as far as its past is
there (`Admit`), the rest is buffered one transaction each under the quotas
(`Buffer`), and what became ready is admitted from the buffer (`DrainReady`),
where an operation that does not fit stays. `Publish` moves the buffered
operations of every stage of the branch into the topic's own buffer, or fails as
a whole on its quotas (`Moved`, `PendingFits`). A conflict at the activation is
settled in the steps of the code: the state of the topic is read
(`ActivationConflict`), the stage looked up again (`StaleStage`) and discarded
(`DropStage`). The operations of a branch are a chain, so the quota on waiters
never binds. A rejected id exists only in a topic that has a state, and a reset
drops it, so an activation meets none to skip. The refinement mapping reads a stage
from a registered namespace and a topic from its state record (`Births`).

### ActorClock and FjallStore

`ActorClock` translates the radix trie (`Union`, `SetNode`, `SelectedNode` and
the operations over them), the visiting and loading of stored nodes, the cache
with its reference counts and the scan that validates a copied set of nodes. A
node stands for its hash; the hash is taken to be free of collisions.
`FjallStore` keeps the rows of one topic by key prefix and has a step for each
transaction: `Open`, `LegacyStep` (the phases of the upgrade from schema 1, the
transaction halved when it does not fit), `CheckVersion`, `ClockStep`;
`Plan`/`PlanReset`/`PlanRefill` build a batch and `Commit` admits it or is
refused; `Read` loads a clock through the cache; `Reject` drops a ready buffered
operation with what waits for it, and remembers the ids; `BeginPurge` to
`EndPurge` are the steps of `purge_topic`. A node of a clock is retained by its
allocation, and two allocations of one hash can be in the cache, as in the code. `Lose` takes a record or its metadata from the disk,
`Crash` closes every facade. Left out: the effects of an admission on
obligations (in `Exchange`), namespaces and quotas, the journal, other topics and
statistics rows. A conflict of the optimistic database only
repeats a transaction. Nobody uses the topic from the start of a purge until a
purge, resumed after any failure, has returned.

`MCOplog`, `MCPendingBuffer`, `MCPagePlan`, `MCExchange`, `MCFjallStaging` and
`MCFjallStore` give values to the constants.

## Runs

| Run | Checks | Bounds and why |
|---|---|---|
| `oplog_branches` | `OwnWorkKept`, `BranchDescends`, `BranchGrows` | 2 replicas, 3 rival geneses, 2 operations, a journal of 1, one replica may seal and the other lose its store: a replica can be reset twice and meet a full journal |
| `oplog_members` | `StateIsFold`, `LocalOpsAdmissible`, `MembersCanWrite`, `Convergence` | 2 replicas, rival geneses with the same founders, 3 controls: concurrent add and remove, mutual removal, and a write from either side of them; fair |
| `oplog_forks` | `BufferLive`, `ReadyIsDecided` | 2 replicas, 1 genesis, 3 operations, batches of 2; one store may be lost: its writer signs a slot twice |
| `oplog_foreign` | `ChainsLinked`, `Rooted`, `CausalMembership` | 2 arbitrary records with any position and links, an added member or a second genesis as payload, received together or apart, next to a topic with one event of its own |
| `resync_claims` | `OneTurn`, `OwnerKnown`, `NoLostRequest`, `ForceSurvives`, `OwedIsLive` | two targets of one peer, two slots, turns of one target, 2 requests in all, 3 attempts, a manual sync, `Overrun`: a request can arrive during an attempt, or for each target |
| `pending_indexes` | `IndexesAgree`, `WaitsExact`, `RejectedStaysOut`, `UsageExact` | a chain of 4 with a shortcut and a second topic, two interchangeable sources (symmetry), unequal sizes: three operations can wait for each other, and every quota can be met |
| `page_pull` | `PagesAdmissible`, `NothingHeldIsSent`, `PullCompletes` | 4 actors, requests that name 3, pages of 2, plans of 2 heads and 2 positions, slices of 4 charges, seven histories (descending, woven, joined, growing, damaged in three ways); one fault of each kind; fair |
| `staging_births` | `WholeHistory`, `ClaimOwned`, `StagedWithinLimits`, `AtomicBirth`, `ClaimCompletes` | 2 callers, 2 sources, 2 topics, 2 branches of 3 operations, 2 slots, 4 bytes, 2 buffered operations and 1 of a source, 3 calls, 1 crash, chunks of 2; some fragments have a gap: a copy takes two transactions, room has to be made, buffered operations become ready, a publication is refused, both branches compete; fair |
| `exchange_sync` | `AckSound`, `OwedOrHeld`, `OwedServable`, `CompleteIsTrue`, `Converges` | 2 nodes and a third that only writes, pages of 2, repair sets of 1; seven worlds: rival branches with crossing attempts, a lost stream, a caller's obligation, a branch that replaces the topic, forks over more than a page, a departure; fair |
| `store_rows` | `RowsExact`, `ClockIsPast`, `UpgradeKeeps`, `CacheExact`, `ClockAlgebra`, `Finishes` | 4 actors of 2 nibbles, clocks inline up to 1 entry, a cache of 9 nodes, upgrade transactions of 3 records and 2 clock entries; scenes: upgrade by two facades with little or more room and crashes, admission after an upgrade, fresh histories of any shape, a reset with a loss and a crash, purges in steps of 1, 2 and 3 with buffered and rejected operations, a new history after the reset or purge of one whose clocks are in nodes; fair |

`AtomicBirth` is the refinement: `FjallStaging` implements `TopicBirth`.

`Convergence` is claimed only where rival geneses name the same initial peers
and no topic is sealed. Elsewhere it does not hold, by design: `same_peers`
rejects a genesis that names other peers, and a seal keeps the local branch. It
is not claimed after a lost store either, where a writer may fork its own chain.
It binds a pair of replicas only while the one serves the other (`Serves`); the
crate's README says itself that two members that remove each other are not
reconciled. `Converges` excludes forks for the same reason, a receiver
that removed the other, and one without the topic whose only source has left it;
it leaves out a pair whose receiver holds a smaller branch, which is the
receiver's own to deliver.

`PullCompletes` is claimed for requests that name at least 3 actors. With
`Items = 2` TLC finds pulls that go round for ever; so small a limit only occurs
in the crate's tests (65,536 in production).

Deadlock checking is off: the systems may come to rest, since ids, requests,
faults and calls are bounded and a quiet system has nothing to do.

Two runs show a disagreement between the code and what it says of itself:

- `resync_slot_return` (`DueIsClaimed`): `OutboundSlot` notifies the loop in its
  `Drop`, before its permit field is dropped. The loop can wake, see no free
  slot, and park without a deadline; the slot then returns in silence. It takes
  all slots being in use at that moment (the run has one, the code eight), and
  lasts until the next request or sweep.
- `pending_expiry` (`ExpiresOnlyIdle`): removing a buffered operation leaves its
  first-seen time, so the operation, buffered again before the next sweep, can
  expire at once.

Other values of `Resync_slot_return.cfg` tell more of `DueIsClaimed`. With two
topics, 3 attempts, 2 requests, `MaxManual = 0` and `Overrun = FALSE` it holds:
the loop misses no wake-up of its own. With `Overrun = TRUE` instead it fails
again: `complete_clean` (`iroh/scheduler.rs`) notifies nobody, so when the
deadline of a batch has passed and its task was joined, the loop has parked
behind the busy peer.

## Fairness

`Oplog`: `ReceiveFrom(n, m)`, whose guard is `Serves(m, n)`, is weakly fair, since
the resync loop offers a member what it lacks until the member has it, and so is `Drain`, which every received
batch runs. Local writes, seals and expiry have no fairness.

`ResyncScheduler`: the loop's three steps (the runtime polls it), `Elapse`
(deadlines pass), the settling of a claim (a batch is bounded by a deadline, and
each way out of it completes or drops its claims), the end of a task, and the
return of a manual sync. Requests have no fairness.

`PagePlan`: a requester that is behind asks again (the loop retries a dirty
target), a request is answered, a page that is not lost arrives. `Exchange`: an
attempt that a target needs is started and carried on, a ready buffered operation
is drained and one that no history explains expires; writes have none. `FjallStaging`: a call that
began goes on, and a node that stopped is opened again. `FjallStore`: a facade
goes on with a loop it began, and its owner reopens the store and resumes a
purge. The last four write weak fairness as "infinitely often not enabled, or
infinitely often a step", with the condition spelled out. Crashes and losses are
bounded, so they end.

## Proofs

`OplogProofs`, for all constants that satisfy the named assumptions of `Oplog`
(ids are naturals above zero and the three pools are disjoint; replicas are
peers; bounds are naturals):

| Theorem | States |
|---|---|
| `TypeCorrect` | `TypeOK` always |
| `StoresClosed` | `Closed` and `HeadsExact` always |
| `ChainsAndBranches` | `ChainsLinked` and `OneBranch` always |
| `OwnWorkNeverLost` | `OwnWorkKept` always |
| `BufferStaysLive` | `BufferLive` always |
| `BranchOnlyDescends`, `BranchOnlyGrows` | the two action properties |

The inductive invariant is `Inductive`: `TypeOK`; `SignedOK` (the past of each
signed body is the closure of its dependencies); for each replica `NodeOK` (the
store is closed, its heads exact, its chains linked, its genesis unique) and
`BufferOK`; and `OwnWorkKept`. None of these is inductive alone: heads stay exact
only because a store is closed, so that no stored operation can depend on one
that arrives later; a chain stays linked only because the tip that admission
compares with is the whole of the writer's stored chain; and a reset keeps the
replica's work only because everything outside the losing genesis goes into the
journal record. One lemma per action shows that it preserves the invariant, on
top of lemmas about `HeadsAfter`, `Admissible` and the order `Before`. The proof
is spread over `OplogInvariant` (the invariant and what a batch adds),
`OplogStoreSteps` and `OplogWriteSteps` (the actions that change stores, and
those that sign) and `OplogProofs`, since tlapm slows down with the length of a
module.

`PendingBufferProofs`, for every dependency graph within topics, every quota and
every history: `IndexesCorrect` (`IndexesAgree` always) and `WaitsCorrect`
(`WaitsExact` always). The invariant adds `CallsOK`: whatever a call in flight
does not list as missing was stored when it read and still is. With it, the
check that no listed dependency has been stored since makes the list exact at
the moment of the put. The lemma `RemoveKeeps` covers the four ways of removing
a set of records.

Only proved, and in no run: `TypeOK`, `Closed`, `HeadsExact` and `OneBranch` of
`Oplog`.
Only model-checked: the other properties of `Oplog` (`StateIsFold` and the ones
built on `Materialize` rest on an order-independent choice of the latest control,
an induction over sets), `RejectedStaysOut`, `UsageExact` (sums over finite sets
need induction), everything in `ResyncScheduler`, `PagePlan`, `Exchange`,
`FjallStaging` and `FjallStore` (the last with recursive operators, which the
prover cannot use; for the others no proof has been written), and all liveness,
which is outside the prover's reach. The `TypeOK` of these modules and of
`PendingBuffer` documents the shape of their state and is in no run.

## Not modelled

- Encodings, framing, hashing and signatures; the byte layout of the stores;
  metrics and logging; the derive macro, examples and fuzz targets.
- `oplog/turns.rs` and the retry of an admission: a lock per topic, and the
  repetition of a call that the store refused.
- `oplog/integrity.rs`: the scan for damaged records, with its quarantine.
- `iroh/service.rs`, `iroh/runtime.rs`, `iroh/budget.rs`, `iroh/pool.rs`,
  `storage/pressure.rs`, `storage/memory/budget.rs`: queues, counters and caches
  that delay or refuse calls and are independent of what is replicated.
- `node/peers.rs`: which member is tried first. The models let any be tried.
- `sync/repair.rs`: pages of single ids that were asked for by name.
- `history.rs` and `reducer.rs` only iterate over stored operations.

## Running

    tlc -workers 2 -config Oplog_branches.cfg MCOplog
    for m in OplogInvariant OplogStoreSteps OplogWriteSteps OplogProofs PendingBufferProofs; do
        tlapm $m.tla; done

`PROJECT.json` lists the runs with their configurations, the source lines behind
each definition, the hazards and the theorems.
