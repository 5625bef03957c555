------------------------------- MODULE Oplog -------------------------------
(***************************************************************************)
(* The replicated operation log of one topic (src/oplog/): every peer runs *)
(* one replica, writes operations of its own, and receives operations of   *)
(* the others in any order, in any batches and any number of times.        *)
(*                                                                         *)
(* An operation is a record of `signed', the operations that exist in the  *)
(* whole system, named by its content hash.  `past' is the ancestry its    *)
(* dependencies span: the code walks it or reads it off the observed       *)
(* clock, here it is kept with the record.                                 *)
(*                                                                         *)
(* One admission call is one step: the per-topic turn (oplog/turns.rs) and *)
(* the expected heads and state of the commit make it one for the topic.   *)
(***************************************************************************)
EXTENDS Integers, FiniteSets

CONSTANTS
    Peer,          \* peer identities; their order stands for that of the actor ids
    Replica,       \* the peers that run this software, each on one store
    Founders,      \* sets of initial peers that callers name in a genesis
    EventType,     \* event type names
    Policy,        \* replication policies
    LocalPayload,  \* events and controls that callers publish
    ForeignPayload, \* payloads of operations signed by other software
    GenesisId,     \* hashes of locally written genesis operations
    OpId,          \* hashes of locally written other operations
    ForeignId,     \* hashes of operations signed by other software
    Sealable,      \* replicas whose operator may seal the topic
    Fragile,       \* replicas whose store may be lost, each at most once
    MaxActors,     \* MAX_TOPIC_ACTORS
    MaxEvictions,  \* MAX_PENDING_EVICTIONS
    MaxBatch,      \* operations in one received batch
    MaxForeign     \* sequence and generation numbers of foreign operations

AllIds == GenesisId \cup OpId \cup ForeignId

ControlPayload ==
    [kind : {"add", "remove"}, peer : Peer] \cup [kind : {"policy"}, policy : Policy]
EventPayload == [kind : {"event"}, type : EventType]
GenesisPayload ==
    [kind : {"genesis"}, peers : SUBSET Peer, policy : Policy, type : EventType]

ASSUME IdAssumption ==
    /\ AllIds \subseteq Nat \ {0}
    /\ GenesisId \cap OpId = {}
    /\ ForeignId \cap (GenesisId \cup OpId) = {}

ASSUME PeerAssumption ==
    /\ Peer \subseteq Nat
    /\ Replica \subseteq Peer
    /\ Founders \subseteq SUBSET Peer
    /\ Sealable \subseteq Replica
    /\ Fragile \subseteq Replica
    /\ LocalPayload \subseteq EventPayload \cup ControlPayload
    /\ ForeignPayload \subseteq GenesisPayload \cup EventPayload \cup ControlPayload

ASSUME BoundAssumption ==
    /\ MaxActors \in Nat
    /\ MaxEvictions \in Nat
    /\ MaxBatch \in Nat
    /\ MaxForeign \in Nat

VARIABLES
    signed,    \* id -> body of every operation signed so far
    ops,       \* ops[n]: ids stored complete at replica n
    heads,     \* heads[n]: the stored frontier
    topic,     \* topic[n]: the materialized TopicState
    pending,   \* pending[n]: buffered ids
    rejected,  \* rejected[n]: ids remembered as never admissible on the branch
    journal,   \* journal[n]: eviction records not yet acknowledged
    released,  \* released[n]: evicted ids the embedder has acknowledged
    sealed,    \* replicas that refuse to replace their branch
    lost       \* peers whose store was lost

vars == <<signed, ops, heads, topic, pending, rejected, journal, released, sealed, lost>>

----------------------------------------------------------------------------
(* Operation records *)

NoOp == 0

\* ControlKey::cmp: generation, actor, sequence, id.
ControlKey(i) == <<signed[i].gen, signed[i].author, signed[i].seq, i>>
NoKey == <<-1, 0, 0, 0>>
KeyLess(k, l) ==
    \E c \in 1..4 : k[c] < l[c] /\ \A d \in 1..(c - 1) : k[d] = l[d]

IsStructuralGenesis(b) ==
    /\ b.payload.kind = "genesis"
    /\ b.seq = 1
    /\ b.prev = NoOp
    /\ b.deps = {}

PastOf(deps) == deps \cup UNION {signed[d].past : d \in deps}

Body ==
    [author  : Peer,
     seq     : Nat,
     prev    : AllIds \cup {NoOp},
     deps    : SUBSET AllIds,
     past    : SUBSET AllIds,
     gen     : Nat,
     payload : GenesisPayload \cup EventPayload \cup ControlPayload]

----------------------------------------------------------------------------
(* Topic state: who is a member, and which control decided it *)

NoControl == [key |-> NoKey, member |-> FALSE]

TopicState(genesis, type, members, policy, controls, policyKey) ==
    [genesis |-> genesis, type |-> type, members |-> members, policy |-> policy,
     controls |-> controls, policyKey |-> policyKey]

InitialState(genesis, type, members, policy) ==
    TopicState(genesis, type, members, policy, [p \in Peer |-> NoControl], NoKey)

\* The topic is not stored: topic_state returns None.
NoTopic == InitialState(NoOp, "none", {}, "none")
HasTopic(st) == st.genesis # NoOp

GenesisState(i) ==
    LET genesis == signed[i].payload
    IN  InitialState(i, genesis.type, genesis.peers, genesis.policy)

ControlsOn(S, p) ==
    {i \in S : signed[i].payload.kind \in {"add", "remove"} /\ signed[i].payload.peer = p}
PoliciesIn(S) == {i \in S : signed[i].payload.kind = "policy"}
Latest(S) == CHOOSE i \in S : \A j \in S \ {i} : KeyLess(ControlKey(j), ControlKey(i))

\* Fault: a control replaces the one it finds whatever their keys.
ApplyControlsUnordered(st, A) ==
    LET Adds(p) == signed[Latest(ControlsOn(A, p))].payload.kind = "add"
        Decided(p) == ControlsOn(A, p) # {}
    IN  [st EXCEPT
          !.members = {p \in Peer : IF Decided(p) THEN Adds(p) ELSE p \in @},
          !.controls = [p \in Peer |-> IF Decided(p)
             THEN [key |-> ControlKey(Latest(ControlsOn(A, p))), member |-> Adds(p)]
             ELSE st.controls[p]]]

\* apply_control for every control of A: a control replaces the one it finds
\* for the same peer, or for the policy, only under a greater key.
ApplyControls(st, A) ==
    LET Wins(p) == {i \in ControlsOn(A, p) : KeyLess(st.controls[p].key, ControlKey(i))}
        Adds(p) == signed[Latest(Wins(p))].payload.kind = "add"
        Policies == {i \in PoliciesIn(A) : KeyLess(st.policyKey, ControlKey(i))}
    IN  TopicState(
          st.genesis,
          st.type,
          {p \in Peer : IF Wins(p) = {} THEN p \in st.members ELSE Adds(p)},
          IF Policies = {} THEN st.policy ELSE signed[Latest(Policies)].payload.policy,
          [p \in Peer |-> IF Wins(p) = {} THEN st.controls[p]
             ELSE [key |-> ControlKey(Latest(Wins(p))), member |-> Adds(p)]],
          IF Policies = {} THEN st.policyKey ELSE ControlKey(Latest(Policies)))

GenesesIn(S) == {i \in S : signed[i].payload.kind = "genesis"}

\* The running state of a batch after it admitted A.
StateAfter(st, A) ==
    IF GenesesIn(A) = {} THEN ApplyControls(st, A)
    ELSE ApplyControls(GenesisState(CHOOSE g \in GenesesIn(A) : TRUE), A)

\* materialize_topic_state: the same state computed from a set of operations.
Materialize(S) ==
    IF GenesesIn(S) = {} THEN NoTopic
    ELSE LET genesis == CHOOSE g \in GenesesIn(S) : TRUE
             Decided(p) == ControlsOn(S, p) # {}
             Last(p) == Latest(ControlsOn(S, p))
             Adds(p) == signed[Last(p)].payload.kind = "add"
             policies == PoliciesIn(S)
         IN  TopicState(
               genesis,
               signed[genesis].payload.type,
               {p \in Peer : IF Decided(p) THEN Adds(p)
                             ELSE p \in signed[genesis].payload.peers},
               IF policies = {} THEN signed[genesis].payload.policy
               ELSE signed[Latest(policies)].payload.policy,
               [p \in Peer |->
                  IF Decided(p) THEN [key |-> ControlKey(Last(p)), member |-> Adds(p)]
                  ELSE NoControl],
               IF policies = {} THEN NoKey ELSE ControlKey(Latest(policies)))

----------------------------------------------------------------------------
(* Validation of one operation against the stored ids S *)

By(S, p) == {j \in S : signed[j].author = p}

\* Fault: an equivocating writer is not noticed.
SlotNeverTaken(S, i) == FALSE

\* Another stored operation holds the actor slot of i.
SlotTaken(S, i) ==
    \E j \in By(S, signed[i].author) : j # i /\ signed[j].seq = signed[i].seq

\* Fault: any earlier operation of the actor passes for its tip.
AnyTip(S, p) == By(S, p) \cup {NoOp}

\* The actor tip in S, or NoOp: a set of one id.
Tips(S, p) ==
    IF By(S, p) = {} THEN {NoOp}
    ELSE {j \in By(S, p) : \A k \in By(S, p) : signed[k].seq <= signed[j].seq}

SeqAfter(t) == IF t = NoOp THEN 1 ELSE signed[t].seq + 1

GenerationIs(deps, g) ==
    IF deps = {} THEN g = 0
    ELSE /\ \A d \in deps : signed[d].gen < g
         /\ \E d \in deps : signed[d].gen = g - 1

\* The observed clock of i covers actor position (p, q).
Covers(i, p, q) == \E j \in By(signed[i].past, p) : signed[j].seq >= q

\* Fault: an operation without dependencies counts as having seen every control.
CoversControlsRootless(i, st) ==
    \A p \in Peer : st.controls[p] # NoControl =>
       Covers(i, st.controls[p].key[2], st.controls[p].key[3])

CoversControls(i, st) ==
    /\ signed[i].deps # {}
    /\ \A p \in Peer : st.controls[p] # NoControl =>
          Covers(i, st.controls[p].key[2], st.controls[p].key[3])
    /\ st.policyKey # NoKey => Covers(i, st.policyKey[2], st.policyKey[3])

\* Fault: membership is judged by what the receiver knows, not the writer.
MembersNow(i, hd, st) == st.members

\* Membership at the dependencies of i: the running state where it is known to
\* equal the projection, the projection over the ancestry otherwise.
MembersAt(i, hd, st) ==
    IF signed[i].deps = hd \/ CoversControls(i, st)
    THEN st.members
    ELSE Materialize(signed[i].past).members

\* validate_op_projected: the first check i fails, or "none".
AdmitError(i, S, hd, st) ==
    LET b == signed[i]
        genesis == b.payload.kind = "genesis"
    IN  IF b.prev # NoOp /\ b.prev \notin b.deps THEN "ActorPrevMismatch"
        ELSE IF SlotTaken(S, i) THEN "ActorFork"
        ELSE IF genesis /\ (~IsStructuralGenesis(b) \/ HasTopic(st)) THEN "InvalidGenesis"
        ELSE IF ~genesis /\ ~HasTopic(st) THEN "TopicNotFound"
        ELSE IF b.payload.kind = "event" /\ b.payload.type # st.type
             THEN "EventTypeMismatch"
        ELSE IF ~genesis /\ b.author \notin MembersAt(i, hd, st) THEN "NotTopicMember"
        ELSE IF \A t \in Tips(S, b.author) : b.seq # SeqAfter(t) THEN "ActorSeqGap"
        ELSE IF b.prev \notin Tips(S, b.author) THEN "ActorPrevMismatch"
        ELSE IF ~GenerationIs(b.deps, b.gen) THEN "GenerationMismatch"
        ELSE "none"

\* validate_pending_op: i still misses dependencies, the others are in S.
PendingError(i, S, st) ==
    LET b == signed[i]
        known == b.deps \cap S
    IN  IF b.seq = 0 THEN "ActorSeqGap"
        ELSE IF SlotTaken(S, i) THEN "ActorFork"
        ELSE IF b.payload.kind = "genesis" THEN "InvalidGenesis"
        ELSE IF b.gen = 0 THEN "InvalidOpId"
        ELSE IF b.payload.kind = "event" /\ HasTopic(st) /\ b.payload.type # st.type
             THEN "EventTypeMismatch"
        ELSE IF (b.seq = 1) # (b.prev = NoOp) THEN "ActorPrevMismatch"
        ELSE IF b.prev # NoOp /\ b.prev \notin b.deps THEN "ActorPrevMismatch"
        ELSE IF b.prev \in known /\ signed[b.prev].author # b.author
             THEN "ActorPrevMismatch"
        ELSE IF b.prev \in known /\ signed[b.prev].seq + 1 # b.seq THEN "ActorSeqGap"
        ELSE IF \E j \in By(S, b.author) : b.seq <= signed[j].seq THEN "ActorSeqGap"
        ELSE IF \E d \in known : signed[d].gen >= b.gen THEN "GenerationMismatch"
        ELSE "none"

----------------------------------------------------------------------------
(* The pending buffer *)

\* The members of S reached from root along dependency edges inside S: the
\* waiters of a buffered id, or the descendants of a genesis within a batch.
Downstream(S, root) ==
    {i \in S \ {root} : \A C \in SUBSET S :
        (\A j \in S : signed[j].deps \cap (C \cup {root}) # {} => j \in C) => i \in C}

Missing(n, i) == signed[i].deps \ ops[n]
Ready(n) == {i \in pending[n] : Missing(n, i) = {}}

\* Fault: what waits for a rejected operation is buffered all the same.
AlwaysBufferable(i, S, rej) == i \notin rej

\* put_pending_bound, after the commit that left S stored: an operation that
\* is rejected, or waits on a rejected one, is dropped.
Bufferable(i, S, rej) == ({i} \cup (signed[i].deps \ S)) \cap rej = {}

\* pending_verdict on a buffered operation whose dependencies are in S.
PositionImpossible(i, S) ==
    LET b == signed[i]
    IN  IF b.prev = NoOp THEN b.seq # 1
        ELSE \/ b.seq < 2 \/ b.prev \notin b.deps
             \/ /\ b.prev \in S
                /\ signed[b.prev].author # b.author \/ signed[b.prev].seq + 1 # b.seq
             \/ \E j \in By(S, b.author) : signed[j].seq = b.seq - 1 /\ j # b.prev

PendingRejects(i, error, S) ==
    \/ error \in {"NotTopicMember", "EventTypeMismatch", "InvalidGenesis",
                  "InvalidOpId", "GenerationMismatch"}
    \/ error \in {"ActorPrevMismatch", "ActorSeqGap"} /\ PositionImpossible(i, S)
    \/ error = "ActorFork" /\ SlotTaken(S, i)

----------------------------------------------------------------------------
(* Local writes *)

WithBody(i, b) == [j \in DOMAIN signed \cup {i} |-> IF j = i THEN b ELSE signed[j]]

\* Hashes are arbitrary; only those of genesis operations are ever compared
\* across branches, so others are taken in order.
LeastFresh(pool) == {i \in pool \ DOMAIN signed : \A j \in pool \ DOMAIN signed : i <= j}

HeadsAfter(hd, A) == (hd \cup A) \ UNION {signed[i].deps : i \in A}

GenesisBody(n, peers, type, policy) ==
    [author |-> n, seq |-> 1, prev |-> NoOp, deps |-> {}, past |-> {}, gen |-> 0,
     payload |-> [kind |-> "genesis", peers |-> peers \cup {n}, policy |-> policy,
                  type |-> type]]

\* next_local_op: the next position of the writer's chain on top of the heads.
NextLocalOp(n, t, g, payload) ==
    LET deps == heads[n] \cup ({t} \ {NoOp})
    IN  [author |-> n, seq |-> SeqAfter(t), prev |-> t, deps |-> deps,
         past |-> PastOf(deps), gen |-> g, payload |-> payload]

\* create_topic_effects: refused once the topic has a state.
CreateTopic(n) ==
    /\ ~HasTopic(topic[n])
    /\ \E peers \in Founders, type \in EventType, policy \in Policy,
          i \in GenesisId \ DOMAIN signed :
          /\ signed' = WithBody(i, GenesisBody(n, peers, type, policy))
          /\ ops' = [ops EXCEPT ![n] = @ \cup {i}]
          /\ heads' = [heads EXCEPT ![n] = @ \cup {i}]
          /\ topic' = [topic EXCEPT ![n] = InitialState(i, type, peers \cup {n}, policy)]
    /\ UNCHANGED <<pending, rejected, journal, released, sealed, lost>>

\* create_genesis_effects: a genesis and its first event in one admission.
FirstEventBody(n, g, type) ==
    [author |-> n, seq |-> 2, prev |-> g, deps |-> {g}, past |-> {g}, gen |-> 1,
     payload |-> [kind |-> "event", type |-> type]]

CreateTopicWithEvent(n) ==
    /\ ~HasTopic(topic[n])
    /\ \E peers \in Founders, type \in EventType, policy \in Policy,
          i \in GenesisId \ DOMAIN signed, j \in LeastFresh(OpId) :
          /\ signed' = [k \in DOMAIN signed \cup {i, j} |->
                IF k = i THEN GenesisBody(n, peers, type, policy)
                ELSE IF k = j THEN FirstEventBody(n, i, type) ELSE signed[k]]
          /\ ops' = [ops EXCEPT ![n] = @ \cup {i, j}]
          /\ heads' = [heads EXCEPT ![n] = @ \cup {j}]
          /\ topic' = [topic EXCEPT ![n] = InitialState(i, type, peers \cup {n}, policy)]
    /\ UNCHANGED <<pending, rejected, journal, released, sealed, lost>>

\* topic_state_after for one operation i of body b.
ApplyControl(st, i, b) ==
    LET key == <<b.gen, b.author, b.seq, i>>
        Decides(p) == /\ b.payload.kind \in {"add", "remove"}
                      /\ b.payload.peer = p
                      /\ KeyLess(st.controls[p].key, key)
        adds == b.payload.kind = "add"
        policy == b.payload.kind = "policy" /\ KeyLess(st.policyKey, key)
    IN  TopicState(
          st.genesis,
          st.type,
          {p \in Peer : IF Decides(p) THEN adds ELSE p \in st.members},
          IF policy THEN b.payload.policy ELSE st.policy,
          [p \in Peer |-> IF Decides(p) THEN [key |-> key, member |-> adds]
                          ELSE st.controls[p]],
          IF policy THEN key ELSE st.policyKey)

\* validate_op on the operation a replica has just built.
LocalOpValid(n, b) ==
    /\ b.payload.kind = "event" => b.payload.type = topic[n].type
    /\ \A j \in By(ops[n], n) : signed[j].seq # b.seq
    /\ n \in IF b.deps = heads[n] THEN topic[n].members ELSE Materialize(b.past).members
    /\ GenerationIs(b.deps, b.gen)

\* Fault: the generation follows the writer's own last operation.
OwnGenerations(n) == {signed[j].gen + 1 : j \in Tips(ops[n], n) \ {NoOp}}

\* max_generation + 1.
NextGenerations(n) ==
    {signed[j].gen + 1 :
       j \in {k \in ops[n] : \A l \in ops[n] : signed[l].gen <= signed[k].gen}}

EnsureMember(n) ==
    /\ HasTopic(topic[n])
    /\ n \in topic[n].members
    /\ By(ops[n], n) = {} => Cardinality({signed[j].author : j \in ops[n]}) < MaxActors

\* create_event_effects and create_control_effects.
CreateLocal(n, payload) ==
    /\ EnsureMember(n)
    /\ \E t \in Tips(ops[n], n), g \in NextGenerations(n), i \in LeastFresh(OpId) :
          LET b == NextLocalOp(n, t, g, payload)
          IN  /\ LocalOpValid(n, b)
              /\ signed' = WithBody(i, b)
              /\ ops' = [ops EXCEPT ![n] = @ \cup {i}]
              /\ heads' = [heads EXCEPT ![n] = (@ \ b.deps) \cup {i}]
              /\ topic' = [topic EXCEPT ![n] = ApplyControl(@, i, b)]
    /\ UNCHANGED <<pending, rejected, journal, released, sealed, lost>>

CreateEvent(n) == \E payload \in LocalPayload \cap EventPayload : CreateLocal(n, payload)
CreateControl(n) ==
    \E payload \in LocalPayload \cap ControlPayload : CreateLocal(n, payload)

----------------------------------------------------------------------------
(* Received batches *)

\* same_peers: i names the initial peers of the local genesis, its author among them.
SamePeers(n, i) ==
    /\ signed[i].payload.peers = signed[topic[n].genesis].payload.peers
    /\ signed[i].author \in signed[i].payload.peers

\* Faults: the local genesis loses against itself; any genesis replaces it.
SupersedesItself(n, g) == g <= topic[n].genesis /\ SamePeers(n, g)
SupersedesAlways(n, g) == g # topic[n].genesis /\ SamePeers(n, g)

\* The foreign genesis g replaces the local branch.
Supersedes(n, g) == g < topic[n].genesis /\ SamePeers(n, g)

\* build_batch admits exactly the new operations whose whole ancestry is
\* stored or in the batch; `Before' is the part admitted ahead of i by the
\* (generation, id) order of topological_ops.
Admissible(B, S) == {i \in B \ S : signed[i].past \subseteq S \cup B}
Before(A, i) ==
    {j \in A : \/ signed[j].gen < signed[i].gen
               \/ signed[j].gen = signed[i].gen /\ j < i}

BatchErrors(B, S, hd, st) ==
    LET A == Admissible(B, S)
        Error(i) == AdmitError(i, S \cup Before(A, i), HeadsAfter(hd, Before(A, i)),
                               StateAfter(st, Before(A, i)))
        Refusal(i) == PendingError(i, S \cup Before(A, i) \cup (A \cap signed[i].deps),
                                   StateAfter(st, Before(A, i)))
    IN  {Error(i) : i \in A} \cup {Refusal(i) : i \in (B \ S) \ A}

BatchValid(B, S, hd, st) == BatchErrors(B, S, hd, st) \subseteq {"none"}

\* admit_ops_batch onto the stored topic: commit, then buffer the rest.
AdmitBatch(n, B, buffered) ==
    LET A == Admissible(B, ops[n])
        S == ops[n] \cup A
        rest == {i \in (B \ ops[n]) \ A : Bufferable(i, S, rejected[n])}
    IN  /\ BatchValid(B, ops[n], heads[n], topic[n])
        /\ ops' = [ops EXCEPT ![n] = S]
        /\ heads' = [heads EXCEPT ![n] = HeadsAfter(@, A)]
        /\ topic' = [topic EXCEPT ![n] = StateAfter(@, A)]
        /\ pending' = [pending EXCEPT ![n] = (buffered \ A) \cup rest]
        /\ UNCHANGED <<rejected, journal>>

\* extract_eviction: everything stored but the losing genesis.  The key of a
\* record is a hash of its content, so the journal is a set of records.
Eviction(n, g) ==
    [losing |-> topic[n].genesis, winning |-> g, evicted |-> ops[n] \ {topic[n].genesis}]

\* Fault: a full journal drops the record and lets the reset happen.
JournalUnlessFull(n, e) ==
    journal' = IF Cardinality(journal[n]) < MaxEvictions
               THEN [journal EXCEPT ![n] = @ \cup {e}] ELSE journal

\* An eviction without payloads takes no record; a full journal refuses the reset.
JournalEviction(n, e) ==
    \/ e.evicted = {} /\ UNCHANGED journal
    \/ /\ e.evicted # {}
       /\ e \in journal[n] \/ Cardinality(journal[n]) < MaxEvictions
       /\ journal' = [journal EXCEPT ![n] = @ \cup {e}]

\* Fault: a sealed topic is replaced like any other.
MayAlwaysReset(n) == TRUE

\* The seal is read in the transaction that would replace the branch.
MayReset(n) == n \notin sealed

\* reset_topic_and_admit: the local branch is dropped, the batch admitted to
\* the empty topic and the dropped payloads journalled in one transaction.
ResetAndAdmit(n, B, g) ==
    LET A == Admissible(B, {})
    IN  /\ MayReset(n)
        /\ BatchValid(B, {}, {}, NoTopic)
        /\ JournalEviction(n, Eviction(n, g))
        /\ ops' = [ops EXCEPT ![n] = A]
        /\ heads' = [heads EXCEPT ![n] = HeadsAfter({}, A)]
        /\ topic' = [topic EXCEPT ![n] = StateAfter(NoTopic, A)]
        /\ pending' = [pending EXCEPT ![n] = B \ A]
        /\ rejected' = [rejected EXCEPT ![n] = {}]

\* A losing genesis takes its waiters out of the buffer before the rest of the
\* batch is validated, and they stay out when the batch then fails.
RejectGenesis(n, B, g) ==
    LET kept == B \ ({g} \cup Downstream(B, g))
        buffered == pending[n] \ Downstream(pending[n], g)
    IN  \/ AdmitBatch(n, kept, buffered)
        \/ /\ ~BatchValid(kept, ops[n], heads[n], topic[n])
           /\ pending' = [pending EXCEPT ![n] = buffered]
           /\ UNCHANGED <<ops, heads, topic, rejected, journal>>

\* receive_ops_admission up to its drain: resolve_genesis_collision on the
\* first genesis found in the batch, then admission.
Receive(n, B) ==
    LET geneses == {i \in B : IsStructuralGenesis(signed[i])}
    IN  /\ B # {}
        /\ \/ /\ geneses = {} \/ ~HasTopic(topic[n]) \/ topic[n].genesis \in geneses
              /\ AdmitBatch(n, B, pending[n])
           \/ \E g \in geneses :
                 /\ HasTopic(topic[n])
                 /\ Supersedes(n, g)
                 /\ ResetAndAdmit(n, B, g)
           \/ \E g \in geneses :
                 /\ HasTopic(topic[n])
                 /\ g # topic[n].genesis
                 /\ ~Supersedes(n, g)
                 /\ RejectGenesis(n, B, g)
        /\ UNCHANGED <<signed, released, sealed, lost>>

\* A batch the store already holds changes nothing, so it is left out.
ReceiveSome(n) ==
    \E B \in SUBSET DOMAIN signed :
       Cardinality(B) <= MaxBatch /\ ~(B \subseteq ops[n]) /\ Receive(n, B)

\* m's history reaches n by sync: m must count n as a member (a peer outside the
\* membership is owed nothing and served nothing), and either m pushes, which a
\* node that is no longer a member stops doing, or n asks, which it does of the
\* members it knows.
Serves(m, n) ==
    /\ n \in topic[m].members
    /\ m \in topic[m].members \/ {n, m} \subseteq topic[n].members

\* A sync with m offers everything m holds that n does not.
ReceiveFrom(n, m) == Serves(m, n) /\ Receive(n, ops[m] \ ops[n])

\* The drain of receive_ops_admission, one ready operation: each is admitted in
\* a transaction of its own, and other calls run in between.
Drain(n, i) ==
    LET error == AdmitError(i, ops[n], heads[n], topic[n])
        subtree == {i} \cup Downstream(pending[n], i)
    IN  /\ i \in Ready(n)
        /\ \/ /\ error = "none"
              /\ AdmitBatch(n, {i}, pending[n])
           \/ /\ error # "none"
              /\ PendingRejects(i, error, ops[n])
              /\ pending' = [pending EXCEPT ![n] = @ \ subtree]
              /\ rejected' = [rejected EXCEPT ![n] = @ \cup subtree]
              /\ UNCHANGED <<ops, heads, topic, journal>>
        /\ UNCHANGED <<signed, released, sealed, lost>>

\* expire_pending: an operation that waited too long goes with its waiters.
ExpirePending(n, i) ==
    /\ pending' = [pending EXCEPT ![n] = @ \ ({i} \cup Downstream(@, i))]
    /\ UNCHANGED <<signed, ops, heads, topic, rejected, journal, released, sealed, lost>>

\* clear_eviction, once the embedder has re-emitted the payloads.
ClearEviction(n, e) ==
    /\ journal' = [journal EXCEPT ![n] = @ \ {e}]
    /\ released' = [released EXCEPT ![n] = @ \cup e.evicted]
    /\ UNCHANGED <<signed, ops, heads, topic, pending, rejected, sealed, lost>>

\* seal_topic and unseal_topic.
SealTopic(n) ==
    /\ n \in Sealable
    /\ sealed' = IF n \in sealed THEN sealed \ {n} ELSE sealed \cup {n}
    /\ UNCHANGED <<signed, ops, heads, topic, pending, rejected, journal, released, lost>>

----------------------------------------------------------------------------
(* The environment *)

\* Other software may sign any record over existing hashes.
SignForeign ==
    /\ \E i \in LeastFresh(ForeignId), author \in Peer, seq \in 0..MaxForeign,
          gen \in 0..MaxForeign, prev \in DOMAIN signed \cup {NoOp},
          deps \in SUBSET DOMAIN signed,
          payload \in ForeignPayload :
          signed' = WithBody(i,
              [author |-> author, seq |-> seq, prev |-> prev, deps |-> deps,
               past |-> PastOf(deps), gen |-> gen, payload |-> payload])
    /\ UNCHANGED <<ops, heads, topic, pending, rejected, journal, released, sealed, lost>>

\* A store is lost and the peer starts again with the same key.
LoseStore(n) ==
    /\ n \in Fragile \ lost
    /\ lost' = lost \cup {n}
    /\ ops' = [ops EXCEPT ![n] = {}]
    /\ heads' = [heads EXCEPT ![n] = {}]
    /\ topic' = [topic EXCEPT ![n] = NoTopic]
    /\ pending' = [pending EXCEPT ![n] = {}]
    /\ rejected' = [rejected EXCEPT ![n] = {}]
    /\ journal' = [journal EXCEPT ![n] = {}]
    /\ sealed' = sealed \ {n}
    /\ UNCHANGED <<signed, released>>

----------------------------------------------------------------------------

Init ==
    /\ signed = [i \in {} |-> NoOp]
    /\ ops = [n \in Replica |-> {}]
    /\ heads = [n \in Replica |-> {}]
    /\ topic = [n \in Replica |-> NoTopic]
    /\ pending = [n \in Replica |-> {}]
    /\ rejected = [n \in Replica |-> {}]
    /\ journal = [n \in Replica |-> {}]
    /\ released = [n \in Replica |-> {}]
    /\ sealed = {}
    /\ lost = {}

Next ==
    \/ \E n \in Replica :
          \/ CreateTopic(n)
          \/ CreateTopicWithEvent(n)
          \/ CreateEvent(n)
          \/ CreateControl(n)
          \/ ReceiveSome(n)
          \/ \E m \in Replica : ReceiveFrom(n, m)
          \/ \E i \in pending[n] : Drain(n, i) \/ ExpirePending(n, i)
          \/ \E e \in journal[n] : ClearEviction(n, e)
          \/ SealTopic(n)
          \/ LoseStore(n)
    \/ SignForeign

Spec == Init /\ [][Next]_vars

\* Sync keeps offering what a served peer lacks until it holds it, and every
\* received batch drains the ready part of the buffer.
Fairness ==
    \A n \in Replica :
       /\ \A m \in Replica : WF_vars(ReceiveFrom(n, m))
       /\ WF_vars(\E i \in pending[n] : Drain(n, i))

FairSpec == Spec /\ Fairness

----------------------------------------------------------------------------
(* Properties *)

\* The variables have the types of the tables they stand for.
TypeOK ==
    /\ DOMAIN signed \subseteq AllIds
    /\ signed \in [DOMAIN signed -> Body]
    /\ ops \in [Replica -> SUBSET DOMAIN signed]
    /\ heads \in [Replica -> SUBSET DOMAIN signed]
    /\ pending \in [Replica -> SUBSET DOMAIN signed]
    /\ rejected \in [Replica -> SUBSET DOMAIN signed]
    /\ released \in [Replica -> SUBSET DOMAIN signed]
    /\ \A n \in Replica :
          /\ topic[n].genesis \in DOMAIN signed \cup {NoOp}
          /\ topic[n].members \subseteq Peer
          /\ journal[n] \subseteq [losing : DOMAIN signed, winning : DOMAIN signed,
                                   evicted : SUBSET DOMAIN signed]
    /\ DOMAIN topic = Replica
    /\ DOMAIN journal = Replica
    /\ sealed \subseteq Sealable
    /\ lost \subseteq Fragile

\* A stored operation has its whole ancestry stored beside it, whatever the
\* batches it came in (ensure_deps_resolvable, build_batch).
Closed == \A n \in Replica : \A i \in ops[n] : signed[i].past \subseteq ops[n]

\* The recorded heads are the stored operations nothing stored depends on
\* (heads_after, validate_heads).
HeadsExact ==
    \A n \in Replica :
       heads[n] = {i \in ops[n] : \A j \in ops[n] : i \notin signed[j].deps}

\* A replica holds one unforked chain per actor: no two stored operations share
\* a slot, and each is linked to its predecessor, which is stored too, even
\* when the writer lost its store and signed a slot twice.
ChainsLinked ==
    \A n \in Replica : \A i \in ops[n] :
       /\ \A j \in ops[n] \ {i} :
             <<signed[j].author, signed[j].seq>> # <<signed[i].author, signed[i].seq>>
       /\ IF signed[i].prev = NoOp THEN signed[i].seq = 1
          ELSE /\ signed[i].prev \in ops[n] \cap signed[i].deps
               /\ signed[signed[i].prev].author = signed[i].author
               /\ signed[i].seq = signed[signed[i].prev].seq + 1

\* A replica stores one branch: its only genesis is the one its topic state
\* names, whatever geneses the batches it received carried.
OneBranch ==
    \A n \in Replica :
       IF HasTopic(topic[n]) THEN GenesesIn(ops[n]) = {topic[n].genesis} ELSE ops[n] = {}

\* Everything a replica stores descends from its genesis: the shortcut of
\* covers_controls lets no operation in that never saw it.
Rooted ==
    \A n \in Replica : \A i \in ops[n] \ {topic[n].genesis} :
       topic[n].genesis \in signed[i].past

\* The state kept incrementally by apply_control, over batches and local
\* writes, is the one materialize_topic_state computes from the stored
\* operations: replicas that hold the same operations agree on members and
\* policy, in whatever order they arrived.
StateIsFold == \A n \in Replica : topic[n] = Materialize(ops[n])

\* No stored operation was written by a non-member of its own causal past,
\* whatever the receiver knew when it arrived (project_membership).
CausalMembership ==
    \A n \in Replica : \A i \in ops[n] \ GenesesIn(ops[n]) :
       signed[i].author \in Materialize(signed[i].past).members

\* An operation a replica of this software signed is admissible wherever its
\* dependencies are stored, whatever that replica learned meanwhile; only a
\* slot its author signed twice refuses it.
LocalOpsAdmissible ==
    \A n \in Replica : \A i \in DOMAIN signed \ (ForeignId \cup ops[n]) :
       (signed[i].deps # {} /\ signed[i].past \subseteq ops[n]) =>
          AdmitError(i, ops[n], heads[n], topic[n]) \in {"none", "ActorFork"}

\* A member can always write: the operation it builds on its heads and its
\* actor tip passes its own validation (try_local_effects would otherwise
\* retry the same failure until it gives up).
MembersCanWrite ==
    \A n \in Replica : EnsureMember(n) =>
       \E t \in Tips(ops[n], n), g \in NextGenerations(n) :
          LET event == [kind |-> "event", type |-> topic[n].type]
          IN  LocalOpValid(n, NextLocalOp(n, t, g, event))

\* A replica's own work is never silently lost: what it wrote, and neither
\* lost with its store nor was a genesis, is stored, journalled or released.
OwnWorkKept ==
    \A n \in Replica \ lost : \A i \in By(DOMAIN signed \cap OpId, n) :
       i \in ops[n] \cup released[n] \cup UNION {e.evicted : e \in journal[n]}

\* The buffer holds only operations that can still be admitted: none stored,
\* none rejected, none waiting for a rejected one.
BufferLive ==
    \A n \in Replica : \A i \in pending[n] :
       /\ i \notin ops[n] \cup rejected[n]
       /\ Missing(n, i) \cap rejected[n] = {}

\* A ready operation never stays: it is admitted, or its failure is judged
\* permanent (pending_verdict), so the drain never retries it in vain.
ReadyIsDecided ==
    \A n \in Replica : \A i \in Ready(n) :
       LET error == AdmitError(i, ops[n], heads[n], topic[n])
       IN  error = "none" \/ PendingRejects(i, error, ops[n])

\* A replica changes branch only towards a smaller genesis of the same initial
\* peers, and never while sealed (resolve_genesis_collision, reset_topic_and_admit).
BranchStep ==
    \A n \in Replica :
       (/\ HasTopic(topic[n]) /\ HasTopic(topic'[n])
        /\ topic'[n].genesis # topic[n].genesis) =>
          /\ n \notin sealed
          /\ topic'[n].genesis < topic[n].genesis
          /\ signed'[topic'[n].genesis].payload.peers
                = signed'[topic[n].genesis].payload.peers
BranchDescends == [][BranchStep]_vars

\* Within a branch nothing stored is ever dropped: only a reset removes
\* operations, and it changes the genesis (reset_topic_and_admit).
GrowStep ==
    \A n \in Replica : topic'[n].genesis = topic[n].genesis => ops[n] \subseteq ops'[n]
BranchGrows == [][GrowStep]_vars

\* Sync settles: a replica ends holding all that a replica that still serves it
\* holds, and two that serve each other end with the same operations and state,
\* whoever created the topic first and in whatever order they wrote. Two that
\* removed each other serve each other nothing and are not reconciled, and a
\* branch with a larger genesis is not taken over from a replica that is served
\* nothing in return. All this holds only where rival geneses name the same
\* initial peers, no topic is sealed and no store is lost: same_peers, the seal
\* and a forked chain keep replicas apart otherwise.
Agreement ==
    \A n, m \in Replica : Serves(m, n) =>
       IF Serves(n, m)
       THEN ops[n] = ops[m] /\ topic[n] = topic[m] /\ heads[n] = heads[m]
       ELSE ops[m] \subseteq ops[n] \/ (HasTopic(topic[n]) /\ topic[n].genesis < topic[m].genesis)
Convergence == <>[]Agreement
=============================================================================
