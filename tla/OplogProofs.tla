---------------------------- MODULE OplogProofs -----------------------------
(***************************************************************************)
(* The theorems about Oplog, for every set of peers, replicas and hashes.  *)
(***************************************************************************)
EXTENDS OplogStoreSteps, OplogWriteSteps

LEMMA NextInductive == Inductive /\ [Next]_vars => Inductive'
  <1>1. SUFFICES ASSUME Inductive, [Next]_vars PROVE Inductive'
    OBVIOUS
  <1>2. CASE SignForeign
    BY <1>1, <1>2, SignForeignStep
  <1>3. ASSUME NEW n \in Replica, CreateTopic(n) PROVE Inductive'
    BY <1>1, <1>3, CreateTopicStep
  <1>4. ASSUME NEW n \in Replica, CreateTopicWithEvent(n) PROVE Inductive'
    BY <1>1, <1>4, CreateTopicWithEventStep
  <1>5. ASSUME NEW n \in Replica, CreateEvent(n) \/ CreateControl(n) PROVE Inductive'
    BY <1>1, <1>5, CreateLocalStep DEF CreateEvent, CreateControl
  <1>6. ASSUME NEW n \in Replica, ReceiveSome(n) PROVE Inductive'
    BY <1>1, <1>6, ReceiveStep DEF ReceiveSome
  <1>7. ASSUME NEW n \in Replica, NEW m \in Replica, ReceiveFrom(n, m) PROVE Inductive'
    <2>1. ops[m] \ ops[n] \in SUBSET DOMAIN signed
      BY <1>1 DEF Inductive, TypeOK
    <2>. QED  BY <1>1, <1>7, <2>1, ReceiveStep DEF ReceiveFrom
  <1>8. ASSUME NEW n \in Replica, NEW i \in pending[n], Drain(n, i) PROVE Inductive'
    BY <1>1, <1>8, DrainStep
  <1>9. ASSUME NEW n \in Replica, NEW i \in pending[n], ExpirePending(n, i)
        PROVE  Inductive'
    BY <1>1, <1>9, ShrinkStep DEF ExpirePending
  <1>10. ASSUME NEW n \in Replica, NEW e \in journal[n], ClearEviction(n, e)
         PROVE  Inductive'
    BY <1>1, <1>10, ClearStep
  <1>11. ASSUME NEW n \in Replica, SealTopic(n) PROVE Inductive'
    BY <1>1, <1>11, SealStep
  <1>12. ASSUME NEW n \in Replica, LoseStore(n) PROVE Inductive'
    BY <1>1, <1>12, LoseStep
  <1>13. CASE UNCHANGED vars
    BY <1>1, <1>13
    DEF vars, Inductive, TypeOK, SignedOK, OwnWorkKept, NodeOK, BufferOK, Bufferable,
        ClosedSet, Frontier, LinkedSet, LinkedOp, SlotTaken, By, BranchOf, HasTopic, GenesesIn
  <1>. QED
    BY <1>1, <1>2, <1>3, <1>4, <1>5, <1>6, <1>7, <1>8, <1>9, <1>10, <1>11, <1>12, <1>13
    DEF Next

LEMMA AlwaysInductive == Spec => []Inductive
  BY InitInductive, NextInductive, PTL DEF Spec

\* The tables keep their types under every operation of the log.
THEOREM TypeCorrect == Spec => []TypeOK
  <1>1. Inductive => TypeOK
    BY DEF Inductive
  <1>. QED  BY AlwaysInductive, <1>1, PTL

\* Every store is causally closed and knows its exact frontier, whatever
\* batches arrive (build_batch, heads_after).
THEOREM StoresClosed == Spec => [](Closed /\ HeadsExact)
  BY AlwaysInductive, InductiveImplies, PTL

\* No store ever holds a fork or a gap of an actor chain, and none mixes two
\* branches of a topic, even against equivocating writers (validate_op_projected).
THEOREM ChainsAndBranches == Spec => [](ChainsLinked /\ OneBranch)
  BY AlwaysInductive, InductiveImplies, PTL

\* Work a replica wrote is stored, journalled or acknowledged as evicted, as
\* long as it keeps its store (resolve_genesis_collision, reset_topic_and_admit).
THEOREM OwnWorkNeverLost == Spec => []OwnWorkKept
  <1>1. Inductive => OwnWorkKept
    BY DEF Inductive
  <1>. QED  BY AlwaysInductive, <1>1, PTL

\* No buffered operation is stored, rejected, or waits for a rejected one
\* (reject_pending_subtree, put_pending_bound).
THEOREM BufferStaysLive == Spec => []BufferLive
  BY AlwaysInductive, InductiveImplies, PTL

----------------------------------------------------------------------------
(* What a step does to the branch *)

SameBranch(n) == topic'[n].genesis = topic[n].genesis /\ ops[n] \subseteq ops'[n]

\* n replaces its branch by that of a smaller genesis of the same peers.
Replaces(n) ==
    /\ n \notin sealed
    /\ topic'[n].genesis < topic[n].genesis
    /\ signed'[topic'[n].genesis].payload.peers = signed'[topic[n].genesis].payload.peers

BranchMove(n) ==
    \/ SameBranch(n)
    \/ ~HasTopic(topic[n]) /\ ops[n] \subseteq ops'[n]
    \/ ~HasTopic(topic'[n]) /\ HasTopic(topic[n])
    \/ Replaces(n) /\ HasTopic(topic[n]) /\ topic'[n].genesis # topic[n].genesis

LEMMA AdmitKeepsBranch ==
    ASSUME Inductive, NEW n \in Replica, NEW B \in SUBSET DOMAIN signed,
           NEW buffered, AdmitBatch(n, B, buffered), NEW m \in Replica
    PROVE  BranchMove(m)
  <1>. DEFINE A == Admissible(B, ops[n])
              S == ops[n] \cup A
  <1>1. /\ BatchValid(B, ops[n], heads[n], topic[n])
        /\ ops' = [ops EXCEPT ![n] = S]
        /\ topic' = [topic EXCEPT ![n] = StateAfter(topic[n], A)]
    BY DEF AdmitBatch
  <1>2. TypeOK /\ SignedType /\ NodeOK(n) /\ ops[n] \in SUBSET DOMAIN signed
        /\ A \subseteq DOMAIN signed
    BY DEF Inductive, TypeOK, SignedType, Admissible
  <1>3. BranchOf(ops[n], topic[n]) /\ BranchOf(S, StateAfter(topic[n], A))
    BY <1>1, <1>2, BranchMoves DEF NodeOK
  <1>4. HasTopic(topic[n]) => HasTopic(StateAfter(topic[n], A))
    BY <1>2, StateAfterGenesis
  <1>. HIDE DEF A
  <1>5. HasTopic(topic[n]) => StateAfter(topic[n], A).genesis = topic[n].genesis
    BY <1>3, <1>4 DEF BranchOf, GenesesIn
  <1>. QED  BY <1>1, <1>2, <1>5 DEF TypeOK, BranchMove, SameBranch

LEMMA ResetReplacesBranch ==
    ASSUME Inductive, NEW n \in Replica, NEW B \in SUBSET DOMAIN signed, NEW g \in B,
           IsStructuralGenesis(signed[g]), HasTopic(topic[n]), Supersedes(n, g),
           ResetAndAdmit(n, B, g), signed' = signed, NEW m \in Replica
    PROVE  BranchMove(m)
  <1>. DEFINE A == Admissible(B, {})
  <1>1. /\ n \notin sealed
        /\ BatchValid(B, {}, {}, NoTopic)
        /\ ops' = [ops EXCEPT ![n] = A]
        /\ topic' = [topic EXCEPT ![n] = StateAfter(NoTopic, A)]
    BY DEF ResetAndAdmit, MayReset
  <1>2. TypeOK /\ SignedType /\ SignedOK /\ {} \cup A = A
    BY DEF Inductive, TypeOK, SignedType
  <1>3. BranchOf({}, NoTopic)
    BY DEF BranchOf, HasTopic, NoTopic, InitialState, TopicState
  <1>4. BranchOf(A, StateAfter(NoTopic, A))
    BY <1>1, <1>2, <1>3, BranchMoves
  <1>5. g \in GenesesIn(A)
    BY <1>2 DEF IsStructuralGenesis, SignedOK, Admissible, GenesesIn
  <1>. HIDE DEF A
  <1>6. StateAfter(NoTopic, A).genesis = g
    BY <1>4, <1>5 DEF BranchOf, GenesesIn
  <1>7. g \in Nat /\ topic[n].genesis \in Nat
    BY <1>2, IdAssumption DEF TypeOK, NoOp
  <1>. QED
    BY <1>1, <1>2, <1>6, <1>7 DEF TypeOK, BranchMove, SameBranch, Replaces, Supersedes,
                                  SamePeers

LEMMA ReceiveMoves ==
    ASSUME Inductive, NEW n \in Replica, NEW B \in SUBSET DOMAIN signed, Receive(n, B),
           NEW m \in Replica
    PROVE  BranchMove(m)
  <1>1. CASE AdmitBatch(n, B, pending[n])
    BY <1>1, AdmitKeepsBranch
  <1>2. ASSUME NEW g \in B, IsStructuralGenesis(signed[g]), HasTopic(topic[n]),
               Supersedes(n, g), ResetAndAdmit(n, B, g), signed' = signed
        PROVE  BranchMove(m)
    BY <1>2, ResetReplacesBranch
  <1>3. ASSUME NEW g \in B, RejectGenesis(n, B, g)
        PROVE  BranchMove(m)
    <2>. DEFINE kept == B \ ({g} \cup Downstream(B, g))
                buffered == pending[n] \ Downstream(pending[n], g)
    <2>1. kept \in SUBSET DOMAIN signed
      OBVIOUS
    <2>2. CASE AdmitBatch(n, kept, buffered)
      BY <2>1, <2>2, AdmitKeepsBranch
    <2>3. CASE UNCHANGED <<ops, topic>>
      BY <2>3 DEF BranchMove, SameBranch
    <2>. QED  BY <1>3, <2>2, <2>3 DEF RejectGenesis
  <1>. QED  BY <1>1, <1>2, <1>3 DEF Receive

LEMMA CreateMoves ==
    ASSUME Inductive, NEW n \in Replica, NEW m \in Replica,
           \/ CreateTopic(n)
           \/ CreateTopicWithEvent(n)
           \/ \E payload \in LocalPayload : CreateLocal(n, payload)
    PROVE  BranchMove(m)
  <1>1. TypeOK /\ \A i, b : ApplyControl(topic[n], i, b).genesis = topic[n].genesis
    BY DEF Inductive, ApplyControl, TopicState
  <1>2. CASE CreateTopic(n) \/ CreateTopicWithEvent(n)
    <2>1. /\ ~HasTopic(topic[n])
          /\ \E st : topic' = [topic EXCEPT ![n] = st]
          /\ \E N : ops' = [ops EXCEPT ![n] = @ \cup N]
      BY <1>2 DEF CreateTopic, CreateTopicWithEvent
    <2>. QED  BY <1>1, <2>1 DEF TypeOK, BranchMove, SameBranch
  <1>3. ASSUME NEW payload \in LocalPayload, CreateLocal(n, payload)
        PROVE  BranchMove(m)
    BY <1>1, <1>3 DEF CreateLocal, TypeOK, BranchMove, SameBranch
  <1>. QED  BY <1>2, <1>3

LEMMA NextMoves ==
    ASSUME Inductive, [Next]_vars, NEW m \in Replica
    PROVE  BranchMove(m)
  <1>1. ASSUME NEW n \in Replica, ReceiveSome(n) PROVE BranchMove(m)
    BY <1>1, ReceiveMoves DEF ReceiveSome
  <1>2. ASSUME NEW n \in Replica, NEW k \in Replica, ReceiveFrom(n, k) PROVE BranchMove(m)
    <2>1. ops[k] \ ops[n] \in SUBSET DOMAIN signed
      BY DEF Inductive, TypeOK
    <2>. QED  BY <1>2, <2>1, ReceiveMoves DEF ReceiveFrom
  <1>3. ASSUME NEW n \in Replica, NEW i \in pending[n], Drain(n, i) PROVE BranchMove(m)
    <2>1. {i} \in SUBSET DOMAIN signed
      BY DEF Inductive, TypeOK
    <2>2. CASE AdmitBatch(n, {i}, pending[n])
      BY <2>1, <2>2, AdmitKeepsBranch
    <2>3. CASE UNCHANGED <<ops, topic>>
      BY <2>3 DEF BranchMove, SameBranch
    <2>. QED  BY <1>3, <2>2, <2>3 DEF Drain
  <1>4. ASSUME NEW n \in Replica, CreateEvent(n) \/ CreateControl(n) \/ CreateTopic(n)
                                  \/ CreateTopicWithEvent(n)
        PROVE  BranchMove(m)
    BY <1>4, CreateMoves DEF CreateEvent, CreateControl
  <1>5. ASSUME NEW n \in Replica, LoseStore(n) PROVE BranchMove(m)
    <2>1. TypeOK /\ NodeOK(n) /\ ~HasTopic(NoTopic)
      BY DEF Inductive, HasTopic, NoTopic, InitialState, TopicState
    <2>2. ~HasTopic(topic[n]) => ops[n] = {}
      BY <2>1 DEF NodeOK, BranchOf
    <2>. QED  BY <1>5, <2>1, <2>2 DEF LoseStore, TypeOK, BranchMove, SameBranch
  <1>6. CASE UNCHANGED <<ops, topic>>
    BY <1>6 DEF BranchMove, SameBranch
  <1>. QED
    BY <1>1, <1>2, <1>3, <1>4, <1>5, <1>6
    DEF Next, vars, SealTopic, SignForeign, ClearEviction, ExpirePending

\* A replica leaves its branch only for a smaller genesis of the same initial
\* peers, never while sealed (resolve_genesis_collision).
THEOREM BranchOnlyDescends == Spec => BranchDescends
  <1>1. Inductive /\ [Next]_vars => [BranchStep]_vars
    BY NextMoves DEF BranchMove, SameBranch, Replaces, BranchStep
  <1>. QED  BY AlwaysInductive, <1>1, PTL DEF Spec, BranchDescends

\* Within a branch the stored set only grows.
THEOREM BranchOnlyGrows == Spec => BranchGrows
  <1>1. Inductive /\ [Next]_vars => [GrowStep]_vars
    BY NextMoves DEF BranchMove, SameBranch, GrowStep, HasTopic
  <1>. QED  BY AlwaysInductive, <1>1, PTL DEF Spec, BranchGrows
=============================================================================
