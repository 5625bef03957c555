-------------------------- MODULE OplogStoreSteps ---------------------------
(***************************************************************************)
(* The inductive invariant of Oplog under the steps that receive, reject,  *)
(* drop, expire or forget records.                                         *)
(***************************************************************************)
EXTENDS OplogInvariant

\* Committing a batch, and a drained operation, to the stored branch.
LEMMA AdmitBatchStep ==
    ASSUME Inductive, NEW n \in Replica, NEW B \in SUBSET DOMAIN signed,
           NEW buffered \in SUBSET pending[n], AdmitBatch(n, B, buffered),
           UNCHANGED <<signed, released, sealed, lost>>
    PROVE  Inductive'
  <1>. DEFINE A == Admissible(B, ops[n])
              S == ops[n] \cup A
              rest == {i \in (B \ ops[n]) \ A : Bufferable(i, S, rejected[n])}
  <1>1. /\ BatchValid(B, ops[n], heads[n], topic[n])
        /\ ops' = [ops EXCEPT ![n] = S]
        /\ heads' = [heads EXCEPT ![n] = HeadsAfter(heads[n], A)]
        /\ topic' = [topic EXCEPT ![n] = StateAfter(topic[n], A)]
        /\ pending' = [pending EXCEPT ![n] = (buffered \ A) \cup rest]
        /\ UNCHANGED <<rejected, journal>>
    BY DEF AdmitBatch
  <1>2. TypeOK /\ SignedOK /\ SignedType /\ NodeOK(n) /\ A \subseteq DOMAIN signed
    BY DEF Inductive, TypeOK, SignedType, Admissible
  <1>3. ops[n] \in SUBSET DOMAIN signed
    BY <1>2 DEF TypeOK
  <1>4. ClosedSet(S)
    BY <1>2, <1>3, AdmissibleClosed DEF NodeOK
  <1>5. HeadsAfter(heads[n], A) = Frontier(S)
    BY <1>2, <1>3, FrontierMoves DEF NodeOK
  <1>6. LinkedSet(S)
    BY <1>1, <1>2, <1>3, LinkedMoves DEF NodeOK
  <1>7. BranchOf(S, StateAfter(topic[n], A))
    BY <1>1, <1>2, <1>3, BranchMoves DEF NodeOK
  <1>8. /\ StateAfter(topic[n], A).members \subseteq Peer
        /\ StateAfter(topic[n], A).genesis \in DOMAIN signed \cup {NoOp}
    BY <1>2, StateAfterGenesis DEF TypeOK, GenesesIn
  <1>9. \A i \in A : i \notin ops[n]
    BY DEF Admissible
  <1>. HIDE DEF A
  <1>10. TypeOK'
    BY <1>1, <1>2, <1>3, <1>5, <1>8 DEF TypeOK, Frontier
  <1>11. SignedOK'
    BY <1>2 DEF SignedOK
  <1>12. ASSUME NEW m \in Replica PROVE NodeOK(m)'
    <2>1. CASE m = n
      BY <1>1, <1>2, <1>4, <1>5, <1>6, <1>7, <2>1
      DEF TypeOK, NodeOK, ClosedSet, Frontier, LinkedSet, LinkedOp, SlotTaken, By,
          BranchOf, HasTopic, GenesesIn
    <2>2. CASE m # n
      BY <1>1, <2>2
      DEF Inductive, NodeOK, ClosedSet, Frontier, LinkedSet, LinkedOp, SlotTaken, By,
          BranchOf, HasTopic, GenesesIn
    <2>. QED  BY <2>1, <2>2
  <1>13. ASSUME NEW m \in Replica PROVE BufferOK(m)'
    BY <1>1, <1>2 DEF Inductive, TypeOK, BufferOK, Bufferable
  <1>14. OwnWorkKept'
    BY <1>1, <1>2 DEF Inductive, TypeOK, OwnWorkKept, By
  <1>. QED  BY <1>10, <1>11, <1>12, <1>13, <1>14 DEF Inductive

\* Replacing the branch by a batch admitted to the empty topic.
LEMMA ResetStep ==
    ASSUME Inductive, NEW n \in Replica, NEW B \in SUBSET DOMAIN signed, NEW g \in B,
           HasTopic(topic[n]), ResetAndAdmit(n, B, g),
           UNCHANGED <<signed, released, sealed, lost>>
    PROVE  Inductive'
  <1>. DEFINE A == Admissible(B, {})
              record == Eviction(n, g)
  <1>1. /\ BatchValid(B, {}, {}, NoTopic)
        /\ \/ record.evicted = {} /\ UNCHANGED journal
           \/ journal' = [journal EXCEPT ![n] = @ \cup {record}]
        /\ ops' = [ops EXCEPT ![n] = A]
        /\ heads' = [heads EXCEPT ![n] = HeadsAfter({}, A)]
        /\ topic' = [topic EXCEPT ![n] = StateAfter(NoTopic, A)]
        /\ pending' = [pending EXCEPT ![n] = B \ A]
        /\ rejected' = [rejected EXCEPT ![n] = {}]
    BY DEF ResetAndAdmit, JournalEviction
  <1>2. TypeOK /\ SignedOK /\ SignedType /\ NodeOK(n) /\ A \subseteq DOMAIN signed
    BY DEF Inductive, TypeOK, SignedType, Admissible
  <1>3. /\ ClosedSet({}) /\ Frontier({}) = {} /\ LinkedSet({})
        /\ BranchOf({}, NoTopic) /\ NoTopic.genesis = NoOp
    BY DEF ClosedSet, Frontier, LinkedSet, BranchOf, HasTopic, NoTopic, InitialState,
           TopicState
  <1>4. {} \cup A = A
    OBVIOUS
  <1>5. ClosedSet(A)
    BY <1>2, <1>3, <1>4, AdmissibleClosed
  <1>6. HeadsAfter({}, A) = Frontier(A)
    BY <1>2, <1>3, <1>4, FrontierMoves
  <1>7. LinkedSet(A)
    BY <1>1, <1>2, <1>3, <1>4, LinkedMoves
  <1>8. BranchOf(A, StateAfter(NoTopic, A))
    BY <1>1, <1>2, <1>3, <1>4, BranchMoves
  <1>9. /\ StateAfter(NoTopic, A).members \subseteq Peer
        /\ StateAfter(NoTopic, A).genesis \in DOMAIN signed \cup {NoOp}
    BY <1>2, <1>3, StateAfterGenesis DEF TypeOK, GenesesIn
  <1>10. topic[n].genesis \in GenesesIn(ops[n])
    BY <1>2 DEF NodeOK, BranchOf
  <1>11. record \in [losing : DOMAIN signed, winning : DOMAIN signed,
                      evicted : SUBSET DOMAIN signed]
    BY <1>2, <1>10 DEF TypeOK, GenesesIn, Eviction
  <1>. HIDE DEF A, record
  <1>12. TypeOK'
    <2>1. /\ ops' \in [Replica -> SUBSET DOMAIN signed]
          /\ heads' \in [Replica -> SUBSET DOMAIN signed]
          /\ pending' \in [Replica -> SUBSET DOMAIN signed]
          /\ rejected' \in [Replica -> SUBSET DOMAIN signed]
      BY <1>1, <1>2, <1>6 DEF TypeOK, Frontier
    <2>2. DOMAIN topic' = Replica /\ DOMAIN journal' = Replica
      BY <1>1, <1>2 DEF TypeOK
    <2>3. ASSUME NEW m \in Replica
          PROVE  /\ topic'[m].genesis \in DOMAIN signed \cup {NoOp}
                 /\ topic'[m].members \subseteq Peer
      BY <1>1, <1>2, <1>9 DEF TypeOK
    <2>4. ASSUME NEW m \in Replica
          PROVE  journal'[m] \subseteq [losing : DOMAIN signed, winning : DOMAIN signed,
                                        evicted : SUBSET DOMAIN signed]
      BY <1>1, <1>2, <1>11 DEF TypeOK
    <2>. QED  BY <1>2, <2>1, <2>2, <2>3, <2>4 DEF TypeOK
  <1>13. SignedOK'
    BY <1>2 DEF SignedOK
  <1>14. ASSUME NEW m \in Replica PROVE NodeOK(m)'
    <2>1. CASE m = n
      BY <1>1, <1>2, <1>5, <1>6, <1>7, <1>8, <2>1
      DEF TypeOK, NodeOK, ClosedSet, Frontier, LinkedSet, LinkedOp, SlotTaken, By,
          BranchOf, HasTopic, GenesesIn
    <2>2. CASE m # n
      BY <1>1, <2>2
      DEF Inductive, NodeOK, ClosedSet, Frontier, LinkedSet, LinkedOp, SlotTaken, By,
          BranchOf, HasTopic, GenesesIn
    <2>. QED  BY <2>1, <2>2
  <1>15. ASSUME NEW m \in Replica PROVE BufferOK(m)'
    BY <1>1, <1>2 DEF Inductive, TypeOK, BufferOK, Bufferable
  <1>16. OwnWorkKept'
    <2>1. SUFFICES ASSUME NEW m \in Replica \ lost, NEW i \in By(DOMAIN signed \cap OpId, m)
                   PROVE  i \in ops'[m] \cup released[m] \cup UNION {e.evicted : e \in journal'[m]}
      BY DEF OwnWorkKept, By
    <2>2. i \in ops[m] \cup released[m] \cup UNION {e.evicted : e \in journal[m]}
      BY <2>1 DEF Inductive, OwnWorkKept
    <2>3. journal[m] \subseteq journal'[m]
      BY <1>1, <1>2 DEF TypeOK
    <2>4. CASE m = n /\ i \in ops[m]
      <3>1. i # topic[n].genesis
        BY <1>2, <1>10 DEF SignedOK, GenesesIn, By
      <3>2. i \in record.evicted
        BY <2>4, <3>1 DEF record, Eviction
      <3>3. record \in journal'[n]
        BY <1>1, <1>2, <3>2 DEF TypeOK
      <3>. QED  BY <2>4, <3>2, <3>3
    <2>5. CASE m # n \/ i \notin ops[m]
      BY <1>1, <1>2, <2>2, <2>3, <2>5 DEF TypeOK
    <2>. QED  BY <2>4, <2>5
  <1>. QED  BY <1>12, <1>13, <1>14, <1>15, <1>16 DEF Inductive

\* A rejected operation leaves with its waiters.
LEMMA RejectStep ==
    ASSUME Inductive, NEW n \in Replica, NEW i \in pending[n], NEW subtree,
           subtree = {i} \cup Downstream(pending[n], i),
           pending' = [pending EXCEPT ![n] = @ \ subtree],
           rejected' = [rejected EXCEPT ![n] = @ \cup subtree],
           UNCHANGED <<signed, ops, heads, topic, journal, released, sealed, lost>>
    PROVE  Inductive'
  <1>1. TypeOK /\ subtree \subseteq pending[n]
    BY DEF Inductive, Downstream
  <1>2. TypeOK'
    BY Zenon, <1>1 DEF TypeOK
  <1>3. SignedOK' /\ OwnWorkKept' /\ \A m \in Replica : NodeOK(m)'
    BY DEF Inductive, SignedOK, OwnWorkKept, NodeOK, ClosedSet, Frontier, LinkedSet,
           LinkedOp, SlotTaken, By, BranchOf, HasTopic, GenesesIn
  <1>4. ASSUME NEW m \in Replica PROVE BufferOK(m)'
    <2>1. CASE m = n
      <3>1. \A j \in pending[n] \ subtree : signed[j].deps \cap subtree = {}
        BY DownstreamClosed
      <3>2. \A j \in pending[n] : j \notin ops[n] /\ Bufferable(j, ops[n], rejected[n])
        BY DEF Inductive, BufferOK
      <3>. QED  BY <1>1, <2>1, <3>1, <3>2 DEF TypeOK, BufferOK, Bufferable
    <2>2. CASE m # n
      BY <1>1, <2>2 DEF Inductive, TypeOK, BufferOK, Bufferable
    <2>. QED  BY <2>1, <2>2
  <1>. QED  BY <1>2, <1>3, <1>4 DEF Inductive

\* Steps that shrink a buffer and leave everything else alone.
LEMMA ShrinkStep ==
    ASSUME Inductive, NEW n \in Replica, NEW buffered \in SUBSET pending[n],
           pending' = [pending EXCEPT ![n] = buffered],
           UNCHANGED <<signed, ops, heads, topic, rejected, journal, released, sealed, lost>>
    PROVE  Inductive'
  <1>1. TypeOK'
    BY DEF Inductive, TypeOK
  <1>2. SignedOK' /\ OwnWorkKept' /\ \A m \in Replica : NodeOK(m)'
    BY DEF Inductive, SignedOK, OwnWorkKept, NodeOK, ClosedSet, Frontier, LinkedSet,
           LinkedOp, SlotTaken, By, BranchOf, HasTopic, GenesesIn
  <1>3. ASSUME NEW m \in Replica PROVE BufferOK(m)'
    BY Zenon DEF Inductive, TypeOK, BufferOK, Bufferable
  <1>. QED  BY <1>1, <1>2, <1>3 DEF Inductive

LEMMA ReceiveStep ==
    ASSUME Inductive, NEW n \in Replica, NEW B \in SUBSET DOMAIN signed, Receive(n, B)
    PROVE  Inductive'
  <1>1. UNCHANGED <<signed, released, sealed, lost>>
    BY DEF Receive
  <1>2. CASE AdmitBatch(n, B, pending[n])
    BY <1>1, <1>2, AdmitBatchStep
  <1>3. ASSUME NEW g \in B, HasTopic(topic[n]), ResetAndAdmit(n, B, g)
        PROVE  Inductive'
    BY <1>1, <1>3, ResetStep
  <1>4. ASSUME NEW g \in B, RejectGenesis(n, B, g)
        PROVE  Inductive'
    <2>. DEFINE kept == B \ ({g} \cup Downstream(B, g))
                buffered == pending[n] \ Downstream(pending[n], g)
    <2>1. kept \in SUBSET DOMAIN signed /\ buffered \in SUBSET pending[n]
      OBVIOUS
    <2>2. CASE AdmitBatch(n, kept, buffered)
      BY <1>1, <2>1, <2>2, AdmitBatchStep
    <2>3. CASE /\ pending' = [pending EXCEPT ![n] = buffered]
               /\ UNCHANGED <<ops, heads, topic, rejected, journal>>
      BY Zenon, <1>1, <2>1, <2>3, ShrinkStep
    <2>. QED  BY <1>4, <2>2, <2>3 DEF RejectGenesis
  <1>. QED  BY <1>2, <1>3, <1>4 DEF Receive

LEMMA DrainStep ==
    ASSUME Inductive, NEW n \in Replica, NEW i \in pending[n], Drain(n, i)
    PROVE  Inductive'
  <1>1. UNCHANGED <<signed, released, sealed, lost>> /\ {i} \in SUBSET DOMAIN signed
    BY DEF Drain, Inductive, TypeOK
  <1>2. CASE AdmitBatch(n, {i}, pending[n])
    BY <1>1, <1>2, AdmitBatchStep
  <1>3. CASE ~AdmitBatch(n, {i}, pending[n])
    BY Zenon, <1>1, <1>3, RejectStep DEF Drain
  <1>. QED  BY <1>2, <1>3

LEMMA ClearStep ==
    ASSUME Inductive, NEW n \in Replica, NEW e \in journal[n], ClearEviction(n, e)
    PROVE  Inductive'
  <1>1. TypeOK /\ e.evicted \subseteq DOMAIN signed
    BY DEF Inductive, TypeOK
  <1>2. /\ journal' = [journal EXCEPT ![n] = @ \ {e}]
        /\ released' = [released EXCEPT ![n] = @ \cup e.evicted]
        /\ UNCHANGED <<signed, ops, heads, topic, pending, rejected, sealed, lost>>
    BY DEF ClearEviction
  <1>3. TypeOK'
    BY Zenon, <1>1, <1>2 DEF TypeOK
  <1>4. SignedOK' /\ \A m \in Replica : NodeOK(m)' /\ BufferOK(m)'
    BY <1>2 DEF Inductive, SignedOK, NodeOK, BufferOK, Bufferable, ClosedSet, Frontier,
                LinkedSet, LinkedOp, SlotTaken, By, BranchOf, HasTopic, GenesesIn
  <1>5. OwnWorkKept'
    <2>1. SUFFICES ASSUME NEW m \in Replica \ lost, NEW i \in By(DOMAIN signed \cap OpId, m)
                   PROVE  i \in ops[m] \cup released'[m] \cup UNION {f.evicted : f \in journal'[m]}
      BY <1>2 DEF OwnWorkKept, By
    <2>2. i \in ops[m] \cup released[m] \cup UNION {f.evicted : f \in journal[m]}
      BY <2>1 DEF Inductive, OwnWorkKept
    <2>. QED  BY <1>1, <1>2, <2>2 DEF TypeOK
  <1>. QED  BY <1>3, <1>4, <1>5 DEF Inductive

LEMMA SealStep ==
    ASSUME Inductive, NEW n \in Replica, SealTopic(n)
    PROVE  Inductive'
  <1>1. TypeOK'
    BY Zenon DEF Inductive, TypeOK, SealTopic
  <1>2. SignedOK' /\ OwnWorkKept' /\ \A m \in Replica : NodeOK(m)' /\ BufferOK(m)'
    BY DEF Inductive, SignedOK, OwnWorkKept, NodeOK, BufferOK, Bufferable, ClosedSet,
           Frontier, LinkedSet, LinkedOp, SlotTaken, By, BranchOf, HasTopic, GenesesIn,
           SealTopic
  <1>. QED  BY <1>1, <1>2 DEF Inductive

LEMMA LoseStep ==
    ASSUME Inductive, NEW n \in Replica, LoseStore(n)
    PROVE  Inductive'
  <1>1. TypeOK /\ NoTopic.genesis = NoOp /\ NoTopic.members = {}
    BY DEF Inductive, NoTopic, InitialState, TopicState
  <1>2. TypeOK'
    BY <1>1 DEF TypeOK, LoseStore
  <1>3. SignedOK' /\ OwnWorkKept'
    BY <1>1 DEF Inductive, TypeOK, SignedOK, OwnWorkKept, By, LoseStore
  <1>4. ASSUME NEW m \in Replica PROVE NodeOK(m)' /\ BufferOK(m)'
    <2>1. CASE m = n
      BY Zenon, <1>1, <2>1 DEF TypeOK, NodeOK, BufferOK, ClosedSet, Frontier, LinkedSet, BranchOf,
                        HasTopic, LoseStore
    <2>2. CASE m # n
      BY <2>2 DEF Inductive, NodeOK, BufferOK, Bufferable, ClosedSet, Frontier, LinkedSet,
                  LinkedOp, SlotTaken, By, BranchOf, HasTopic, GenesesIn, LoseStore
    <2>. QED  BY <2>1, <2>2
  <1>. QED  BY <1>2, <1>3, <1>4 DEF Inductive
=============================================================================
