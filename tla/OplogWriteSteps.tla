-------------------------- MODULE OplogWriteSteps ---------------------------
(***************************************************************************)
(* The inductive invariant of Oplog under the steps that sign records.     *)
(***************************************************************************)
EXTENDS OplogInvariant

\* A replica without a topic stores nothing.
LEMMA EmptyStore ==
    ASSUME Inductive, NEW n \in Replica, ~HasTopic(topic[n])
    PROVE  ops[n] = {} /\ heads[n] = {}
  BY DEF Inductive, NodeOK, BranchOf, Frontier

LEMMA GenesisBodyType ==
    ASSUME NEW n \in Replica, NEW peers \in Founders, NEW type \in EventType,
           NEW policy \in Policy
    PROVE  /\ GenesisBody(n, peers, type, policy) \in Body
           /\ peers \cup {n} \subseteq Peer
  BY PeerAssumption DEF GenesisBody, Body, GenesisPayload, NoOp

LEMMA CreateTopicStep ==
    ASSUME Inductive, NEW n \in Replica, CreateTopic(n)
    PROVE  Inductive'
  <1>1. PICK peers \in Founders, type \in EventType, policy \in Policy,
             i \in GenesisId \ DOMAIN signed :
          /\ signed' = WithBody(i, GenesisBody(n, peers, type, policy))
          /\ ops' = [ops EXCEPT ![n] = @ \cup {i}]
          /\ heads' = [heads EXCEPT ![n] = @ \cup {i}]
          /\ topic' = [topic EXCEPT ![n] = InitialState(i, type, peers \cup {n}, policy)]
    BY DEF CreateTopic
  <1>. DEFINE b == GenesisBody(n, peers, type, policy)
              st == InitialState(i, type, peers \cup {n}, policy)
  <1>2. /\ UNCHANGED <<pending, rejected, journal, released, sealed, lost>>
        /\ TypeOK /\ SignedOK /\ ops[n] = {} /\ heads[n] = {}
    BY EmptyStore DEF CreateTopic, Inductive
  <1>3. Adds({i}) /\ signed'[i] = b
    BY <1>1 DEF Adds, WithBody
  <1>4. b.past = {} /\ b.deps = {} /\ b.prev = NoOp /\ b.seq = 1 /\ b.author = n
        /\ b.payload.kind = "genesis"
    BY DEF GenesisBody
  <1>5. i \notin OpId /\ i # NoOp
    BY IdAssumption DEF NoOp, AllIds
  <1>6. st.members \subseteq Peer /\ st.genesis = i
    BY GenesisBodyType DEF InitialState, TopicState
  <1>7. SignedType'
    BY <1>1, <1>2, GenesisBodyType DEF TypeOK, SignedType, WithBody, AllIds
  <1>. HIDE DEF b, st
  <1>8. SignedOK'
    BY <1>2, <1>3, <1>4, <1>5, SignedGrows
  <1>9. ops'[n] = {i} /\ heads'[n] = {i} /\ topic'[n] = st
    BY <1>1, <1>2 DEF TypeOK, st
  <1>10. NodeOK(n)'
    BY <1>3, <1>4, <1>5, <1>6, <1>9
    DEF NodeOK, ClosedSet, Frontier, LinkedSet, LinkedOp, SlotTaken, By, BranchOf, HasTopic,
        GenesesIn
  <1>. QED
    BY Zenon, <1>1, <1>2, <1>3, <1>4, <1>6, <1>7, <1>8, <1>10, WriteStep DEF st

LEMMA CreateTopicWithEventStep ==
    ASSUME Inductive, NEW n \in Replica, CreateTopicWithEvent(n)
    PROVE  Inductive'
  <1>1. PICK peers \in Founders, type \in EventType, policy \in Policy,
             i \in GenesisId \ DOMAIN signed, j \in LeastFresh(OpId) :
          /\ signed' = [k \in DOMAIN signed \cup {i, j} |->
                IF k = i THEN GenesisBody(n, peers, type, policy)
                ELSE IF k = j THEN FirstEventBody(n, i, type) ELSE signed[k]]
          /\ ops' = [ops EXCEPT ![n] = @ \cup {i, j}]
          /\ heads' = [heads EXCEPT ![n] = @ \cup {j}]
          /\ topic' = [topic EXCEPT ![n] = InitialState(i, type, peers \cup {n}, policy)]
    BY DEF CreateTopicWithEvent
  <1>. DEFINE b == GenesisBody(n, peers, type, policy)
              c == FirstEventBody(n, i, type)
              st == InitialState(i, type, peers \cup {n}, policy)
  <1>2. /\ UNCHANGED <<pending, rejected, journal, released, sealed, lost>>
        /\ TypeOK /\ SignedOK /\ ops[n] = {} /\ heads[n] = {}
    BY EmptyStore DEF CreateTopicWithEvent, Inductive
  <1>3. j \in OpId \ DOMAIN signed /\ i # j /\ i \notin OpId /\ i # NoOp /\ j # NoOp
    BY IdAssumption DEF LeastFresh, NoOp, AllIds
  <1>4. Adds({i, j}) /\ signed'[i] = b /\ signed'[j] = c
    BY <1>1, <1>3 DEF Adds
  <1>5. /\ b.past = {} /\ b.deps = {} /\ b.prev = NoOp /\ b.seq = 1 /\ b.author = n
        /\ b.payload.kind = "genesis"
        /\ c.past = {i} /\ c.deps = {i} /\ c.prev = i /\ c.seq = 2 /\ c.author = n
        /\ c.payload.kind = "event"
    BY DEF GenesisBody, FirstEventBody
  <1>6. st.members \subseteq Peer /\ st.genesis = i
    BY GenesisBodyType DEF InitialState, TopicState
  <1>7. SignedType'
    <2>1. c \in Body
      BY PeerAssumption DEF FirstEventBody, Body, EventPayload, AllIds
    <2>2. b \in Body
      BY GenesisBodyType
    <2>. HIDE DEF b, c
    <2>3. signed' = [k \in DOMAIN signed \cup {i, j} |->
                       IF k = i THEN b ELSE IF k = j THEN c ELSE signed[k]]
      BY <1>1 DEF b, c
    <2>. QED  BY <1>2, <1>3, <2>1, <2>2, <2>3 DEF TypeOK, SignedType, AllIds
  <1>. HIDE DEF b, c, st
  <1>8. SignedOK'
    BY <1>2, <1>3, <1>4, <1>5 DEF SignedOK, Adds
  <1>9. ops'[n] = {i, j} /\ heads'[n] = {j} /\ topic'[n] = st
    BY <1>1, <1>2 DEF TypeOK, st
  <1>10. NodeOK(n)'
    BY <1>3, <1>4, <1>5, <1>6, <1>9
    DEF NodeOK, ClosedSet, Frontier, LinkedSet, LinkedOp, SlotTaken, By, BranchOf, HasTopic,
        GenesesIn
  <1>11. \A k \in {i, j} : signed'[k].author = n
    BY <1>4, <1>5
  <1>. QED
    BY Zenon, <1>1, <1>2, <1>4, <1>6, <1>7, <1>8, <1>10, <1>11, WriteStep DEF st

\* The ancestry spanned by dependencies is closed.
LEMMA PastOfClosed ==
    ASSUME SignedOK, NEW deps \in SUBSET DOMAIN signed
    PROVE  /\ deps \subseteq PastOf(deps)
           /\ PastOf(deps) \subseteq DOMAIN signed
           /\ \A d \in PastOf(deps) : signed[d].past \subseteq PastOf(deps)
           /\ deps = {} => PastOf(deps) = {}
  BY DEF SignedOK, PastOf

LEMMA CreateLocalStep ==
    ASSUME Inductive, NEW n \in Replica, NEW payload \in LocalPayload, CreateLocal(n, payload)
    PROVE  Inductive'
  <1>1. PICK t \in Tips(ops[n], n), g \in NextGenerations(n), i \in LeastFresh(OpId) :
          LET b == NextLocalOp(n, t, g, payload)
          IN  /\ LocalOpValid(n, b)
              /\ signed' = WithBody(i, b)
              /\ ops' = [ops EXCEPT ![n] = @ \cup {i}]
              /\ heads' = [heads EXCEPT ![n] = (@ \ b.deps) \cup {i}]
              /\ topic' = [topic EXCEPT ![n] = ApplyControl(@, i, b)]
    BY Zenon DEF CreateLocal
  <1>. DEFINE b == NextLocalOp(n, t, g, payload)
              S == ops[n]
              st == ApplyControl(topic[n], i, b)
              hd == (heads[n] \ b.deps) \cup {i}
  <1>2. /\ UNCHANGED <<pending, rejected, journal, released, sealed, lost>>
        /\ TypeOK /\ SignedOK /\ SignedType /\ NodeOK(n) /\ HasTopic(topic[n])
        /\ S \subseteq DOMAIN signed /\ heads[n] \subseteq S
    BY DEF CreateLocal, EnsureMember, Inductive, TypeOK, SignedType, NodeOK, Frontier
  <1>3. i \in OpId \ DOMAIN signed /\ i # NoOp /\ NoOp \notin S
    BY <1>2, IdAssumption DEF LeastFresh, NoOp, AllIds, TypeOK
  <1>4. /\ b.author = n /\ b.prev = t /\ b.seq = SeqAfter(t) /\ b.gen = g
        /\ b.deps = heads[n] \cup ({t} \ {NoOp}) /\ b.past = PastOf(b.deps)
        /\ b.payload = payload
    BY DEF NextLocalOp
  <1>5. /\ payload \in EventPayload \cup ControlPayload
        /\ payload.kind # "genesis"
    BY PeerAssumption DEF EventPayload, ControlPayload
  <1>6. t = NoOp \/ (t \in S /\ signed[t].author = n)
    BY Zenon DEF Tips, By
  <1>7. \A j \in S : signed[j].author = n => signed[j].seq # b.seq
    BY Zenon, <1>1 DEF LocalOpValid, By
  <1>8. st.members \subseteq Peer /\ st.genesis = topic[n].genesis
    BY Zenon DEF ApplyControl, TopicState
  <1>9. /\ signed' = WithBody(i, b)
        /\ ops' = [ops EXCEPT ![n] = @ \cup {i}]
        /\ heads' = [heads EXCEPT ![n] = hd]
        /\ topic' = [topic EXCEPT ![n] = st]
    BY Zenon, <1>1
  <1>10. \A j \in S : signed[j].gen \in Nat /\ signed[j].seq \in Nat
    BY Zenon, <1>2 DEF SignedType, Body
  <1>11. g \in Nat /\ SeqAfter(t) \in Nat
    BY <1>6, <1>10 DEF NextGenerations, SeqAfter
  <1>12. b.deps \subseteq S /\ b.deps \subseteq b.past /\ b.past \subseteq S
    <2>1. b.deps \subseteq S
      BY <1>2, <1>4, <1>6
    <2>. HIDE DEF b
    <2>. QED  BY <1>2, <1>4, <2>1 DEF NodeOK, ClosedSet, PastOf
  <1>13. /\ \A d \in b.past : signed[d].past \subseteq b.past
         /\ b.deps = {} => b.past = {}
    <2>1. b.deps \in SUBSET DOMAIN signed /\ b.past = PastOf(b.deps) /\ SignedOK
      BY <1>2, <1>4, <1>12
    <2>. HIDE DEF b
    <2>. QED  BY <2>1, PastOfClosed
  <1>14. b \in Body
    <2>1. S \subseteq AllIds /\ n \in Peer
      BY <1>2, PeerAssumption DEF TypeOK
    <2>2. /\ heads[n] \cup ({t} \ {NoOp}) \subseteq AllIds
          /\ PastOf(heads[n] \cup ({t} \ {NoOp})) \subseteq AllIds
          /\ t \in AllIds \cup {NoOp}
      BY <1>4, <1>6, <1>12, <2>1
    <2>. QED  BY <1>5, <1>11, <2>1, <2>2 DEF NextLocalOp, Body
  <1>. HIDE DEF b, st, hd
  <1>15. Adds({i}) /\ signed'[i] = b
    BY <1>3, <1>9 DEF Adds, WithBody
  <1>16. SignedType'
    BY <1>2, <1>3, <1>9, <1>14 DEF SignedType, WithBody, AllIds
  <1>17. SignedOK'
    <2>1. b.past \subseteq DOMAIN signed /\ b.payload.kind # "genesis"
      BY Zenon, <1>2, <1>4, <1>5, <1>12
    <2>. QED  BY <1>2, <1>12, <1>13, <1>15, <2>1, SignedGrows
  <1>18. ops'[n] = S \cup {i} /\ heads'[n] = hd /\ topic'[n] = st
    BY Zenon, <1>2, <1>9 DEF TypeOK
  <1>19. \A j \in S : signed'[j] = signed[j]
    BY <1>2, <1>15 DEF Adds
  <1>20. ClosedSet(ops[n])'
    BY Zenon, <1>2, <1>12, <1>15, <1>18, <1>19 DEF NodeOK, ClosedSet
  <1>21. (heads[n] = Frontier(ops[n]))'
    <2>1. \A j \in S : signed[j].deps \subseteq S
      BY Zenon, <1>2 DEF NodeOK, ClosedSet, SignedOK
    <2>. QED  BY <1>2, <1>3, <1>12, <1>15, <1>18, <1>19, <2>1 DEF NodeOK, Frontier, hd
  <1>22. LinkedSet(ops[n])'
    <2>1. \A j \in S : ~SlotTaken(S, j) /\ LinkedOp(j, S)
      BY <1>2 DEF NodeOK, LinkedSet
    <2>2. ASSUME NEW j \in S PROVE LinkedOp(j, ops[n])'
      BY <1>3, <1>18, <1>19, <2>1 DEF LinkedOp
    <2>3. LinkedOp(i, ops[n])'
      BY <1>3, <1>4, <1>6, <1>15, <1>18, <1>19 DEF LinkedOp, SeqAfter
    <2>4. ASSUME NEW j \in S PROVE ~SlotTaken(ops[n], j)'
      BY <1>4, <1>7, <1>15, <1>18, <1>19, <2>1 DEF SlotTaken, By
    <2>5. ~SlotTaken(ops[n], i)'
      BY <1>4, <1>7, <1>15, <1>18, <1>19 DEF SlotTaken, By
    <2>. QED  BY <1>18, <2>2, <2>3, <2>4, <2>5 DEF LinkedSet
  <1>23. BranchOf(ops[n], topic[n])'
    BY <1>2, <1>4, <1>5, <1>8, <1>15, <1>18, <1>19
    DEF NodeOK, BranchOf, HasTopic, GenesesIn
  <1>24. NodeOK(n)'
    BY <1>20, <1>21, <1>22, <1>23 DEF NodeOK
  <1>. QED
    BY Zenon, <1>2, <1>4, <1>8, <1>9, <1>15, <1>16, <1>17, <1>24, WriteStep

LEMMA SignForeignStep ==
    ASSUME Inductive, SignForeign
    PROVE  Inductive'
  <1>1. PICK i \in LeastFresh(ForeignId), author \in Peer, seq \in 0..MaxForeign,
             gen \in 0..MaxForeign, prev \in DOMAIN signed \cup {NoOp},
             deps \in SUBSET DOMAIN signed, payload \in ForeignPayload :
          signed' = WithBody(i,
              [author |-> author, seq |-> seq, prev |-> prev, deps |-> deps,
               past |-> PastOf(deps), gen |-> gen, payload |-> payload])
    BY DEF SignForeign
  <1>. DEFINE b == [author |-> author, seq |-> seq, prev |-> prev, deps |-> deps,
                    past |-> PastOf(deps), gen |-> gen, payload |-> payload]
  <1>2. /\ UNCHANGED <<ops, heads, topic, pending, rejected, journal, released, sealed, lost>>
        /\ TypeOK /\ SignedOK /\ SignedType
    BY DEF SignForeign, Inductive, TypeOK, SignedType
  <1>3. i \in ForeignId \ DOMAIN signed /\ i \notin OpId
    BY IdAssumption DEF LeastFresh
  <1>4. /\ deps \subseteq PastOf(deps) /\ PastOf(deps) \subseteq DOMAIN signed
        /\ \A d \in PastOf(deps) : signed[d].past \subseteq PastOf(deps)
        /\ deps = {} => PastOf(deps) = {}
    BY <1>2, PastOfClosed
  <1>5. b \in Body
    <2>1. /\ deps \in SUBSET AllIds /\ PastOf(deps) \in SUBSET AllIds
          /\ prev \in AllIds \cup {NoOp} /\ seq \in Nat /\ gen \in Nat
          /\ payload \in GenesisPayload \cup EventPayload \cup ControlPayload
      BY <1>2, <1>4, PeerAssumption, BoundAssumption DEF TypeOK
    <2>. QED  BY <2>1 DEF Body
  <1>6. b.deps = deps /\ b.past = PastOf(deps)
    OBVIOUS
  <1>. HIDE DEF b
  <1>7. Adds({i}) /\ signed'[i] = b
    BY <1>1, <1>3 DEF Adds, WithBody, b
  <1>8. SignedType'
    BY <1>1, <1>2, <1>3, <1>5 DEF SignedType, WithBody, AllIds, b
  <1>9. SignedOK'
    BY <1>2, <1>3, <1>4, <1>6, <1>7, SignedGrows
  <1>10. TypeOK'
    <2>1. ASSUME NEW m \in Replica
          PROVE  journal'[m] \subseteq [losing : DOMAIN signed', winning : DOMAIN signed',
                                        evicted : SUBSET DOMAIN signed']
      <3>1. journal[m] \subseteq [losing : DOMAIN signed, winning : DOMAIN signed,
                                  evicted : SUBSET DOMAIN signed]
        BY <1>2 DEF TypeOK
      <3>. QED  BY <1>2, <1>7, <3>1 DEF Adds
    <2>. QED  BY <1>2, <1>7, <1>8, <2>1 DEF TypeOK, Adds, SignedType
  <1>11. ASSUME NEW m \in Replica PROVE NodeOK(m)' /\ BufferOK(m)'
    BY <1>2, <1>7, OthersKept, BuffersKept
  <1>12. OwnWorkKept'
    BY <1>2, <1>3, <1>7 DEF Inductive, OwnWorkKept, By, Adds
  <1>. QED  BY <1>9, <1>10, <1>11, <1>12 DEF Inductive
=============================================================================
