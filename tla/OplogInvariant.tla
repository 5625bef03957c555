--------------------------- MODULE OplogInvariant ---------------------------
(***************************************************************************)
(* The inductive invariant of Oplog, and what a valid batch adds to a store.*)
(***************************************************************************)
EXTENDS Oplog, TLAPS

\* Records name their ancestry completely: `past' contains the dependencies and
\* is closed under the ancestry of its members.  No id of OpId is a genesis.
SignedOK ==
    \A i \in DOMAIN signed :
       /\ signed[i].deps \subseteq signed[i].past
       /\ signed[i].past \subseteq DOMAIN signed
       /\ \A d \in signed[i].past : signed[d].past \subseteq signed[i].past
       /\ signed[i].deps = {} => signed[i].past = {}
       /\ i \in OpId => signed[i].payload.kind # "genesis"

\* The parts of the invariant, for one set of stored ids.
ClosedSet(S) == \A i \in S : signed[i].past \subseteq S
Frontier(S) == {i \in S : \A j \in S : i \notin signed[j].deps}
LinkedOp(i, S) ==
    IF signed[i].prev = NoOp THEN signed[i].seq = 1
    ELSE /\ signed[i].prev \in S \cap signed[i].deps
         /\ signed[signed[i].prev].author = signed[i].author
         /\ signed[i].seq = signed[signed[i].prev].seq + 1
LinkedSet(S) == \A i \in S : ~SlotTaken(S, i) /\ LinkedOp(i, S)
BranchOf(S, st) ==
    IF HasTopic(st) THEN GenesesIn(S) = {st.genesis} ELSE S = {}

SignedType == /\ DOMAIN signed \subseteq AllIds
              /\ signed \in [DOMAIN signed -> Body]

----------------------------------------------------------------------------
(* What a valid batch adds *)

\* A batch that passes validation has every admitted operation pass its own.
LEMMA BatchValidEach ==
    ASSUME NEW B, NEW S, NEW hd, NEW st, BatchValid(B, S, hd, st),
           NEW i \in Admissible(B, S)
    PROVE  AdmitError(i, S \cup Before(Admissible(B, S), i),
                      HeadsAfter(hd, Before(Admissible(B, S), i)),
                      StateAfter(st, Before(Admissible(B, S), i))) = "none"
  BY DEF BatchValid, BatchErrors

\* Admission keeps the stored set closed: an ancestor of an admitted operation
\* is stored, or is in the batch with its own ancestry and admitted too.
LEMMA AdmissibleClosed ==
    ASSUME SignedOK, NEW B \in SUBSET DOMAIN signed, NEW S \in SUBSET DOMAIN signed,
           ClosedSet(S)
    PROVE  ClosedSet(S \cup Admissible(B, S))
  <1>1. SUFFICES ASSUME NEW i \in Admissible(B, S), NEW d \in signed[i].past, d \notin S
                 PROVE  d \in Admissible(B, S)
    BY DEF ClosedSet
  <1>2. i \in DOMAIN signed /\ signed[i].past \subseteq S \cup B
    BY DEF Admissible
  <1>3. signed[d].past \subseteq S \cup B
    BY <1>2 DEF SignedOK
  <1>. QED  BY <1>1, <1>2, <1>3 DEF Admissible

\* The frontier moves exactly by the admitted operations.
LEMMA FrontierMoves ==
    ASSUME SignedOK, NEW B \in SUBSET DOMAIN signed, NEW S \in SUBSET DOMAIN signed,
           ClosedSet(S)
    PROVE  HeadsAfter(Frontier(S), Admissible(B, S)) = Frontier(S \cup Admissible(B, S))
  <1>. DEFINE A == Admissible(B, S)
  <1>1. A \cap S = {} /\ A \subseteq DOMAIN signed
    BY DEF Admissible
  <1>2. ASSUME NEW j \in S, NEW i \in signed[j].deps
        PROVE  i \in S
    BY DEF ClosedSet, SignedOK
  <1>. HIDE DEF A
  <1>3. HeadsAfter(Frontier(S), A) = Frontier(S \cup A)
    BY <1>1, <1>2 DEF HeadsAfter, Frontier
  <1>. QED  BY <1>3 DEF A

\* Two admitted operations are ordered by generation and id.
LEMMA BeforeTotal ==
    ASSUME SignedType, NEW A \in SUBSET DOMAIN signed, NEW i \in A, NEW j \in A, i # j
    PROVE  i \in Before(A, j) \/ j \in Before(A, i)
  <1>1. i \in Nat /\ j \in Nat
    BY IdAssumption DEF SignedType
  <1>2. signed[i].gen \in Nat /\ signed[j].gen \in Nat
    BY DEF SignedType, Body
  <1>. QED  BY <1>1, <1>2 DEF Before

\* Passing validation places an operation right after the actor tip.
LEMMA PassesLinked ==
    ASSUME SignedType, NEW P \in SUBSET DOMAIN signed, NEW i \in DOMAIN signed,
           NEW hd, NEW st, AdmitError(i, P, hd, st) = "none"
    PROVE  ~SlotTaken(P, i) /\ LinkedOp(i, P)
  <1>. DEFINE b == signed[i]
  <1>1. /\ b.prev # NoOp => b.prev \in b.deps
        /\ ~SlotTaken(P, i)
        /\ \E t \in Tips(P, b.author) : b.seq = SeqAfter(t)
        /\ b.prev \in Tips(P, b.author)
    BY DEF AdmitError
  <1>2. NoOp \notin P
    BY IdAssumption DEF SignedType, NoOp
  <1>3. \A j \in P : signed[j].seq \in Nat
    BY DEF SignedType, Body
  <1>4. CASE By(P, b.author) = {}
    BY <1>1, <1>4 DEF Tips, SeqAfter, LinkedOp
  <1>5. CASE By(P, b.author) # {}
    <2>1. PICK t \in Tips(P, b.author) : b.seq = SeqAfter(t)
      BY <1>1
    <2>2. /\ t \in P /\ b.prev \in P
          /\ signed[b.prev].author = b.author
          /\ signed[b.prev].seq <= signed[t].seq
          /\ signed[t].seq <= signed[b.prev].seq
      BY <1>1, <1>5, <2>1 DEF Tips, By
    <2>3. signed[t].seq = signed[b.prev].seq
      BY <1>3, <2>2
    <2>. QED  BY <1>1, <1>2, <2>1, <2>2, <2>3 DEF SeqAfter, LinkedOp
  <1>. QED  BY <1>4, <1>5

\* A valid batch forks no chain: of two admitted operations of one slot, the
\* one validated later finds the slot taken.
LEMMA LinkedMoves ==
    ASSUME SignedType, NEW B \in SUBSET DOMAIN signed, NEW S \in SUBSET DOMAIN signed,
           LinkedSet(S), NEW hd, NEW st, BatchValid(B, S, hd, st)
    PROVE  LinkedSet(S \cup Admissible(B, S))
  <1>. DEFINE A == Admissible(B, S)
              P(i) == S \cup Before(A, i)
  <1>1. A \subseteq DOMAIN signed
    BY DEF Admissible
  <1>2. \A i \in A : ~SlotTaken(P(i), i) /\ LinkedOp(i, P(i))
    <2>1. TAKE i \in A
    <2>2. P(i) \subseteq DOMAIN signed
      BY <1>1 DEF Before
    <2>3. AdmitError(i, P(i), HeadsAfter(hd, Before(A, i)),
                     StateAfter(st, Before(A, i))) = "none"
      BY BatchValidEach
    <2>. HIDE DEF A, P
    <2>. QED  BY <1>1, <2>2, <2>3, PassesLinked
  <1>3. \A i \in A : P(i) \subseteq S \cup A
    BY DEF Before
  <1>4. \A i, j \in A : i # j => j \in P(i) \/ i \in P(j)
    <2>. HIDE DEF A
    <2>. QED  BY <1>1, BeforeTotal
  <1>5. \A i \in S : ~SlotTaken(S, i) /\ LinkedOp(i, S)
    BY DEF LinkedSet
  <1>. HIDE DEF A
  <1>6. \A i \in S \cup A : LinkedOp(i, S \cup A)
    BY Zenon, <1>2, <1>3, <1>5 DEF LinkedOp
  <1>7. ASSUME NEW i \in S \cup A, NEW j \in S \cup A, i # j,
               signed[i].author = signed[j].author, signed[i].seq = signed[j].seq
        PROVE  FALSE
    <2>1. (i \in S /\ j \in S) \/ (i \in A /\ j \in P(i)) \/ (j \in A /\ i \in P(j))
      BY <1>4, <1>7
    <2>. QED  BY <1>2, <1>5, <1>7, <2>1 DEF SlotTaken, By
  <1>8. \A i \in S \cup A : ~SlotTaken(S \cup A, i)
    BY <1>7 DEF SlotTaken, By
  <1>9. LinkedSet(S \cup A)
    BY <1>6, <1>8 DEF LinkedSet
  <1>. QED  BY <1>9 DEF A

\* The running state has a topic once there was one or a genesis was admitted.
LEMMA StateAfterGenesis ==
    ASSUME SignedType, NEW st, NEW A \in SUBSET DOMAIN signed
    PROVE  /\ StateAfter(st, A).members \subseteq Peer
           /\ GenesesIn(A) = {} => StateAfter(st, A).genesis = st.genesis
           /\ GenesesIn(A) # {} => StateAfter(st, A).genesis \in GenesesIn(A)
           /\ HasTopic(StateAfter(st, A)) <=> HasTopic(st) \/ GenesesIn(A) # {}
  <1>1. \A s : /\ ApplyControls(s, A).genesis = s.genesis
              /\ ApplyControls(s, A).members \subseteq Peer
    BY DEF ApplyControls, TopicState
  <1>2. \A g : GenesisState(g).genesis = g
    BY DEF GenesisState, InitialState, TopicState
  <1>3. GenesesIn(A) # {} => (CHOOSE g \in GenesesIn(A) : TRUE) \in GenesesIn(A)
    OBVIOUS
  <1>4. NoOp \notin GenesesIn(A)
    BY IdAssumption DEF SignedType, GenesesIn, NoOp
  <1>. QED  BY <1>1, <1>2, <1>3, <1>4 DEF StateAfter, HasTopic

\* A valid batch brings at most one genesis, and only to an empty topic.
LEMMA BranchMoves ==
    ASSUME SignedType, NEW B \in SUBSET DOMAIN signed, NEW S \in SUBSET DOMAIN signed,
           NEW hd, NEW st, BranchOf(S, st), BatchValid(B, S, hd, st)
    PROVE  BranchOf(S \cup Admissible(B, S), StateAfter(st, Admissible(B, S)))
  <1>. DEFINE A == Admissible(B, S)
              Running(i) == StateAfter(st, Before(A, i))
  <1>1. A \subseteq DOMAIN signed /\ \A i : Before(A, i) \subseteq A
    BY DEF Admissible, Before
  <1>2. \A i \in A : HasTopic(Running(i)) <=> signed[i].payload.kind # "genesis"
    <2>1. TAKE i \in A
    <2>2. AdmitError(i, S \cup Before(A, i), HeadsAfter(hd, Before(A, i)), Running(i)) = "none"
      BY BatchValidEach
    <2>. HIDE DEF A, Running
    <2>. QED  BY <2>2 DEF AdmitError
  <1>. HIDE DEF A
  <1>3. \A i \in A : HasTopic(Running(i)) <=> HasTopic(st) \/ GenesesIn(Before(A, i)) # {}
    BY <1>1, StateAfterGenesis
  <1>4. \A i, j \in GenesesIn(A) : i = j
    <2>1. SUFFICES ASSUME NEW i \in GenesesIn(A), NEW j \in GenesesIn(A), i # j
                   PROVE  FALSE
      OBVIOUS
    <2>2. i \in Before(A, j) \/ j \in Before(A, i)
      BY <1>1, <2>1, BeforeTotal DEF GenesesIn
    <2>. QED  BY <1>2, <1>3, <2>2 DEF GenesesIn
  <1>5. /\ GenesesIn(A) = {} => StateAfter(st, A).genesis = st.genesis
        /\ GenesesIn(A) # {} => StateAfter(st, A).genesis \in GenesesIn(A)
        /\ HasTopic(StateAfter(st, A)) <=> HasTopic(st) \/ GenesesIn(A) # {}
    BY <1>1, StateAfterGenesis
  <1>6. GenesesIn(S \cup A) = GenesesIn(S) \cup GenesesIn(A)
    BY DEF GenesesIn
  <1>7. CASE HasTopic(st)
    <2>1. GenesesIn(A) = {}
      BY <1>2, <1>3, <1>7 DEF GenesesIn
    <2>2. BranchOf(S \cup A, StateAfter(st, A))
      BY <1>5, <1>6, <1>7, <2>1 DEF BranchOf
    <2>. QED  BY <2>2 DEF A
  <1>8. CASE ~HasTopic(st)
    <2>1. S = {} /\ GenesesIn(S) = {}
      BY <1>8 DEF BranchOf, GenesesIn
    <2>2. GenesesIn(A) = {} => A = {}
      BY <1>1, <1>2, <1>3, <1>8 DEF GenesesIn
    <2>3. BranchOf(S \cup A, StateAfter(st, A))
      BY <1>4, <1>5, <1>6, <1>8, <2>1, <2>2 DEF BranchOf
    <2>. QED  BY <2>3 DEF A
  <1>. QED  BY <1>7, <1>8

----------------------------------------------------------------------------
(* The inductive invariant *)

NodeOK(n) ==
    /\ ClosedSet(ops[n])
    /\ heads[n] = Frontier(ops[n])
    /\ LinkedSet(ops[n])
    /\ BranchOf(ops[n], topic[n])

BufferOK(n) ==
    \A i \in pending[n] : i \notin ops[n] /\ Bufferable(i, ops[n], rejected[n])

Inductive ==
    /\ TypeOK
    /\ SignedOK
    /\ \A n \in Replica : NodeOK(n)
    /\ \A n \in Replica : BufferOK(n)
    /\ OwnWorkKept

LEMMA InductiveImplies ==
    Inductive => Closed /\ HeadsExact /\ ChainsLinked /\ OneBranch /\ BufferLive
  BY DEF Inductive, NodeOK, BufferOK, ClosedSet, Frontier, LinkedSet, LinkedOp, BranchOf,
         SlotTaken, By, Bufferable, Missing, Closed, HeadsExact, ChainsLinked, OneBranch, BufferLive

LEMMA InitInductive == Init => Inductive
  <1>1. Init => TypeOK
    BY DEF Init, TypeOK, NoTopic, InitialState, TopicState
  <1>2. Init => SignedOK
    BY DEF Init, SignedOK
  <1>3. Init => \A n \in Replica : NodeOK(n)
    BY DEF Init, NodeOK, ClosedSet, Frontier, LinkedSet, BranchOf, HasTopic,
           NoTopic, InitialState, TopicState
  <1>4. Init => \A n \in Replica : BufferOK(n)
    BY DEF Init, BufferOK
  <1>5. Init => OwnWorkKept
    BY DEF Init, OwnWorkKept, By
  <1>. QED  BY <1>1, <1>2, <1>3, <1>4, <1>5 DEF Inductive

\* The waiters of a buffered id are closed: who waits for one of them is one.
LEMMA DownstreamClosed ==
    ASSUME NEW S, NEW root, NEW i \in S, i # root,
           NEW d \in signed[i].deps, d \in {root} \cup Downstream(S, root)
    PROVE  i \in Downstream(S, root)
  <1>1. SUFFICES ASSUME NEW C \in SUBSET S,
                        \A j \in S : signed[j].deps \cap (C \cup {root}) # {} => j \in C
                 PROVE  i \in C
    BY DEF Downstream
  <1>2. d \in C \cup {root}
    BY <1>1 DEF Downstream
  <1>. QED  BY <1>1, <1>2

----------------------------------------------------------------------------
(* What holds when new records are signed *)

\* New ids N join the signed records; the old records stay.
Adds(N) ==
    /\ N \cap DOMAIN signed = {}
    /\ DOMAIN signed' = DOMAIN signed \cup N
    /\ \A j \in DOMAIN signed : signed'[j] = signed[j]

\* A new record whose ancestry is signed and closed keeps the records sound.
LEMMA SignedGrows ==
    ASSUME SignedOK, NEW i, NEW b, Adds({i}), signed'[i] = b,
           b.deps \subseteq b.past, b.past \subseteq DOMAIN signed,
           \A d \in b.past : signed[d].past \subseteq b.past,
           b.deps = {} => b.past = {},
           i \in OpId => b.payload.kind # "genesis"
    PROVE  SignedOK'
  <1>. DEFINE Sound(k) ==
                 /\ signed[k].deps \subseteq signed[k].past
                 /\ signed[k].past \subseteq DOMAIN signed
                 /\ \A d \in signed[k].past : signed[d].past \subseteq signed[k].past
                 /\ signed[k].deps = {} => signed[k].past = {}
                 /\ k \in OpId => signed[k].payload.kind # "genesis"
  <1>1. /\ DOMAIN signed' = DOMAIN signed \cup {i}
        /\ \A k \in DOMAIN signed : signed'[k] = signed[k]
    BY DEF Adds
  <1>2. Sound(i)'
    BY <1>1
  <1>3. ASSUME NEW k \in DOMAIN signed PROVE Sound(k)'
    <2>1. Sound(k)
      BY DEF SignedOK
    <2>. QED  BY <1>1, <2>1
  <1>4. \A k \in DOMAIN signed' : Sound(k)'
    <2>. HIDE DEF Sound
    <2>. QED  BY <1>1, <1>2, <1>3
  <1>. QED  BY <1>4 DEF SignedOK

\* What is true of a store whose tables do not change stays true.
LEMMA OthersKept ==
    ASSUME Inductive, NEW N, Adds(N), NEW m \in Replica,
           ops'[m] = ops[m], heads'[m] = heads[m], topic'[m] = topic[m]
    PROVE  NodeOK(m)'
  <1>1. ops[m] \subseteq DOMAIN signed /\ NodeOK(m)
    BY DEF Inductive, TypeOK
  <1>2. \A j \in ops[m] : signed'[j] = signed[j]
    BY <1>1 DEF Adds
  <1>3. \A j \in ops[m] : signed[j].prev # NoOp => signed[j].prev \in ops[m]
    BY <1>1 DEF NodeOK, LinkedSet, LinkedOp
  <1>4. ClosedSet(ops[m])' /\ (heads[m] = Frontier(ops[m]))'
    BY <1>1, <1>2 DEF NodeOK, ClosedSet, Frontier
  <1>5. LinkedSet(ops[m])'
    BY <1>1, <1>2, <1>3 DEF NodeOK, LinkedSet, LinkedOp, SlotTaken, By
  <1>6. BranchOf(ops[m], topic[m])'
    BY <1>1, <1>2 DEF NodeOK, BranchOf, HasTopic, GenesesIn
  <1>. QED  BY <1>4, <1>5, <1>6 DEF NodeOK

LEMMA BuffersKept ==
    ASSUME Inductive, NEW N, Adds(N), NEW m \in Replica,
           ops'[m] \subseteq ops[m] \cup N, ops[m] \subseteq ops'[m],
           UNCHANGED <<pending, rejected>>
    PROVE  BufferOK(m)'
  <1>1. pending[m] \subseteq DOMAIN signed /\ BufferOK(m)
    BY DEF Inductive, TypeOK
  <1>. QED  BY <1>1 DEF Adds, BufferOK, Bufferable

\* Replica n stores the records N it has just written.
LEMMA WriteStep ==
    ASSUME Inductive, NEW n \in Replica, NEW N, NEW hd, NEW st, Adds(N),
           SignedType', SignedOK', NodeOK(n)', st.members \subseteq Peer,
           \A i \in N : signed'[i].author = n,
           ops' = [ops EXCEPT ![n] = @ \cup N],
           heads' = [heads EXCEPT ![n] = hd],
           topic' = [topic EXCEPT ![n] = st],
           UNCHANGED <<pending, rejected, journal, released, sealed, lost>>
    PROVE  Inductive'
  <1>1. TypeOK
    BY DEF Inductive
  <1>2. /\ ops' \in [Replica -> SUBSET DOMAIN signed']
        /\ pending' \in [Replica -> SUBSET DOMAIN signed']
        /\ rejected' \in [Replica -> SUBSET DOMAIN signed']
        /\ released' \in [Replica -> SUBSET DOMAIN signed']
    BY <1>1 DEF TypeOK, Adds
  <1>3. heads' \in [Replica -> SUBSET DOMAIN signed']
    <2>1. hd \subseteq DOMAIN signed'
      BY <1>1, <1>2 DEF NodeOK, Frontier, TypeOK
    <2>. QED  BY <1>1, <2>1 DEF TypeOK, Adds
  <1>4. ASSUME NEW m \in Replica
        PROVE  /\ topic'[m].genesis \in DOMAIN signed' \cup {NoOp}
               /\ topic'[m].members \subseteq Peer
    <2>1. CASE m = n
      BY <1>1, <1>2, <2>1 DEF TypeOK, NodeOK, BranchOf, HasTopic, GenesesIn
    <2>2. CASE m # n
      BY <1>1, <2>2 DEF TypeOK, Adds
    <2>. QED  BY <2>1, <2>2
  <1>5. ASSUME NEW m \in Replica
        PROVE  journal'[m] \subseteq [losing : DOMAIN signed', winning : DOMAIN signed',
                                      evicted : SUBSET DOMAIN signed']
    <2>1. journal[m] \subseteq [losing : DOMAIN signed, winning : DOMAIN signed,
                                evicted : SUBSET DOMAIN signed]
      BY <1>1 DEF TypeOK
    <2>. QED  BY <2>1 DEF Adds
  <1>6. TypeOK'
    BY <1>1, <1>2, <1>3, <1>4, <1>5 DEF TypeOK, SignedType
  <1>7. ASSUME NEW m \in Replica PROVE NodeOK(m)' /\ BufferOK(m)'
    <2>1. CASE m = n
      BY <1>1, <2>1, BuffersKept DEF TypeOK
    <2>2. CASE m # n
      BY <1>1, <2>2, OthersKept, BuffersKept DEF TypeOK
    <2>. QED  BY <2>1, <2>2
  <1>8. OwnWorkKept'
    BY <1>1 DEF Inductive, TypeOK, OwnWorkKept, By, Adds
  <1>. QED  BY <1>6, <1>7, <1>8 DEF Inductive
=============================================================================
