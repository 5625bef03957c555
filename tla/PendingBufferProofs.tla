------------------------ MODULE PendingBufferProofs ------------------------
(***************************************************************************)
(* Proofs about PendingBuffer: the indexes and the waits of the buffer are *)
(* exact for every dependency graph, every limit and every history.        *)
(***************************************************************************)
EXTENDS PendingBuffer, TLAPS

\* What a call in flight has read: every dependency it left out was stored, and
\* stays so, because a reset of the topic waits for its turn.
CallsOK ==
    \A c \in calls :
       /\ c.op \in Op
       /\ c.missing \subseteq Deps[c.op]
       /\ c.missing # {}
       /\ Deps[c.op] \ c.missing \subseteq stored

TablesOK ==
    /\ stored \subseteq Op
    /\ DOMAIN records \subseteq Op
    /\ DOMAIN waiters = Op
    /\ \A i \in Pending :
          records[i] = [source |-> records[i].source, missing |-> records[i].missing]

Inductive == TablesOK /\ CallsOK /\ IndexesAgree /\ WaitsExact

\* The empty buffer.
LEMMA InitInductive == Init => Inductive
  BY DagAssumption DEF Init, Inductive, TablesOK, CallsOK, IndexesAgree, WaitsExact, Pending

\* Removing any set of records keeps the indexes and the waits of the others.
LEMMA RemoveKeeps ==
    ASSUME Inductive, NEW S, S \subseteq Pending, RemovePending(S)
    PROVE  /\ IndexesAgree'
           /\ DOMAIN records' = Pending \ S
           /\ DOMAIN waiters' = Op
           /\ \A i \in DOMAIN records' : records'[i] = records[i]
  <1>1. /\ DOMAIN records' = Pending \ S
        /\ \A i \in DOMAIN records' : records'[i] = records[i]
        /\ DOMAIN waiters' = Op
    BY DEF RemovePending, WaitersWithout
  <1>2. \A d \in Op : waiters'[d] = {i \in Pending' : d \in records'[i].missing}
    BY <1>1 DEF RemovePending, WaitersWithout, Inductive, IndexesAgree, Pending
  <1>3. ready' = {i \in Pending' : records'[i].missing = {}}
    BY Zenon, <1>1 DEF RemovePending, Inductive, IndexesAgree, Pending
  <1> QED BY <1>1, <1>2, <1>3 DEF IndexesAgree

\* A removal that stores and unstores nothing.
LEMMA ShrinkStep ==
    ASSUME Inductive, NEW S, S \subseteq Pending, RemovePending(S),
           UNCHANGED <<stored, calls>>
    PROVE  Inductive'
  <1>1. /\ IndexesAgree'
        /\ DOMAIN records' = Pending \ S
        /\ DOMAIN waiters' = Op
        /\ \A i \in DOMAIN records' : records'[i] = records[i]
    BY Zenon, RemoveKeeps
  <1> QED BY <1>1 DEF Inductive, TablesOK, CallsOK, WaitsExact, Pending

LEMMA ReadStep ==
    ASSUME Inductive, NEW s \in Source, NEW i \in Op, Read(s, i)
    PROVE  Inductive'
  <1>1. CallsOK'
    BY DagAssumption DEF Read, Inductive, CallsOK
  <1> QED BY <1>1 DEF Read, Inductive, TablesOK, IndexesAgree, WaitsExact, Pending

\* A put that is answered "Buffered" waits for exactly what is missing now.
LEMMA PutStep ==
    ASSUME Inductive, NEW c \in calls, PutPending(c)
    PROVE  Inductive'
  <1>1. CASE Answer(c) # "Buffered"
    BY <1>1 DEF PutPending, Inductive, TablesOK, CallsOK, IndexesAgree, WaitsExact, Pending
  <1>2. CASE Answer(c) = "Buffered"
    <2>1. c.op \notin stored /\ c.missing \cap stored = {}
      BY <1>2 DEF Answer, Conflicts
    <2>2. c.op \in Op /\ c.missing = Deps[c.op] \ stored /\ c.missing # {}
      BY <2>1 DEF Inductive, CallsOK
    <2>3. /\ DOMAIN records' = Pending \cup {c.op}
          /\ \A j \in Pending \ {c.op} : records'[j] = records[j]
          /\ records'[c.op].missing = c.missing
          /\ records'[c.op] = [source |-> records'[c.op].source, missing |-> c.missing]
      BY <1>2 DEF PutPending
    <2>4. /\ DOMAIN waiters' = Op
          /\ \A d \in Op : waiters'[d] = IF d \in c.missing THEN waiters[d] \cup {c.op}
                                         ELSE waiters[d] \ {c.op}
          /\ ready' = ready \ {c.op}
      BY <1>2, <2>2 DEF PutPending
    <2>5. UNCHANGED stored /\ calls' = calls \ {c}
      BY DEF PutPending
    <2>6. \A d \in Op : waiters'[d] = {i \in Pending' : d \in records'[i].missing}
      BY <2>3, <2>4 DEF Inductive, IndexesAgree, Pending
    <2>7. ready' = {i \in Pending' : records'[i].missing = {}}
      BY <2>2, <2>3, <2>4 DEF Inductive, IndexesAgree, Pending
    <2>8. WaitsExact'
      BY <2>1, <2>2, <2>3, <2>5 DEF Inductive, WaitsExact, Pending
    <2>9. TablesOK' /\ CallsOK'
      BY <2>2, <2>3, <2>4, <2>5 DEF Inductive, TablesOK, CallsOK, Pending
    <2> QED BY <2>6, <2>7, <2>8, <2>9 DEF Inductive, IndexesAgree
  <1> QED BY <1>1, <1>2

\* An admitted batch leaves the buffer, and nothing keeps waiting for it.
LEMMA AdmitStep ==
    ASSUME Inductive, NEW B \in SUBSET Op, Admit(B)
    PROVE  Inductive'
  <1>1. /\ stored' = stored \cup B
        /\ DOMAIN records' = Pending \ B
        /\ \A i \in Pending \ B :
              records'[i] = [records[i] EXCEPT !.missing = records[i].missing \ B]
        /\ DOMAIN waiters' = Op
        /\ \A d \in Op : waiters'[d] = IF d \in B THEN {} ELSE waiters[d] \ B
        /\ ready' = (ready \ B) \cup
              {i \in Pending \ B : records[i].missing \cap B # {} /\ records[i].missing \ B = {}}
        /\ calls' = calls
    BY DEF Admit, Settled
  <1>2. \A i \in Pending \ B :
           /\ records'[i].missing = records[i].missing \ B
           /\ records'[i] = [source |-> records'[i].source, missing |-> records'[i].missing]
    BY <1>1 DEF Inductive, TablesOK
  <1>3. \A d \in Op : waiters'[d] = {i \in Pending' : d \in records'[i].missing}
    BY <1>1, <1>2 DEF Inductive, IndexesAgree, Pending
  <1>4. ready' = {i \in Pending' : records'[i].missing = {}}
    BY <1>1, <1>2 DEF Inductive, IndexesAgree, Pending
  <1>5. WaitsExact'
    BY <1>1, <1>2 DEF Inductive, WaitsExact, Pending
  <1>6. TablesOK' /\ CallsOK'
    BY <1>1, <1>2 DEF Inductive, TablesOK, CallsOK, Pending
  <1> QED BY <1>3, <1>4, <1>5, <1>6 DEF Inductive, IndexesAgree

\* A reset empties the topic and its buffer together, outside any call.
LEMMA ResetStep ==
    ASSUME Inductive, NEW t \in Topic, ResetTopic(t)
    PROVE  Inductive'
  <1>1. /\ IndexesAgree'
        /\ DOMAIN records' = Pending \ In(Pending, t)
        /\ DOMAIN waiters' = Op
        /\ \A i \in DOMAIN records' : records'[i] = records[i]
    BY RemoveKeeps DEF ResetTopic, In
  <1>2. stored' = {i \in stored : TopicOf[i] # t}
    BY DEF ResetTopic, In
  <1>3. WaitsExact'
    <2> SUFFICES ASSUME NEW i \in Pending'
                 PROVE  i \notin stored' /\ records'[i].missing = Deps[i] \ stored'
      BY DEF WaitsExact
    <2>1. i \in Pending /\ i \in Op /\ TopicOf[i] # t /\ records'[i] = records[i]
      BY <1>1 DEF Inductive, TablesOK, Pending, In
    <2>2. \A d \in Deps[i] : TopicOf[d] # t
      BY <2>1, DagAssumption
    <2> QED BY <1>2, <2>1, <2>2 DEF Inductive, WaitsExact
  <1>4. CallsOK'
    <2> SUFFICES ASSUME NEW c \in calls
                 PROVE  Deps[c.op] \ c.missing \subseteq stored'
      BY DEF ResetTopic, CallsOK, Inductive
    <2>1. c.op \in Op /\ TopicOf[c.op] # t
      BY DEF ResetTopic, Inductive, CallsOK
    <2>2. \A d \in Deps[c.op] : TopicOf[d] # t
      BY <2>1, DagAssumption
    <2> QED BY <1>2, <2>2 DEF Inductive, CallsOK
  <1>5. TablesOK'
    BY <1>1, <1>2 DEF Inductive, TablesOK, Pending
  <1> QED BY <1>1, <1>3, <1>4, <1>5 DEF Inductive

LEMMA ClosurePending == \A d : WaiterClosure(d) \subseteq Pending
  BY DEF WaiterClosure

LEMMA NextInductive == Inductive /\ [Next]_vars => Inductive'
  <1> SUFFICES ASSUME Inductive, [Next]_vars PROVE Inductive'
    OBVIOUS
  <1>1. ASSUME NEW s \in Source, NEW i \in Op, Read(s, i) PROVE Inductive'
    BY <1>1, ReadStep
  <1>2. ASSUME NEW c \in calls, PutPending(c) PROVE Inductive'
    BY <1>2, PutStep
  <1>3. ASSUME NEW B \in SUBSET Op, Admit(B) PROVE Inductive'
    BY <1>3, AdmitStep
  <1>4. ASSUME NEW i \in ready, RejectSubtree(i) PROVE Inductive'
    <2>1. {i} \cup WaiterClosure(i) \subseteq Pending
      BY ClosurePending DEF Inductive, IndexesAgree
    <2> QED BY <1>4, <2>1, ShrinkStep DEF RejectSubtree
  <1>5. ASSUME NEW g \in Op, PurgeWaiters(g) PROVE Inductive'
    BY <1>5, ClosurePending, ShrinkStep DEF PurgeWaiters
  <1>6. CASE ExpirePending
    <2> DEFINE Seen(i) == IF i \in DOMAIN since THEN since[i] ELSE now
               expired == {i \in Pending : Seen(i) + MaxIdle < now}
               subtrees == expired \cup UNION {WaiterClosure(i) : i \in expired}
    <2>1. subtrees \subseteq Pending
      BY ClosurePending
    <2>2. RemovePending(subtrees) /\ UNCHANGED <<stored, calls>>
      BY <1>6 DEF ExpirePending
    <2> HIDE DEF subtrees
    <2> QED BY <2>1, <2>2, ShrinkStep
  <1>7. ASSUME NEW t \in Topic, ResetTopic(t) PROVE Inductive'
    BY <1>7, ResetStep
  <1>8. CASE Tick
    BY <1>8 DEF Tick, Inductive, TablesOK, CallsOK, IndexesAgree, WaitsExact, Pending
  <1>9. CASE UNCHANGED vars
    BY <1>9 DEF vars, Inductive, TablesOK, CallsOK, IndexesAgree, WaitsExact, Pending
  <1> QED BY <1>1, <1>2, <1>3, <1>4, <1>5, <1>6, <1>7, <1>8, <1>9 DEF Next

\* The waiter index and the ready index of the buffer are those of its records,
\* for every graph, every quota and every interleaving of puts and admissions.
THEOREM IndexesCorrect == Spec => []IndexesAgree
  <1>1. Inductive => IndexesAgree
    BY DEF Inductive
  <1> QED BY InitInductive, NextInductive, <1>1, PTL DEF Spec

\* A buffered operation waits for exactly its dependencies that are not stored:
\* the check for a dependency stored since it was read is what makes this hold.
THEOREM WaitsCorrect == Spec => []WaitsExact
  <1>1. Inductive => WaitsExact
    BY DEF Inductive
  <1> QED BY InitInductive, NextInductive, <1>1, PTL DEF Spec
=============================================================================
