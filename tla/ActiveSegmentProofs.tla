-------------------------- MODULE ActiveSegmentProofs --------------------------
(***************************************************************************)
(* Proofs about ActiveSegment: whatever layer of insert() throws, and      *)
(* however often, the parts of the segments stay aligned and no accepted   *)
(* row is lost.                                                            *)
(***************************************************************************)
EXTENDS ActiveSegment, SequenceTheorems, TLAPS

-----------------------------------------------------------------------------
(* Lists of rows.                                                          *)

\* The elements of a list, of an empty one and of one with a row more.
LEMMA EntriesOfAppend ==
    ASSUME NEW s \in Seq(Id), NEW r \in Id
    PROVE  /\ Append(s, r) \in Seq(Id)
           /\ Len(Append(s, r)) = Len(s) + 1
           /\ \A o \in 1..Len(s) : Append(s, r)[o] = s[o]
           /\ Append(s, r)[Len(s) + 1] = r
           /\ EntriesOf(Append(s, r)) = EntriesOf(s) \cup {r}
  <1> DEFINE a == Append(s, r)
  <1>1. /\ a \in Seq(Id) /\ Len(a) = Len(s) + 1 /\ Len(s) \in Nat
        /\ DOMAIN a = 1..Len(s) + 1 /\ DOMAIN s = 1..Len(s)
        /\ \A o \in 1..Len(s) : a[o] = s[o]
        /\ a[Len(s) + 1] = r
    OBVIOUS
  <1>2. EntriesOf(a) \subseteq EntriesOf(s) \cup {r}
    BY <1>1 DEF EntriesOf
  <1>3. EntriesOf(s) \cup {r} \subseteq EntriesOf(a)
    BY <1>1 DEF EntriesOf
  <1> QED BY <1>1, <1>2, <1>3

\* A batch is a list of rows.
LEMMA BatchIsRows ==
    ASSUME NEW b \in Batches
    PROVE  b \in Seq(Id)
  <1>1. PICK n \in 1..MaxBatch : b \in [1..n -> Id]
    BY DEF Batches
  <1>2. n \in Nat
    BY BoundsAssumption
  <1> QED BY <1>1, <1>2

\* The user ids of the sealed segments.
SealedRows == UNION {EntriesOf(sealed[i].ids) : i \in 1..Len(sealed)}

\* The id lists of the database: those of its sealed segments, and ids.
LEMMA IdListsAre ==
    TypeOK =>
        /\ DOMAIN IdLists = 1..Len(sealed) + 1
        /\ \A i \in 1..Len(sealed) : IdLists[i] = sealed[i].ids
        /\ IdLists[Len(sealed) + 1] = ids
        /\ Held = SealedRows \cup EntriesOf(ids)
  <1> SUFFICES ASSUME TypeOK
               PROVE  /\ DOMAIN IdLists = 1..Len(sealed) + 1
                      /\ \A i \in 1..Len(sealed) : IdLists[i] = sealed[i].ids
                      /\ IdLists[Len(sealed) + 1] = ids
                      /\ Held = SealedRows \cup EntriesOf(ids)
    OBVIOUS
  <1> DEFINE old == [i \in DOMAIN sealed |-> sealed[i].ids]
             n == Len(sealed)
  <1>1. n \in Nat /\ DOMAIN sealed = 1..n /\ ids \in Seq(Id)
        /\ \A i \in 1..n : sealed[i] \in Sealed
    BY DEF TypeOK
  <1>2. old \in Seq(Seq(Id)) /\ Len(old) = n /\ \A i \in 1..n : old[i] = sealed[i].ids
    <2>1. \A i \in 1..n : sealed[i].ids \in Seq(Id)
      BY <1>1 DEF Sealed
    <2> QED BY <1>1, <2>1
  <1> HIDE DEF old
  <1>3. /\ DOMAIN Append(old, ids) = 1..n + 1
        /\ \A i \in 1..n : Append(old, ids)[i] = sealed[i].ids
        /\ Append(old, ids)[n + 1] = ids
    BY <1>1, <1>2
  <1>4. IdLists = Append(old, ids)
    BY DEF IdLists, old
  <1>5. Held = UNION {EntriesOf(IdLists[i]) : i \in 1..n + 1}
    BY <1>3, <1>4 DEF Held
  <1>6. Held \subseteq SealedRows \cup EntriesOf(ids)
    <2>1. \A i \in 1..n + 1 : i \in 1..n \/ i = n + 1
      BY <1>1
    <2> QED BY <1>3, <1>4, <1>5, <2>1 DEF SealedRows
  <1>7. SealedRows \cup EntriesOf(ids) \subseteq Held
    <2>1. 1..n \subseteq 1..n + 1 /\ n + 1 \in 1..n + 1
      BY <1>1
    <2> QED BY <1>3, <1>4, <1>5, <2>1 DEF SealedRows
  <1> QED BY <1>3, <1>4, <1>6, <1>7

\* The same of the next state.
LEMMA IdListsNext ==
    (TypeOK =>
        /\ DOMAIN IdLists = 1..Len(sealed) + 1
        /\ \A i \in 1..Len(sealed) : IdLists[i] = sealed[i].ids
        /\ IdLists[Len(sealed) + 1] = ids
        /\ Held = SealedRows \cup EntriesOf(ids))'
  BY IdListsAre, PTL

-----------------------------------------------------------------------------
(* What the steps change.                                                  *)

\* The calls that begin, and those that throw before anything has changed.
Refused ==
    \/ \E b \in Batches : InsertBatch(b)
    \/ Duplicate
    \/ SealThrows
    \/ \E row \in Id : DuplicateInSegment(row) \/ OutOfRange(row)
    \/ UNCHANGED vars

LEMMA RefusedChanges ==
    ASSUME Refused
    PROVE  UNCHANGED <<store, graph, linked, ids, mapped, sealed, allIds, hollow, hasPath>>
  BY DEF Refused, InsertBatch, Duplicate, SealThrows, SealFails, Fails, BatchThrows,
         DuplicateInSegment, OutOfRange, Inserting, active, vars

\* Every vector has a node.
LEMMA NodesSuffice ==
    ASSUME TypeOK, NodeIsItsVector
    PROVE  Len(store) \in Nat /\ Len(graph) \in Nat /\ Len(store) <= Len(graph)
  <1>1. /\ Len(graph) \in Nat /\ Len(store) \in Nat
        /\ DOMAIN graph = 1..Len(graph) /\ DOMAIN store = 1..Len(store)
    BY DEF TypeOK
  <1>2. CASE Len(store) = 0
    BY <1>1, <1>2
  <1>3. CASE Len(store) # 0
    <2>1. Len(store) \in DOMAIN store
      BY <1>1, <1>3
    <2> QED BY <1>1, <2>1 DEF NodeIsItsVector
  <1> QED BY <1>2, <1>3

\* A node is only added when there is one for every vector.
LEMMA IndexGuardFits ==
    ASSUME TypeOK, NodeIsItsVector, IndexGuard
    PROVE  Len(graph) = Len(store)
  <1>1. Len(store) \in Nat /\ Len(graph) \in Nat /\ Len(store) <= Len(graph)
    BY NodesSuffice
  <1>2. \A a, b \in Nat : a < b + 1 /\ b <= a => a = b
    OBVIOUS
  <1> QED BY <1>1, <1>2 DEF IndexGuard

\* A segment with a node too many is stuck.
LEMMA NodeTooManyStuck ==
    ASSUME TypeOK, NodeIsItsVector, FullGraphFits
    PROVE  Len(graph) = Len(store) \/ Stuck
  <1>1. Len(store) \in Nat /\ Len(graph) \in Nat /\ Len(store) <= Len(graph)
    BY NodesSuffice
  <1>2. \A a, b \in Nat : b <= a /\ a # b => ~(a < b + 1)
    OBVIOUS
  <1> QED BY <1>1, <1>2 DEF FullGraphFits, Stuck, IndexGuard

\* The steps that leave an empty active segment.
Emptied == SealActive \/ SealThrowsInMemory \/ \E p \in BOOLEAN : NewDatabase(p)

\* The steps that take the row that comes next into store and graph.
Taking(row) == FailInIds(row) \/ FailInAllIds(row) \/ InsertRow(row)

-----------------------------------------------------------------------------
(* Type correctness.                                                       *)

\* A seal pushes the three parts as they are.
LEMMA PushTyped ==
    ASSUME TypeOK, Push
    PROVE  /\ sealed' \in Seq(Sealed) /\ Len(sealed') = Len(sealed) + 1 /\ Len(sealed) \in Nat
           /\ \A i \in 1..Len(sealed) : sealed'[i] = sealed[i]
           /\ sealed'[Len(sealed) + 1] = [store |-> store, graph |-> graph, ids |-> ids]
  <1>1. [store |-> store, graph |-> graph, ids |-> ids] \in Sealed
    BY DEF TypeOK, Sealed
  <1>2. sealed \in Seq(Sealed)
    BY DEF TypeOK
  <1> HIDE DEF Sealed
  <1> QED BY <1>1, <1>2 DEF Push

LEMMA TypeInit == Init => TypeOK
  <1> SUFFICES ASSUME Init PROVE TypeOK
    OBVIOUS
  <1>1. <<>> \in Seq(Id) /\ <<>> \in Seq(Sealed)
    OBVIOUS
  <1> QED BY <1>1 DEF Init, TypeOK

\* Every step keeps the types.
LEMMA TypeStep ==
    ASSUME TypeOK, [Next]_vars
    PROVE  TypeOK'
  <1>1. <<>> \in Seq(Id) /\ <<>> \in Seq(Sealed)
    OBVIOUS
  <1>2. CASE \E b \in Batches : InsertBatch(b)
    BY <1>2, BatchIsRows DEF TypeOK, InsertBatch, active
  <1>3. CASE Duplicate
    BY <1>1, <1>3 DEF TypeOK, Duplicate, BatchThrows, active
  <1>4. CASE SealThrows
    BY <1>1, <1>4 DEF TypeOK, SealThrows, SealFails, Fails, BatchThrows, active, Layers
  <1>5. ASSUME NEW row \in Id, DuplicateInSegment(row) \/ OutOfRange(row)
        PROVE  TypeOK'
    BY <1>1, <1>5 DEF TypeOK, DuplicateInSegment, OutOfRange, Inserting, BatchThrows, active
  <1>6. CASE UNCHANGED vars
    BY <1>6 DEF TypeOK, vars, active
  <1>7. CASE \E p \in BOOLEAN : NewDatabase(p)
    BY <1>1, <1>7 DEF TypeOK, NewDatabase, EmptyActive
  <1>8. CASE SealActive
    <2>1. sealed' \in Seq(Sealed)
      BY <1>8, PushTyped DEF SealActive
    <2> QED BY <1>1, <1>8, <2>1 DEF TypeOK, SealActive, EmptyActive
  <1>9. CASE SealThrowsAfterPush
    <2>1. sealed' \in Seq(Sealed)
      BY <1>9, PushTyped DEF SealThrowsAfterPush
    <2> QED BY <1>1, <1>9, <2>1
        DEF TypeOK, SealThrowsAfterPush, Fails, BatchThrows, active, Layers
  <1>10. CASE SealThrowsInMemory
    BY <1>1, <1>10
    DEF TypeOK, SealThrowsInMemory, SealFails, Fails, BatchThrows, EmptyActive, Layers
  <1>11. ASSUME NEW row \in Id, FailInGraph(row)
         PROVE  TypeOK'
    <2>1. graph' \in Seq(Id)
      BY <1>11, EntriesOfAppend DEF TypeOK, FailInGraph
    <2>2. linked' \in BOOLEAN
      BY <1>11 DEF FailInGraph
    <2> QED BY <1>1, <1>11, <2>1, <2>2
        DEF TypeOK, FailInGraph, Inserting, Fails, BatchThrows, Layers
  <1>12. ASSUME NEW row \in Id, Taking(row)
         PROVE  TypeOK'
    <2>1. /\ store' = Append(store, row) /\ graph' = Append(graph, row)
          /\ ids' \in {ids, Append(ids, row)}
          /\ sealed' = sealed /\ linked' = linked /\ hollow' = hollow /\ hasPath' = hasPath
      BY <1>12 DEF Taking, FailInIds, FailInAllIds, InsertRow, Identified, Indexed, Inserting,
                   Fails, BatchThrows
    <2>2. mapped' \subseteq Id /\ allIds' \subseteq Id /\ failed' \subseteq Layers
      BY <1>12 DEF TypeOK, Taking, FailInIds, FailInAllIds, InsertRow, Identified,
                   Fails, BatchThrows, Layers
    <2>3. rows' \in Seq(Id)
      <3>1. CASE FailInIds(row) \/ FailInAllIds(row)
        BY <1>1, <3>1 DEF FailInIds, FailInAllIds, Fails, BatchThrows
      <3>2. CASE InsertRow(row)
        <4>1. rows' = Tail(rows) /\ rows # <<>> /\ rows \in Seq(Id)
          BY <3>2 DEF TypeOK, InsertRow, Identified, Indexed, Inserting
        <4> QED BY <4>1
      <3> QED BY <1>12, <3>1, <3>2 DEF Taking
    <2>4. store' \in Seq(Id) /\ graph' \in Seq(Id) /\ ids' \in Seq(Id)
      <3>1. store \in Seq(Id) /\ graph \in Seq(Id) /\ ids \in Seq(Id)
        BY DEF TypeOK
      <3>2. \A s \in Seq(Id) : Append(s, row) \in Seq(Id)
        BY EntriesOfAppend
      <3> QED BY <2>1, <3>1, <3>2
    <2> QED BY <2>1, <2>2, <2>3, <2>4 DEF TypeOK
  <1> QED BY <1>2, <1>3, <1>4, <1>5, <1>6, <1>7, <1>8, <1>9, <1>10, <1>11, <1>12
      DEF Next, Taking

\* Every variable keeps its type.
THEOREM ActiveTypeCorrect == Spec => []TypeOK
  <1>1. TypeOK /\ [Next]_vars => TypeOK'
    BY TypeStep
  <1> QED BY <1>1, TypeInit, PTL DEF Spec

-----------------------------------------------------------------------------
(* The parts of the segments.                                              *)

\* What validate_components() accepts is aligned: the sizes agree only when
\* no failure has come between vectors, nodes and user ids.
LEMMA SealableAligned ==
    ASSUME TypeOK, NodeIsItsVector, IdsBehind, Sealable
    PROVE  ids = store /\ graph = store
  <1>1. Len(store) = Len(graph) /\ Len(store) = Len(ids)
    BY DEF Sealable, SizesAgree
  <1>2. /\ store \in Seq(Id) /\ graph \in Seq(Id)
        /\ DOMAIN store = 1..Len(store)
    BY DEF TypeOK
  <1>3. \A o \in 1..Len(store) : graph[o] = store[o]
    BY <1>2 DEF NodeIsItsVector
  <1>4. graph = store
    BY <1>1, <1>2, <1>3, SeqEqual
  <1> QED BY <1>1, <1>4 DEF IdsBehind

\* An aligned segment joins aligned ones.
LEMMA PushAligned ==
    ASSUME TypeOK, SealedAligned, Push, ids = store, graph = store
    PROVE  SealedAligned'
  <1>1. /\ Len(sealed) \in Nat /\ sealed' \in Seq(Sealed) /\ Len(sealed') = Len(sealed) + 1
        /\ \A i \in 1..Len(sealed) : sealed'[i] = sealed[i]
        /\ sealed'[Len(sealed) + 1] = [store |-> store, graph |-> graph, ids |-> ids]
    BY PushTyped
  <1>2. DOMAIN sealed' = 1..Len(sealed) + 1 /\ DOMAIN sealed = 1..Len(sealed)
    BY <1>1 DEF TypeOK
  <1>3. \A i \in DOMAIN sealed' : i \in 1..Len(sealed) \/ i = Len(sealed) + 1
    BY <1>1, <1>2
  <1> QED BY <1>1, <1>2, <1>3 DEF SealedAligned

\* An empty active segment is aligned.
LEMMA EmptyAligned ==
    ASSUME EmptyActive
    PROVE  NodeIsItsVector' /\ FullGraphFits' /\ LinkedIsLeft' /\ IdsBehind'
  BY DEF EmptyActive, NodeIsItsVector, FullGraphFits, LinkedIsLeft, IdsBehind

\* A vector and its node are taken in, and the user id, or not.
LEMMA TakingAligned ==
    ASSUME PartsInv, NEW row \in Id, Taking(row)
    PROVE  NodeIsItsVector' /\ FullGraphFits' /\ LinkedIsLeft' /\ IdsBehind'
  <1>1. /\ store' = Append(store, row) /\ graph' = Append(graph, row)
        /\ ids' = ids \/ ids' = Append(ids, row)
        /\ IndexGuard /\ linked' = linked
    BY DEF Taking, FailInIds, FailInAllIds, InsertRow, Identified, Indexed
  <1>2. Len(graph) = Len(store)
    BY <1>1, IndexGuardFits DEF PartsInv
  <1>3. store \in Seq(Id) /\ graph \in Seq(Id) /\ ids \in Seq(Id)
    BY DEF PartsInv, TypeOK
  <1>4. /\ DOMAIN store' = 1..Len(store) + 1 /\ Len(store') = Len(store) + 1
        /\ DOMAIN graph' = 1..Len(store) + 1 /\ Len(graph') = Len(store) + 1
        /\ Len(store) \in Nat /\ DOMAIN store = 1..Len(store)
        /\ \A o \in 1..Len(store) : store'[o] = store[o] /\ graph'[o] = graph[o]
        /\ store'[Len(store) + 1] = row /\ graph'[Len(store) + 1] = row
    BY <1>1, <1>2, <1>3
  <1>5. NodeIsItsVector'
    <2>1. \A o \in DOMAIN store' : o \in 1..Len(store) \/ o = Len(store) + 1
      BY <1>4
    <2> QED BY <1>4, <2>1 DEF PartsInv, NodeIsItsVector
  <1>6. FullGraphFits'
    BY <1>4 DEF FullGraphFits
  <1>7. LinkedIsLeft'
    BY <1>1, <1>2, <1>4 DEF PartsInv, LinkedIsLeft
  <1>8. IdsBehind'
    <2>1. Len(ids) <= Len(store) /\ (Len(ids) = Len(store) => ids = store) /\ Len(ids) \in Nat
      BY <1>3 DEF PartsInv, IdsBehind
    <2>2. CASE ids' = ids
      <3>1. \A a, b \in Nat : a <= b => a <= b + 1 /\ a # b + 1
        OBVIOUS
      <3>2. Len(ids') <= Len(store') /\ Len(ids') # Len(store')
        BY <1>4, <2>1, <2>2, <3>1
      <3> QED BY <3>2 DEF IdsBehind
    <2>3. CASE ids' = Append(ids, row)
      <3>1. Len(ids') = Len(ids) + 1
        BY <1>3, <2>3
      <3>2. \A a, b \in Nat : a <= b => a + 1 <= b + 1 /\ (a + 1 = b + 1 => a = b)
        OBVIOUS
      <3>3. Len(ids') <= Len(store') /\ (Len(ids') = Len(store') => Len(ids) = Len(store))
        BY <1>4, <2>1, <3>1, <3>2
      <3> QED BY <1>1, <2>1, <2>3, <3>3 DEF IdsBehind
    <2> QED BY <1>1, <2>2, <2>3
  <1> QED BY <1>5, <1>6, <1>8, <1>7

\* A node whose vector was rolled back is one too many, and only then: the
\* segment is not full, and no other node is added on top of it.
LEMMA FailInGraphAligned ==
    ASSUME PartsInv, NEW row \in Id, FailInGraph(row)
    PROVE  NodeIsItsVector' /\ FullGraphFits' /\ LinkedIsLeft' /\ IdsBehind'
  <1>1. /\ graph' = Append(graph, row) /\ store' = store /\ ids' = ids
        /\ ~IsFull /\ IndexGuard
    BY DEF FailInGraph, Inserting
  <1>2. graph \in Seq(Id) /\ store \in Seq(Id)
    BY DEF PartsInv, TypeOK
  <1>3. /\ \A o \in DOMAIN graph : o \in DOMAIN graph' /\ graph'[o] = graph[o]
    BY <1>1, <1>2
  <1>4. NodeIsItsVector'
    BY <1>1, <1>3 DEF PartsInv, NodeIsItsVector
  <1>5. FullGraphFits'
    BY <1>1 DEF FullGraphFits, IsFull
  <1>6. IdsBehind'
    BY <1>1 DEF PartsInv, IdsBehind
  <1>7. LinkedIsLeft'
    <2>1. Len(graph) = Len(store)
      BY <1>1, IndexGuardFits DEF PartsInv
    <2>2. Len(graph') = Len(store') + 1 /\ Len(store') \in Nat
      BY <1>1, <1>2, <2>1
    <2> QED BY <2>2 DEF LinkedIsLeft
  <1> QED BY <1>4, <1>5, <1>6, <1>7

\* Every step keeps the parts of the segments aligned.
LEMMA PartsStep ==
    ASSUME PartsInv, [Next]_vars
    PROVE  PartsInv'
  <1>1. TypeOK'
    BY TypeStep DEF PartsInv
  <1>2. CASE Refused
    BY <1>1, <1>2, RefusedChanges
    DEF PartsInv, NodeIsItsVector, FullGraphFits, LinkedIsLeft, IdsBehind, SealedAligned,
        IsFull
  <1>3. CASE SealActive
    BY <1>1, <1>3, SealableAligned, PushAligned, EmptyAligned DEF PartsInv, SealActive
  <1>4. CASE SealThrowsAfterPush
    <2>1. SealedAligned'
      BY <1>4, SealableAligned, PushAligned DEF PartsInv, SealThrowsAfterPush
    <2>2. store' = store /\ graph' = graph /\ linked' = linked /\ ids' = ids
      BY <1>4 DEF SealThrowsAfterPush, active
    <2> QED BY <1>1, <2>1, <2>2
        DEF PartsInv, NodeIsItsVector, FullGraphFits, LinkedIsLeft, IdsBehind, IsFull
  <1>5. CASE SealThrowsInMemory
    BY <1>1, <1>5, EmptyAligned DEF PartsInv, SealThrowsInMemory, SealedAligned
  <1>6. CASE \E p \in BOOLEAN : NewDatabase(p)
    BY <1>1, <1>6, EmptyAligned DEF PartsInv, NewDatabase, SealedAligned
  <1>7. ASSUME NEW row \in Id, FailInGraph(row) \/ Taking(row)
        PROVE  PartsInv'
    <2>1. sealed' = sealed
      BY <1>7 DEF Taking, FailInGraph, FailInIds, FailInAllIds, InsertRow, Identified, Indexed,
                  Inserting
    <2>2. SealedAligned'
      BY <2>1 DEF PartsInv, SealedAligned
    <2> QED BY <1>1, <1>7, <2>2, TakingAligned, FailInGraphAligned DEF PartsInv
  <1> QED BY <1>2, <1>3, <1>4, <1>5, <1>6, <1>7 DEF Next, Refused, Taking

\* PartsInv holds of every reachable state.
THEOREM PartsInvariance == Spec => []PartsInv
  <1>1. Init => PartsInv
    <2> SUFFICES ASSUME Init PROVE PartsInv
      OBVIOUS
    <2>1. store = <<>> /\ graph = <<>> /\ ~linked /\ ids = <<>> /\ sealed = <<>>
      BY DEF Init
    <2> QED BY <2>1, TypeInit
        DEF PartsInv, NodeIsItsVector, FullGraphFits, LinkedIsLeft, IdsBehind, SealedAligned
  <1>2. PartsInv /\ [Next]_vars => PartsInv'
    BY PartsStep
  <1> QED BY <1>1, <1>2, PTL DEF Spec

\* The node at an offset was added for the vector at that offset, whatever
\* failed before (hnsw_index.h:69-71).
THEOREM NodesMatchVectors == Spec => []NodeIsItsVector
  <1>1. PartsInv => NodeIsItsVector
    BY DEF PartsInv
  <1> QED BY <1>1, PartsInvariance, PTL

\* A sealed segment answers with the user ids of its own vectors
\* (sealed_segment.cpp:8-13).
THEOREM SealedStaysAligned == Spec => []SealedAligned
  <1>1. PartsInv => SealedAligned
    BY DEF PartsInv
  <1> QED BY <1>1, PartsInvariance, PTL

-----------------------------------------------------------------------------
(* The rows that insert() has accepted.                                    *)

\* A seal moves the user ids, it does not change them.
LEMMA PushHeld ==
    ASSUME TypeOK, TypeOK', Push, ids' = ids \/ ids' = <<>>
    PROVE  Held' = Held /\ SealedRows' = Held
  <1>1. /\ Len(sealed) \in Nat /\ Len(sealed') = Len(sealed) + 1
        /\ \A i \in 1..Len(sealed) : sealed'[i] = sealed[i]
        /\ sealed'[Len(sealed) + 1].ids = ids
    BY PushTyped
  <1>2. SealedRows' = SealedRows \cup EntriesOf(ids)
    <2>1. \A i \in 1..Len(sealed) + 1 : i \in 1..Len(sealed) \/ i = Len(sealed) + 1
      BY <1>1
    <2>2. SealedRows' = UNION {EntriesOf(sealed'[i].ids) : i \in 1..Len(sealed) + 1}
      BY <1>1 DEF SealedRows
    <2>3. SealedRows' \subseteq SealedRows \cup EntriesOf(ids)
      BY <1>1, <2>1, <2>2 DEF SealedRows
    <2>4. SealedRows \cup EntriesOf(ids) \subseteq SealedRows'
      <3>1. 1..Len(sealed) \subseteq 1..Len(sealed) + 1 /\ Len(sealed) + 1 \in 1..Len(sealed) + 1
        BY <1>1
      <3> QED BY <1>1, <2>2, <3>1 DEF SealedRows
    <2> QED BY <2>3, <2>4
  <1>3. EntriesOf(ids') \subseteq EntriesOf(ids)
    BY DEF EntriesOf
  <1> QED BY <1>2, <1>3, IdListsAre, IdListsNext

\* With the sealed segments as they are, the rows held change with ids.
LEMMA HeldWith ==
    ASSUME TypeOK, TypeOK', sealed' = sealed
    PROVE  Held' = SealedRows \cup EntriesOf(ids')
  <1>1. SealedRows' = SealedRows
    BY DEF SealedRows
  <1> QED BY <1>1, IdListsNext

\* Every step keeps the accepted rows of a database that is not hollow, and only
\* in memory does one become hollow.
LEMMA AcceptedStep ==
    ASSUME TypeOK, TypeOK', AcceptedStays, [Next]_vars
    PROVE  AcceptedStays'
  <1>1. Held = SealedRows \cup EntriesOf(ids)
    BY IdListsAre
  <1>2. CASE Refused
    <2>1. UNCHANGED <<ids, sealed, allIds, hollow, hasPath>>
      BY <1>2, RefusedChanges
    <2> QED BY <1>1, <2>1, HeldWith DEF AcceptedStays
  <1>3. CASE SealActive \/ SealThrowsAfterPush
    <2>1. /\ Push /\ (ids' = ids \/ ids' = <<>>)
          /\ allIds' = allIds /\ hollow' = hollow /\ hasPath' = hasPath
      BY <1>3 DEF SealActive, SealThrowsAfterPush, EmptyActive, Fails, BatchThrows, active
    <2> QED BY <2>1, PushHeld DEF AcceptedStays
  <1>4. CASE SealThrowsInMemory
    BY <1>4 DEF SealThrowsInMemory, SealFails, Fails, BatchThrows, AcceptedStays
  <1>5. CASE \E p \in BOOLEAN : NewDatabase(p)
    <2>1. ~hollow' /\ allIds' = {}
      BY <1>5 DEF NewDatabase
    <2> QED BY <2>1 DEF AcceptedStays
  <1>6. ASSUME NEW row \in Id, FailInGraph(row) \/ FailInIds(row) \/ FailInAllIds(row)
        PROVE  AcceptedStays'
    <2>1. /\ sealed' = sealed /\ allIds' = allIds /\ hollow' = hollow /\ hasPath' = hasPath
          /\ ids' = ids \/ ids' = Append(ids, row)
      BY <1>6 DEF FailInGraph, FailInIds, FailInAllIds, Identified, Indexed, Inserting, Fails,
                  BatchThrows
    <2>2. EntriesOf(ids) \subseteq EntriesOf(ids')
      BY <2>1, EntriesOfAppend DEF TypeOK
    <2> QED BY <1>1, <2>1, <2>2, HeldWith DEF AcceptedStays
  <1>7. ASSUME NEW row \in Id, InsertRow(row)
        PROVE  AcceptedStays'
    <2>1. /\ sealed' = sealed /\ allIds' = allIds \cup {row}
          /\ hollow' = hollow /\ hasPath' = hasPath
          /\ ids' = Append(ids, row)
      BY <1>7 DEF InsertRow, Identified, Indexed, Inserting
    <2>2. EntriesOf(ids') = EntriesOf(ids) \cup {row}
      BY <2>1, EntriesOfAppend DEF TypeOK
    <2> QED BY <1>1, <2>1, <2>2, HeldWith DEF AcceptedStays
  <1> QED BY <1>2, <1>3, <1>4, <1>5, <1>6, <1>7 DEF Next, Refused

\* A row whose insert() returned stays in the database, whatever throws after
\* it, unless that is the seal of a database without a path
\* (segment_manager.cpp:109-123).
THEOREM AcceptedRowsStay == Spec => []AcceptedStays
  <1>1. Init => AcceptedStays
    BY DEF Init, AcceptedStays
  <1>2. TypeOK /\ TypeOK' /\ AcceptedStays /\ [Next]_vars => AcceptedStays'
    BY AcceptedStep
  <1> QED BY <1>1, <1>2, ActiveTypeCorrect, PTL DEF Spec

-----------------------------------------------------------------------------
(* When only HnswIndex::insert() has failed.                               *)

\* What RollbackRestoresRows says of the rows then.
InStep ==
    /\ ~hollow
    /\ store = ids
    /\ mapped = EntriesOf(ids)
    /\ allIds = Held
    /\ HeldOnce

\* The failures of a database are not forgotten.
LEMMA FailuresAdd ==
    ASSUME [Next]_vars
    PROVE  failed \subseteq failed' \/ \E p \in BOOLEAN : NewDatabase(p)
  <1>1. CASE UNCHANGED failed
    BY <1>1
  <1>2. ASSUME NEW l, Fails(l) PROVE failed \subseteq failed'
    BY <1>2 DEF Fails
  <1> QED
    BY <1>1, <1>2
    DEF Next, InsertBatch, Duplicate, SealActive, SealThrows, SealThrowsAfterPush,
        SealThrowsInMemory, SealFails, DuplicateInSegment, OutOfRange, FailInGraph, FailInIds,
        FailInAllIds, InsertRow, vars

\* Then every full segment can be sealed: the seal of a healthy database
\* throws only for a reason of its own.
LEMMA HealthySealable ==
    ASSUME PartsInv, InStep, IsFull
    PROVE  Sealable
  <1>1. SizesAgree
    BY DEF PartsInv, FullGraphFits, InStep, SizesAgree
  <1>2. IdsLoad
    <2> SUFFICES ASSUME NEW i \in DOMAIN ids, NEW j \in DOMAIN ids, ids[i] = ids[j]
                 PROVE  i = j
      BY DEF IdsLoad
    <2>1. DOMAIN IdLists = 1..Len(sealed) + 1 /\ IdLists[Len(sealed) + 1] = ids
      BY IdListsAre DEF PartsInv
    <2>2. Len(sealed) + 1 \in DOMAIN IdLists
      <3>1. Len(sealed) \in Nat
        BY DEF PartsInv, TypeOK
      <3> QED BY <2>1, <3>1
    <2> QED BY <2>1, <2>2 DEF InStep, HeldOnce
  <1> QED BY <1>1, <1>2 DEF Sealable

\* Sealing a segment of such a database, or making a new one, leaves every row
\* held where it was, once.
LEMMA SealInStep ==
    ASSUME PartsInv, PartsInv', InStep, SealActive
    PROVE  InStep'
  <1>1. /\ Push /\ store' = <<>> /\ ids' = <<>> /\ mapped' = {}
        /\ allIds' = allIds /\ hollow' = hollow
    BY DEF SealActive, EmptyActive
  <1>2. allIds' = Held'
    BY <1>1, PushHeld DEF PartsInv, InStep
  <1>3. HeldOnce'
    <2> DEFINE n == Len(sealed)
    <2>1. /\ n \in Nat /\ Len(sealed') = n + 1
          /\ \A i \in 1..n : sealed'[i] = sealed[i]
          /\ sealed'[n + 1].ids = ids
      BY <1>1, PushTyped DEF PartsInv
    <2>2. /\ DOMAIN IdLists = 1..n + 1 /\ IdLists[n + 1] = ids
          /\ \A i \in 1..n : IdLists[i] = sealed[i].ids
      BY IdListsAre DEF PartsInv
    <2>3. /\ DOMAIN IdLists' = 1..n + 2 /\ IdLists'[n + 2] = <<>>
          /\ \A i \in 1..n + 1 : IdLists'[i] = sealed'[i].ids
      BY <1>1, <2>1, IdListsNext DEF PartsInv
    <2> HIDE DEF n
    <2>4. \A i \in 1..n + 1 : IdLists'[i] = IdLists[i]
      <3>1. \A i \in 1..n + 1 : i \in 1..n \/ i = n + 1
        BY <2>1
      <3> QED BY <2>1, <2>2, <2>3, <3>1
    <2>5. \A i \in DOMAIN IdLists' : \A o \in DOMAIN IdLists'[i] : i \in DOMAIN IdLists
      <3>1. \A i \in 1..n + 2 : i \in 1..n + 1 \/ i = n + 2
        BY <2>1
      <3> QED BY <2>2, <2>3, <3>1
    <2> QED BY <2>2, <2>4, <2>5 DEF InStep, HeldOnce
  <1>4. mapped' = EntriesOf(ids')
    BY <1>1 DEF EntriesOf
  <1> QED BY <1>1, <1>2, <1>3, <1>4 DEF InStep

LEMMA NewInStep ==
    ASSUME PartsInv', NEW p \in BOOLEAN, NewDatabase(p)
    PROVE  InStep'
  <1>1. /\ ~hollow' /\ store' = <<>> /\ ids' = <<>> /\ mapped' = {}
        /\ sealed' = <<>> /\ allIds' = {}
    BY DEF NewDatabase, EmptyActive
  <1>2. Len(sealed') = 0
    BY <1>1
  <1>3. /\ DOMAIN IdLists' = 1..1 /\ IdLists'[1] = <<>>
        /\ Held' = SealedRows' \cup EntriesOf(ids')
    BY <1>1, <1>2, IdListsNext DEF PartsInv
  <1>4. HeldOnce'
    BY <1>3 DEF HeldOnce
  <1>5. EntriesOf(ids') = {} /\ SealedRows' = {}
    BY <1>1, <1>2 DEF EntriesOf, SealedRows
  <1> QED BY <1>1, <1>3, <1>4, <1>5 DEF InStep

\* A row that insert() accepts is new to all the id lists.
LEMMA InsertInStep ==
    ASSUME PartsInv, PartsInv', InStep, NEW row \in Id, InsertRow(row)
    PROVE  InStep'
  <1>1. /\ store' = Append(store, row) /\ ids' = Append(ids, row)
        /\ mapped' = mapped \cup {row} /\ allIds' = allIds \cup {row}
        /\ sealed' = sealed /\ hollow' = hollow /\ row \notin allIds
    BY DEF InsertRow, Identified, Indexed, Inserting
  <1>2. /\ ids \in Seq(Id) /\ Len(ids) \in Nat /\ DOMAIN ids = 1..Len(ids)
        /\ DOMAIN ids' = 1..Len(ids) + 1
        /\ \A o \in 1..Len(ids) : ids'[o] = ids[o]
        /\ ids'[Len(ids) + 1] = row
        /\ EntriesOf(ids') = EntriesOf(ids) \cup {row}
    BY <1>1, EntriesOfAppend DEF PartsInv, TypeOK
  <1>3. Held = SealedRows \cup EntriesOf(ids) /\ Held' = SealedRows \cup EntriesOf(ids')
    BY <1>1, IdListsAre, HeldWith DEF PartsInv
  <1>4. allIds' = Held'
    BY <1>1, <1>2, <1>3 DEF InStep
  <1>5. HeldOnce'
    <2> DEFINE n == Len(sealed)
    <2>1. /\ n \in Nat /\ DOMAIN IdLists = 1..n + 1 /\ IdLists[n + 1] = ids
          /\ \A i \in 1..n : IdLists[i] = sealed[i].ids
      BY IdListsAre DEF PartsInv, TypeOK
    <2>2. /\ DOMAIN IdLists' = 1..n + 1 /\ IdLists'[n + 1] = ids'
          /\ \A i \in 1..n : IdLists'[i] = sealed[i].ids
      BY <1>1, IdListsNext DEF PartsInv
    <2> HIDE DEF n
    <2>3. \A i \in 1..n + 1 : \A o \in DOMAIN IdLists'[i] :
             \/ o \in DOMAIN IdLists[i] /\ IdLists'[i][o] = IdLists[i][o]
             \/ i = n + 1 /\ o = Len(ids) + 1 /\ IdLists'[i][o] = row
      <3> SUFFICES ASSUME NEW i \in 1..n + 1, NEW o \in DOMAIN IdLists'[i]
                   PROVE  \/ o \in DOMAIN IdLists[i] /\ IdLists'[i][o] = IdLists[i][o]
                          \/ i = n + 1 /\ o = Len(ids) + 1 /\ IdLists'[i][o] = row
        OBVIOUS
      <3>1. CASE i \in 1..n
        BY <2>1, <2>2, <3>1
      <3>2. CASE i = n + 1
        <4>1. o \in 1..Len(ids) + 1
          BY <1>2, <2>2, <3>2
        <4>2. o \in 1..Len(ids) \/ o = Len(ids) + 1
          BY <1>2, <4>1
        <4> QED BY <1>2, <2>1, <2>2, <3>2, <4>2
      <3>3. i \in 1..n \/ i = n + 1
        BY <2>1
      <3> QED BY <3>1, <3>2, <3>3
    <2>4. \A i \in 1..n + 1 : \A o \in DOMAIN IdLists[i] : IdLists[i][o] # row
      <3>1. row \notin Held
        BY <1>1 DEF InStep
      <3> QED BY <2>1, <3>1 DEF Held, EntriesOf
    <2> QED BY <2>1, <2>2, <2>3, <2>4 DEF InStep, HeldOnce
  <1>6. store' = ids' /\ mapped' = EntriesOf(ids') /\ ~hollow'
    BY <1>1, <1>2 DEF InStep
  <1> QED BY <1>4, <1>5, <1>6 DEF InStep

\* Every step keeps the rows of a database in step in which nothing but
\* HnswIndex::insert() has failed.
LEMMA RollbackStep ==
    ASSUME PartsInv, PartsInv', failed \subseteq {"graph"} => InStep, [Next]_vars
    PROVE  (failed \subseteq {"graph"} => InStep)'
  <1> SUFFICES ASSUME failed' \subseteq {"graph"} PROVE InStep'
    OBVIOUS
  <1>1. CASE \E p \in BOOLEAN : NewDatabase(p)
    BY <1>1, NewInStep
  <1>2. CASE failed \subseteq failed'
    <2>1. InStep
      BY <1>2
    <2>2. CASE UNCHANGED <<store, ids, mapped, sealed, allIds, hollow>>
      <3>1. IdLists' = IdLists
        BY <2>2 DEF IdLists
      <3>2. Held' = Held
        BY <3>1 DEF Held
      <3>3. HeldOnce' = HeldOnce
        BY <3>1 DEF HeldOnce
      <3>4. EntriesOf(ids') = EntriesOf(ids)
        BY <2>2
      <3> QED BY <2>1, <2>2, <3>2, <3>3, <3>4 DEF InStep
    <2>3. CASE SealActive
      BY <2>1, <2>3, SealInStep
    <2>4. ASSUME NEW row \in Id, InsertRow(row) PROVE InStep'
      BY <2>1, <2>4, InsertInStep
    <2>5. ASSUME NEW row \in Id, FailInGraph(row) PROVE InStep'
      BY <2>2, <2>5 DEF FailInGraph, Inserting, Fails, BatchThrows
    <2>6. CASE Refused
      BY <2>2, <2>6, RefusedChanges
    <2>7. ~SealThrowsAfterPush
      BY DEF SealThrowsAfterPush, Fails
    <2>8. ~SealThrowsInMemory
      BY <2>1, HealthySealable DEF SealThrowsInMemory, SealFails, Sealing, Fails
    <2>9. \A row \in Id : ~FailInIds(row) /\ ~FailInAllIds(row)
      BY DEF FailInIds, FailInAllIds, Fails
    <2> QED BY <1>1, <2>3, <2>4, <2>5, <2>6, <2>7, <2>8, <2>9 DEF Next, Refused
  <1> QED BY <1>1, <1>2, FailuresAdd

\* When nothing but HnswIndex::insert() fails, the rollback of the vector restores
\* the rows: the database holds exactly the accepted ones, each once, and no seal
\* throws; but the node stays, and if it does the segment takes no other row
\* (active_segment.cpp:18-25, hnsw_index.h:69-71, segment_manager.cpp:73-80).
THEOREM RollbackRestores == Spec => []RollbackRestoresRows
  <1> DEFINE Rows == failed \subseteq {"graph"} => InStep
  <1>1. Init => Rows
    <2> SUFFICES ASSUME Init PROVE InStep
      OBVIOUS
    <2>1. /\ ~hollow /\ store = <<>> /\ ids = <<>> /\ mapped = {} /\ sealed = <<>> /\ allIds = {}
      BY DEF Init
    <2>2. Len(sealed) = 0
      BY <2>1
    <2>3. /\ DOMAIN IdLists = 1..1 /\ IdLists[1] = <<>>
          /\ Held = SealedRows \cup EntriesOf(ids)
      BY <2>1, <2>2, TypeInit, IdListsAre
    <2>4. HeldOnce
      BY <2>3 DEF HeldOnce
    <2>5. EntriesOf(ids) = {} /\ SealedRows = {}
      BY <2>1, <2>2 DEF EntriesOf, SealedRows
    <2> QED BY <2>1, <2>3, <2>4, <2>5 DEF InStep
  <1>2. PartsInv /\ PartsInv' /\ Rows /\ [Next]_vars => Rows'
    BY RollbackStep
  <1>3. PartsInv /\ Rows => RollbackRestoresRows
    BY NodeTooManyStuck DEF PartsInv, InStep, RollbackRestoresRows
  <1> HIDE DEF Rows
  <1> QED BY <1>1, <1>2, <1>3, PartsInvariance, PTL DEF Spec

=============================================================================
