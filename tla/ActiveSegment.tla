---------------------------- MODULE ActiveSegment ----------------------------
(***************************************************************************)
(* One insert() as its layers perform it, and what is left when one of     *)
(* them throws half way (std::bad_alloc from a growing container):         *)
(*                                                                         *)
(*   SegmentManager::insert()    all_ids_, seal_active() when full         *)
(*   ActiveSegment::insert()     the vector, the node, the user id         *)
(*   HnswIndex::insert()         add_node(), then the links                *)
(*   IdMapping::insert()         offset_to_id_, then id_to_offset_         *)
(*                                                                         *)
(* Only the failure of HnswIndex::insert() is rolled back, and only in the *)
(* store.  SegmentManager takes insert() as one step that succeeds; this   *)
(* module is about the ones that do not.  Rows come in batches, as the     *)
(* Python insert_batch() passes them on: the first one that throws ends    *)
(* the batch.                                                              *)
(*                                                                         *)
(* A vector and a node are represented by the user id of the row they were *)
(* made for, and offset o of the code is position o + 1 of a sequence.     *)
(***************************************************************************)
EXTENDS Integers, Sequences, FiniteSets

CONSTANTS
    Id,          \* the user ids clients insert
    Capacity,    \* capacity_
    MaxBatch,    \* bound: rows of a batch
    MaxVectors   \* bound: vectors of a database, those of the batch included

ASSUME BoundsAssumption == {Capacity, MaxBatch, MaxVectors} \subseteq Nat \ {0}

VARIABLES
    store,     \* active_->store_: the rows whose vectors it holds
    graph,     \* active_->index_: the rows its nodes were added for
    linked,    \* other nodes have links to the node that a failed insert left
    ids,       \* offset_to_id_ of active_->id_mapping_
    mapped,    \* the keys of id_to_offset_
    sealed,    \* sealed_
    allIds,    \* all_ids_
    rows,      \* the rows of the batch that are still to be inserted
    hollow,    \* active_ was moved out of by a seal that threw
    hasPath,   \* db_path_ is not empty
    failed     \* history: the layers that have thrown

active == <<store, graph, linked, ids, mapped>>
vars   == <<active, sealed, allIds, rows, hollow, hasPath, failed>>

Batches == UNION {[1..n -> Id] : n \in 1..MaxBatch}

\* The vectors of the database; sealed_ and active_ together.
Vectors == Len(sealed) * Capacity + Len(store)

IsFull == Len(store) >= Capacity

\* Mutant of SizesAgree: the ids are not counted.
SizesAgreeButIds == Len(store) = Len(graph) /\ Len(ids) <= Len(store)

\* validate_components(), for the parts of the active segment.
SizesAgree == Len(store) = Len(graph) /\ Len(store) = Len(ids)

\* load_ids() inserts the user ids into a new IdMapping.
IdsLoad == \A i, j \in DOMAIN ids : ids[i] = ids[j] => i = j

Sealable == SizesAgree /\ (hasPath => IdsLoad)

EmptyActive ==
    /\ store' = <<>>
    /\ graph' = <<>>
    /\ linked' = FALSE
    /\ ids' = <<>>
    /\ mapped' = {}

-----------------------------------------------------------------------------

Init ==
    /\ store = <<>> /\ graph = <<>> /\ linked = FALSE
    /\ ids = <<>> /\ mapped = {}
    /\ sealed = <<>> /\ allIds = {}
    /\ rows = <<>>
    /\ hollow = FALSE
    /\ hasPath \in BOOLEAN
    /\ failed = {}

\* The owner gives the database up and makes a new one.
NewDatabase(p) ==
    /\ rows = <<>>
    /\ EmptyActive
    /\ sealed' = <<>>
    /\ allIds' = {}
    /\ hollow' = FALSE
    /\ hasPath' = p
    /\ failed' = {}
    /\ UNCHANGED rows

InsertBatch(b) ==
    /\ rows = <<>>
    /\ ~hollow
    /\ Vectors + Len(b) <= MaxVectors
    /\ rows' = b
    /\ UNCHANGED <<active, sealed, allIds, hollow, hasPath, failed>>

\* insert() throws: insert_batch() does not go on with the next row.
BatchThrows == rows' = <<>> /\ UNCHANGED <<allIds, hasPath>>

\* The exception comes from a layer that had begun its work.
Fails(layer) == BatchThrows /\ failed' = failed \cup {layer}

\* all_ids_ knows the user id.
Duplicate ==
    /\ rows # <<>>
    /\ Head(rows) \in allIds
    /\ BatchThrows
    /\ UNCHANGED <<active, sealed, hollow, failed>>

-----------------------------------------------------------------------------
(* seal_active()                                                           *)

Sealing == rows # <<>> /\ Head(rows) \notin allIds /\ IsFull

Push == sealed' = Append(sealed, [store |-> store, graph |-> graph, ids |-> ids])

SealActive ==
    /\ Sealing
    /\ Sealable
    /\ Push
    /\ EmptyActive
    /\ UNCHANGED <<allIds, rows, hollow, hasPath, failed>>

\* The segment is refused, which is no failure of its own, or anything else
\* that the seal needs fails.
SealFails == (Sealing /\ ~Sealable /\ BatchThrows /\ UNCHANGED failed)
             \/ (Sealing /\ Fails("seal"))

\* Mutant of SealThrows: the parts are moved before they are written.
SealThrowsMoved ==
    /\ hasPath
    /\ SealFails
    /\ EmptyActive
    /\ UNCHANGED <<sealed, hollow>>

\* With a db_path_ the parts are written, not moved: they stay.
SealThrows ==
    /\ hasPath
    /\ SealFails
    /\ UNCHANGED <<active, sealed, hollow>>

\* The new active segment cannot be made, and the old one is still there
\* although it has been sealed.
SealThrowsAfterPush ==
    /\ Sealing
    /\ hasPath
    /\ Sealable
    /\ Push
    /\ Fails("seal")
    /\ UNCHANGED <<active, hollow>>

\* In memory the parts have been moved out before they are validated, and go
\* with the exception.  The model does not follow a hollow database: its graph
\* has no nodes and is not marked empty.
SealThrowsInMemory ==
    /\ ~hasPath
    /\ SealFails
    /\ EmptyActive
    /\ hollow' = TRUE
    /\ UNCHANGED sealed

-----------------------------------------------------------------------------
(* ActiveSegment::insert().  A vector that does not fit throws before      *)
(* anything has changed; so does whatever comes before add_node().         *)

Inserting(row) ==
    /\ rows # <<>>
    /\ row = Head(rows)
    /\ row \notin allIds
    /\ ~IsFull
    /\ UNCHANGED <<sealed, hollow>>

\* The active segment knows the user id, all_ids_ did not.
DuplicateInSegment(row) ==
    /\ Inserting(row)
    /\ row \in mapped
    /\ BatchThrows
    /\ UNCHANGED <<active, failed>>

\* Mutant of IndexGuard: HnswIndex::insert() does not look at the sizes.
IndexGuardDropped == Len(graph) >= 0

\* HnswIndex::insert() has a vector for the node it is going to add: the store
\* is one longer than it is here.
IndexGuard == Len(graph) < Len(store) + 1

\* An earlier failure has left a node too many; the vector is rolled back.
OutOfRange(row) ==
    /\ Inserting(row)
    /\ row \notin mapped
    /\ ~IndexGuard
    /\ BatchThrows
    /\ UNCHANGED <<active, failed>>

\* Mutant of FailInGraph: the vector is not rolled back.
FailInGraphKeepingVector(row) ==
    /\ Inserting(row)
    /\ row \notin mapped
    /\ IndexGuard
    /\ store' = Append(store, row)
    /\ graph' = Append(graph, row)
    /\ Fails("graph")
    /\ UNCHANGED <<linked, ids, mapped>>

\* add_node() or the linking of the node fails: the vector goes, and the node
\* stays.  Where the graph has older nodes, some of them may have been linked
\* back to it already; the first node of a graph is linked to nothing.
FailInGraph(row) ==
    /\ Inserting(row)
    /\ row \notin mapped
    /\ IndexGuard
    /\ graph' = Append(graph, row)
    /\ linked' \in {FALSE, graph # <<>>}
    /\ Fails("graph")
    /\ UNCHANGED <<store, ids, mapped>>

\* Vector and node are in.
Indexed(row) ==
    /\ Inserting(row)
    /\ row \notin mapped
    /\ IndexGuard
    /\ store' = Append(store, row)
    /\ graph' = Append(graph, row)
    /\ UNCHANGED linked

\* IdMapping::insert() fails, in offset_to_id_ or in id_to_offset_.
FailInIds(row) ==
    /\ Indexed(row)
    /\ ids' \in {ids, Append(ids, row)}
    /\ Fails("ids")
    /\ UNCHANGED mapped

Identified(row) ==
    /\ Indexed(row)
    /\ ids' = Append(ids, row)
    /\ mapped' = mapped \cup {row}

\* all_ids_.insert() fails.
FailInAllIds(row) == Identified(row) /\ Fails("all_ids")

InsertRow(row) ==
    /\ Identified(row)
    /\ allIds' = allIds \cup {row}
    /\ rows' = Tail(rows)
    /\ UNCHANGED <<hasPath, failed>>

-----------------------------------------------------------------------------

Next ==
    \/ \E p \in BOOLEAN : NewDatabase(p)
    \/ \E b \in Batches : InsertBatch(b)
    \/ Duplicate
    \/ SealActive
    \/ SealThrows
    \/ SealThrowsAfterPush
    \/ SealThrowsInMemory
    \/ \E row \in Id : \/ DuplicateInSegment(row)
                       \/ OutOfRange(row)
                       \/ FailInGraph(row)
                       \/ FailInIds(row)
                       \/ FailInAllIds(row)
                       \/ InsertRow(row)

Spec == Init /\ [][Next]_vars

-----------------------------------------------------------------------------
(* Properties.                                                             *)

EntriesOf(s) == {s[i] : i \in DOMAIN s}

\* The id lists of the database, the active one last.
IdLists == Append([i \in DOMAIN sealed |-> sealed[i].ids], ids)

Held == UNION {EntriesOf(IdLists[i]) : i \in DOMAIN IdLists}

HeldOnce ==
    \A i, j \in DOMAIN IdLists : \A o \in DOMAIN IdLists[i] : \A p \in DOMAIN IdLists[j] :
        IdLists[i][o] = IdLists[j][p] => i = j /\ o = p

\* Whatever failed before, the node at an offset was added for the vector at
\* that offset: a graph left one node too long never takes another one, since
\* the next insert() throws before it adds its own (hnsw_index.h:69-71).
NodeIsItsVector ==
    \A o \in DOMAIN store : o \in DOMAIN graph /\ graph[o] = store[o]

\* A sealed segment answers with the user ids of its own vectors, even when the
\* ids of the active segment had fallen behind them: comparing the three sizes
\* is enough to keep such a segment from being sealed (sealed_segment.cpp:8-13).
SealedAligned ==
    \A i \in DOMAIN sealed :
        /\ sealed[i].ids = sealed[i].store
        /\ sealed[i].graph = sealed[i].store

\* The nodes that a search may come to: those that were linked in, and the one
\* that a failure left when others have links to it.
Reachable == {o \in DOMAIN graph : o <= Len(store) \/ linked}

\* A search asks the store only for vectors that it has: get_vector() asserts
\* that "offset < size()" (in_memory_store.cpp:23).
SearchReadsVectors == \A o \in Reachable : o \in DOMAIN store

\* A node too many: every insert() throws, so that the segment never gets full
\* and is never sealed.
Stuck == ~IsFull /\ ~IndexGuard

\* When nothing but HnswIndex::insert() has failed, however often, the rollback
\* of the vector restores the rows and only them: vectors and ids are in step,
\* the user ids held are exactly those whose insert() returned, each of them
\* once, and no seal throws.  The graph is as long as the store again, or else
\* the segment is stuck, its last node without a vector
\* (active_segment.cpp:18-25, segment_manager.cpp:73-80).
RollbackRestoresRows ==
    failed \subseteq {"graph"} =>
        /\ ~hollow
        /\ store = ids
        /\ mapped = EntriesOf(ids)
        /\ allIds = Held
        /\ HeldOnce
        /\ Len(graph) = Len(store) \/ Stuck

\* A row whose insert() returned stays in the database whatever fails after it,
\* unless a seal has moved the parts out and thrown, which it does in memory
\* only: with a path it writes them (segment_manager.cpp:109-123).
AcceptedStays ==
    /\ hollow => ~hasPath
    /\ ~hollow => allIds \subseteq Held

-----------------------------------------------------------------------------
(* The inductive invariant.                                                *)

Layers == {"seal", "graph", "ids", "all_ids"}

Sealed == [store : Seq(Id), graph : Seq(Id), ids : Seq(Id)]

TypeOK ==
    /\ store \in Seq(Id) /\ graph \in Seq(Id)
    /\ ids \in Seq(Id) /\ mapped \subseteq Id
    /\ sealed \in Seq(Sealed) /\ allIds \subseteq Id
    /\ rows \in Seq(Id)
    /\ {linked, hollow, hasPath} \subseteq BOOLEAN
    /\ failed \subseteq Layers

\* The node too many that a failure leaves keeps the segment from filling up.
FullGraphFits == IsFull => Len(graph) = Len(store)

\* Only a node too many is linked without a vector.
LinkedIsLeft == linked => Len(graph) > Len(store)

\* The user ids are those of the vectors, or there are too few of them.
IdsBehind == Len(ids) <= Len(store) /\ (Len(ids) = Len(store) => ids = store)

\* How the parts of the segments stand to each other.
PartsInv ==
    /\ TypeOK
    /\ NodeIsItsVector
    /\ FullGraphFits
    /\ LinkedIsLeft
    /\ IdsBehind
    /\ SealedAligned

ActiveInv == PartsInv /\ AcceptedStays /\ RollbackRestoresRows

=============================================================================
