# A TLA+ model of vextor

vextor is a segmented vector database for approximate nearest-neighbour search.
A database takes inserts into an in-memory *active segment*. When that is full
it is *sealed*: written to a directory and served from there, mapped read-only.
A search runs on every segment and merges the results.

This directory holds TLA+ modules translated from `src/`, TLC configurations
that check them on small instances, and TLAPS proofs of the safety properties
that matter most. File names below are relative to the repository.

1. [The system](#1-the-system): components, state, interactions, what is hard
2. [The modules](#2-the-modules): how they correspond to the code
3. [Properties](#3-properties)
4. [Runs](#4-runs): what each checks, bounds, fairness
5. [Where code and documents disagree](#5-where-code-and-documents-disagree)
6. [Proofs](#6-proofs)
7. [What is not modelled](#7-what-is-not-modelled)
8. [Plan](#8-plan)

## 1. The system

The layers depend on each other top-down: `core`, `store`, `index`,
`segment`, `persistence`. The program is single-threaded (docs/PRD.md,
"Concurrency model"): a call runs to its end unless it throws or the process
ends. Several handles on one path, in one process or in several, are another
matter: nothing prevents them, and README.md opens two.

| Component | State | Operations | Uses |
|---|---|---|---|
| `SegmentManager` = `Database` (`segment/segment_manager.cpp`) | `active_`, `sealed_`, `all_ids_`, `db_path_`, `segment_capacity_` | constructor, `insert`, `search`, `save`, `load`; inside: `seal_active`, `write_segments_json` | segments, serializer, loader |
| `ActiveSegment` | store, index, id mapping, capacity | `insert`, `search`, `take_*` | `InMemoryStore`, `HnswIndex`, `IdMapping` |
| `SealedSegment` | store (memory or mapped), graph, id mapping | `from_memory`, `from_mmap`, `search` | `MmapStore`, `HnswIndex` |
| `IdMapping` | user id by offset, offset by user id | `insert` (refuses duplicates), lookups | |
| Serializer (`persistence/serializer.cpp`) | the files of one `segment_<i>` directory | `serialize_segment`: `vectors.bin`, `hnsw.bin`, `ids.bin` in that order | |
| Loader (`persistence/loader.cpp`) | none | `load_segment_mmap`, `load_hnsw`, `load_ids`, `load_segment_memory` | `MmapStore`, `SealedSegment` |
| Registry (`segments.json`) | `segment_count` and parameters | written to `segments.json.tmp`, then renamed | |
| `InMemoryStore`, `MmapStore` | vectors by offset; a mapping of `vectors.bin` | `add_vector`, `rollback_last`; map, move, unmap | |
| `HnswIndex` (`index/hnsw_index.h`) | levels, neighbour lists per layer, entry point, top level; visited marks and their generation | `insert`, `search` | store, distance |
| `FlatIndex` | none | brute-force `search` | store |
| `core` | none | L2 kernels, SQ8 quantisation | |
| Python bindings | none | wrap `Database`; `insert_batch` | `SegmentManager` |

How they interact. `insert()` checks the id against `all_ids_` and seals a full
active segment before it inserts. A seal with a path serializes the active
segment into `segment_<sealed_.size()>`, maps it back, writes the registry,
and only then changes memory. `save()` serializes the active segment into *the
same directory name*, registers it, and keeps it active. `load()` maps every
directory the registry counts. `search()` asks each segment for `k` and keeps
the best `k` of the answers.

What is hard here:

* **Calls cut short.** `save()` and a seal are eight file operations; the
  process may end, or an exception leave the call, between any two. What is on
  disk then, and whether memory still agrees with it, is the central question.
* **A directory that is written twice.** The slot of the active segment is
  rewritten in place by every later `save()` and by the seal, while another
  handle may be loading it or have it mapped.
* **Writes nobody checks.** `serialize_segment` never looks at its streams
  after opening them. A seal notices a short file because it maps the segment
  back; `save()` does not.
* **Four containers that grow one after the other.** A row goes into the
  store, the graph, two maps of ids and `all_ids_`; an allocation may fail
  between any two, and only one of the failures is rolled back.
* **Link maintenance in the graph.** A link back can overflow a neighbour list,
  whose pruning removes links on other nodes, the one being inserted included;
  what is cut off is not found any more.
* **Marks that are never cleared.** A search recognises its own visited marks
  by a counter that wraps.
* **Machine words.** Header products, the digits of the registry, `k` as an
  `int`, blocks of eight in the kernels.

There is no timeout, retry or message. The complete list of hazards, each at
its line, with the properties aimed at it, is in `PROJECT.json`.

## 2. The modules

| Module | What it is | Extends |
|---|---|---|
| `DurableSet` | What the database promises about durability: a live set and a durable set | |
| `SegmentManager` | The database, its segments, its files; the inductive invariant | |
| `SharedPath` | A second handle that loads the path while the first one writes | `SegmentManager` |
| `ActiveSegment` | One `insert()` layer by layer, with failures in each, and the seal | |
| `HnswGraph` | `HnswIndex::insert()`: how the links are kept, whatever the distances | |
| `HnswIndex` | `insert()` and `search()` over concrete vectors; implements `HnswGraph` | |
| `VisitedTracking` | The visited marks and their generation counter | |
| `MmapStore` | Mappings, who owns them, and which files are accepted | |
| `FlatIndex`, `SegmentSearch` | Brute force; `SegmentManager::search()` and its merge | |
| `HnswFile`, `Registry` | What is written to and read from `hnsw.bin` and `segments.json` | |
| `Kernel`, `Sq8` | The L2 kernel; quantisation to bytes | |
| `Algorithms` | One call of one of them, its input and its answer; their properties | the six above |
| `SegmentManagerProofs` | TLAPS proofs: the invariant of the database, then its durability | `SegmentManager` |
| `SharedPathProofs` | TLAPS proofs about the second handle, on top of those | `SharedPath` |
| `ActiveSegmentProofs`, `HnswGraphProofs` | TLAPS proofs | their modules |
| `BackendProofs` | TLAPS proofs about the mappings and the visited marks | `MmapStore`, `VisitedTracking` |
| `LoopProofs` | Induction up to a bound; a loop as a recursive function | |
| `HnswIndexProofs` | TLAPS proofs: searches, selections, the refinement of `HnswGraph` | `HnswIndex`, `LoopProofs` |
| `AlgorithmProofs` | TLAPS proofs about the algorithms | `Algorithms`, `LoopProofs` |
| `MC...` | Model checking: instances, symmetry, inputs | their modules |

`FlatIndex`, `SegmentSearch`, `HnswFile`, `Registry`, `Kernel` and `Sq8` have
operators only: the code has no state there. `Algorithms` makes a specification
of them: a behaviour is one call, `call`, and its return, `answer`, with any
answer that the operators allow. Which calls are made is a parameter; the
properties compare the answer with a reference definition. `MCAlgorithms` makes
every call with the inputs of small sets.

### SegmentManager

| Variable | Code |
|---|---|
| `up` | a `Database` object exists |
| `active` | `active_`: its entries (user id, vector) in offset order; store, graph and id mapping of one active segment grow together |
| `sealed` | `sealed_`: for each segment what its store, its graph and its ids hold, separately |
| `allIds` | `all_ids_` |
| `stage`, `opened`, `pending` | where the `save()` or sealing `insert()` in progress stands: the next file, whether it is open (truncated, not written), and the entry being inserted |
| `disk` | `segment_{n-1}` at slot `n`: for each of the three files the entries it was written from, or `Unreadable` |
| `registry`, `tmp` | `segment_count` in `segments.json` and in `segments.json.tmp`, or `Unreadable` |
| `saved` | history: the last call was a `save()` that returned |

Calls that touch no file are one step. `save()` and the sealing `insert()` are
one step per file operation:

    InsertSealing / Save
      OpenFile, WriteFile   vectors.bin, hnsw.bin, ids.bin      serialize_segment
      Verify                only in a seal                      load_segment_mmap
      OpenTmp, WriteTmp                                         write_segments_json
      SaveReturns / InsertSealingReturns                        rename, then the rest of the call

`Crash` may replace any of these steps; `Throw` any in which the code can
throw, and always follows a `Verify` that fails; `WriteFileShort` is a write
that fails and is not noticed. Serializer and loader appear as what they do to
a directory: `Loadable` is the conjunction of what `MmapStore`, `load_hnsw`,
`load_ids` and `validate_components` each check, so a directory whose files
agree in size is accepted whatever entries they came from.

Abstractions:

* A file is complete or not, nothing in between: a file that is short is
  rejected. For `hnsw.bin` that is what `HnswReadBack` checks word by word, for
  `vectors.bin` it is `Accepts` of `MmapStore`, and `load_ids()` fails on a
  short read. A torn `segments.json` is never read, since it is renamed whole.
* A crash is the end of the process. What reached the file system stays. Loss
  of power, where unsynced data may vanish, is not modelled (the code never
  calls `fsync`, and docs/PRD.md claims nothing for that case).
* Memory failures inside `insert()` are left to `ActiveSegment`, and so are
  databases without a `db_path_`: they have no files, and the ways in which a
  seal in memory can fail are failures of memory.

The constants choose the client and the faults. `SaveIsLast`: no `insert()` or
`save()` follows a `save()` on the same object. `Recreate`: a database may be
constructed where one already exists. `Faults`: a subset of `crash`, `throw`,
`short_write`. The bound `MaxSegments` is in the guards of `InsertSealing` and
`Save`.

### SharedPath

README.md keeps one database open while another `load()`s its path. The first
is `SegmentManager` as it is; the second adds `reader` (closed, loading, open),
`count` (the `segment_count` it read), `got` (what it has read of each
directory) and `mixed` (the segments whose graph it has put together from two
writes). Its `load()` reads the registry and then the files of each segment in
the order of `load_segment_mmap()`, while the first handle makes its file
operations.

`vectors.bin` is mapped, which is one step; a property of the reader compares
what it mapped with what the file holds now. `hnsw.bin` and `ids.bin` are
copied through a buffered stream, in as many reads as they are long, and the
writer may truncate and rewrite the same file between two of these.
`ReaderOpensFile` is the first read, which has the header and with it the
number of nodes or ids; `ReaderReadsOn` is any later one that meets another
content than the first. Ids are taken one by one from what the file holds then
(`Spliced`, with any set of positions). Of a graph the model only remembers
that it is of two writes: its nodes have the links of one or the other, or what
is read in between looks like a list and is none. Whether the reads meet
something impossible and throw or not is left open (`ReaderThrows`). A file that
is opened in the middle of being written is read on like one that is opened
after it: what is missing at the end makes the read throw.

What a mapping does when its file is truncated under it (`SIGBUS` on a page
that is no longer there) ends the reader's process and is not modelled; that
the mapping changes is what `ReaderMapsIntact` and `ReaderDamageConfined` are
about. Two handles that both write are not modelled: both would name
directories after their own count, and nothing in the repository suggests that
use.

### ActiveSegment

| Variable | Code |
|---|---|
| `store`, `graph` | the rows whose vector, whose node the active segment has |
| `linked` | other nodes have links to the node that a failed insert has left |
| `ids`, `mapped` | `offset_to_id_`, the keys of `id_to_offset_` |
| `sealed`, `allIds` | `sealed_`, `all_ids_` |
| `rows` | what is left of the batch that `insert_batch()` passes on |
| `hollow` | the active segment was moved out of by a seal that threw |
| `failed` | history: the layers that have thrown |

`InsertRow` is the `insert()` that succeeds. `FailInGraph`, `FailInIds` and
`FailInAllIds` are those that run out of memory in one layer, with what the
layers before have done; `OutOfRange`, `Duplicate` and `DuplicateInSegment` are
the refusals. A seal succeeds, throws before the segment is pushed, or after.
A vector and a node are represented by the id of their row. Of the links that a
node got before the failure only one thing is kept: whether there are links
back to it (`linked`), so that a search can come to it (`Reachable`). Whoever
loses a database to a seal that throws in memory makes a new one: its active
segment is moved from (`hollow`), and the model does not follow it.

### HnswGraph and HnswIndex

Both take the same steps: `AddNode` draws the level and adds the node,
`Descend` passes one upper layer, `SelectNeighbors` searches one layer and
selects, `LinkBack` makes one link back with its pruning and goes on to the
next layer or ends. The bounds `MaxNodes` and `MaxLayered` are in the guard of
`AddNode`: a graph with layers above 0 is kept smaller than one without.

`HnswGraph` abstracts distances to the results they allow. `greedy_search` can
only stop early once it has `ef` results, so it returns everything reachable if
that is at most `ef` nodes and exactly `ef` of it otherwise;
`select_neighbors_heuristic` always fills the slots it has candidates for.
The model allows any such result, hence every order of distances (vectors
without NaN) and more. Lists are sets.

`HnswIndex` has vectors of integers, the lists in their order (with the swap of
`remove_neighbor()` on layer 0), `greedy_search()` with its two heaps as sets
of pairs, the heuristic, and `search()` with its cast of `k` to an `int` of
`IntValues` values (`2^32` in the code). Each loop is a recursive function of the
number of its rounds; the main loop of `greedy_search()` has one round for
every node, and a round after the `break` changes nothing. `Point` are the
vectors inserted and searched for, `K` and `EfSearch` what is asked of
`search()`. The refinement mapping takes the lists to sets of neighbours;
`ImplementsHnswGraph` is what justifies the freedom of `HnswGraph`, and it is
proved as well as checked.

### VisitedTracking, MmapStore and MCBackend

`VisitedTracking` has the marks, the counter, whether a search is running, and
as history what it met and how often it computed a distance. Which neighbours
a search meets is left open. `Generations` is the number of values of the
counter (`2^32` in the code), so that it wraps within the bounds.

`MmapStore` has the objects of that type, the members of each, and the mappings
of the process with their lengths; an address is used again after it was
unmapped. The constructor maps the file in one step and makes its checks in
others, one for each group of checks that throws, all of which have to unmap; an
object between the two is in `building`. What throws before the file is mapped
leaves nothing and is no step. The checks are in words of `WordWidth` bits, with
`size_t` twice as wide, as in the code; `VectorsSize` wraps where the code's
product does.

`MCBackend` runs both, one while the other stands still: they are the two
stateful parts of a `TypedBackend`, share nothing, and each property speaks of
one.

### The algorithms

* `FlatIndex`: the heap is a set of vectors; where `std::priority_queue`
  may put any of several equal elements on top, the operators return every
  outcome (`Tops`, `Drained`).
* `SegmentSearch`: a segment is the distances of its vectors and the set of
  those that its search finds (`found`), any set: a search with a small `ef` is
  approximate, and which vectors it finds is the business of `HnswIndex`.
  `Merge` sorts and cuts, with ties in any order.
* `HnswFile`: the file as a sequence of words, magic and version as tokens; the
  graph is `m`, `max_level`, `entry_point` and the nodes with their lists.
  `load_hnsw()` reads list by list and stops at the first short read.
* `Registry`: `segments.json` as tokens; the digits are accumulated with the
  overflow check of `extract_json_uint()` in radix `Len(Digits)` and with the
  maxima of the types as constants.
* `Kernel`: which dimension each load of the AVX2 path takes and which terms
  the sum ends up with.
* `Sq8`: training, encoding and decoding in integers scaled by `One` (`1.0f`)
  and `Steps` (255 in the code); an extent below `Tiny` (`1e-10f`) gets scale
  `One`.

## 3. Properties

Durability and the files (`SegmentManager`, `SharedPath`):

| Property | What could go wrong |
|---|---|
| `SealedIsDurable` | the end of the process loses a sealed segment |
| `SavedIsDurable` | `save()` returned and `load()` brings back less |
| `ImplementsDurableSet` (refinement) | any step changes what a `load()` would return other than a seal or `save()` all at once; `load()` returns something else |
| `NoMixedLoad` | `load()` accepts a directory made of two generations of files, since it compares sizes only |
| `DamageConfinedToLastSlot` | a call cut short damages any but the last referenced directory |
| `OwnMapsIntact` | a write touches files that an open sealed segment has mapped |
| `IdsAgree` | an id is stored twice, or refused though no segment holds it, after a seal, a restart or a call that failed |
| `LiveOnlyGrows` (action property) | a call, failing half way included, drops entries from memory |
| `IInv` | the inductive invariant of the proofs is not one |
| `ReaderNotRefused` | a second handle that has read the registry meets a directory that is not complete |
| `ReaderCoherent` | it takes in vectors, graph and ids of different sizes or different ids, or a graph of two writes in any but the last segment |
| `ReaderGraphWhole` | it takes in a graph made of two writes (section 5) |
| `ReaderMapsIntact` | vectors it has mapped change under it |
| `ReaderDamageConfined` | they do, in any but the last segment it loaded |

Failures inside `insert()` (`ActiveSegment`):

| Property | What could go wrong |
|---|---|
| `NodeIsItsVector` | after a failure, a node takes the vector of another row |
| `SealedAligned` | a segment is sealed whose ids have fallen behind its vectors |
| `RollbackRestoresRows` | after a failure in the graph a row is lost, held twice or held without being accepted, or a segment with a node left over goes on accepting rows and is sealed |
| `SearchReadsVectors` | a search comes to a node whose vector was rolled back (section 5) |
| `AcceptedStays` | a later failure takes with it a row whose `insert()` returned, other than a seal in memory that throws |

The graph and its search (`HnswGraph`, `HnswIndex`, `VisitedTracking`):

| Property | What could go wrong |
|---|---|
| `Bidirectional` | a link without its link back, other than those still to be made |
| `DegreeBounded` | the single overflow slot of a layer-0 list does not suffice |
| `LinksOnLayer`, `EntryOnTop` | a list is read that the node does not have; a search starts on a node that is not on its layer |
| `NoneLost` | a node is cut off on a layer where no list has ever been full |
| `InsertReturns` (liveness) | an `insert()` does not come to its end |
| `ImplementsHnswGraph` (refinement) | a search or a selection returns something that `HnswGraph` excludes |
| `ListsDistinct` | `remove_neighbor()` or a link back leaves a neighbour twice in a list |
| `SearchExactOnReachable` | with `ef` large enough, the answer misses something reachable; a large `k` turns negative |
| `SearchExactWhileSmall` | it misses anything at all before a list can overflow |
| `SearchWellFormed` | with a small `ef`, the answer is too short, unsorted, or has something twice |
| `LooksOnce` | a search skips a node for an old mark, or looks at it twice |

Mappings and algorithms (`MmapStore`, `Algorithms`):

| Property | What could go wrong |
|---|---|
| `OwnedOnce` | a mapping is leaked, by a constructor that throws or by a move, or unmapped twice |
| `ReadsInBounds` | a header whose product wraps is accepted, and a vector is read behind the file |
| `FlatIsExact`, `MergeIsExact` | brute force or the merge of the segments misses one of the `k` nearest |
| `HnswReadBack` | a part of `hnsw.bin` is accepted, or a whole one refused |
| `RegistryReadBack` | a value of `segments.json` is misread; a part of the file names more segments |
| `HandEditedIsExact` | a number wraps around, or the largest that fits is refused |
| `EveryTermOnce` | a dimension is left out, added twice or read behind the vector |
| `WithinHalfStep` | a component of the training set is off by more than half a step, or, where the extent is below the threshold, comes back as anything but the minimum; a code wraps |

Every property of a passing run has a mutant in `PROJECT.json`: a plausible bug
of the code that makes the property fail in its run. The mutated operators
stand in front of the definitions they mutate.

## 4. Runs

| Run | Instance | Question |
|---|---|---|
| `save_last` | 4 ids, capacity 2, 4 slots; crash, throw; `SaveIsLast`; a second handle | what a disciplined client and its readers are promised; no deadlock, so a database left behind can always be opened again |
| `any_client` | 4 ids, 3 slots, capacity 2; all faults; a second handle | what survives a client that goes on after `save()` |
| `rewrite` | 3 ids; crash | violation of `SealedIsDurable` |
| `short_write` | 3 ids; short writes; `SaveIsLast` | violation of `SavedIsDurable` |
| `recreate` | 3 ids; crash; `Recreate` | violation of `NoMixedLoad` |
| `torn_load` | 2 ids, 2 slots; no faults; a second handle | violation of `ReaderGraphWhole` |
| `graph` | 6 nodes on layer 0, 4 on three layers; `M` 2, `Ef` 3 | the links of `HnswGraph` |
| `index` | 3 vectors in a line, 6 nodes on layer 0, 5 on two layers; `M` 2, `Ef` 2, an `int` of 8 values | `HnswIndex` implements `HnswGraph`; every search of every graph |
| `faults` | 4 ids, capacity 2, batches of up to 3, 6 vectors | failures in every layer, with and without a path |
| `dangling` | 3 ids, capacity 2, batches of up to 2, 4 vectors | violation of `SearchReadsVectors` |
| `backend` | 3 objects, 3 addresses, 3-bit fields and 6-bit `size_t`; 4 nodes, counter of 4 values | mappings and marks |
| `algorithms` | below | each algorithm on every small input |

Bounds. With capacity 2, four ids make a seal and an active segment that is
full again; with save, restart and load, a slot is target, then sealed, then
loaded, and an active segment has room, is full, and is just replaced. A partly
filled segment saved before it is full is what makes `rewrite` possible.
Crashes and reloads are unbounded, and each `save()` and restart may leave a
short segment, up to `MaxSegments`. The second handle may close and load again
at any point. Vectors only matter for telling the files of two databases apart,
which ids already do, so one vector suffices. Ids are compared for equality
only (objects and addresses in `backend` too), and all properties of the runs
that use symmetry are safety properties, so permuting them is sound.

In `graph` and `index`, six nodes and a limit of four neighbours are the least
with which a layer-0 list overflows: the sixth node's link back makes five.
`Ef` is smaller than what is reachable, so searches stop early. Four nodes
overflow the upper layers' limit of two; the descent crosses two layers, and
the top level rises twice. In `index` the points are such that ties occur
(equal vectors) and orders differ; `k` is tried as 0, 1 and 3, and with values
that an `int` of eight values does not hold: 4 becomes negative and 9 becomes 1,
so that `ef_search` wins and the answer is cut by `k` itself.

In `faults`, four ids with batches of up to three rows let a batch cross a seal
and repeat an id, and failures are unbounded. In `backend`, every header of
3-bit words comes with lengths on both sides of each check, several mappings at
once being ordinary files (`Explored`); the products wrap with `FloatSize` 4 as
they do with 32 and 64 bits. The counter of four values wraps twice as soon as
a few searches are made, and there is no bound on searches.

`algorithms`: brute force over up to five vectors with three distances and `k`
up to 6; up to three segments of up to two vectors, each of which finds any
set of them, and `k` up to 3; `hnsw.bin` of graphs of up to two nodes with
empty, partial and overflowing lists, plausible and implausible levels, cut
after every word; `segments.json` in radix 3 with the largest values of its
types, cut after every token; every text of up to five tokens behind a key;
dimensions from 0 to 40 (five blocks of eight, with every remainder); training
sets of up to three vectors of two dimensions, with extents below, at and above
the threshold.

Deadlock is checked in `save_last`, `torn_load`, `faults`, `dangling` and
`backend`. It is off where the system may really stop: in `any_client`,
`rewrite`, `short_write` and `recreate` a database may be left that no `load()`
accepts; the graph runs end with a full segment; a call of `algorithms` ends.

Fairness. The safety runs need none. `InsertReturns` assumes weak fairness of
the steps inside `HnswIndex::insert()`: it is straight-line code and loops of
one thread, so a step that is enabled is taken. `AddNode` is not fair: nobody
has to insert. Nothing else in this code waits for anything.

## 5. Where code and documents disagree

Each is a run that ends in a counterexample; `PROJECT.json` quotes the lines.

1. **`rewrite`.** `save()` registers the active segment's directory but the
   segment stays active; the next `save()` or seal truncates those files while
   `segments.json` references them. If the process ends there, `load()` throws,
   and all sealed segments are out of reach, not only the active one
   (docs/PRD.md:146,148).
2. **`short_write`.** No write of `serialize_segment` is checked and `save()`
   does not read back, so it can return normally over a short file
   (segment_manager.h:27).
3. **`recreate`.** A database constructed over an old one rewrites its
   directories under the old registry; cut short, equal sizes make a mixture
   of both load (docs/PRD.md:148).
4. **`torn_load`.** `load_hnsw()` reads `hnsw.bin` buffer by buffer. A `save()`
   of another handle can rewrite the file in between; when nothing looks out of
   place at the seam, `load()` takes in a graph with nodes of both writes
   (docs/PRD.md:148). A graph must be longer than one stream buffer for it,
   some sixty nodes at the default `m`; the model leaves lengths out.
5. **`dangling`.** When the linking of a new node fails after a link back has
   been made, the vector is rolled back and the node stays reachable:
   `ActiveSegment::search()` asks for a vector, and then for a user id, that
   is not there (the assertions in_memory_store.cpp:23 and id_mapping.cpp:19).

The trace of `rewrite` is the shortest one: two inserts, a third that seals
them, a `save()` of its row to `segment_1`, and a second `save()` that has
truncated `segment_1/vectors.bin`. Had the process more rows, the seal of the
saved segment would truncate the same files.

`save_last` and the proofs show the other side of the first four: without such
clients and faults the properties hold. `RollbackRestoresRows` is the other side
of the fifth: of the rows themselves nothing is lost.

What the models also show, with nothing in the repository that promises
otherwise, so that no run states it:

* After a failure in the graph the segment is stuck (`Stuck`): the graph is one
  ahead of the store, so every later `insert()` of any row throws, and the
  segment is never full, so never sealed. A `save()` does not compare the sizes
  that `load()` will compare. Clients can only give the database up.
* When `IdMapping::insert()` fails, the vector and the node stay without a
  user id or with an id that the duplicate check does not know; the segment
  can then not be sealed, or holds the id twice when the insert is repeated.
* When `all_ids_.insert()` fails after the row is in, a repeated insert is
  refused while the segment is active, and accepted once it has been sealed.
* When the new active segment cannot be made after a seal, the rows are in
  memory twice, and the next `insert()` seals them again.
* Without a path, a seal that throws loses the rows of the active segment.
* Pruning drops both directions of a link without looking whether the dropped
  neighbour keeps another one. After `2m + 1` equal vectors a different one can
  be without links, and no search finds it. The index is approximate by
  design, so that is no disagreement; `SearchExactWhileSmall` has the bound up
  to which it cannot happen.
* With a client that goes on after `save()`, the last segment that another
  handle loaded can change under its mapping (`ReaderMapsIntact` is checked in
  `save_last` only, `ReaderDamageConfined` says that it is that one only).

## 6. Proofs

What a run shows of a small instance, a theorem says for every value of the
constants: every capacity, every number of ids, nodes, objects and files, every
width of a machine word. The bounds of the runs (`MaxSegments`, `MaxNodes`,
`MaxLayered`, `TopLevel`) are constants too, so none of them limits a theorem.

| Theorem | Of | States |
|---|---|---|
| `SegmentManagerProofs`: | `Spec` | for every client that does not construct one database over another (`~Recreate`), with every fault |
| `Invariance`, `TypeCorrect` | | `[]IInv`, `[]TypeOK` |
| `IdsAlwaysAgree` | | `[]IdsAgree` |
| `MapsStayIntact` | | `[]OwnMapsIntact` |
| `NeverMixedLoad` | | `[]NoMixedLoad` |
| `DamageStaysConfined` | | `[]DamageConfinedToLastSlot` |
| `LiveNeverShrinks` | | `LiveOnlyGrows` |
| `SegmentManagerProofs`: | `Spec` | for clients and devices with `StopsAtSave` |
| `SavedInvariance` | | `[](IInv /\ SavedInv)` |
| `SealedStaysDurable`, `SavedStaysDurable` | | `[]SealedIsDurable`, `[]SavedIsDurable` |
| `DurabilityRefinement` | | `ImplementsDurableSet` |
| `PersistedNeverShrinks` | | what `load()` would return never shrinks |
| `SharedPathProofs`: | `SharedSpec` | two handles |
| `WriterUndisturbed` | | `SharedSpec => Spec` |
| `ReaderInvariance` | `~Recreate` | `[](IInv /\ ReaderInv)` |
| `ReaderStaysCoherent`, `ReaderDamageStaysConfined` | `~Recreate` | `[]ReaderCoherent`, `[]ReaderDamageConfined` |
| `ReaderMapsStayIntact`, `ReaderNeverRefused` | `StopsAtSave` | `[]ReaderMapsIntact`, `[]ReaderNotRefused` |
| `ReaderGraphsStayWhole` | `StopsAtSave` | `[]ReaderGraphWhole` |
| `ActiveSegmentProofs`: | `Spec` | |
| `ActiveTypeCorrect`, `PartsInvariance` | | `[]TypeOK`, `[]PartsInv` |
| `NodesMatchVectors`, `SealedStaysAligned` | | `[]NodeIsItsVector`, `[]SealedAligned` |
| `AcceptedRowsStay`, `RollbackRestores` | | `[]AcceptedStays`, `[]RollbackRestoresRows` |
| `HnswGraphProofs`: | `Spec` | |
| `LinksInvariance`, `GraphInvariance` | | `[]LinksInv`, `[]GraphInv` |
| `GraphTypeCorrect`, `LinksStayOnLayer`, `EntryStaysOnTop` | | `[]TypeOK`, `[]LinksOnLayer`, `[]EntryOnTop` |
| `LinksGoBothWays`, `DegreesStayBounded`, `NoNodeIsLost` | | `[]Bidirectional`, `[]DegreeBounded`, `[]NoneLost` |
| `HnswIndexProofs`: | `Spec` | for vectors of any dimension |
| `IndexInvariant` | | `[]IndexInv` |
| `ImplementsGraph` | | `ImplementsHnswGraph` |
| `ListsAreDistinct`, `SearchIsWellFormed` | | `[]ListsDistinct`, `[]SearchWellFormed` |
| `SearchIsExactOnReachable`, `SearchIsExactWhileSmall` | | `[]SearchExactOnReachable`, `[]SearchExactWhileSmall` |
| `BackendProofs`: `EveryNodeOnce` | `MarksSpec` | `[]LooksOnce` |
| `MappingsOwnedOnce`, `ReadsStayInBounds` | `Spec` | `[]OwnedOnce`, `[]ReadsInBounds` |
| `AlgorithmProofs`: | `Spec` | |
| `FlatSearchIsExact`, `DatabaseSearchIsExact` | | `[]FlatIsExact`, `[]MergeIsExact` |
| `KernelAddsAll`, `QuantisationIsTight` | | `[]EveryTermOnce`, `[]WithinHalfStep` |
| `GraphFileReadsBack` | | `[]HnswReadBack` |
| `EditedValueIsExact`, `RegistryReadsBack` | | `[]HandEditedIsExact`, `[]RegistryReadBack` |
| `OfferKeepsNearest`, `DrainKeepsOrder`, `MergeIsEnough` | operators | one step of the scan, one of the drain; the merge of the answers of all segments |
| `TrainedWithinHalfStep`, `CodeIsNearest` | operators | a code is off by half a step at most, fits a byte, and is the best one |

### Assumptions

The constants have the assumptions that their modules state: capacity and slots
are positive, `M` is more than 1 (hnsw_index.h:50 throws otherwise), `Ef` is
positive, `Unreadable` and `NoEntry` are told apart from files and entries.
Beyond them:

* `~Recreate`: no database is constructed where one exists. Run `recreate`
  shows what happens otherwise. It is used only for the constructor.
* `StopsAtSave`: in addition, no call on an object follows its `save()`
  (`SaveIsLast`), and the device does not cut a write short unnoticed. Runs
  `rewrite` and `short_write` show that neither can be left out. Crashes and
  exceptions at every step are included.

The runs `any_client` and `save_last` are instances of these two. All theorems
about `SegmentManager` and `SharedPath` are about databases with a path.

### SegmentManagerProofs

None of the properties is inductive. `IInv` has two halves. For an open
database (`OpenInv`) it relates memory to disk: the mapped directories equal
the sealed segments; the registry counts them, or one more after a `save()`; in
that case every file of the extra slot is unreadable or *a prefix of the active
segment* (`RewritesPrefix`), because since that `save()` the active segment has
only grown; and the files the call in progress has done with hold the active
segment or are short (`CallProgress`). Two prefixes of one sequence with equal
lengths are equal, which is why comparing sizes is enough for `NoMixedLoad`,
although files of two generations do coexist. When the process ends, memory is
forgotten and what remains is a statement about the files alone (`ClosedInv`),
which `load()` turns into `OpenInv` again; for that it must also know that no id
is in two loadable directories (`DisjointDirectories`). Lemma `OpenFilesSound`
is the step from the first half to the second; then there is one lemma per
action. `LiveOnlyGrows` follows from `IInv` step by step; it needs it where a
seal replaces the active segment by what it mapped.

### What survives (SegmentManagerProofs, second part)

`IInv` allows the last referenced directory to be torn. `SavedInv` is what
excludes it for a client that stops at `save()`: the registry counts the next
directory to be written only when a `save()` has just returned
(`NothingRewritten`), and then that directory is complete and no call begins
(`SavedComplete`); what the call in progress has written is the active segment,
never short; and a closed database with a registry can be loaded. It is
inductive relative to `IInv`. Both durability properties follow without a look
at the actions. In the refinement, every file operation and every crash is a
stutter of `DurableSet`, and the replacement of the registry is the step that
makes the live set durable: the lemmas about `Persisted` say that only
this step changes what a `load()` would return.

### SharedPathProofs

`WriterUndisturbed` makes everything proved of `Spec` available beside a
reader. What the reader has read must then be related to files that go on
changing, between its reads of one file as well. `ReaderInv` says that its
copies of all directories but the last it counted are what the files hold
(`CopiesMatch`), so that a later read of one of these files finds what the first
one did (`MixedIsLast`), and that those of the last are never ahead of the files
(`LastGrows`): each is a prefix of what is there now. That alone does not
survive the end of the process, where the active segment, of which everything
is a prefix, is forgotten. So `ReaderInv` keeps that there is *some* list of
entries which the files of that directory and the copies of it are all prefixes
of (`LastIsActive` while the database is open, `LastHadOneSource` afterwards).
Ids that are read from two writes are ids of one prefix and of a longer one, at
the same offsets: they are the shorter prefix (`ReadsOn`). A graph is not:
its nodes change their links when others are added, so `ReaderCoherent` promises
the number of its nodes only, and admits a graph of two writes in the last
segment; `torn_load` shows one. Prefixes of one list with equal lengths are
equal: that is `ReaderCoherent`, although the files are read at many different
times. With `StopsAtSave`, `SavedInv` says that nothing the registry counts is
ever rewritten, and `CopiesInv`, that all copies equal the files and no graph is
of two writes, is inductive.

### ActiveSegmentProofs

`PartsInv` adds to the two properties about the parts why a segment with a
node too many is never sealed: a full graph is one with as many nodes as
vectors (`FullGraphFits`), and ids that have fallen behind the vectors stay
fewer for good (`IdsBehind`). `AcceptedStays` needs the types and nothing else.
`RollbackRestoresRows` speaks of histories in which only the graph has failed,
and says of those what every container holds, the graph included: it is as
long as the store or the segment is stuck. With `PartsInv` it is inductive.
None of these theorems says anything about what a search of a stuck segment
does; that is `SearchReadsVectors`, which does not hold.

### HnswGraphProofs

`LinksInv` is the conjunction of the properties about links with the two facts
they lean on in the middle of an `insert()`: that the layers are worked off in
order and what is still to be linked back is already linked forward
(`InsertInOrder`, `StartsOnLayer`), and that the new node has no links on the
layers below (`FreshBelow`). A pruned list drops links on both sides, and the
new node may be one of those dropped while other neighbours still have to link
back; `Bidirectional` must hold exactly of the links that are not in `todo`.

`NoneLost` speaks of paths, and paths call for induction. The proof avoids it.
`Reachable` is defined by the sets that no link leaves; a layer hangs together
when every such set holds *all or none* of its nodes (`AllOrNone`), and this
can be carried from step to step: while no list of the layer can overflow,
nothing is pruned, links are only added, so every set closed under the new
links was closed under the old; and the new node has a link to the settled ones
as soon as it is linked. `GraphInv` adds this (`Joined`) for the nodes that
`insert()` is done with on each layer (`Settled`). At the end of the `insert()`
they are all of them.

### HnswIndexProofs

`NoneLost` and the other theorems about `HnswGraph` hold for every result that
searches and selections might have. These proofs show that what the code
computes is among them, and what a client gets from `search()`.

*Queues.* A heap is a set of pairs with different offsets, which `Closer`
orders. `RankIs` says that the number of elements in front of one gives its
place, so `Offsets` lists the set in order and each element once (`OffsetsAre`),
and the nearest and the farthest exist.

*`greedy_search()`.* The loop invariant says that queue and results hold visited
nodes, that *while there is room left* in the results everything visited is one
of them, and that one result is no farther than the start (`Sound`); and that,
as long, the neighbours of a visited node are visited too, unless the node is
still in the queue (`Complete`). Every round makes `Expansions` larger, the
visited nodes less those in the queue, so after as many rounds as there are
nodes the search is done (`RoundIs`, `FoundIs`): this also justifies the number
of rounds of the model. If it ends with room left, no link leaves the visited
set, which is hence everything reachable (`DoneIs`). `GreedySearchIs` puts it
together: the answer is one of `Graph!SearchResults`, in order, and starts with
a node not farther than the start.

*`select_neighbors_heuristic()`.* The diverse candidates and then the closest
others fill every slot for which there is a candidate, without repetition, and
the closest candidate comes first (`SelectedIs`). `WithoutIs` says that the swap
with the last neighbour removes one node and leaves the others.

*Insertion.* The invariant is `IndexInv`. That the lists hold existing nodes
(`ListsTyped`) is what makes a distance defined; that they hold none twice and
no more than their layer allows (`ListsBounded`) is what lets the length of a
list stand for the size of a set, without which "no room" means different
things in the two modules. `Progress` places the start of each search and the
nodes in `todo` among the older nodes. `Fresh` says that nobody links to the new
node on a layer that `insert()` has not come to: only then does a search of an
older layer return older nodes, which is what `SelectNeighbors` of `HnswGraph`
links to. `Joined` is the all-or-none property of `HnswGraph` restated for the lists of
layer 0 only, which is the one that `search()` answers from; that the upper
layers hang together follows from `NoNodeIsLost` by the refinement.
There is one lemma per action, and it proves both that `IndexInv` is kept and
that the step is the step of `HnswGraph` with the same name.

*`search()`.* `BaseStartIs` follows the descent. `SearchIsWellFormed` is then
`GreedySearchIs` cut to `k`. For `SearchIsExactOnReachable` the results are all
that is reachable, and two sorted lists of one set of pairs have the same
distances; the cast of `k` only matters through `EfUsed`, and `EfUsedIs` says
that it is positive whatever `k` becomes. `SearchIsExactWhileSmall` adds
`Joined`: everything is reachable from anywhere.

### BackendProofs

`LooksOnce` alone is not inductive: between searches it must be known that no
mark is ahead of the counter, and during one that the marks equal to it are
those of the nodes met (`MarksBehind`). The wrap is the step where the first
holds only because the marks are cleared.

For `OwnedOnce`, the invariant `OInv` adds the shape of the members and of the
mappings, that an object is in one constructor at most and not constructed
yet, that a destroyed object owns nothing, and that no mapping is at the null
pointer (`Owners`). `ReadsInBounds` also needs what the constructor has
compared (`HeadersInv`), and arithmetic: `size_t` holds the product of two
fields but not that of three, so the last multiplication may wrap; the code
divides the result by one factor and compares. Lemmas `Products` and
`VectorsSizeExact` show that a product which passes that test has not wrapped, for
words of any width, and `RoomForVector` that every allowed offset then ends
within the file. Moves carry pointer, length and header together, which is
where `OInv` comes in.

The run of each of these specifications in `MCBackend` is the same modules and
the same actions with the other part standing still, so run and theorem state
the same property of the same steps.

### AlgorithmProofs

The loops of the algorithms are recursive functions over their input, and their
theorems are inductions. The library's induction theorems take an operator,
which the provers cannot instantiate; sets do instead (`LoopProofs`). `LeastNat` says that
every set of naturals has a least element (from the library's theorem that `<`
is well-founded on `Nat`), `UpTo` is induction up to a bound over a *set* of
naturals, and `Iterates` that the function which a recursive definition asks
for exists. Every loop is then treated alike: the function exists, its values
satisfy the recursion, and the set of rounds after which the loop invariant
holds has all of them.

* Brute force: after `n` vectors the heap is one of the sets of the `k` nearest
  of them (`HoldsNearest`), and while it is drained the answer is sorted, and
  no farther than what is left (`Draining`).
* The merge: the answers of all segments together are a set (`AnswersOfSegments`
  is the induction over the segments); a hit that was cut from the answer of
  its own segment has `k` others in front of it already, so it cannot be among
  the `k` nearest of all (`MergeIsEnough`).
* The kernel: after `m` blocks lane `l` has the terms `8j + l` of each
  (`AfterBlocks`), `i + 8` does not wrap, and each of the horizontal additions
  joins terms of different lanes (`LanesTogether`). The tail is the rest.
* Quantisation: the scan has seen the least and the greatest component
  (`HasSeen`), so a scale covers what it was trained on (`ScaledTo`). An extent
  below `Tiny` is replaced by `One`, and `2 * Tiny * Steps <= One` is what makes
  all of it round to the code 0, the minimum;
  `TrainedWithinHalfStep` and `CodeIsNearest` are the arithmetic of a single
  component and its code.
* `hnsw.bin`: the reader is a loop over nodes, within it a loop over lists, and
  each read starts where the one before has ended (`IsLoop`). Three lemmas
  serve both loops. If the parts that were written stand in a row, the loop
  gives all of them (`LoopReadsAll`); once a read is rejected the loop is
  (`LoopRejects`); and what a loop accepts in a first part of a file it accepts,
  with the same end, in the whole (`LoopAgrees`). So a cut file cannot pass:
  the whole is read to its very end, which a part of it does not have
  (`GraphIsRead`). `FlatInARow` finds the positions of the parts in what was
  written.
* `segments.json`: the parser is four searches for a first occurrence, and there
  is only one (`FirstOfIs`). Of a numeral, every first part is the numeral of a
  number that is not larger (`NumeralsRead`, an induction over numbers,
  by division); `FitsIs` says that the overflow test is passed exactly when the
  next digit fits, so what is accumulated is the number that the digits stand
  for or it is refused (`AccumulatedIs`). For an edited value, spaces in
  front of the digits and behind them are passed over and others end it
  (`UnspacedIs`, `EditIsRead`). In what was written, `KeysInARow` finds where each
  key stands, and that it stands nowhere else: marks, digits and keys differ. A
  key that the cut has left is hence found in its own line (`KeyIsRead`).
  A file is read only if a digit of the last key is left, and then every other
  line is whole: this is where the order of the keys matters.

`IInv` carries this over to the behaviours of `Algorithms`: an answer is one
that the algorithm may give to the call. The theorems assume of the calls what
the code does of its arguments (`FlatAssumption` and the like): distances are
comparable, a search finds vectors of its own segment, no list of a graph that
is saved is longer than its layer allows (`Graphs`), a dimension leaves room
for one more block in its type, and the training set is not empty, which
`sq8_compute_params()` throws upon. A registry that is saved has values of their
types, none negative (hnsw_index.h:50-52 throws otherwise). Keys, digits and the
marks between them are different tokens, and `segment_count` is the last key
(`DigitsAssumption`, `KeysAssumption`).

### How the invariants were found

Every inductive invariant was model-checked before it was proved: `IInv` is
checked in `any_client`, the others were checked on the instances of
the runs of their modules. Their definitions stand at the end of the modules
they speak of, so that they can be added to a cfg at any time; that of
`IndexInv` stands in `HnswIndexProofs`, beside the lemmas it shares its parts
with.

### Only model-checked

* `InsertReturns`, which is liveness under fairness. Every other property of
  a passing run is a theorem.
* The five violations, each by its trace. Of one of the properties violated,
  `ReaderGraphWhole`, there is a theorem for the clients that stop at `save()`;
  no run repeats it.

## 7. What is not modelled

* Floating-point rounding: equality of a distance computed in another order,
  that of the arithmetic of `sq8`, the multiplication by 1/255 in
  `sq8_asymmetric_l2()` (whose loop is that of `Kernel`). NaN.
* Dimensions near `2^32` in `Kernel`, where `i + 8` wraps: such vectors do not
  fit into memory.
* Two databases of different dimensions on one path: they meet only where
  `NoMixedLoad` is already violated (`recreate`).
* Two handles that both write. A reader whose process ends by `SIGBUS` when a
  file that it has mapped is truncated.
* A database without a path after a seal of it has thrown.
* Concurrent searches on one index: hnsw_index.h:42 documents that it is not
  thread-safe, and the program starts no thread.
* Loss of power. `load_segment_memory()`, which differs from
  `load_segment_mmap()` in the store it fills and is used by tests only.
* The random level of a node is any level up to `TopLevel`.
* Python bindings other than `insert_batch()`: conversions by nanobind.
* Benchmarks, build files, workflows.

## 8. Plan

The model covers every operation of the program that changes state, and every
property of a passing run but the liveness property is proved. The next steps
would be outside of both: rounding in the kernels and in `sq8`, and a second
handle that writes.
