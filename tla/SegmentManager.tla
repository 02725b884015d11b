--------------------------- MODULE SegmentManager ---------------------------
(***************************************************************************)
(* vextor's database object (segment/segment_manager.cpp) on top of its    *)
(* segments (segment/active_segment.cpp, segment/sealed_segment.cpp) and   *)
(* of the files it leaves on disk (persistence/serializer.cpp,             *)
(* persistence/loader.cpp): one ActiveSegment that takes inserts, a list   *)
(* of sealed segments, and a directory                                     *)
(*                                                                         *)
(*     segments.json          the registry: how many segments load() reads *)
(*     segments.json.tmp      renamed over the registry                    *)
(*     segment_0, ...         vectors.bin, hnsw.bin and ids.bin each       *)
(*                                                                         *)
(* The program is single-threaded, but a call that writes files can be cut *)
(* short between any two of its file operations: by the end of the process *)
(* ("crash"), by an exception ("throw"), or by a write that fails without  *)
(* anybody looking at the stream ("short_write").  save() and the insert() *)
(* that seals are therefore modelled one file operation per step; every    *)
(* other call is one step.                                                 *)
(*                                                                         *)
(* Slot n of the model is the directory segment_{n-1}.  Distances, graph   *)
(* links and bytes are abstracted: a segment file is the sequence of       *)
(* entries it was written from, or Unreadable.                             *)
(***************************************************************************)
EXTENDS Integers, Sequences, FiniteSets

CONSTANTS
    Id,            \* the user ids clients insert
    Vec,           \* the vectors they insert
    Capacity,      \* segment_capacity_
    MaxSegments,   \* bound: segment directories on disk
    SaveIsLast,    \* TRUE when no client calls insert() or save() again after
                   \* a save() has returned; load() starts it afresh
    Recreate,      \* TRUE when a client may construct a new database at a path
                   \* that already holds one
    Faults,        \* what may go wrong during a call
    Unreadable,    \* a file that is missing, or that the loader rejects
    NoEntry        \* not an entry: the call in progress is save()

Entry == [id : Id, vec : Vec]

ASSUME CapacityAssumption == Capacity \in Nat \ {0}
ASSUME MaxSegmentsAssumption == MaxSegments \in Nat \ {0}
ASSUME ModeAssumption == {SaveIsLast, Recreate} \subseteq BOOLEAN
ASSUME FaultsAssumption == Faults \subseteq {"crash", "throw", "short_write"}
ASSUME UnreadableAssumption == Unreadable \notin Seq(Entry) /\ Unreadable \notin Nat
ASSUME NoEntryAssumption == NoEntry \notin Entry

VARIABLES
    up,         \* a process has the database open
    active,     \* the entries of active_, in offset order
    sealed,     \* sealed_: for each segment, what its three parts hold
    allIds,     \* all_ids_
    saved,      \* the last call was a save() that returned normally
    stage,      \* where the call in progress stands, "idle" between calls
    opened,     \* the file of this stage is open, and still truncated
    pending,    \* the entry of the insert() in progress, NoEntry for save()
    disk,       \* the segment directories
    registry,   \* segment_count in segments.json
    tmp         \* segment_count in segments.json.tmp

memory == <<up, active, sealed, allIds, saved>>
call   == <<stage, opened, pending>>
files  == <<disk, registry, tmp>>
vars   == <<memory, call, files>>

-----------------------------------------------------------------------------

Parts == {"vectors", "hnsw", "ids"}
Stages == Parts \cup {"idle", "verify", "registry", "tmp", "rename"}

Segment == [Parts -> Seq(Entry)]
Directory == [Parts -> Seq(Entry) \cup {Unreadable}]

Entries(s) == {s[i] : i \in DOMAIN s}
IdsOf(s) == {s[i].id : i \in DOMAIN s}
DistinctIds(s) == \A i, j \in DOMAIN s : s[i].id = s[j].id => i = j

\* The MmapStore constructor accepts vectors.bin.
VectorsMap(d) == d["vectors"] # Unreadable

\* load_hnsw() accepts hnsw.bin.
GraphReads(d) == d["hnsw"] # Unreadable

\* load_ids() accepts ids.bin: IdMapping::insert() refuses a repeated user id.
IdsRead(d) == d["ids"] # Unreadable /\ DistinctIds(d["ids"])

\* Mutant of SizesAgree: nothing is compared.
SizesIgnored(d) == DOMAIN d = Parts

\* validate_components()
SizesAgree(d) == \A p \in Parts : Len(d[p]) = Len(d["ids"])

\* load_segment_mmap() returns the directory as a sealed segment.
Loadable(d) == VectorsMap(d) /\ GraphReads(d) /\ IdsRead(d) /\ SizesAgree(d)

\* The files of d were written from the same entries.
Coherent(d) == \A p, q \in Parts : d[p] = d[q]

Referenced == IF registry = Unreadable THEN {} ELSE 1..registry

\* SegmentManager::load() returns rather than throwing.
CanLoad == registry # Unreadable /\ \A n \in Referenced : Loadable(disk[n])

\* Mutant of Target: the directory of the last sealed segment is reused.
TargetLastSealed == IF sealed = <<>> THEN 1 ELSE Len(sealed)

\* The slot that the next serialize_segment() writes: segment_{sealed_.size()}.
Target == Len(sealed) + 1

\* Mutant of Total: save() does not count the segment it has just written.
TotalSealedOnly == Len(sealed) + IF pending = NoEntry THEN 0 ELSE 1

\* The count that the call in progress writes to the registry.
Total == IF active = <<>> THEN Len(sealed) ELSE Target

IsFull == Len(active) >= Capacity

-----------------------------------------------------------------------------

Closed == up = FALSE /\ active = <<>> /\ sealed = <<>> /\ allIds = {} /\ saved = FALSE

Idle == stage = "idle" /\ opened = FALSE /\ pending = NoEntry

Init ==
    /\ Closed
    /\ Idle
    /\ disk = [n \in 1..MaxSegments |-> [p \in Parts |-> Unreadable]]
    /\ registry = Unreadable
    /\ tmp = Unreadable

-----------------------------------------------------------------------------
(* Opening and leaving the database.                                       *)

\* The constructor: an empty database, whatever db_path_ holds.
Construct ==
    /\ ~up
    /\ Recreate \/ registry = Unreadable
    /\ up' = TRUE
    /\ UNCHANGED <<active, sealed, allIds, saved, call, files>>

\* Mutant of Load: all_ids_ is not rebuilt.
LoadWithoutIds ==
    /\ ~up
    /\ CanLoad
    /\ up' = TRUE
    /\ sealed' = [n \in 1..registry |-> disk[n]]
    /\ UNCHANGED <<active, allIds, saved, call, files>>

\* Mutant of Load: the segments are left on disk until they are searched.
LoadLazily ==
    /\ ~up
    /\ CanLoad
    /\ up' = TRUE
    /\ allIds' = UNION {IdsOf(disk[n]["ids"]) : n \in 1..registry}
    /\ UNCHANGED <<active, sealed, saved, call, files>>

\* SegmentManager::load(): every referenced segment, sealed; a load() that
\* throws changes nothing.
Load ==
    /\ ~up
    /\ CanLoad
    /\ up' = TRUE
    /\ sealed' = [n \in 1..registry |-> disk[n]]
    /\ allIds' = UNION {IdsOf(disk[n]["ids"]) : n \in 1..registry}
    /\ UNCHANGED <<active, saved, call, files>>

ForgetMemory ==
    /\ up' = FALSE
    /\ active' = <<>>
    /\ sealed' = <<>>
    /\ allIds' = {}
    /\ saved' = FALSE

\* The object is destroyed between two calls: nothing is written.
Exit ==
    /\ up
    /\ stage = "idle"
    /\ ForgetMemory
    /\ UNCHANGED <<call, files>>

\* The process ends in the middle of a call.
Crash ==
    /\ "crash" \in Faults
    /\ stage # "idle"
    /\ ForgetMemory
    /\ stage' = "idle"
    /\ opened' = FALSE
    /\ pending' = NoEntry
    /\ UNCHANGED files

-----------------------------------------------------------------------------
(* insert() and save(), up to the first file operation.                    *)

MayCall == up /\ stage = "idle" /\ (SaveIsLast => ~saved)

\* insert() checks all_ids_ before anything else; an insert() that throws
\* there changes nothing.
MayInsert(e) == MayCall /\ e.id \notin allIds

Insert(e) ==
    /\ MayInsert(e)
    /\ ~IsFull
    /\ active' = Append(active, e)
    /\ allIds' = allIds \cup {e.id}
    /\ saved' = FALSE
    /\ UNCHANGED <<up, sealed, call, files>>

\* A full active segment is sealed first: its parts go through the files.
InsertSealing(e) ==
    /\ MayInsert(e)
    /\ IsFull
    /\ Target <= MaxSegments
    /\ stage' = "vectors"
    /\ pending' = e
    /\ saved' = FALSE
    /\ UNCHANGED <<up, active, sealed, allIds, opened, files>>

\* save() serializes the active segment unless it is empty.
Save ==
    /\ MayCall
    /\ Total <= MaxSegments
    /\ stage' = IF active = <<>> THEN "registry" ELSE "vectors"
    /\ saved' = FALSE
    /\ UNCHANGED <<up, active, sealed, allIds, opened, pending, files>>

-----------------------------------------------------------------------------
(* serialize_segment(): create each file, then write it.                   *)

\* seal_active() maps the segment it wrote before it registers it, save()
\* does not.
NextStage ==
    CASE stage = "vectors" -> "hnsw"
      [] stage = "hnsw" -> "ids"
      [] stage = "ids" -> IF pending = NoEntry THEN "registry" ELSE "verify"

\* std::ofstream truncates the file that was there.
OpenFile ==
    /\ stage \in Parts
    /\ ~opened
    /\ disk' = [disk EXCEPT ![Target] = [@ EXCEPT ![stage] = Unreadable]]
    /\ opened' = TRUE
    /\ UNCHANGED <<memory, stage, pending, registry, tmp>>

WriteFile ==
    /\ stage \in Parts
    /\ opened
    /\ disk' = [disk EXCEPT ![Target] = [@ EXCEPT ![stage] = active]]
    /\ opened' = FALSE
    /\ stage' = NextStage
    /\ UNCHANGED <<memory, pending, registry, tmp>>

\* The device fills up: the stream fails, nobody looks, the file stays short.
WriteFileShort ==
    /\ "short_write" \in Faults
    /\ stage \in Parts
    /\ opened
    /\ opened' = FALSE
    /\ stage' = NextStage
    /\ UNCHANGED <<memory, pending, files>>

\* Mutant of Verify: the seal trusts what it wrote.
VerifyNothing ==
    /\ stage = "verify"
    /\ stage' = "registry"
    /\ UNCHANGED <<memory, opened, pending, files>>

\* seal_active(): load_segment_mmap() of the directory just written.
Verify ==
    /\ stage = "verify"
    /\ Loadable(disk[Target])
    /\ stage' = "registry"
    /\ UNCHANGED <<memory, opened, pending, files>>

-----------------------------------------------------------------------------
(* write_segments_json(), and what the caller does once it has returned.   *)

\* Mutant of OpenTmp: segments.json itself is truncated and rewritten.
OpenTmpInPlace ==
    /\ stage = "registry"
    /\ registry' = Unreadable
    /\ tmp' = Unreadable
    /\ stage' = "tmp"
    /\ UNCHANGED <<memory, opened, pending, disk>>

OpenTmp ==
    /\ stage = "registry"
    /\ tmp' = Unreadable
    /\ stage' = "tmp"
    /\ UNCHANGED <<memory, opened, pending, disk, registry>>

\* Written, flushed and checked.
WriteTmp ==
    /\ stage = "tmp"
    /\ tmp' = Total
    /\ stage' = "rename"
    /\ UNCHANGED <<memory, opened, pending, disk, registry>>

\* Mutant of Rename: a seal leaves the registry to the next save().
RenameOnlyOnSave ==
    /\ stage = "rename"
    /\ registry' = IF pending = NoEntry THEN tmp ELSE registry
    /\ tmp' = Unreadable
    /\ stage' = "idle"
    /\ pending' = NoEntry
    /\ UNCHANGED <<up, opened, disk>>

Rename ==
    /\ stage = "rename"
    /\ registry' = tmp
    /\ tmp' = Unreadable
    /\ stage' = "idle"
    /\ pending' = NoEntry
    /\ UNCHANGED <<up, opened, disk>>

SaveReturns ==
    /\ pending = NoEntry
    /\ Rename
    /\ saved' = TRUE
    /\ UNCHANGED <<active, sealed, allIds>>

\* Mutant of InsertSealingReturns: the sealed segment is not pushed.
InsertSealingWithoutPush ==
    /\ pending # NoEntry
    /\ Rename
    /\ active' = <<pending>>
    /\ allIds' = allIds \cup {pending.id}
    /\ UNCHANGED <<sealed, saved>>

\* Mutant of InsertSealingReturns: the active segment is not replaced.
InsertSealingKeepsActive ==
    /\ pending # NoEntry
    /\ Rename
    /\ sealed' = Append(sealed, disk[Target])
    /\ active' = Append(active, pending)
    /\ allIds' = allIds \cup {pending.id}
    /\ UNCHANGED saved

\* The sealed segment is pushed, the active one replaced, and the insert()
\* that found it full goes through.
InsertSealingReturns ==
    /\ pending # NoEntry
    /\ Rename
    /\ sealed' = Append(sealed, disk[Target])
    /\ active' = <<pending>>
    /\ allIds' = allIds \cup {pending.id}
    /\ UNCHANGED saved

\* A file operation fails and the call throws: no file can be created, the
\* written segment does not load, or the registry cannot be replaced.  A
\* segment that does not load always throws.
Throw ==
    /\ \/ /\ "throw" \in Faults
          /\ stage \in Stages \ {"idle"}
          /\ ~opened
       \/ stage = "verify" /\ ~Loadable(disk[Target])
    /\ stage' = "idle"
    /\ pending' = NoEntry
    /\ UNCHANGED <<memory, opened, files>>

-----------------------------------------------------------------------------

Next ==
    \/ Construct
    \/ Load
    \/ Exit
    \/ Crash
    \/ \E e \in Entry : \/ Insert(e)
                        \/ InsertSealing(e)
    \/ Save
    \/ OpenFile
    \/ WriteFile
    \/ WriteFileShort
    \/ Verify
    \/ OpenTmp
    \/ WriteTmp
    \/ SaveReturns
    \/ InsertSealingReturns
    \/ Throw

Spec == Init /\ [][Next]_vars

-----------------------------------------------------------------------------
(* Properties.                                                             *)

SealedEntries == UNION {Entries(sealed[i]["ids"]) : i \in DOMAIN sealed}

Live == Entries(active) \cup SealedEntries

\* What load() would return.
Persisted ==
    IF CanLoad THEN UNION {Entries(disk[n]["ids"]) : n \in Referenced} ELSE {}

MemoryTypeOK ==
    /\ up \in BOOLEAN
    /\ active \in Seq(Entry)
    /\ sealed \in Seq(Segment)
    /\ allIds \subseteq Id
    /\ saved \in BOOLEAN

CallTypeOK ==
    /\ stage \in Stages
    /\ opened \in BOOLEAN
    /\ pending \in Entry \cup {NoEntry}

FilesTypeOK ==
    /\ disk \in [1..MaxSegments -> Directory]
    /\ registry \in 0..MaxSegments \cup {Unreadable}
    /\ tmp \in 0..MaxSegments \cup {Unreadable}

\* Every variable has its type.
TypeOK == MemoryTypeOK /\ CallTypeOK /\ FilesTypeOK

SealedIds == UNION {IdsOf(sealed[i]["ids"]) : i \in DOMAIN sealed}

\* insert() refuses a duplicate by looking at all_ids_ alone, and the ids come
\* from three places: earlier inserts, seals, and load().  The set is exactly
\* the ids that some segment holds, and no id is held twice, across restarts
\* and calls that fail half way (segment_manager.cpp:73-80, 225-227).
IdsAgree ==
    /\ allIds = IdsOf(active) \cup SealedIds
    /\ DistinctIds(active)
    /\ IdsOf(active) \cap SealedIds = {}
    /\ \A i \in DOMAIN sealed : DistinctIds(sealed[i]["ids"])
    /\ \A i, j \in DOMAIN sealed :
          i # j => IdsOf(sealed[i]["ids"]) \cap IdsOf(sealed[j]["ids"]) = {}

\* A sealed segment reads its vectors from a mapped file: whatever save(), a
\* seal or a failure of either writes, the files behind an open segment stay
\* what they were when it was sealed or loaded (segment_manager.cpp:110,138).
OwnMapsIntact ==
    \A i \in DOMAIN sealed : disk[i] = sealed[i] /\ Coherent(disk[i])

\* A directory that load() accepts was written from one list of entries:
\* validate_components() compares sizes only, yet never passes vectors, graph
\* and ids of different generations (sealed_segment.cpp:8-13).
NoMixedLoad ==
    \A n \in Referenced : Loadable(disk[n]) => Coherent(disk[n])

\* However calls are cut short, only the last referenced directory can fail to
\* load; the ones before it stay complete (segment_manager.cpp:108-145).
DamageConfinedToLastSlot ==
    \A n \in Referenced : n # registry => Loadable(disk[n]) /\ Coherent(disk[n])

\* At every moment, even in the middle of a call, the end of the process would
\* leave every sealed segment for load() (segment_manager.cpp:113-116,
\* docs/PRD.md:146).
SealedIsDurable == SealedEntries \subseteq Persisted

\* Once save() has returned, load() brings back all the database holds
\* (segment_manager.h:27, "Flush: persist the active segment").
SavedIsDurable == saved => Live \subseteq Persisted

\* No call, not even one that throws half way through a seal, takes an entry
\* away from the open database (segment_manager.cpp:108-126).
LiveOnlyGrows == [][up /\ up' => Live \subseteq Live']_vars

\* What a client sees of durability is the abstract DurableSet, with load() as
\* Open and the renaming of the registry as the moment entries become durable.
Durability == INSTANCE DurableSet WITH live <- Live, durable <- Persisted

ImplementsDurableSet == Durability!Spec

-----------------------------------------------------------------------------
(* The inductive invariant, for clients that do not construct a database   *)
(* over another one (~Recreate).  It has one half for an open database and *)
(* one for the files a process leaves behind.                              *)

IsPrefixOf(s, t) == Len(s) <= Len(t) /\ \A i \in DOMAIN s : s[i] = t[i]

\* The registry counts the sealed segments, and one more once save() has
\* written the active segment.
RegistryFollows ==
    IF registry = Unreadable THEN sealed = <<>> ELSE registry \in {Len(sealed), Target}

\* Only inserts happened since save() wrote the active segment: each file it
\* left is being rewritten or holds a first part of the active segment.
RewritesPrefix ==
    registry = Target =>
        \A p \in Parts : \/ disk[Target][p] = Unreadable
                         \/ IsPrefixOf(disk[Target][p], active)

\* The files that the call in progress is done with.
Written ==
    CASE stage \in {"idle", "vectors"} -> {}
      [] stage = "hnsw" -> {"vectors"}
      [] stage = "ids" -> {"vectors", "hnsw"}
      [] OTHER -> IF active = <<>> THEN {} ELSE Parts

CallProgress ==
    /\ stage # "idle" => Total <= MaxSegments
    /\ stage = "idle" => pending = NoEntry
    /\ pending # NoEntry => pending.id \notin allIds /\ active # <<>>
    /\ stage \in Parts \cup {"verify"} => active # <<>>
    /\ opened => stage \in Parts /\ disk[Target][stage] = Unreadable
    /\ \A p \in Written : disk[Target][p] \in {active, Unreadable}
    /\ pending # NoEntry /\ stage \in {"registry", "tmp", "rename"} =>
          \A p \in Parts : disk[Target][p] = active
    /\ stage = "rename" => tmp = Total

OpenInv ==
    /\ IdsAgree
    /\ OwnMapsIntact
    /\ RegistryFollows
    /\ RewritesPrefix
    /\ CallProgress

\* No id is stored in two directories that load() would read.
DisjointDirectories ==
    \A m, n \in Referenced :
        m # n /\ Loadable(disk[m]) /\ Loadable(disk[n]) =>
            IdsOf(disk[m]["ids"]) \cap IdsOf(disk[n]["ids"]) = {}

ClosedInv ==
    /\ Closed
    /\ Idle
    /\ NoMixedLoad
    /\ DamageConfinedToLastSlot
    /\ DisjointDirectories

\* What every reachable state satisfies and every step preserves.
IInv ==
    /\ TypeOK
    /\ IF up THEN OpenInv ELSE ClosedInv

(***************************************************************************)
(* What else is invariant for clients that stop at save() (SaveIsLast), as *)
(* long as no write is cut short: no directory that the registry counts is *)
(* ever written again.  IInv /\ SavedInv is inductive.                     *)
(***************************************************************************)

\* Of the registry's directories, the one that the next call would write is
\* there only because a save() has just returned.
NothingRewritten == registry = Target => saved

\* What that save() wrote is all there, and no call has begun since.
SavedComplete ==
    saved => /\ stage = "idle"
             /\ registry = Total
             /\ active # <<>> => \A p \in Parts : disk[Target][p] = active

SavedInv ==
    IF up
    THEN /\ \A p \in Written : disk[Target][p] = active
         /\ NothingRewritten
         /\ SavedComplete
    ELSE registry # Unreadable => CanLoad

=============================================================================
