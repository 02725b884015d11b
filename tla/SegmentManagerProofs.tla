------------------------ MODULE SegmentManagerProofs ------------------------
(***************************************************************************)
(* Proofs about SegmentManager: IInv is inductive, and the safety          *)
(* properties that follow from it, for every value of the constants; then  *)
(* what is durable, and that DurableSet is implemented.                    *)
(***************************************************************************)
EXTENDS SegmentManager, SequenceTheorems, TLAPS

-----------------------------------------------------------------------------
(* Sequences of entries.                                                   *)

\* The ids of a sequence of entries are ids that clients insert.
LEMMA SequenceIds ==
    ASSUME NEW s \in Seq(Entry)
    PROVE  IdsOf(s) \subseteq Id
  <1>1. \A i \in DOMAIN s : s[i] \in Entry
    OBVIOUS
  <1>2. \A e \in Entry : e.id \in Id
    BY DEF Entry
  <1> QED BY <1>1, <1>2 DEF IdsOf

\* Appending an entry adds its id, keeps ids distinct when the id is new, and
\* leaves the old sequence as a prefix: what insert() does to the segment.
LEMMA AppendEntry ==
    ASSUME NEW s \in Seq(Entry), NEW e \in Entry
    PROVE  /\ Append(s, e) \in Seq(Entry)
           /\ Append(s, e) # <<>>
           /\ IdsOf(Append(s, e)) = IdsOf(s) \cup {e.id}
           /\ DistinctIds(s) /\ e.id \notin IdsOf(s) => DistinctIds(Append(s, e))
           /\ \A t \in Seq(Entry) : IsPrefixOf(t, s) => IsPrefixOf(t, Append(s, e))
  <1> DEFINE a == Append(s, e)
  <1>1. /\ a \in Seq(Entry)
        /\ Len(a) = Len(s) + 1
        /\ DOMAIN a = 1..Len(s) + 1
        /\ \A i \in 1..Len(s) : a[i] = s[i]
        /\ a[Len(s) + 1] = e
        /\ DOMAIN s = 1..Len(s)
        /\ Len(s) \in Nat
    OBVIOUS
  <1>2. a # <<>>
    BY <1>1
  <1>3. IdsOf(a) = IdsOf(s) \cup {e.id}
    <2>1. IdsOf(a) \subseteq IdsOf(s) \cup {e.id}
      BY <1>1 DEF IdsOf
    <2>2. IdsOf(s) \subseteq IdsOf(a)
      BY <1>1 DEF IdsOf
    <2>3. e.id \in IdsOf(a)
      BY <1>1 DEF IdsOf
    <2> QED BY <2>1, <2>2, <2>3
  <1>4. ASSUME DistinctIds(s), e.id \notin IdsOf(s)
        PROVE  DistinctIds(a)
    <2>1. \A i \in 1..Len(s) : s[i].id # e.id
      BY <1>1, <1>4 DEF IdsOf
    <2> QED BY <1>1, <1>4, <2>1 DEF DistinctIds
  <1>5. ASSUME NEW t \in Seq(Entry), IsPrefixOf(t, s)
        PROVE  IsPrefixOf(t, a)
    <2>1. DOMAIN t = 1..Len(t) /\ Len(t) \in Nat
      OBVIOUS
    <2> QED BY <1>1, <1>5, <2>1 DEF IsPrefixOf
  <1> QED BY <1>1, <1>2, <1>3, <1>4, <1>5

\* The active segment that replaces a sealed one: a single entry.
LEMMA OneEntry ==
    ASSUME NEW e \in Entry
    PROVE  /\ <<e>> \in Seq(Entry)
           /\ <<e>> # <<>>
           /\ IdsOf(<<e>>) = {e.id}
           /\ DistinctIds(<<e>>)
  BY DEF IdsOf, DistinctIds

\* Two prefixes of a sequence that have the same length are equal.
LEMMA SameLengthPrefixes ==
    ASSUME NEW a \in Seq(Entry), NEW s \in Seq(Entry), NEW t \in Seq(Entry),
           IsPrefixOf(s, a), IsPrefixOf(t, a), Len(s) = Len(t)
    PROVE  s = t
  <1>1. /\ DOMAIN s = 1..Len(s) /\ Len(s) \in Nat
        /\ DOMAIN t = 1..Len(t)
    OBVIOUS
  <1>2. \A i \in 1..Len(s) : s[i] = t[i]
    BY <1>1 DEF IsPrefixOf
  <1> QED BY <1>1, <1>2, SeqEqual

\* A prefix has no id that the sequence does not have.
LEMMA PrefixIds ==
    ASSUME NEW a \in Seq(Entry), NEW s \in Seq(Entry), IsPrefixOf(s, a)
    PROVE  IdsOf(s) \subseteq IdsOf(a)
  <1>1. /\ DOMAIN s = 1..Len(s) /\ Len(s) \in Nat
        /\ DOMAIN a = 1..Len(a) /\ Len(a) \in Nat
    OBVIOUS
  <1> QED BY <1>1 DEF IsPrefixOf, IdsOf

\* A sequence is a prefix of itself: a file just written from the active
\* segment is a rewrite of it.
LEMMA PrefixReflexive ==
    ASSUME NEW a \in Seq(Entry)
    PROVE  IsPrefixOf(a, a)
  BY DEF IsPrefixOf

-----------------------------------------------------------------------------
(* The files.                                                              *)

\* What the checks of the loader amount to.
LEMMA LoadableIff ==
    ASSUME NEW d
    PROVE  Loadable(d) <=> /\ \A p \in Parts : d[p] # Unreadable /\ Len(d[p]) = Len(d["ids"])
                           /\ DistinctIds(d["ids"])
  BY DEF Loadable, VectorsMap, GraphReads, IdsRead, SizesAgree, Parts

\* A directory whose three files are one sequence of entries with distinct ids
\* passes every check of the loader.
LEMMA WholeDirectory ==
    ASSUME NEW d, NEW s \in Seq(Entry), DistinctIds(s), \A p \in Parts : d[p] = s
    PROVE  Loadable(d) /\ Coherent(d)
  <1>1. \A p \in Parts : d[p] # Unreadable /\ Len(d[p]) = Len(d["ids"])
    BY UnreadableAssumption DEF Parts
  <1>2. d["ids"] = s
    BY DEF Parts
  <1>3. Coherent(d)
    BY DEF Coherent
  <1> QED BY <1>1, <1>2, <1>3, LoadableIff

\* The directories behind the open segments are complete.
LEMMA SealedLoadable ==
    ASSUME sealed \in Seq(Segment), IdsAgree, OwnMapsIntact
    PROVE  \A n \in 1..Len(sealed) :
              disk[n] = sealed[n] /\ Coherent(disk[n]) /\ Loadable(disk[n])
  <1> TAKE n \in 1..Len(sealed)
  <1>1. disk[n] = sealed[n] /\ Coherent(disk[n]) /\ sealed[n] \in Segment
    BY DEF OwnMapsIntact
  <1>2. DistinctIds(disk[n]["ids"])
    BY <1>1 DEF IdsAgree
  <1>3. \A p \in Parts : disk[n][p] = disk[n]["ids"]
    BY <1>1 DEF Coherent, Parts
  <1>4. disk[n]["ids"] \in Seq(Entry)
    BY <1>1 DEF Segment, Parts
  <1> QED BY <1>1, <1>2, <1>3, <1>4, WholeDirectory

\* Of the directories an open database's registry references, the ones it has
\* sealed are complete; the last may be in the middle of a rewrite, and then
\* it either does not load or holds one prefix of the active segment.
LEMMA OpenFilesSound ==
    ASSUME IInv, up
    PROVE  NoMixedLoad /\ DamageConfinedToLastSlot /\ DisjointDirectories
  <1>0. /\ TypeOK
        /\ IdsAgree /\ OwnMapsIntact /\ RegistryFollows /\ RewritesPrefix
    BY DEF IInv, OpenInv
  <1>1. CASE registry = Unreadable
    BY <1>1 DEF NoMixedLoad, DamageConfinedToLastSlot, DisjointDirectories, Referenced
  <1>2. CASE registry # Unreadable
    <2>1. /\ sealed \in Seq(Segment)
          /\ DOMAIN sealed = 1..Len(sealed)
      BY <1>0 DEF TypeOK, MemoryTypeOK
    <2>2. /\ registry \in 0..MaxSegments
          /\ registry \in {Len(sealed), Target}
          /\ Referenced = 1..registry
          /\ Len(sealed) \in Nat
          /\ Target = Len(sealed) + 1
      <3>1. registry \in 0..MaxSegments
        BY <1>0, <1>2 DEF TypeOK, FilesTypeOK
      <3>2. registry \in {Len(sealed), Target} /\ Referenced = 1..registry
        BY <1>0, <1>2 DEF RegistryFollows, Referenced
      <3>3. Len(sealed) \in Nat /\ Target = Len(sealed) + 1
        BY <2>1 DEF Target
      <3> QED BY <3>1, <3>2, <3>3
    <2>3. \A n \in 1..Len(sealed) :
             /\ disk[n] = sealed[n]
             /\ Coherent(disk[n])
             /\ Loadable(disk[n])
      BY <1>0, SealedLoadable DEF TypeOK, MemoryTypeOK
    <2>4. ASSUME registry = Target, Loadable(disk[Target])
          PROVE  /\ Coherent(disk[Target])
                 /\ IdsOf(disk[Target]["ids"]) \subseteq IdsOf(active)
      <3>1. Target \in 1..MaxSegments
        BY <2>2, <2>4, MaxSegmentsAssumption
      <3>2. \A p \in Parts : /\ disk[Target][p] \in Seq(Entry)
                             /\ IsPrefixOf(disk[Target][p], active)
                             /\ Len(disk[Target][p]) = Len(disk[Target]["ids"])
        BY <1>0, <2>4, <3>1, LoadableIff DEF TypeOK, FilesTypeOK, RewritesPrefix, Directory
      <3>3. Coherent(disk[Target])
        BY <1>0, <3>2, SameLengthPrefixes DEF TypeOK, MemoryTypeOK, Coherent
      <3>4. IdsOf(disk[Target]["ids"]) \subseteq IdsOf(active)
        BY <1>0, <3>2, PrefixIds DEF TypeOK, MemoryTypeOK, Parts
      <3> QED BY <3>3, <3>4
    <2>5. NoMixedLoad
      BY <2>2, <2>3, <2>4 DEF NoMixedLoad
    <2>6. DamageConfinedToLastSlot
      BY <2>2, <2>3 DEF DamageConfinedToLastSlot
    <2>7. DisjointDirectories
      <3> SUFFICES ASSUME NEW m \in 1..registry, NEW n \in 1..registry, m # n,
                          Loadable(disk[m]), Loadable(disk[n])
                   PROVE  IdsOf(disk[m]["ids"]) \cap IdsOf(disk[n]["ids"]) = {}
        BY <2>2 DEF DisjointDirectories
      <3>1. CASE m \in 1..Len(sealed) /\ n \in 1..Len(sealed)
        BY <1>0, <2>1, <2>3, <3>1 DEF IdsAgree
      <3>2. ASSUME NEW i \in 1..Len(sealed)
            PROVE  IdsOf(disk[i]["ids"]) \cap IdsOf(active) = {}
        BY <1>0, <2>1, <2>3, <3>2 DEF IdsAgree, SealedIds
      <3>3. CASE m = Target /\ n \in 1..Len(sealed)
        BY <2>2, <2>4, <3>2, <3>3
      <3>4. CASE n = Target /\ m \in 1..Len(sealed)
        BY <2>2, <2>4, <3>2, <3>4
      <3> QED BY <2>2, <3>1, <3>3, <3>4
    <2> QED BY <2>5, <2>6, <2>7
  <1> QED BY <1>1, <1>2

-----------------------------------------------------------------------------
(* The steps that open and leave the database.                             *)

\* With no database and an empty directory the invariant holds.
LEMMA InitStep == Init => IInv
  <1> SUFFICES ASSUME Init PROVE IInv
    OBVIOUS
  <1> USE DEF Init, Closed, Idle
  <1>1. TypeOK
    <2>1. disk \in [1..MaxSegments -> Directory]
      BY DEF Directory
    <2>2. active \in Seq(Entry) /\ sealed \in Seq(Segment)
      OBVIOUS
    <2>3. MemoryTypeOK
      BY <2>2 DEF MemoryTypeOK
    <2>4. CallTypeOK
      BY DEF CallTypeOK, Stages
    <2>5. FilesTypeOK
      BY <2>1 DEF FilesTypeOK
    <2> QED BY <2>3, <2>4, <2>5 DEF TypeOK
  <1>2. NoMixedLoad /\ DamageConfinedToLastSlot /\ DisjointDirectories
    BY DEF NoMixedLoad, DamageConfinedToLastSlot, DisjointDirectories, Referenced
  <1> QED BY <1>1, <1>2 DEF IInv, ClosedInv

\* The constructor preserves the invariant when it finds no database at the
\* path (the only place where ~Recreate is needed).
LEMMA ConstructStep ==
    ASSUME IInv, Construct, ~Recreate
    PROVE  IInv'
  <1>1. /\ TypeOK /\ Closed /\ Idle
        /\ registry = Unreadable
        /\ up' = TRUE
        /\ UNCHANGED <<active, sealed, allIds, saved, stage, opened, pending, disk, registry, tmp>>
    BY DEF IInv, ClosedInv, Construct, call, files
  <1>2. TypeOK'
    BY <1>1 DEF TypeOK, MemoryTypeOK, CallTypeOK, FilesTypeOK
  <1>3. IdsAgree'
    BY <1>1 DEF Closed, IdsAgree, SealedIds, IdsOf, DistinctIds
  <1>4. OwnMapsIntact'
    BY <1>1 DEF Closed, OwnMapsIntact
  <1>5. RegistryFollows'
    BY <1>1 DEF Closed, RegistryFollows
  <1>6. RewritesPrefix'
    <2>1. Target' \in Nat
      BY <1>1 DEF Closed, Target
    <2> QED BY <1>1, <2>1, UnreadableAssumption DEF RewritesPrefix
  <1>7. CallProgress'
    BY <1>1 DEF Idle, CallProgress, Written, Parts
  <1> QED BY <1>1, <1>2, <1>3, <1>4, <1>5, <1>6, <1>7 DEF IInv, OpenInv

\* load() preserves the invariant: what the closed half says of the files is
\* what the open half says of the segments it maps.
LEMMA LoadStep ==
    ASSUME IInv, Load
    PROVE  IInv'
  <1>1. /\ TypeOK /\ Closed /\ Idle
        /\ NoMixedLoad /\ DisjointDirectories
       
        /\ up' = TRUE
        /\ sealed' = [n \in 1..registry |-> disk[n]]
        /\ allIds' = UNION {IdsOf(disk[n]["ids"]) : n \in 1..registry}
        /\ UNCHANGED <<active, saved, stage, opened, pending, disk, registry, tmp>>
    BY DEF IInv, ClosedInv, Load, call, files
  <1>2. registry # Unreadable /\ Referenced = 1..registry
    BY DEF Load, CanLoad, Referenced
  <1>3. registry \in 0..MaxSegments /\ registry \in Nat
    BY <1>1, <1>2, MaxSegmentsAssumption DEF TypeOK, FilesTypeOK
  <1>4. \A n \in 1..registry : Loadable(disk[n]) /\ Coherent(disk[n]) /\ disk[n] \in Directory
    <2> TAKE n \in 1..registry
    <2>1. Loadable(disk[n])
      BY <1>2 DEF Load, CanLoad
    <2>2. Coherent(disk[n])
      BY <1>1, <1>2, <2>1 DEF NoMixedLoad
    <2>3. n \in 1..MaxSegments
      BY <1>3, MaxSegmentsAssumption
    <2> QED BY <1>1, <2>1, <2>2, <2>3 DEF TypeOK, FilesTypeOK
  <1>5. \A n \in 1..registry : disk[n] \in Segment /\ DistinctIds(disk[n]["ids"])
    BY <1>4, LoadableIff DEF Directory, Segment
  <1>6. /\ sealed' \in Seq(Segment)
        /\ Len(sealed') = registry
        /\ DOMAIN sealed' = 1..registry
        /\ \A n \in 1..registry : sealed'[n] = disk[n]
    BY <1>1, <1>3, <1>5
  <1>7. TypeOK'
    <2>1. \A n \in 1..registry : IdsOf(disk[n]["ids"]) \subseteq Id
      BY <1>5, SequenceIds DEF Segment, Parts
    <2>2. allIds' \subseteq Id
      BY <1>1, <2>1
    <2> QED BY <1>1, <1>6, <2>2 DEF TypeOK, MemoryTypeOK, CallTypeOK, FilesTypeOK
  <1>8. IdsAgree'
    <2>1. SealedIds' = allIds' /\ IdsOf(active)' = {} /\ DistinctIds(active)'
      BY <1>1, <1>6 DEF SealedIds, Closed, IdsOf, DistinctIds
    <2>2. \A i \in DOMAIN sealed' : DistinctIds(sealed'[i]["ids"])
      BY <1>5, <1>6
    <2>3. \A i, j \in DOMAIN sealed' :
             i # j => IdsOf(sealed'[i]["ids"]) \cap IdsOf(sealed'[j]["ids"]) = {}
      <3>1. \A m, n \in 1..registry : m # n =>
               IdsOf(disk[m]["ids"]) \cap IdsOf(disk[n]["ids"]) = {}
        BY <1>1, <1>2, <1>4 DEF DisjointDirectories
      <3> QED BY <1>6, <3>1
    <2> QED BY <2>1, <2>2, <2>3 DEF IdsAgree
  <1>9. OwnMapsIntact'
    BY <1>1, <1>4, <1>6 DEF OwnMapsIntact, Coherent
  <1>10. RegistryFollows'
    BY <1>1, <1>2, <1>6 DEF RegistryFollows
  <1>11. RewritesPrefix'
    <2>1. Target' # registry'
      BY <1>1, <1>3, <1>6 DEF Target
    <2> QED BY <2>1 DEF RewritesPrefix
  <1>12. CallProgress'
    BY <1>1 DEF Idle, CallProgress, Written, Parts
  <1> QED BY <1>1, <1>7, <1>8, <1>9, <1>10, <1>11, <1>12 DEF IInv, OpenInv

\* What the process leaves behind when it ends, between calls or in one.
LEMMA LeaveStep ==
    ASSUME IInv, Exit \/ Crash
    PROVE  IInv'
  <1>1. up /\ TypeOK /\ CallProgress
    BY DEF IInv, OpenInv, ClosedInv, Idle, Exit, Crash
  <1>2. ForgetMemory /\ Idle' /\ UNCHANGED <<disk, registry, tmp>>
    BY <1>1 DEF Exit, Crash, Idle, call, files, CallProgress, Parts, TypeOK
  <1>3. TypeOK' /\ Closed'
    <2>1. Closed'
      BY <1>2 DEF ForgetMemory, Closed
    <2>2. MemoryTypeOK'
      <3>1. <<>> \in Seq(Entry) /\ <<>> \in Seq(Segment)
        OBVIOUS
      <3> QED BY <1>2, <3>1 DEF ForgetMemory, MemoryTypeOK
    <2>3. CallTypeOK'
      BY <1>2 DEF Idle, CallTypeOK, Stages
    <2>4. FilesTypeOK'
      BY <1>1, <1>2 DEF TypeOK, FilesTypeOK
    <2> QED BY <2>1, <2>2, <2>3, <2>4 DEF TypeOK
  <1>4. NoMixedLoad /\ DamageConfinedToLastSlot /\ DisjointDirectories
    BY <1>1, OpenFilesSound
  <1>5. (NoMixedLoad /\ DamageConfinedToLastSlot /\ DisjointDirectories)'
    <2>1. disk' = disk /\ registry' = registry
      BY <1>2
    <2>2. NoMixedLoad'
      BY <1>4, <2>1 DEF NoMixedLoad, Referenced
    <2>3. DamageConfinedToLastSlot'
      BY <1>4, <2>1 DEF DamageConfinedToLastSlot, Referenced
    <2>4. DisjointDirectories'
      BY <1>4, <2>1 DEF DisjointDirectories, Referenced
    <2> QED BY <2>2, <2>3, <2>4
  <1> QED BY <1>2, <1>3, <1>5 DEF IInv, ClosedInv, Closed

-----------------------------------------------------------------------------
(* The steps of insert() and save().                                       *)

\* What IInv says of an open database, named.
LEMMA OpenFacts ==
    ASSUME IInv, up
    PROVE  /\ MemoryTypeOK /\ CallTypeOK /\ FilesTypeOK
           /\ IdsAgree /\ OwnMapsIntact /\ RegistryFollows /\ RewritesPrefix
           /\ CallProgress
  BY DEF IInv, OpenInv, TypeOK

\* And what it takes to establish it again.
LEMMA OpenAgain ==
    ASSUME (MemoryTypeOK /\ CallTypeOK /\ FilesTypeOK)',
           up',
           (IdsAgree /\ OwnMapsIntact /\ RegistryFollows /\ RewritesPrefix)',
           CallProgress'
    PROVE  IInv'
  BY DEF IInv, OpenInv, TypeOK

\* An insert() that finds room preserves the invariant: what the last save()
\* wrote is still a prefix of the active segment.
LEMMA InsertStep ==
    ASSUME IInv, NEW e \in Entry, Insert(e)
    PROVE  IInv'
  <1>1. /\ up /\ stage = "idle" /\ e.id \notin allIds
        /\ active' = Append(active, e)
        /\ allIds' = allIds \cup {e.id}
        /\ saved' = FALSE
        /\ UNCHANGED <<up, sealed, stage, opened, pending, disk, registry, tmp>>
    BY DEF Insert, MayInsert, MayCall, call, files
  <1>2. /\ MemoryTypeOK /\ CallTypeOK /\ FilesTypeOK
        /\ IdsAgree /\ OwnMapsIntact /\ RegistryFollows /\ RewritesPrefix
        /\ CallProgress
    BY <1>1, OpenFacts
  <1>3. active \in Seq(Entry) /\ sealed \in Seq(Segment)
    BY <1>2 DEF MemoryTypeOK
  <1>4. /\ active' \in Seq(Entry)
        /\ IdsOf(active') = IdsOf(active) \cup {e.id}
        /\ DistinctIds(active) /\ e.id \notin IdsOf(active) => DistinctIds(active')
        /\ \A t \in Seq(Entry) : IsPrefixOf(t, active) => IsPrefixOf(t, active')
    BY <1>1, <1>3, AppendEntry
  <1>5. MemoryTypeOK'
    <2>1. e.id \in Id
      BY DEF Entry
    <2> QED BY <1>1, <1>2, <1>4, <2>1 DEF MemoryTypeOK
  <1>6. CallTypeOK' /\ FilesTypeOK'
    BY <1>1, <1>2 DEF CallTypeOK, FilesTypeOK
  <1>7. IdsAgree'
    <2>1. SealedIds' = SealedIds
      BY <1>1 DEF SealedIds
    <2>2. e.id \notin IdsOf(active) /\ e.id \notin SealedIds
      BY <1>1, <1>2 DEF IdsAgree
    <2>3. DistinctIds(active')
      BY <1>2, <1>4, <2>2 DEF IdsAgree
    <2> QED BY <1>1, <1>2, <1>4, <2>1, <2>2, <2>3 DEF IdsAgree
  <1>8. OwnMapsIntact'
    BY <1>1, <1>2 DEF OwnMapsIntact
  <1>9. RegistryFollows' /\ Target' = Target
    BY <1>1, <1>2 DEF RegistryFollows, Target
  <1>10. RewritesPrefix'
    <2> SUFFICES ASSUME registry = Target, NEW p \in Parts, disk[Target][p] # Unreadable
                 PROVE  IsPrefixOf(disk[Target][p], active')
      BY <1>1, <1>9 DEF RewritesPrefix
    <2>1. IsPrefixOf(disk[Target][p], active)
      BY <1>2 DEF RewritesPrefix
    <2>2. disk[Target][p] \in Seq(Entry)
      <3>1. Target \in 1..MaxSegments
        BY <1>2, <1>3, UnreadableAssumption, MaxSegmentsAssumption DEF FilesTypeOK, Target
      <3> QED BY <1>2, <3>1 DEF FilesTypeOK, Directory
    <2> QED BY <1>4, <2>1, <2>2
  <1>11. CallProgress'
    BY <1>1, <1>2 DEF CallProgress, Written, Parts
  <1> QED BY <1>1, <1>5, <1>6, <1>7, <1>8, <1>9, <1>10, <1>11, OpenAgain

\* The active segment joins the sealed ones and a single entry replaces it:
\* what a seal does to the ids, with or without files.
LEMMA SealKeepsIds ==
    ASSUME IdsAgree, active \in Seq(Entry), sealed \in Seq(Segment),
           NEW e \in Entry, e.id \notin allIds,
           NEW d \in Segment, d["ids"] = active,
           sealed' = Append(sealed, d),
           active' = <<e>>,
           allIds' = allIds \cup {e.id}
    PROVE  IdsAgree'
  <1>1. /\ DOMAIN sealed' = 1..Len(sealed) + 1
        /\ DOMAIN sealed = 1..Len(sealed)
        /\ Len(sealed) \in Nat
        /\ \A i \in 1..Len(sealed) : sealed'[i] = sealed[i]
        /\ sealed'[Len(sealed) + 1] = d
    OBVIOUS
  <1>2. IdsOf(active') = {e.id} /\ DistinctIds(active')
    BY OneEntry
  <1>3. SealedIds' = SealedIds \cup IdsOf(active)
    <2>1. SealedIds' = UNION {IdsOf(sealed'[i]["ids"]) : i \in 1..Len(sealed) + 1}
      BY <1>1 DEF SealedIds
    <2>2. SealedIds = UNION {IdsOf(sealed[i]["ids"]) : i \in 1..Len(sealed)}
      BY <1>1 DEF SealedIds
    <2>3. SealedIds' \subseteq SealedIds \cup IdsOf(active)
      BY <1>1, <2>1, <2>2
    <2>4. SealedIds \cup IdsOf(active) \subseteq SealedIds'
      BY <1>1, <2>1, <2>2
    <2> QED BY <2>3, <2>4
  <1>4. \A i \in 1..Len(sealed) : IdsOf(sealed[i]["ids"]) \cap IdsOf(active) = {}
    BY <1>1 DEF IdsAgree, SealedIds
  <1>5. \A i \in DOMAIN sealed' : DistinctIds(sealed'[i]["ids"])
    BY <1>1 DEF IdsAgree
  <1>6. \A i, j \in DOMAIN sealed' :
           i # j => IdsOf(sealed'[i]["ids"]) \cap IdsOf(sealed'[j]["ids"]) = {}
    <2>1. \A i, j \in 1..Len(sealed) :
             i # j => IdsOf(sealed'[i]["ids"]) \cap IdsOf(sealed'[j]["ids"]) = {}
      BY <1>1 DEF IdsAgree
    <2>2. \A i \in 1..Len(sealed) :
             IdsOf(sealed'[i]["ids"]) \cap IdsOf(sealed'[Len(sealed) + 1]["ids"]) = {}
      BY <1>1, <1>4
    <2>3. \A i \in DOMAIN sealed' : i \in 1..Len(sealed) \/ i = Len(sealed) + 1
      BY <1>1
    <2> QED BY <2>1, <2>2, <2>3
  <1>7. e.id \notin IdsOf(active) /\ e.id \notin SealedIds
    BY DEF IdsAgree
  <1>8. allIds' = IdsOf(active') \cup SealedIds'
    BY <1>2, <1>3 DEF IdsAgree
  <1>9. IdsOf(active') \cap SealedIds' = {}
    BY <1>2, <1>3, <1>7
  <1> QED BY <1>2, <1>5, <1>6, <1>8, <1>9 DEF IdsAgree

\* Steps that change neither memory nor segment files nor the registry.
LEMMA NothingWritten ==
    ASSUME IdsAgree, OwnMapsIntact, RegistryFollows, RewritesPrefix,
           UNCHANGED <<active, sealed, allIds, disk, registry>>
    PROVE  /\ (IdsAgree /\ OwnMapsIntact /\ RegistryFollows /\ RewritesPrefix)'
           /\ Target' = Target /\ Total' = Total
  <1>1. IdsAgree'
    BY DEF IdsAgree, SealedIds
  <1>2. OwnMapsIntact'
    BY DEF OwnMapsIntact
  <1>3. RegistryFollows' /\ RewritesPrefix' /\ Target' = Target /\ Total' = Total
    BY DEF RegistryFollows, RewritesPrefix, Target, Total
  <1> QED BY <1>1, <1>2, <1>3

\* The first step of a call that writes files: memory and files are unchanged,
\* the call is known.
LEMMA CallBeginStep ==
    ASSUME IInv, Save \/ \E e \in Entry : InsertSealing(e)
    PROVE  IInv'
  <1>1. /\ up /\ stage = "idle" /\ saved' = FALSE
        /\ UNCHANGED <<up, active, sealed, allIds, opened, disk, registry, tmp>>
    BY DEF Save, InsertSealing, MayInsert, MayCall, files
  <1>2. /\ MemoryTypeOK /\ CallTypeOK /\ FilesTypeOK
        /\ IdsAgree /\ OwnMapsIntact /\ RegistryFollows /\ RewritesPrefix
        /\ CallProgress
    BY <1>1, OpenFacts
  <1>3. MemoryTypeOK' /\ FilesTypeOK'
    BY <1>1, <1>2 DEF MemoryTypeOK, FilesTypeOK
  <1>4. /\ (IdsAgree /\ OwnMapsIntact /\ RegistryFollows /\ RewritesPrefix)'
        /\ Target' = Target /\ Total' = Total
    BY <1>1, <1>2, NothingWritten
  <1>6. pending = NoEntry /\ opened = FALSE
    BY <1>1, <1>2 DEF CallProgress, CallTypeOK, Parts
  <1>7. CASE Save
    <2>1. /\ stage' = IF active = <<>> THEN "registry" ELSE "vectors"
          /\ pending' = pending
          /\ Total <= MaxSegments
      BY <1>7 DEF Save
    <2>2. CallTypeOK'
      BY <1>1, <1>2, <2>1 DEF CallTypeOK, Stages, Parts
    <2>4. Written' = {}
      BY <1>1, <2>1 DEF Written
    <2>5. CallProgress'
      BY <1>1, <1>4, <1>6, <2>1, <2>4 DEF CallProgress, Parts
    <2> QED BY <1>1, <1>3, <1>4, <2>2, <2>5, OpenAgain
  <1>8. ASSUME NEW e \in Entry, InsertSealing(e)
        PROVE  IInv'
    <2>1. /\ stage' = "vectors"
          /\ pending' = e
          /\ e.id \notin allIds
          /\ IsFull
          /\ Target <= MaxSegments
      BY <1>8 DEF InsertSealing, MayInsert
    <2>2. CallTypeOK'
      BY <1>1, <1>2, <2>1 DEF CallTypeOK, Stages, Parts
    <2>3. active # <<>>
      BY <2>1, CapacityAssumption DEF IsFull
    <2>4. Total' <= MaxSegments
      BY <1>4, <2>1, <2>3 DEF Total
    <2>5. Written' = {}
      BY <2>1 DEF Written
    <2>6. CallProgress'
      BY <1>1, <1>6, <2>1, <2>3, <2>4, <2>5 DEF CallProgress, Parts
    <2> QED BY <1>1, <1>3, <1>4, <2>2, <2>6, OpenAgain
  <1> QED BY <1>7, <1>8

-----------------------------------------------------------------------------
(* The file operations.                                                    *)

\* Truncating or writing one file of the target directory leaves the mapped
\* directories alone and the target a rewrite of the active segment.
LEMMA TargetWrite ==
    ASSUME MemoryTypeOK, FilesTypeOK, Target <= MaxSegments,
           IdsAgree, OwnMapsIntact, RegistryFollows, RewritesPrefix,
           NEW part \in Parts, NEW f \in {active, Unreadable},
           disk' = [disk EXCEPT ![Target] = [@ EXCEPT ![part] = f]],
           UNCHANGED <<active, sealed, allIds, registry, tmp>>
    PROVE  /\ FilesTypeOK'
           /\ (IdsAgree /\ OwnMapsIntact /\ RegistryFollows /\ RewritesPrefix)'
           /\ Target' = Target
           /\ disk'[Target][part] = f
           /\ \A q \in Parts \ {part} : disk'[Target][q] = disk[Target][q]
  <1>1. /\ active \in Seq(Entry) /\ sealed \in Seq(Segment)
        /\ disk \in [1..MaxSegments -> Directory]
    BY DEF MemoryTypeOK, FilesTypeOK
  <1>2. /\ Target \in 1..MaxSegments
        /\ DOMAIN sealed = 1..Len(sealed)
        /\ Target \notin 1..Len(sealed)
        /\ Target' = Target
    BY <1>1, MaxSegmentsAssumption DEF Target
  <1>3. /\ disk[Target] \in [Parts -> Seq(Entry) \cup {Unreadable}]
        /\ disk'[Target] = [disk[Target] EXCEPT ![part] = f]
        /\ \A n \in 1..MaxSegments : n # Target => disk'[n] = disk[n]
        /\ f \in Seq(Entry) \cup {Unreadable}
    BY <1>1, <1>2 DEF Directory
  <1>4. /\ disk'[Target][part] = f
        /\ \A q \in Parts \ {part} : disk'[Target][q] = disk[Target][q]
        /\ disk'[Target] \in Directory
    BY <1>3 DEF Directory
  <1>5. FilesTypeOK'
    <2>1. disk' \in [1..MaxSegments -> Directory]
      <3> HIDE DEF Directory
      <3>1. disk' = [disk EXCEPT ![Target] = disk'[Target]]
        BY <1>1, <1>2, <1>3
      <3> QED BY <1>1, <1>4, <3>1
    <2> QED BY <2>1 DEF FilesTypeOK
  <1>6. IdsAgree' /\ RegistryFollows'
    BY <1>2 DEF IdsAgree, SealedIds, RegistryFollows
  <1>7. OwnMapsIntact'
    <2>1. Len(sealed) < MaxSegments
      BY <1>1, MaxSegmentsAssumption DEF Target
    <2>2. \A i \in 1..Len(sealed) : disk'[i] = disk[i]
      BY <1>1, <1>2, <1>3, <2>1, MaxSegmentsAssumption
    <2> QED BY <1>2, <2>2 DEF OwnMapsIntact, Coherent
  <1>8. RewritesPrefix'
    <2> SUFFICES ASSUME registry = Target, NEW q \in Parts, disk'[Target][q] # Unreadable
                 PROVE  IsPrefixOf(disk'[Target][q], active)
      BY <1>2 DEF RewritesPrefix
    <2>1. CASE q = part
      BY <1>1, <1>4, <2>1, PrefixReflexive
    <2>2. CASE q # part
      BY <1>4, <2>2 DEF RewritesPrefix
    <2> QED BY <2>1, <2>2
  <1> QED BY <1>2, <1>4, <1>5, <1>6, <1>7, <1>8

\* Truncating a file of the target directory preserves the invariant.
LEMMA OpenFileStep ==
    ASSUME IInv, up, OpenFile
    PROVE  IInv'
  <1>1. /\ up /\ stage \in Parts /\ opened' = TRUE
        /\ disk' = [disk EXCEPT ![Target] = [@ EXCEPT ![stage] = Unreadable]]
        /\ UNCHANGED <<up, active, sealed, allIds, saved, stage, pending, registry, tmp>>
    BY DEF OpenFile, memory
  <1>2. /\ MemoryTypeOK /\ CallTypeOK /\ FilesTypeOK
        /\ IdsAgree /\ OwnMapsIntact /\ RegistryFollows /\ RewritesPrefix
        /\ CallProgress
    BY <1>1, OpenFacts
  <1>3. /\ active # <<>>
        /\ Total = Target /\ Target <= MaxSegments
    BY <1>1, <1>2 DEF CallProgress, Parts, Total
  <1>4. /\ FilesTypeOK'
        /\ (IdsAgree /\ OwnMapsIntact /\ RegistryFollows /\ RewritesPrefix)'
        /\ Target' = Target
        /\ disk'[Target][stage] = Unreadable
        /\ \A q \in Parts \ {stage} : disk'[Target][q] = disk[Target][q]
    BY <1>1, <1>2, <1>3, TargetWrite
  <1>5. MemoryTypeOK' /\ CallTypeOK'
    BY <1>1, <1>2 DEF MemoryTypeOK, CallTypeOK
  <1>6. Written' = Written /\ stage \notin Written /\ Written \subseteq Parts
    BY <1>1 DEF Written, Parts
  <1>7. \A p \in Written : disk'[Target][p] \in {active, Unreadable}
    BY <1>2, <1>4, <1>6 DEF CallProgress
  <1>8. Total' = Total
    BY <1>1, <1>4 DEF Total
  <1>9. CallProgress'
    BY <1>1, <1>2, <1>3, <1>4, <1>6, <1>7, <1>8 DEF CallProgress, Parts
  <1> QED BY <1>1, <1>4, <1>5, <1>9, OpenAgain

\* Writing a file of the target directory preserves the invariant.
LEMMA WriteFileStep ==
    ASSUME IInv, up, WriteFile
    PROVE  IInv'
  <1>1. /\ up /\ stage \in Parts /\ opened' = FALSE /\ stage' = NextStage
        /\ disk' = [disk EXCEPT ![Target] = [@ EXCEPT ![stage] = active]]
        /\ UNCHANGED <<up, active, sealed, allIds, saved, pending, registry, tmp>>
    BY DEF WriteFile, memory
  <1>2. /\ MemoryTypeOK /\ CallTypeOK /\ FilesTypeOK
        /\ IdsAgree /\ OwnMapsIntact /\ RegistryFollows /\ RewritesPrefix
        /\ CallProgress
    BY <1>1, OpenFacts
  <1>3. /\ active # <<>>
        /\ Total = Target /\ Target <= MaxSegments
    BY <1>1, <1>2 DEF CallProgress, Parts, Total
  <1>4. /\ FilesTypeOK'
        /\ (IdsAgree /\ OwnMapsIntact /\ RegistryFollows /\ RewritesPrefix)'
        /\ Target' = Target
        /\ disk'[Target][stage] = active
        /\ \A q \in Parts \ {stage} : disk'[Target][q] = disk[Target][q]
    BY <1>1, <1>2, <1>3, TargetWrite
  <1>5. stage' \in {"hnsw", "ids", "registry", "verify"}
        /\ (stage' = "registry" => pending = NoEntry)
    BY <1>1 DEF NextStage, Parts
  <1>6. MemoryTypeOK' /\ CallTypeOK'
    BY <1>1, <1>2, <1>5 DEF MemoryTypeOK, CallTypeOK, Stages, Parts
  <1>7. Written' = Written \cup {stage} /\ Written \subseteq Parts /\ stage \notin Written
    BY <1>1, <1>3 DEF Written, NextStage, Parts
  <1>8. \A p \in Written' : disk'[Target][p] \in {active, Unreadable}
    BY <1>2, <1>4, <1>7 DEF CallProgress
  <1>9. Total' = Total
    BY <1>1, <1>4 DEF Total
  <1>10. CallProgress'
    BY <1>1, <1>2, <1>3, <1>4, <1>5, <1>8, <1>9 DEF CallProgress, Parts
  <1> QED BY <1>1, <1>4, <1>6, <1>10, OpenAgain

\* The file that was truncated stays so.
LEMMA WriteFileShortStep ==
    ASSUME IInv, up, WriteFileShort
    PROVE  IInv'
  <1>1. /\ up /\ stage \in Parts /\ opened /\ opened' = FALSE /\ stage' = NextStage
        /\ UNCHANGED <<up, active, sealed, allIds, saved, pending, disk, registry, tmp>>
    BY DEF WriteFileShort, memory, files
  <1>2. /\ MemoryTypeOK /\ CallTypeOK /\ FilesTypeOK
        /\ IdsAgree /\ OwnMapsIntact /\ RegistryFollows /\ RewritesPrefix
        /\ CallProgress
    BY <1>1, OpenFacts
  <1>3. /\ active # <<>> /\ Total <= MaxSegments
        /\ disk[Target][stage] = Unreadable
    BY <1>1, <1>2 DEF CallProgress, Parts
  <1>4. /\ FilesTypeOK'
        /\ (IdsAgree /\ OwnMapsIntact /\ RegistryFollows /\ RewritesPrefix)'
        /\ Target' = Target /\ Total' = Total
    BY <1>1, <1>2, NothingWritten DEF FilesTypeOK
  <1>5. stage' \in {"hnsw", "ids", "registry", "verify"}
        /\ (stage' = "registry" => pending = NoEntry)
    BY <1>1 DEF NextStage, Parts
  <1>6. MemoryTypeOK' /\ CallTypeOK'
    BY <1>1, <1>2, <1>5 DEF MemoryTypeOK, CallTypeOK, Stages, Parts
  <1>7. Written' = Written \cup {stage}
    BY <1>1, <1>3 DEF Written, NextStage, Parts
  <1>8. \A p \in Written' : disk'[Target][p] \in {active, Unreadable}
    BY <1>1, <1>2, <1>3, <1>7 DEF CallProgress
  <1>9. CallProgress'
    BY <1>1, <1>2, <1>3, <1>4, <1>5, <1>8 DEF CallProgress, Parts
  <1> QED BY <1>1, <1>4, <1>6, <1>9, OpenAgain

\* seal_active() goes on only with a directory whose files were all written.
LEMMA VerifyStep ==
    ASSUME IInv, up, Verify
    PROVE  IInv'
  <1>1. /\ up /\ stage = "verify" /\ stage' = "registry" /\ Loadable(disk[Target])
        /\ UNCHANGED <<up, active, sealed, allIds, saved, opened, pending, disk, registry, tmp>>
    BY DEF Verify, memory, files
  <1>2. /\ MemoryTypeOK /\ CallTypeOK /\ FilesTypeOK
        /\ IdsAgree /\ OwnMapsIntact /\ RegistryFollows /\ RewritesPrefix
        /\ CallProgress
    BY <1>1, OpenFacts
  <1>3. /\ (IdsAgree /\ OwnMapsIntact /\ RegistryFollows /\ RewritesPrefix)'
        /\ Target' = Target /\ Total' = Total
    BY <1>1, <1>2, NothingWritten
  <1>4. MemoryTypeOK' /\ CallTypeOK' /\ FilesTypeOK'
    BY <1>1, <1>2 DEF MemoryTypeOK, CallTypeOK, FilesTypeOK, Stages
  <1>5. active # <<>> /\ opened = FALSE /\ Total <= MaxSegments
    BY <1>1, <1>2 DEF CallProgress, Parts, CallTypeOK
  <1>6. Written = Parts /\ Written' = Parts
    BY <1>1, <1>5 DEF Written, Parts
  <1>7. \A p \in Parts : disk[Target][p] = active
    BY <1>1, <1>2, <1>6, LoadableIff DEF CallProgress
  <1>8. CallProgress'
    BY <1>1, <1>2, <1>3, <1>5, <1>6, <1>7 DEF CallProgress, Parts
  <1> QED BY <1>1, <1>3, <1>4, <1>8, OpenAgain

\* The temporary registry is truncated, then written.
LEMMA TmpStep ==
    ASSUME IInv, up, OpenTmp \/ WriteTmp
    PROVE  IInv'
  <1>1. /\ up
        /\ \/ stage = "registry" /\ stage' = "tmp" /\ tmp' = Unreadable
           \/ stage = "tmp" /\ stage' = "rename" /\ tmp' = Total
        /\ UNCHANGED <<up, active, sealed, allIds, saved, opened, pending, disk, registry>>
    BY DEF OpenTmp, WriteTmp, memory
  <1>2. /\ MemoryTypeOK /\ CallTypeOK /\ FilesTypeOK
        /\ IdsAgree /\ OwnMapsIntact /\ RegistryFollows /\ RewritesPrefix
        /\ CallProgress
    BY <1>1, OpenFacts
  <1>3. /\ (IdsAgree /\ OwnMapsIntact /\ RegistryFollows /\ RewritesPrefix)'
        /\ Target' = Target /\ Total' = Total
    BY <1>1, <1>2, NothingWritten
  <1>4. Total <= MaxSegments /\ opened = FALSE
    BY <1>1, <1>2 DEF CallProgress, Parts, CallTypeOK
  <1>5. Total \in 0..MaxSegments
    BY <1>2, <1>4, MaxSegmentsAssumption DEF Total, Target, MemoryTypeOK
  <1>6. MemoryTypeOK' /\ CallTypeOK' /\ FilesTypeOK'
    BY <1>1, <1>2, <1>5 DEF MemoryTypeOK, CallTypeOK, FilesTypeOK, Stages
  <1>7. Written' = Written
    BY <1>1 DEF Written, Parts
  <1>8. CallProgress'
    BY <1>1, <1>2, <1>3, <1>4, <1>7 DEF CallProgress, Parts
  <1> QED BY <1>1, <1>3, <1>6, <1>8, OpenAgain

\* A call that throws: nothing but the call itself changes.
LEMMA ThrowStep ==
    ASSUME IInv, up, Throw
    PROVE  IInv'
  <1>1. /\ up /\ stage # "idle" /\ stage' = "idle" /\ pending' = NoEntry
        /\ UNCHANGED <<up, active, sealed, allIds, saved, opened, disk, registry, tmp>>
    BY DEF Throw, memory, files
  <1>2. /\ MemoryTypeOK /\ CallTypeOK /\ FilesTypeOK
        /\ IdsAgree /\ OwnMapsIntact /\ RegistryFollows /\ RewritesPrefix
        /\ CallProgress
    BY <1>1, OpenFacts
  <1>3. /\ (IdsAgree /\ OwnMapsIntact /\ RegistryFollows /\ RewritesPrefix)'
        /\ Target' = Target /\ Total' = Total
    BY <1>1, <1>2, NothingWritten
  <1>4. MemoryTypeOK' /\ CallTypeOK' /\ FilesTypeOK'
    BY <1>1, <1>2 DEF MemoryTypeOK, CallTypeOK, FilesTypeOK, Stages
  <1>5. opened = FALSE
    <2>1. stage = "verify" => stage \notin Parts
      BY DEF Parts
    <2> QED BY <1>2, <2>1 DEF Throw, CallProgress, CallTypeOK
  <1>6. Written' = {}
    BY <1>1 DEF Written
  <1>7. CallProgress'
    BY <1>1, <1>5, <1>6 DEF CallProgress, Parts
  <1> QED BY <1>1, <1>3, <1>4, <1>7, OpenAgain

\* The rename that ends save() preserves the invariant: the registry now
\* counts the active segment, and its files are copies of it or unreadable.
LEMMA SaveReturnsStep ==
    ASSUME IInv, up, SaveReturns
    PROVE  IInv'
  <1>1. /\ up /\ stage = "rename" /\ pending = NoEntry
        /\ registry' = tmp /\ tmp' = Unreadable
        /\ stage' = "idle" /\ pending' = NoEntry /\ saved' = TRUE
        /\ UNCHANGED <<up, active, sealed, allIds, opened, disk>>
    BY DEF SaveReturns, Rename
  <1>2. /\ MemoryTypeOK /\ CallTypeOK /\ FilesTypeOK
        /\ IdsAgree /\ OwnMapsIntact /\ RegistryFollows /\ RewritesPrefix
        /\ CallProgress
    BY <1>1, OpenFacts
  <1>3. /\ opened = FALSE
        /\ registry' = Total
    BY <1>1, <1>2 DEF CallProgress, CallTypeOK, Parts
  <1>4. Target' = Target /\ Len(sealed) \in Nat /\ Target = Len(sealed) + 1
    BY <1>1, <1>2 DEF Target, MemoryTypeOK
  <1>5. MemoryTypeOK' /\ CallTypeOK' /\ FilesTypeOK'
    BY <1>1, <1>2, <1>3 DEF MemoryTypeOK, CallTypeOK, FilesTypeOK, Stages
  <1>6. IdsAgree'
    BY <1>1, <1>2 DEF IdsAgree, SealedIds
  <1>7. OwnMapsIntact'
    BY <1>1, <1>2 DEF OwnMapsIntact
  <1>8. RegistryFollows'
    <2>1. registry' \in {Len(sealed), Target} /\ registry' # Unreadable
      BY <1>3, <1>4, UnreadableAssumption DEF Total
    <2> QED BY <1>1, <1>4, <2>1 DEF RegistryFollows
  <1>9. RewritesPrefix'
    <2> SUFFICES ASSUME registry' = Target, NEW p \in Parts, disk[Target][p] # Unreadable
                 PROVE  IsPrefixOf(disk[Target][p], active)
      BY <1>1, <1>4 DEF RewritesPrefix
    <2>1. active # <<>>
      <3>1. active = <<>> => Total = Len(sealed)
        BY DEF Total
      <3>2. Total = Target
        BY <1>3
      <3>3. Len(sealed) # Target
        BY <1>4
      <3> QED BY <3>1, <3>2, <3>3
    <2>2. Written = Parts
      BY <1>1, <2>1 DEF Written, Parts
    <2>3. disk[Target][p] = active
      BY <1>2, <2>2 DEF CallProgress
    <2> QED BY <1>2, <2>3, PrefixReflexive DEF MemoryTypeOK
  <1>10. CallProgress'
    BY <1>1, <1>3 DEF CallProgress, Written, Parts
  <1> QED BY <1>1, <1>5, <1>6, <1>7, <1>8, <1>9, <1>10, OpenAgain

\* The rename that ends a seal preserves the invariant: the directory that
\* was the target is now one of the mapped ones, and complete.
LEMMA InsertSealingReturnsStep ==
    ASSUME IInv, up, InsertSealingReturns
    PROVE  IInv'
  <1>1. /\ up /\ stage = "rename" /\ pending # NoEntry
        /\ registry' = tmp /\ tmp' = Unreadable
        /\ stage' = "idle" /\ pending' = NoEntry
        /\ sealed' = Append(sealed, disk[Target])
        /\ active' = <<pending>>
        /\ allIds' = allIds \cup {pending.id}
        /\ UNCHANGED <<up, saved, opened, disk>>
    BY DEF InsertSealingReturns, Rename
  <1>2. /\ MemoryTypeOK /\ CallTypeOK /\ FilesTypeOK
        /\ IdsAgree /\ OwnMapsIntact /\ RegistryFollows /\ RewritesPrefix
        /\ CallProgress
    BY <1>1, OpenFacts
  <1>3. /\ opened = FALSE
        /\ active # <<>> /\ Total = Target /\ registry' = Target /\ Target <= MaxSegments
        /\ pending.id \notin allIds
        /\ \A p \in Parts : disk[Target][p] = active
    BY <1>1, <1>2 DEF CallProgress, CallTypeOK, Parts, Total
  <1>4. /\ active \in Seq(Entry) /\ sealed \in Seq(Segment)
        /\ Len(sealed) \in Nat /\ Target = Len(sealed) + 1
        /\ Target \in 1..MaxSegments /\ Target \in Nat
        /\ pending \in Entry
    BY <1>1, <1>2, <1>3, MaxSegmentsAssumption DEF Target, MemoryTypeOK, CallTypeOK
  <1>5. disk[Target] \in Segment /\ disk[Target]["ids"] = active /\ Coherent(disk[Target])
    <2>1. disk[Target] \in Directory
      BY <1>2, <1>4 DEF FilesTypeOK
    <2> QED BY <1>3, <1>4, <2>1 DEF Directory, Segment, Coherent, Parts
  <1>6. /\ sealed' \in Seq(Segment)
        /\ DOMAIN sealed' = 1..Target
        /\ Len(sealed') = Target
        /\ DOMAIN sealed = 1..Len(sealed)
        /\ \A i \in 1..Len(sealed) : sealed'[i] = sealed[i]
        /\ sealed'[Target] = disk[Target]
    BY <1>1, <1>4, <1>5
  <1>7. MemoryTypeOK'
    <2>1. pending.id \in Id
      BY <1>4 DEF Entry
    <2>2. active' \in Seq(Entry)
      BY <1>1, <1>4
    <2> QED BY <1>1, <1>2, <1>6, <2>1, <2>2 DEF MemoryTypeOK
  <1>8. CallTypeOK' /\ FilesTypeOK'
    BY <1>1, <1>2, <1>3 DEF CallTypeOK, FilesTypeOK, Stages
  <1>9. IdsAgree'
    BY <1>1, <1>2, <1>3, <1>4, <1>5, SealKeepsIds
  <1>10. OwnMapsIntact'
    <2>1. \A i \in 1..Len(sealed) : disk[i] = sealed[i] /\ Coherent(disk[i])
      BY <1>2, <1>3, <1>6 DEF OwnMapsIntact
    <2>2. \A i \in 1..Target : disk[i] = sealed'[i] /\ Coherent(disk[i])
      <3>1. \A i \in 1..Target : i \in 1..Len(sealed) \/ i = Target
        BY <1>4
      <3> QED BY <1>5, <1>6, <2>1, <3>1
    <2> QED BY <1>1, <1>6, <2>2 DEF OwnMapsIntact
  <1>11. RegistryFollows'
    BY <1>3, <1>4, <1>6, UnreadableAssumption DEF RegistryFollows
  <1>12. RewritesPrefix'
    <2>1. Target' # registry'
      BY <1>3, <1>4, <1>6 DEF Target
    <2> QED BY <2>1 DEF RewritesPrefix
  <1>13. CallProgress'
    BY <1>1, <1>3 DEF CallProgress, Written, Parts
  <1> QED BY <1>1, <1>7, <1>8, <1>9, <1>10, <1>11, <1>12, <1>13, OpenAgain

-----------------------------------------------------------------------------
(* The theorems.                                                           *)

\* Only the steps of an open database reach for its files.
LEMMA CallIsOpen ==
    ASSUME IInv, stage # "idle"
    PROVE  up
  BY DEF IInv, MemoryTypeOK, TypeOK, ClosedInv, Idle

\* A step that changes nothing preserves the invariant.
LEMMA StutterStep ==
    ASSUME IInv, UNCHANGED vars
    PROVE  IInv'
  <1>1. UNCHANGED <<up, active, sealed, allIds, saved, stage, opened, pending,
                    disk, registry, tmp>>
    BY DEF vars, memory, call, files
  <1>2. (MemoryTypeOK /\ CallTypeOK /\ FilesTypeOK)'
    BY <1>1 DEF IInv, TypeOK, MemoryTypeOK, CallTypeOK, FilesTypeOK
  <1>3. CASE up
    <2>1. (IdsAgree /\ OwnMapsIntact /\ RegistryFollows /\ RewritesPrefix)'
      BY <1>1, <1>3, OpenFacts, NothingWritten
    <2>2. CallProgress'
      BY <1>1, <1>3, OpenFacts DEF CallProgress, Written, Total, Target
    <2> QED BY <1>1, <1>2, <1>3, <2>1, <2>2, OpenAgain
  <1>4. CASE ~up
    <2>1. ClosedInv
      BY <1>4 DEF IInv
    <2>2. Closed' /\ Idle'
      BY <1>1, <2>1 DEF ClosedInv, Closed, Idle
    <2>3. NoMixedLoad'
      BY <1>1, <2>1 DEF ClosedInv, NoMixedLoad, Referenced
    <2>4. DamageConfinedToLastSlot'
      BY <1>1, <2>1 DEF ClosedInv, DamageConfinedToLastSlot, Referenced
    <2>5. DisjointDirectories'
      BY <1>1, <2>1 DEF ClosedInv, DisjointDirectories, Referenced
    <2> QED BY <1>1, <1>2, <1>4, <2>2, <2>3, <2>4, <2>5 DEF IInv, ClosedInv, TypeOK
  <1> QED BY <1>3, <1>4

\* Every step of a client that constructs a database only where there is none
\* preserves IInv.
LEMMA StepInvariance ==
    ASSUME ~Recreate, IInv, [Next]_vars
    PROVE  IInv'
  <1>1. CASE Construct
    BY <1>1, ConstructStep
  <1>2. CASE Load
    BY <1>2, LoadStep
  <1>3. CASE Exit \/ Crash
    BY <1>3, LeaveStep
  <1>4. CASE \E e \in Entry : Insert(e)
    BY <1>4, InsertStep
  <1>5. CASE Save \/ \E e \in Entry : InsertSealing(e)
    BY <1>5, CallBeginStep
  <1>6. CASE OpenFile
    BY <1>6, CallIsOpen, OpenFileStep DEF OpenFile, Parts
  <1>7. CASE WriteFile
    BY <1>7, CallIsOpen, WriteFileStep DEF WriteFile, Parts
  <1>8. CASE WriteFileShort
    BY <1>8, CallIsOpen, WriteFileShortStep DEF WriteFileShort, Parts
  <1>9. CASE Verify
    BY <1>9, CallIsOpen, VerifyStep DEF Verify
  <1>10. CASE OpenTmp \/ WriteTmp
    BY <1>10, CallIsOpen, TmpStep DEF OpenTmp, WriteTmp
  <1>11. CASE SaveReturns
    BY <1>11, CallIsOpen, SaveReturnsStep DEF SaveReturns, Rename
  <1>12. CASE InsertSealingReturns
    BY <1>12, CallIsOpen, InsertSealingReturnsStep DEF InsertSealingReturns, Rename
  <1>13. CASE Throw
    BY <1>13, CallIsOpen, ThrowStep DEF Throw
  <1>14. CASE UNCHANGED vars
    BY <1>14, StutterStep
  <1> QED BY <1>1, <1>2, <1>3, <1>4, <1>5, <1>6, <1>7, <1>8, <1>9, <1>10,
             <1>11, <1>12, <1>13, <1>14 DEF Next

\* IInv is inductive for clients that construct a database only where there is
\* none: it holds of every reachable state, whatever the capacity, the ids and
\* vectors inserted, the faults, and whether or not the client saves only once.
THEOREM Invariance ==
    ASSUME ~Recreate
    PROVE  Spec => []IInv
  <1>1. Init => IInv
    BY InitStep
  <1>2. IInv /\ [Next]_vars => IInv'
    BY StepInvariance
  <1> QED BY <1>1, <1>2, PTL DEF Spec

\* Every variable keeps its type.
THEOREM TypeCorrect ==
    ASSUME ~Recreate
    PROVE  Spec => []TypeOK
  <1>1. IInv => TypeOK
    BY DEF IInv
  <1> QED BY <1>1, Invariance, PTL

\* all_ids_ is exactly the set of ids the segments hold, each of them once,
\* through restarts and through calls that fail (segment_manager.cpp:73-80).
THEOREM IdsAlwaysAgree ==
    ASSUME ~Recreate
    PROVE  Spec => []IdsAgree
  <1>1. IInv => IdsAgree
    <2>1. ASSUME IInv, up PROVE IdsAgree
      BY <2>1, OpenFacts
    <2>2. ASSUME IInv, ~up PROVE IdsAgree
      BY <2>2 DEF IInv, ClosedInv, Closed, IdsAgree, SealedIds, IdsOf, DistinctIds
    <2> QED BY <2>1, <2>2
  <1> QED BY <1>1, Invariance, PTL

\* The files behind an open sealed segment never change
\* (segment_manager.cpp:110,138).
THEOREM MapsStayIntact ==
    ASSUME ~Recreate
    PROVE  Spec => []OwnMapsIntact
  <1>1. IInv => OwnMapsIntact
    <2>1. ASSUME IInv, up PROVE OwnMapsIntact
      BY <2>1, OpenFacts
    <2>2. ASSUME IInv, ~up PROVE OwnMapsIntact
      BY <2>2 DEF IInv, ClosedInv, Closed, OwnMapsIntact
    <2> QED BY <2>1, <2>2
  <1> QED BY <1>1, Invariance, PTL

\* load() never accepts a directory whose files are of different generations
\* (sealed_segment.cpp:8-13).
THEOREM NeverMixedLoad ==
    ASSUME ~Recreate
    PROVE  Spec => []NoMixedLoad
  <1>1. IInv => NoMixedLoad
    <2>1. ASSUME IInv, up PROVE NoMixedLoad
      BY <2>1, OpenFilesSound
    <2>2. ASSUME IInv, ~up PROVE NoMixedLoad
      BY <2>2 DEF IInv, ClosedInv
    <2> QED BY <2>1, <2>2
  <1> QED BY <1>1, Invariance, PTL

\* Whatever cuts a call short, only the last referenced directory can be
\* damaged (segment_manager.cpp:108-145).
THEOREM DamageStaysConfined ==
    ASSUME ~Recreate
    PROVE  Spec => []DamageConfinedToLastSlot
  <1>1. IInv => DamageConfinedToLastSlot
    <2>1. ASSUME IInv, up PROVE DamageConfinedToLastSlot
      BY <2>1, OpenFilesSound
    <2>2. ASSUME IInv, ~up PROVE DamageConfinedToLastSlot
      BY <2>2 DEF IInv, ClosedInv
    <2> QED BY <2>1, <2>2
  <1> QED BY <1>1, Invariance, PTL

-----------------------------------------------------------------------------
(* What the open database holds.                                           *)

\* insert() into the active segment adds one entry to the database.
LEMMA InsertLive ==
    ASSUME active \in Seq(Entry), NEW e \in Entry,
           active' = Append(active, e), sealed' = sealed
    PROVE  Live' = Live \cup {e}
  <1>1. SealedEntries' = SealedEntries
    BY DEF SealedEntries
  <1>2. /\ DOMAIN active' = 1..Len(active) + 1
        /\ DOMAIN active = 1..Len(active) /\ Len(active) \in Nat
        /\ \A i \in 1..Len(active) : active'[i] = active[i]
        /\ active'[Len(active) + 1] = e
    OBVIOUS
  <1>3. Entries(active)' = Entries(active) \cup {e}
    <2>1. Entries(active)' \subseteq Entries(active) \cup {e}
      BY <1>2 DEF Entries
    <2>2. Entries(active) \subseteq Entries(active)' /\ e \in Entries(active)'
      BY <1>2 DEF Entries
    <2> QED BY <2>1, <2>2
  <1> QED BY <1>1, <1>3 DEF Live

\* A seal moves the active entries to the sealed ones: what the sealed segments
\* hold afterwards is what the database held before, and the database holds
\* one entry more.
LEMMA SealLive ==
    ASSUME active \in Seq(Entry), sealed \in Seq(Segment),
           NEW e \in Entry, NEW d \in Segment, d["ids"] = active,
           sealed' = Append(sealed, d), active' = <<e>>
    PROVE  SealedEntries' = Live /\ Live' = Live \cup {e}
  <1>1. /\ DOMAIN sealed' = 1..Len(sealed) + 1
        /\ DOMAIN sealed = 1..Len(sealed) /\ Len(sealed) \in Nat
        /\ \A i \in 1..Len(sealed) : sealed'[i] = sealed[i]
        /\ sealed'[Len(sealed) + 1] = d
    OBVIOUS
  <1>2. SealedEntries' = SealedEntries \cup Entries(active)
    <2>1. SealedEntries' = UNION {Entries(sealed'[i]["ids"]) : i \in 1..Len(sealed) + 1}
      BY <1>1 DEF SealedEntries
    <2>2. SealedEntries = UNION {Entries(sealed[i]["ids"]) : i \in 1..Len(sealed)}
      BY <1>1 DEF SealedEntries
    <2>3. SealedEntries' \subseteq SealedEntries \cup Entries(active)
      BY <1>1, <2>1, <2>2
    <2>4. SealedEntries \cup Entries(active) \subseteq SealedEntries'
      BY <1>1, <2>1, <2>2
    <2> QED BY <2>3, <2>4
  <1>3. Entries(active') = {e}
    BY DEF Entries
  <1> QED BY <1>2, <1>3 DEF Live

\* The directory that the rename of a seal publishes holds the active segment.
LEMMA SealedDirectory ==
    ASSUME IInv, InsertSealingReturns
    PROVE  /\ up /\ active # <<>> /\ Total = Target
           /\ tmp = Target /\ pending \in Entry
           /\ Target \in 1..MaxSegments /\ Target = Len(sealed) + 1
           /\ active \in Seq(Entry) /\ sealed \in Seq(Segment)
           /\ disk[Target] \in Segment
           /\ \A p \in Parts : disk[Target][p] = active
  <1>1. stage = "rename" /\ pending # NoEntry
    BY DEF InsertSealingReturns, Rename
  <1>2. up
    BY <1>1, CallIsOpen
  <1>3. MemoryTypeOK /\ CallTypeOK /\ FilesTypeOK /\ CallProgress
    BY <1>2, OpenFacts
  <1>4. /\ active # <<>> /\ Total = Target
        /\ tmp = Target /\ Target <= MaxSegments
        /\ \A p \in Parts : disk[Target][p] = active
    BY <1>1, <1>3 DEF CallProgress, Total
  <1>5. active \in Seq(Entry) /\ sealed \in Seq(Segment) /\ pending \in Entry
    BY <1>1, <1>3 DEF MemoryTypeOK, CallTypeOK
  <1>6. Target \in 1..MaxSegments /\ Target = Len(sealed) + 1
    BY <1>4, <1>5, MaxSegmentsAssumption DEF Target
  <1>7. disk[Target] \in Segment
    BY <1>3, <1>4, <1>5, <1>6 DEF FilesTypeOK, Directory, Segment
  <1> QED BY <1>2, <1>4, <1>5, <1>6, <1>7

\* A step of a database that stays open adds an entry or changes nothing that
\* it holds.
LEMMA LiveStep ==
    ASSUME IInv, [Next]_vars, up, up'
    PROVE  Live \subseteq Live'
  <1>1. CASE UNCHANGED <<active, sealed>>
    BY <1>1 DEF Live, SealedEntries
  <1>2. ASSUME NEW e \in Entry, Insert(e) PROVE Live \subseteq Live'
    <2>1. active' = Append(active, e) /\ sealed' = sealed
      BY <1>2 DEF Insert
    <2> QED BY <2>1, InsertLive, OpenFacts DEF MemoryTypeOK
  <1>3. CASE InsertSealingReturns
    <2>1. sealed' = Append(sealed, disk[Target]) /\ active' = <<pending>>
      BY <1>3 DEF InsertSealingReturns
    <2>2. disk[Target]["ids"] = active
      BY <1>3, SealedDirectory DEF Parts
    <2> QED BY <1>3, <2>1, <2>2, SealedDirectory, SealLive
  <1>4. CASE Construct \/ Load
    BY <1>4 DEF Construct, Load
  <1>5. CASE Exit \/ Crash
    BY <1>5 DEF Exit, Crash, ForgetMemory
  <1>6. CASE (\E e \in Entry : InsertSealing(e)) \/ Save
    BY <1>1, <1>6 DEF InsertSealing, Save
  <1>7. CASE OpenFile \/ WriteFile \/ WriteFileShort \/ Verify \/ OpenTmp \/ WriteTmp \/ Throw
    BY <1>1, <1>7 DEF OpenFile, WriteFile, WriteFileShort, Verify, OpenTmp, WriteTmp, Throw, memory
  <1>8. CASE SaveReturns
    BY <1>1, <1>8 DEF SaveReturns
  <1>9. CASE UNCHANGED vars
    BY <1>1, <1>9 DEF vars, memory
  <1> QED BY <1>2, <1>3, <1>4, <1>5, <1>6, <1>7, <1>8, <1>9 DEF Next

\* No step of a database that stays open loses an entry, not even the call
\* that throws half way through a seal (segment_manager.cpp:108-126).
THEOREM LiveNeverShrinks ==
    ASSUME ~Recreate
    PROVE  Spec => LiveOnlyGrows
  <1>1. IInv /\ [Next]_vars => [up /\ up' => Live \subseteq Live']_vars
    BY LiveStep
  <1> QED BY <1>1, Invariance, PTL DEF Spec, LiveOnlyGrows

-----------------------------------------------------------------------------
(* What survives the process, for clients that stop at save() and for a    *)
(* device that does not cut writes short: SavedInv is inductive relative   *)
(* to IInv, sealed and saved entries are durable, and SegmentManager       *)
(* implements DurableSet.                                                  *)

\* The client and the device these theorems are about.
StopsAtSave == ~Recreate /\ SaveIsLast /\ "short_write" \notin Faults

-----------------------------------------------------------------------------
(* The directories that the registry counts.                               *)

\* The directory that the last save() wrote, when the registry counts it.
LEMMA SavedDirectory ==
    ASSUME IInv, SavedInv, up, registry = Target
    PROVE  /\ saved /\ active # <<>>
           /\ \A p \in Parts : disk[Target][p] = active
           /\ Loadable(disk[Target]) /\ Coherent(disk[Target])
  <1>1. MemoryTypeOK /\ IdsAgree
    BY OpenFacts
  <1>2. saved /\ registry = Total
    BY DEF SavedInv, NothingRewritten, SavedComplete
  <1>3. Len(sealed) # Target
    BY <1>1 DEF MemoryTypeOK, Target
  <1>4. active # <<>>
    BY <1>2, <1>3 DEF Total
  <1>5. \A p \in Parts : disk[Target][p] = active
    BY <1>2, <1>4 DEF SavedInv, SavedComplete
  <1>6. active \in Seq(Entry) /\ DistinctIds(active)
    BY <1>1 DEF MemoryTypeOK, IdsAgree
  <1> QED BY <1>2, <1>4, <1>5, <1>6, WholeDirectory

\* Every directory that the registry counts is complete, in every state.
LEMMA ReferencedComplete ==
    ASSUME IInv, SavedInv
    PROVE  \A n \in Referenced : Loadable(disk[n]) /\ Coherent(disk[n])
  <1>1. CASE registry = Unreadable
    BY <1>1 DEF Referenced
  <1>2. CASE ~up /\ registry # Unreadable
    <2>1. CanLoad /\ NoMixedLoad
      BY <1>2 DEF IInv, ClosedInv, SavedInv
    <2> QED BY <2>1 DEF CanLoad, NoMixedLoad
  <1>3. CASE up /\ registry # Unreadable
    <2>1. MemoryTypeOK /\ IdsAgree /\ OwnMapsIntact /\ RegistryFollows
      BY <1>3, OpenFacts
    <2>2. \A n \in 1..Len(sealed) : Loadable(disk[n]) /\ Coherent(disk[n])
      BY <2>1, SealedLoadable DEF MemoryTypeOK
    <2>3. registry \in {Len(sealed), Target} /\ Referenced = 1..registry
      BY <1>3, <2>1 DEF RegistryFollows, Referenced
    <2>4. CASE registry = Len(sealed)
      BY <2>2, <2>3, <2>4
    <2>5. CASE registry = Target
      <3>1. \A n \in Referenced : n \in 1..Len(sealed) \/ n = Target
        BY <2>1, <2>3, <2>5 DEF MemoryTypeOK, Target
      <3> QED BY <1>3, <2>2, <2>5, <3>1, SavedDirectory
    <2> QED BY <2>3, <2>4, <2>5
  <1> QED BY <1>1, <1>2, <1>3

\* While a database is open, load() would return what it has
\* sealed, and all that it holds once save() has returned.
LEMMA PersistedWhenOpen ==
    ASSUME IInv, SavedInv, up
    PROVE  Persisted = IF saved THEN Live ELSE SealedEntries
  <1>1. MemoryTypeOK /\ FilesTypeOK /\ IdsAgree /\ OwnMapsIntact /\ RegistryFollows
    BY OpenFacts
  <1>2. /\ sealed \in Seq(Segment) /\ DOMAIN sealed = 1..Len(sealed)
        /\ Len(sealed) \in Nat /\ Target = Len(sealed) + 1
    BY <1>1 DEF MemoryTypeOK, Target
  <1>3. \A n \in 1..Len(sealed) : disk[n] = sealed[n]
    BY <1>1, <1>2, SealedLoadable
  <1>4. SealedEntries = UNION {Entries(disk[n]["ids"]) : n \in 1..Len(sealed)}
    BY <1>2, <1>3 DEF SealedEntries
  <1>5. CASE registry = Unreadable
    <2>1. sealed = <<>> /\ ~saved
      <3>1. Total \in Nat
        BY <1>2 DEF Total
      <3> QED BY <1>1, <1>5, <3>1, UnreadableAssumption
          DEF RegistryFollows, SavedInv, SavedComplete
    <2>2. Persisted = {}
      BY <1>5 DEF Persisted, CanLoad
    <2>3. SealedEntries = {}
      BY <1>2, <2>1 DEF SealedEntries
    <2> QED BY <2>1, <2>2, <2>3
  <1>6. CASE registry # Unreadable
    <2>1. Referenced = 1..registry /\ registry \in {Len(sealed), Target}
      BY <1>1, <1>6 DEF Referenced, RegistryFollows
    <2>2. Persisted = UNION {Entries(disk[n]["ids"]) : n \in 1..registry}
      BY <1>6, <2>1, ReferencedComplete DEF Persisted, CanLoad
    <2>3. CASE registry = Len(sealed)
      <3>1. Persisted = SealedEntries
        BY <1>4, <2>2, <2>3
      <3>2. saved => active = <<>>
        <4>1. saved => registry = Total
          BY DEF SavedInv, SavedComplete
        <4>2. active # <<>> => Total = Target
          BY DEF Total
        <4>3. Len(sealed) # Target
          BY <1>1 DEF MemoryTypeOK, Target
        <4> QED BY <2>3, <4>1, <4>2, <4>3
      <3>3. active = <<>> => Entries(active) = {}
        BY DEF Entries
      <3> QED BY <3>1, <3>2, <3>3 DEF Live
    <2>4. CASE registry = Target
      <3>1. saved /\ disk[Target]["ids"] = active
        BY <2>4, SavedDirectory DEF Parts
      <3>2. 1..registry = 1..Len(sealed) \cup {Target}
        BY <1>2, <2>4
      <3>3. Persisted = SealedEntries \cup Entries(disk[Target]["ids"])
        BY <1>4, <2>2, <3>2
      <3> QED BY <3>1, <3>3 DEF Live
    <2> QED BY <2>1, <2>3, <2>4
  <1> QED BY <1>5, <1>6

-----------------------------------------------------------------------------
(* SavedInv is inductive.                                                  *)

\* A call in progress is not a save() that has returned, so it writes a
\* directory that the registry does not count.
LEMMA CallWritesUncounted ==
    ASSUME SavedInv, up, ~saved \/ stage # "idle"
    PROVE  ~saved /\ registry # Target
  BY DEF SavedInv, NothingRewritten, SavedComplete

\* The calls of an open database, up to the first file operation.
LEMMA SavedCallStep ==
    ASSUME SaveIsLast, IInv, SavedInv,
           Save \/ \E e \in Entry : Insert(e) \/ InsertSealing(e)
    PROVE  SavedInv'
  <1>1. /\ up /\ up' /\ stage = "idle" /\ ~saved /\ saved' = FALSE
        /\ registry' = registry
    BY DEF Save, Insert, InsertSealing, MayInsert, MayCall, files
  <1>2. MemoryTypeOK
    BY <1>1, OpenFacts
  <1>3. registry # Target
    BY <1>1, CallWritesUncounted
  <1>4. registry' # Target'
    BY <1>1, <1>3 DEF Target, Save, Insert, InsertSealing
  <1>5. Written' = {}
    BY <1>1 DEF Save, Insert, InsertSealing, Written, call
  <1> QED BY <1>1, <1>4, <1>5 DEF SavedInv, NothingRewritten, SavedComplete

\* Truncating or writing a file: the files that were written before stay.
LEMMA SavedWriteStep ==
    ASSUME IInv, SavedInv, OpenFile \/ WriteFile
    PROVE  SavedInv'
  <1>1. /\ stage \in Parts /\ stage # "idle" /\ up /\ up'
        /\ UNCHANGED <<active, sealed, saved, pending, registry>>
    BY CallIsOpen DEF OpenFile, WriteFile, Parts, memory
  <1>2. MemoryTypeOK /\ FilesTypeOK /\ CallProgress
    BY <1>1, OpenFacts
  <1>3. /\ active # <<>> /\ Target \in 1..MaxSegments /\ Target' = Target
    <2>1. active # <<>> /\ Total <= MaxSegments
      BY <1>1, <1>2 DEF CallProgress, Parts
    <2>2. Total = Target
      BY <2>1 DEF Total
    <2>3. Target' = Target
      BY <1>1 DEF Target
    <2> QED BY <1>2, <2>1, <2>2, <2>3, MaxSegmentsAssumption DEF Target, MemoryTypeOK
  <1>4. disk \in [1..MaxSegments -> Directory] /\ disk[Target] \in [Parts -> Seq(Entry) \cup {Unreadable}]
    BY <1>2, <1>3 DEF FilesTypeOK, Directory
  <1>5. ~saved /\ registry # Target
    BY <1>1, CallWritesUncounted
  <1>6. \A p \in Written' : disk'[Target][p] = active
    <2>1. CASE OpenFile
      <3>1. stage' = stage
        BY <2>1 DEF OpenFile
      <3>2. Written' = Written /\ stage \notin Written /\ Written \subseteq Parts
        BY <1>1, <3>1 DEF Written, Parts
      <3>3. \A q \in Parts \ {stage} : disk'[Target][q] = disk[Target][q]
        BY <1>3, <1>4, <2>1 DEF OpenFile
      <3> QED BY <1>1, <3>2, <3>3 DEF SavedInv
    <2>2. CASE WriteFile
      <3>1. stage' = NextStage
        BY <2>2 DEF WriteFile
      <3>2. Written' = Written \cup {stage} /\ stage \notin Written /\ Written \subseteq Parts
        BY <1>1, <1>3, <3>1 DEF Written, NextStage, Parts
      <3>3. /\ disk'[Target][stage] = active
            /\ \A q \in Parts \ {stage} : disk'[Target][q] = disk[Target][q]
        BY <1>1, <1>3, <1>4, <2>2 DEF WriteFile
      <3> QED BY <1>1, <3>2, <3>3 DEF SavedInv
    <2> QED BY <2>1, <2>2
  <1> QED BY <1>1, <1>3, <1>5, <1>6 DEF SavedInv, NothingRewritten, SavedComplete

\* The seal's check and the temporary registry: no segment file changes.
LEMMA SavedQuietStep ==
    ASSUME IInv, SavedInv, Verify \/ OpenTmp \/ WriteTmp \/ Throw
    PROVE  SavedInv'
  <1>1. /\ stage # "idle" /\ up /\ up'
        /\ UNCHANGED <<active, sealed, saved, disk, registry>>
    BY CallIsOpen DEF Verify, OpenTmp, WriteTmp, Throw, memory, files
  <1>2. ~saved /\ registry # Target
    BY <1>1, CallWritesUncounted
  <1>3. Target' = Target
    BY <1>1 DEF Target
  <1>4. Written' = Written \/ Written' = {}
    BY <1>1 DEF Verify, OpenTmp, WriteTmp, Throw, Written
  <1>5. \A p \in Written' : disk'[Target'][p] = active'
    BY <1>1, <1>3, <1>4 DEF SavedInv
  <1> QED BY <1>1, <1>2, <1>3, <1>5 DEF SavedInv, NothingRewritten, SavedComplete

\* The two renames.
LEMMA SavedRenameStep ==
    ASSUME IInv, SavedInv, SaveReturns \/ InsertSealingReturns
    PROVE  SavedInv'
  <1>1. /\ stage = "rename" /\ up /\ up' /\ stage' = "idle"
        /\ registry' = tmp /\ disk' = disk
    BY CallIsOpen DEF SaveReturns, InsertSealingReturns, Rename
  <1>2. Written' = {}
    BY <1>1 DEF Written
  <1>3. CASE SaveReturns
    <2>1. saved' = TRUE /\ active' = active /\ sealed' = sealed
      BY <1>3 DEF SaveReturns
    <2>2. Target' = Target /\ Total' = Total
      BY <2>1 DEF Target, Total
    <2>3. tmp = Total
      BY <1>1, OpenFacts DEF CallProgress
    <2>4. active # <<>> => \A p \in Parts : disk[Target][p] = active
      BY <1>1 DEF SavedInv, Written
    <2> QED BY <1>1, <1>2, <2>1, <2>2, <2>3, <2>4 DEF SavedInv, NothingRewritten, SavedComplete
  <1>4. CASE InsertSealingReturns
    <2>1. saved' = saved /\ ~saved
      BY <1>1, <1>4, CallWritesUncounted DEF InsertSealingReturns
    <2>2. registry' = Target
      BY <1>1, <1>4, SealedDirectory
    <2>3. Target' # Target
      <3>1. sealed' = Append(sealed, disk[Target])
        BY <1>4 DEF InsertSealingReturns
      <3>2. sealed \in Seq(Segment) /\ disk[Target] \in Segment
        BY <1>4, SealedDirectory
      <3>3. Len(sealed') = Len(sealed) + 1 /\ Len(sealed) \in Nat
        BY <3>1, <3>2
      <3> QED BY <3>3 DEF Target
    <2> QED BY <1>1, <1>2, <2>1, <2>2, <2>3 DEF SavedInv, NothingRewritten, SavedComplete
  <1> QED BY <1>3, <1>4

\* Opening the database and leaving it.
LEMMA SavedOpenStep ==
    ASSUME ~Recreate, IInv, SavedInv, Construct \/ Load \/ Exit \/ Crash
    PROVE  SavedInv'
  <1>1. CASE Construct
    <2>1. /\ up' /\ registry' = Unreadable /\ sealed' = <<>> /\ ~saved'
          /\ stage' = "idle"
      BY <1>1 DEF Construct, IInv, ClosedInv, Closed, Idle, call, files
    <2>2. Target' \in Nat /\ Written' = {}
      BY <2>1 DEF Target, Written
    <2> QED BY <2>1, <2>2, UnreadableAssumption DEF SavedInv, NothingRewritten, SavedComplete
  <1>2. CASE Load
    <2>1. /\ up' /\ ~saved' /\ stage' = "idle" /\ registry' = registry
          /\ registry # Unreadable /\ TypeOK
          /\ sealed' = [n \in 1..registry |-> disk[n]]
      BY <1>2 DEF Load, CanLoad, IInv, ClosedInv, Closed, Idle, call, files
    <2>2. registry \in Nat
      BY <2>1, MaxSegmentsAssumption DEF TypeOK, FilesTypeOK
    <2>3. Len(sealed') = registry
      BY <2>1, <2>2
    <2>4. registry' # Target' /\ Written' = {}
      BY <2>1, <2>2, <2>3 DEF Target, Written
    <2> QED BY <2>1, <2>4 DEF SavedInv, NothingRewritten, SavedComplete
  <1>3. CASE Exit \/ Crash
    <2>1. ~up' /\ disk' = disk /\ registry' = registry
      BY <1>3 DEF Exit, Crash, ForgetMemory, files
    <2>2. registry # Unreadable => CanLoad
      BY ReferencedComplete DEF CanLoad
    <2>3. CanLoad' = CanLoad
      BY <2>1 DEF CanLoad, Referenced
    <2> QED BY <2>1, <2>2, <2>3 DEF SavedInv
  <1> QED BY <1>1, <1>2, <1>3

\* Every step of such a client preserves SavedInv.
LEMMA SavedStep ==
    ASSUME StopsAtSave, IInv, SavedInv, [Next]_vars
    PROVE  SavedInv'
  <1>1. CASE Construct \/ Load \/ Exit \/ Crash
    BY <1>1, SavedOpenStep DEF StopsAtSave
  <1>2. CASE Save \/ \E e \in Entry : Insert(e) \/ InsertSealing(e)
    BY <1>2, SavedCallStep DEF StopsAtSave
  <1>3. CASE OpenFile \/ WriteFile
    BY <1>3, SavedWriteStep
  <1>4. CASE WriteFileShort
    BY <1>4 DEF WriteFileShort, StopsAtSave
  <1>5. CASE Verify \/ OpenTmp \/ WriteTmp \/ Throw
    BY <1>5, SavedQuietStep
  <1>6. CASE SaveReturns \/ InsertSealingReturns
    BY <1>6, SavedRenameStep
  <1>7. CASE UNCHANGED vars
    <2>1. UNCHANGED <<up, active, sealed, saved, stage, pending, disk, registry>>
      BY <1>7 DEF vars, memory, call, files
    <2>2. Target' = Target /\ Total' = Total /\ Written' = Written /\ CanLoad' = CanLoad
      BY <2>1 DEF Target, Total, Written, CanLoad, Referenced
    <2> QED BY <2>1, <2>2 DEF SavedInv, NothingRewritten, SavedComplete
  <1> QED BY <1>1, <1>2, <1>3, <1>4, <1>5, <1>6, <1>7 DEF Next

\* SavedInv and IInv hold of every reachable state.
THEOREM SavedInvariance ==
    ASSUME StopsAtSave
    PROVE  Spec => [](IInv /\ SavedInv)
  <1>1. Init => IInv /\ SavedInv
    <2>1. Init => SavedInv
      BY DEF Init, Closed, SavedInv
    <2> QED BY <2>1, InitStep
  <1>2. IInv /\ SavedInv /\ [Next]_vars => (IInv /\ SavedInv)'
    BY StepInvariance, SavedStep DEF StopsAtSave
  <1> QED BY <1>1, <1>2, PTL DEF Spec

\* Whenever the process ends, even in the middle of a call, load() brings back
\* every sealed segment (segment_manager.cpp:113-116).
THEOREM SealedStaysDurable ==
    ASSUME StopsAtSave
    PROVE  Spec => []SealedIsDurable
  <1>1. IInv /\ SavedInv => SealedIsDurable
    <2>1. ASSUME IInv, ~up PROVE SealedIsDurable
      BY <2>1 DEF IInv, ClosedInv, Closed, SealedIsDurable, SealedEntries
    <2>2. ASSUME IInv, SavedInv, up PROVE SealedIsDurable
      BY <2>2, PersistedWhenOpen DEF SealedIsDurable, Live
    <2> QED BY <2>1, <2>2
  <1> QED BY <1>1, SavedInvariance, PTL

\* Once save() has returned, load() brings back all the database holds
\* (segment_manager.h:27).
THEOREM SavedStaysDurable ==
    ASSUME StopsAtSave
    PROVE  Spec => []SavedIsDurable
  <1>1. IInv /\ SavedInv => SavedIsDurable
    <2>1. ASSUME IInv, ~up PROVE SavedIsDurable
      BY <2>1 DEF IInv, ClosedInv, Closed, SavedIsDurable
    <2>2. ASSUME IInv, SavedInv, up, saved PROVE SavedIsDurable
      <3>1. registry # Unreadable
        <4>1. Total \in Nat
          BY <2>2, OpenFacts DEF MemoryTypeOK, Total, Target
        <4> QED BY <2>2, <4>1, UnreadableAssumption DEF SavedInv, SavedComplete
      <3> QED BY <2>2, <3>1, PersistedWhenOpen DEF SavedIsDurable
    <2> QED BY <2>1, <2>2 DEF SavedIsDurable
  <1> QED BY <1>1, SavedInvariance, PTL

-----------------------------------------------------------------------------
(* SegmentManager implements DurableSet.                                   *)

\* What PersistedWhenOpen says of the next state.
LEMMA PersistedNext ==
    (IInv /\ SavedInv /\ up =>
        Persisted = IF saved THEN Live ELSE SealedEntries)'
  <1>1. IInv /\ SavedInv /\ up =>
           Persisted = IF saved THEN Live ELSE SealedEntries
    BY PersistedWhenOpen
  <1> QED BY <1>1, PTL

\* Steps that leave directories and registry alone leave what load() returns.
LEMMA PersistedStays ==
    ASSUME UNCHANGED <<disk, registry>>
    PROVE  Persisted' = Persisted
  BY DEF Persisted, CanLoad, Referenced

\* A database that is not open holds nothing.
LEMMA ClosedHoldsNothing ==
    ASSUME active = <<>>, sealed = <<>>
    PROVE  Live = {}
  BY DEF Live, SealedEntries, Entries

\* The same of the next state.
LEMMA ClosesToNothing ==
    ASSUME active' = <<>>, sealed' = <<>>
    PROVE  Live' = {}
  BY DEF Live, SealedEntries, Entries

\* Opening the database is Open, leaving it is Close.
LEMMA OpenRefines ==
    ASSUME ~Recreate, IInv, IInv', SavedInv', Construct \/ Load \/ Exit \/ Crash
    PROVE  Durability!Open \/ Durability!Close
  <1>1. disk' = disk /\ registry' = registry
    BY DEF Construct, Load, Exit, Crash, files
  <1>2. Persisted' = Persisted
    BY <1>1, PersistedStays
  <1>3. CASE Construct
    <2>1. /\ ~up /\ up' = TRUE /\ registry = Unreadable
          /\ active' = <<>> /\ sealed' = <<>>
      BY <1>3 DEF Construct, IInv, ClosedInv, Closed
    <2>2. Persisted = {}
      BY <2>1 DEF Persisted, CanLoad
    <2>3. Live' = {}
      BY <2>1, ClosesToNothing
    <2> QED BY <1>2, <2>1, <2>2, <2>3 DEF Durability!Open
  <1>4. CASE Load
    <2>1. ~up /\ up' = TRUE /\ ~saved' /\ active' = <<>>
      BY <1>4 DEF Load, IInv, ClosedInv, Closed
    <2>2. Persisted' = SealedEntries'
      BY <2>1, PersistedNext
    <2>3. Entries(active)' = {}
      BY <2>1 DEF Entries
    <2>4. Live' = Persisted'
      BY <2>2, <2>3 DEF Live
    <2> QED BY <1>2, <2>1, <2>4 DEF Durability!Open
  <1>5. CASE Exit \/ Crash
    <2>1. up /\ up' = FALSE /\ active' = <<>> /\ sealed' = <<>>
      BY <1>5, CallIsOpen DEF Exit, Crash, ForgetMemory
    <2>2. Live' = {}
      BY <2>1, ClosesToNothing
    <2> QED BY <1>2, <2>1, <2>2 DEF Durability!Close
  <1> QED BY <1>3, <1>4, <1>5

\* An insert() that finds room is Insert.
LEMMA InsertRefines ==
    ASSUME SaveIsLast, IInv, SavedInv, NEW e \in Entry, Insert(e)
    PROVE  Durability!Insert(e)
  <1>1. up /\ up' = up /\ disk' = disk /\ registry' = registry
    BY DEF Insert, MayInsert, MayCall, files
  <1>2. active \in Seq(Entry) /\ sealed \in Seq(Segment)
    BY <1>1, OpenFacts DEF MemoryTypeOK
  <1>3. Live' = Live \cup {e}
    BY <1>2, InsertLive DEF Insert
  <1>4. Persisted' = Persisted
    BY <1>1, PersistedStays
  <1> QED BY <1>1, <1>3, <1>4 DEF Durability!Insert

\* The two renames are the moments at which entries become durable.
LEMMA RenameRefines ==
    ASSUME IInv, SavedInv, IInv', SavedInv', SaveReturns \/ InsertSealingReturns
    PROVE  Durability!Save \/ \E e \in Entry : Durability!InsertSealing(e)
  <1>1. stage = "rename" /\ up /\ up' = up
    BY CallIsOpen DEF SaveReturns, InsertSealingReturns, Rename
  <1>2. CASE SaveReturns
    <2>1. saved' = TRUE /\ active' = active /\ sealed' = sealed
      BY <1>2 DEF SaveReturns
    <2>2. Live' = Live
      BY <2>1 DEF Live, SealedEntries
    <2>3. Persisted' = Live'
      BY <1>1, <2>1, PersistedNext
    <2> QED BY <1>1, <2>2, <2>3 DEF Durability!Save
  <1>3. CASE InsertSealingReturns
    <2>1. /\ active \in Seq(Entry) /\ sealed \in Seq(Segment) /\ pending \in Entry
          /\ disk[Target] \in Segment /\ disk[Target]["ids"] = active
      BY <1>3, SealedDirectory DEF Parts
    <2>2. sealed' = Append(sealed, disk[Target]) /\ active' = <<pending>> /\ saved' = saved
      BY <1>3 DEF InsertSealingReturns
    <2>3. SealedEntries' = Live /\ Live' = Live \cup {pending}
      BY <2>1, <2>2, SealLive
    <2>4. ~saved
      BY <1>1, CallWritesUncounted
    <2>5. Persisted' = SealedEntries'
      BY <1>1, <2>2, <2>4, PersistedNext
    <2> QED BY <1>1, <2>1, <2>3, <2>5 DEF Durability!InsertSealing
  <1> QED BY <1>2, <1>3

\* Every other step of a call is invisible to the client.
LEMMA CallStutters ==
    ASSUME SaveIsLast, IInv, SavedInv, IInv', SavedInv',
           \/ \E e \in Entry : InsertSealing(e)
           \/ Save \/ OpenFile \/ WriteFile \/ Verify \/ OpenTmp \/ WriteTmp \/ Throw
           \/ UNCHANGED vars
    PROVE  UNCHANGED Durability!vars
  <1>1. UNCHANGED <<up, active, sealed>>
    BY DEF InsertSealing, Save, OpenFile, WriteFile, Verify, OpenTmp, WriteTmp, Throw,
           vars, memory
  <1>2. Live' = Live /\ SealedEntries' = SealedEntries
    BY <1>1 DEF Live, SealedEntries
  <1>3. CASE UNCHANGED <<disk, registry>>
    BY <1>1, <1>2, <1>3, PersistedStays DEF Durability!vars
  <1>4. CASE OpenFile \/ WriteFile
    <2>1. up /\ up' /\ saved' = saved
      BY <1>4, CallIsOpen, OpenFacts DEF OpenFile, WriteFile, memory, Parts, CallProgress
    <2> QED BY <1>1, <1>2, <2>1, PersistedWhenOpen, PersistedNext DEF Durability!vars
  <1> QED BY <1>3, <1>4
      DEF InsertSealing, Save, Verify, OpenTmp, WriteTmp, Throw, vars, files

\* Every step of SegmentManager is a step of DurableSet or invisible in it.
LEMMA StepRefines ==
    ASSUME StopsAtSave, IInv, SavedInv, IInv', SavedInv', [Next]_vars
    PROVE  [Durability!Next]_(Durability!vars)
  <1>1. CASE Construct \/ Load \/ Exit \/ Crash
    BY <1>1, OpenRefines DEF StopsAtSave, Durability!Next
  <1>2. ASSUME NEW e \in Entry, Insert(e)
        PROVE  Durability!Next
    BY <1>2, InsertRefines DEF StopsAtSave, Durability!Next
  <1>3. CASE SaveReturns \/ InsertSealingReturns
    BY <1>3, RenameRefines DEF Durability!Next
  <1>4. CASE \/ \E e \in Entry : InsertSealing(e)
             \/ Save \/ OpenFile \/ WriteFile \/ Verify \/ OpenTmp \/ WriteTmp \/ Throw
             \/ UNCHANGED vars
    BY <1>4, CallStutters DEF StopsAtSave
  <1>5. CASE WriteFileShort
    BY <1>5 DEF WriteFileShort, StopsAtSave
  <1> QED BY <1>1, <1>2, <1>3, <1>4, <1>5 DEF Next

\* What a client that stops at save() sees of durability is DurableSet, however
\* its calls are cut short: an entry becomes durable when a seal or a save()
\* replaces the registry, and what is durable stays so.
THEOREM DurabilityRefinement ==
    ASSUME StopsAtSave
    PROVE  Spec => ImplementsDurableSet
  <1>1. Init => Durability!Init
    <2> SUFFICES ASSUME Init PROVE Durability!Init
      OBVIOUS
    <2>1. Live = {}
      BY ClosedHoldsNothing DEF Init, Closed
    <2>2. Persisted = {}
      BY DEF Init, Persisted, CanLoad
    <2> QED BY <2>1, <2>2 DEF Init, Closed, Durability!Init
  <1>2. IInv /\ SavedInv /\ (IInv /\ SavedInv)' /\ [Next]_vars
           => [Durability!Next]_(Durability!vars)
    BY StepRefines
  <1> QED BY <1>1, <1>2, SavedInvariance, PTL DEF Spec, ImplementsDurableSet, Durability!Spec

\* What load() would return never shrinks, whatever cuts a call short.
THEOREM PersistedNeverShrinks ==
    ASSUME StopsAtSave
    PROVE  Spec => [][Persisted \subseteq Persisted']_vars
  <1>1. IInv /\ SavedInv /\ up => Persisted \subseteq Live
    BY PersistedWhenOpen DEF Live
  <1>2. ASSUME IInv, SavedInv, [Durability!Next]_(Durability!vars)
        PROVE  Persisted \subseteq Persisted'
    BY <1>1, <1>2 DEF Durability!Next, Durability!vars, Durability!Open, Durability!Close,
       Durability!Save, Durability!Insert, Durability!InsertSealing
  <1>3. IInv /\ SavedInv /\ (IInv /\ SavedInv)' /\ [Next]_vars
           => [Persisted \subseteq Persisted']_vars
    BY <1>2, StepRefines
  <1> QED BY <1>3, SavedInvariance, PTL DEF Spec

=============================================================================
