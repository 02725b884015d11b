--------------------------- MODULE SharedPathProofs ---------------------------
(***************************************************************************)
(* Proofs about SharedPath: what a handle that load()s the path sees while *)
(* another one goes on inserting and saving.                               *)
(***************************************************************************)
EXTENDS SharedPath, SegmentManagerProofs, FiniteSetTheorems

-----------------------------------------------------------------------------
(* The first handle, as the second one sees it.                            *)

\* A step of the two handles is a step of the first or leaves it alone.
LEMMA SharedIsNext ==
    ASSUME [SharedNext]_<<vars, handle>>
    PROVE  [Next]_vars
  BY DEF SharedNext, WriterNext, ReaderNext, ReaderLoads, ReaderOpensFile,
         ReaderReadsOn, ReaderAddsSegment, ReaderThrows, ReaderCloses

\* So the first handle behaves as if it were alone: the second one only reads,
\* and everything proved of Spec holds beside it.
THEOREM WriterUndisturbed == SharedSpec => Spec
  <1>1. SharedInit => Init
    BY DEF SharedInit
  <1>2. [SharedNext]_<<vars, handle>> => [Next]_vars
    BY SharedIsNext
  <1> QED BY <1>1, <1>2, PTL DEF SharedSpec, Spec

\* Open or not, the directories before the last one are complete and the last
\* one loads only if it is.
LEMMA FilesSound ==
    ASSUME IInv
    PROVE  NoMixedLoad /\ DamageConfinedToLastSlot
  BY OpenFilesSound DEF IInv, ClosedInv

\* The counts of an open database.
LEMMA OpenCounts ==
    ASSUME IInv, up, registry # Unreadable
    PROVE  /\ registry \in Nat /\ Len(sealed) \in Nat
           /\ Target = Len(sealed) + 1 /\ registry \in {Len(sealed), Target}
           /\ Referenced = 1..registry
  <1>1. MemoryTypeOK /\ FilesTypeOK /\ RegistryFollows
    BY OpenFacts
  <1>2. registry \in Nat
    BY <1>1, MaxSegmentsAssumption DEF FilesTypeOK
  <1>3. registry \in {Len(sealed), Target} /\ Referenced = 1..registry
    BY <1>1 DEF RegistryFollows, Referenced
  <1>4. Len(sealed) \in Nat /\ Target = Len(sealed) + 1
    BY <1>1 DEF MemoryTypeOK, Target
  <1> QED BY <1>1, <1>2, <1>3, <1>4

\* A call in progress writes the target directory and no other.
LEMMA WritesTarget ==
    ASSUME IInv, OpenFile \/ WriteFile
    PROVE  /\ up /\ stage \in Parts /\ active # <<>>
           /\ active \in Seq(Entry) /\ Target \in 1..MaxSegments
           /\ disk \in [1..MaxSegments -> Directory]
           /\ \A n \in 1..MaxSegments : n # Target => disk'[n] = disk[n]
           /\ disk'[Target][stage] \in {active, Unreadable}
           /\ \A p \in Parts \ {stage} : disk'[Target][p] = disk[Target][p]
           /\ UNCHANGED <<up, active, sealed, saved, registry>>
  <1>1. /\ stage \in Parts /\ up
        /\ UNCHANGED <<up, active, sealed, saved, registry>>
    BY CallIsOpen DEF OpenFile, WriteFile, Parts, memory
  <1>2. MemoryTypeOK /\ FilesTypeOK /\ CallProgress
    BY <1>1, OpenFacts
  <1>3. active # <<>> /\ Total <= MaxSegments
    BY <1>1, <1>2 DEF CallProgress, Parts
  <1>4. Target \in 1..MaxSegments
    <2>1. Total = Target
      BY <1>3 DEF Total
    <2> QED BY <1>2, <1>3, <2>1, MaxSegmentsAssumption DEF Target, MemoryTypeOK
  <1>5. /\ disk \in [1..MaxSegments -> Directory]
        /\ disk[Target] \in [Parts -> Seq(Entry) \cup {Unreadable}]
    BY <1>2, <1>4 DEF FilesTypeOK, Directory
  <1>6. /\ \A n \in 1..MaxSegments : n # Target => disk'[n] = disk[n]
        /\ disk'[Target][stage] \in {active, Unreadable}
        /\ \A p \in Parts \ {stage} : disk'[Target][p] = disk[Target][p]
    BY <1>1, <1>4, <1>5 DEF OpenFile, WriteFile
  <1> QED BY <1>1, <1>2, <1>3, <1>4, <1>5, <1>6 DEF MemoryTypeOK

\* The steps that leave all that the second handle depends on alone.
Unnoticed == UNCHANGED <<up, active, sealed, disk, registry>>

LEMMA QuietSteps ==
    ASSUME \/ \E e \in Entry : InsertSealing(e)
           \/ Save \/ WriteFileShort \/ Verify \/ OpenTmp \/ WriteTmp \/ Throw
           \/ UNCHANGED vars
    PROVE  Unnoticed
  BY DEF Unnoticed, InsertSealing, Save, WriteFileShort, Verify, OpenTmp, WriteTmp, Throw,
         vars, memory, files

\* The registry's count never decreases, as long as the segment that a save()
\* has counted is not empty.
LEMMA RegistryGrows ==
    ASSUME IInv, [Next]_vars, up /\ registry = Target => active # <<>>,
           registry # Unreadable
    PROVE  registry' # Unreadable /\ registry \in Nat /\ registry' \in Nat /\ registry <= registry'
  <1>1. registry \in Nat
    BY MaxSegmentsAssumption DEF IInv, TypeOK, FilesTypeOK
  <1>2. CASE registry' = registry
    BY <1>1, <1>2
  <1>3. CASE SaveReturns
    <2>1. stage = "rename" /\ up /\ registry' = tmp
      BY <1>3, CallIsOpen DEF SaveReturns, Rename
    <2>2. registry' = Total
      BY <2>1, OpenFacts DEF CallProgress
    <2>3. /\ Len(sealed) \in Nat /\ Target = Len(sealed) + 1
          /\ registry \in {Len(sealed), Target}
      BY <2>1, OpenCounts
    <2>4. CASE active = <<>>
      <3>1. registry' = Len(sealed)
        BY <2>2, <2>4 DEF Total
      <3>2. registry = Len(sealed)
        BY <2>1, <2>3, <2>4
      <3> QED BY <1>1, <3>1, <3>2
    <2>5. CASE active # <<>>
      <3>1. registry' = Target
        BY <2>2, <2>5 DEF Total
      <3>2. Target \in Nat /\ registry <= Target
        BY <2>3
      <3> QED BY <1>1, <3>1, <3>2, UnreadableAssumption
    <2> QED BY <2>4, <2>5
  <1>4. CASE InsertSealingReturns
    <2>1. up /\ tmp = Target
      BY <1>4, SealedDirectory
    <2>2. registry' = Target
      BY <1>4, <2>1 DEF InsertSealingReturns, Rename
    <2>3. /\ Len(sealed) \in Nat /\ Target = Len(sealed) + 1
          /\ registry \in {Len(sealed), Target}
      BY <2>1, OpenCounts
    <2>4. Target \in Nat /\ registry <= Target
      BY <2>3
    <2> QED BY <1>1, <2>2, <2>4, UnreadableAssumption
  <1> QED
    BY <1>2, <1>3, <1>4
    DEF Next, Construct, Load, Exit, Crash, Insert, InsertSealing, Save,
        OpenFile, WriteFile, WriteFileShort, Verify, OpenTmp, WriteTmp, Throw, vars, files

\* What the second handle has read keeps its shape while the first one works.
LEMMA ReaderTypeKept ==
    ASSUME IInv, ReaderTypeOK, [Next]_vars, up /\ registry = Target => active # <<>>,
           UNCHANGED handle
    PROVE  ReaderTypeOK'
  <1>1. UNCHANGED <<reader, count, got, mixed>>
    BY DEF handle, copies
  <1>2. CASE reader = "closed"
    BY <1>1, <1>2 DEF ReaderTypeOK
  <1>3. CASE reader # "closed"
    <2>1. registry # Unreadable /\ count \in 1..registry
      BY <1>3 DEF ReaderTypeOK
    <2>2. registry' # Unreadable /\ count \in 1..registry'
      BY <2>1, RegistryGrows
    <2> QED BY <1>1, <1>3, <2>2 DEF ReaderTypeOK
  <1> QED BY <1>2, <1>3

-----------------------------------------------------------------------------
(* ReaderInv, and the steps of the first handle.                           *)

\* What ReaderInv says of the segments being read.
LEMMA ReaderFacts ==
    ASSUME IInv, ReaderTypeOK
    PROVE  /\ got \in Seq(Directory) /\ DOMAIN got = 1..Len(got) /\ Len(got) \in Nat
           /\ \A n \in DOMAIN got :
                 /\ registry # Unreadable /\ registry \in Nat /\ count \in 1..registry
                 /\ n \in 1..count /\ n \in Referenced /\ n \in 1..MaxSegments
                 /\ n \notin LastRead => n # registry /\ n < registry
                 /\ got[n] \in Directory /\ disk[n] \in Directory
  <1>1. got \in Seq(Directory) /\ DOMAIN got = 1..Len(got) /\ Len(got) \in Nat
    BY DEF ReaderTypeOK
  <1>2. ASSUME NEW n \in DOMAIN got
        PROVE  /\ registry # Unreadable /\ registry \in Nat /\ count \in 1..registry
               /\ n \in 1..count /\ n \in Referenced /\ n \in 1..MaxSegments
               /\ n \notin LastRead => n # registry /\ n < registry
               /\ got[n] \in Directory /\ disk[n] \in Directory
    <2>1. reader # "closed"
      BY <1>2 DEF ReaderTypeOK
    <2>2. registry # Unreadable /\ count \in 1..registry /\ Len(got) \in 1..count
      BY <2>1 DEF ReaderTypeOK
    <2>3. FilesTypeOK /\ registry \in 0..MaxSegments
      BY <2>2 DEF IInv, TypeOK, FilesTypeOK
    <2>4. registry \in Nat /\ n \in 1..count /\ n \in 1..registry /\ n \in 1..MaxSegments
      BY <1>1, <2>2, <2>3, MaxSegmentsAssumption
    <2>5. n \notin LastRead => n # registry /\ n < registry
      BY <2>2, <2>4 DEF LastRead
    <2> QED BY <1>1, <2>2, <2>3, <2>4, <2>5 DEF FilesTypeOK, Referenced
  <1> QED BY <1>1, <1>2

\* A directory's part is a sequence of entries or unreadable.
LEMMA PartOf ==
    ASSUME NEW d \in Directory, NEW p \in Parts, d[p] # Unreadable
    PROVE  d[p] \in Seq(Entry)
  BY DEF Directory

\* The first handle does not touch the reader's graphs.
LEMMA MixedKept ==
    ASSUME ReaderInv, UNCHANGED handle
    PROVE  MixedIsLast'
  BY DEF ReaderInv, MixedIsLast, LastRead, handle, copies

\* A step that touches neither files nor memory.
LEMMA ReaderUnnoticed ==
    ASSUME ReaderInv, ReaderTypeOK', Unnoticed, UNCHANGED handle
    PROVE  ReaderInv'
  <1>1. UNCHANGED <<up, active, sealed, disk, registry, reader, count, got>>
    BY DEF Unnoticed, handle, copies
  <1>2. CopiesMatch' /\ LastGrows'
    BY <1>1 DEF ReaderInv, CopiesMatch, LastGrows, LastRead
  <1>3. up => LastIsActive'
    BY <1>1 DEF ReaderInv, LastIsActive, LastRead, Target, HoldsPrefixesOf
  <1>4. ~up => LastHadOneSource'
    BY <1>1 DEF ReaderInv, LastHadOneSource, LastRead, HoldsPrefixesOf
  <1> QED BY <1>1, <1>2, <1>3, <1>4, MixedKept DEF ReaderInv

\* An insert() that finds room: the reader's copies of the last segment are
\* still a first part of the active segment.
LEMMA ReaderInsert ==
    ASSUME IInv, ReaderInv, ReaderTypeOK', NEW e \in Entry, Insert(e), UNCHANGED handle
    PROVE  ReaderInv'
  <1>1. /\ up /\ up' /\ active' = Append(active, e)
        /\ UNCHANGED <<sealed, disk, registry, reader, count, got>>
    BY DEF Insert, MayInsert, MayCall, files, handle, copies
  <1>2. CopiesMatch' /\ LastGrows'
    BY <1>1 DEF ReaderInv, CopiesMatch, LastGrows, LastRead
  <1>3. LastIsActive'
    <2>1. Target' = Target /\ LastRead' = LastRead
      BY <1>1 DEF Target, LastRead
    <2>2. active \in Seq(Entry)
      BY <1>1, OpenFacts DEF MemoryTypeOK
    <2>3. /\ active' # <<>>
          /\ \A t \in Seq(Entry) : IsPrefixOf(t, active) => IsPrefixOf(t, active')
      BY <1>1, <2>2, AppendEntry
    <2> SUFFICES ASSUME registry = Target, NEW n \in LastRead, n = Target,
                        NEW p \in Parts, got[n][p] # Unreadable
                 PROVE  IsPrefixOf(got[n][p], active')
      BY <1>1, <2>1, <2>3 DEF LastIsActive, HoldsPrefixesOf
    <2>4. IsPrefixOf(got[n][p], active)
      BY <1>1 DEF ReaderInv, LastIsActive, HoldsPrefixesOf
    <2>5. got[n][p] \in Seq(Entry)
      BY ReaderFacts, PartOf DEF ReaderInv, LastRead
    <2> QED BY <2>3, <2>4, <2>5
  <1> QED BY <1>1, <1>2, <1>3, MixedKept DEF ReaderInv

\* Truncating or writing a file: only the last segment can be its, and what
\* is written is the active segment.
LEMMA ReaderWrite ==
    ASSUME IInv, ReaderInv, ReaderTypeOK', OpenFile \/ WriteFile, UNCHANGED handle
    PROVE  ReaderInv'
  <1>1. /\ up /\ up' /\ UNCHANGED <<active, sealed, registry, reader, count, got>>
        /\ Target' = Target /\ LastRead' = LastRead
    BY WritesTarget DEF handle, copies, Target, LastRead
  <1>2. /\ \A n \in 1..MaxSegments : n # Target => disk'[n] = disk[n]
        /\ disk'[Target][stage] \in {active, Unreadable}
        /\ \A p \in Parts \ {stage} : disk'[Target][p] = disk[Target][p]
    BY WritesTarget
  <1>3. ASSUME NEW n \in DOMAIN got
        PROVE  n = Target => registry = Target /\ n \in LastRead
    <2>1. registry # Unreadable /\ registry \in Nat /\ n \in 1..registry
      BY <1>3, ReaderFacts DEF ReaderInv
    <2>2. /\ Len(sealed) \in Nat /\ Target = Len(sealed) + 1
          /\ registry \in {Len(sealed), Target}
      BY <1>1, <2>1, OpenCounts
    <2>3. n = Target => registry = Target
      BY <2>1, <2>2
    <2>4. n = registry => n \in LastRead
      BY <1>3, ReaderFacts DEF ReaderInv
    <2> QED BY <2>3, <2>4
  <1>4. CopiesMatch'
    <2> SUFFICES ASSUME NEW n \in DOMAIN got \ LastRead, NEW p \in Parts
                 PROVE  got[n][p] \in {Unreadable, disk'[n][p]}
      BY <1>1 DEF CopiesMatch
    <2>1. disk'[n] = disk[n]
      BY <1>2, <1>3, ReaderFacts DEF ReaderInv
    <2> QED BY <2>1 DEF ReaderInv, CopiesMatch
  <1>5. LastGrows'
    <2> SUFFICES ASSUME NEW n \in LastRead, NEW p \in Parts,
                        got[n][p] # Unreadable, disk'[n][p] # Unreadable
                 PROVE  IsPrefixOf(got[n][p], disk'[n][p])
      BY <1>1 DEF LastGrows
    <2>1. n \in DOMAIN got /\ n \in 1..MaxSegments
      BY ReaderFacts DEF ReaderInv, LastRead
    <2>2. CASE disk'[n][p] = disk[n][p]
      BY <2>2 DEF ReaderInv, LastGrows
    <2>3. CASE n = Target /\ p = stage
      <3>1. disk'[n][p] = active
        BY <1>2, <2>3
      <3>2. IsPrefixOf(got[n][p], active)
        BY <1>1, <1>3, <2>1, <2>3 DEF ReaderInv, LastIsActive, HoldsPrefixesOf
      <3> QED BY <3>1, <3>2
    <2> QED BY <1>2, <2>1, <2>2, <2>3
  <1>6. LastIsActive'
    BY <1>1 DEF ReaderInv, LastIsActive, HoldsPrefixesOf
  <1> QED BY <1>1, <1>4, <1>5, <1>6, MixedKept DEF ReaderInv

\* The two renames: a registry that counts more, and files as they were.
LEMMA ReaderRename ==
    ASSUME IInv, ReaderInv, ReaderTypeOK', SaveReturns \/ InsertSealingReturns, UNCHANGED handle
    PROVE  ReaderInv'
  <1>1. /\ stage = "rename" /\ up /\ up' /\ registry' = tmp
        /\ UNCHANGED <<disk, reader, count, got>>
    BY CallIsOpen DEF SaveReturns, InsertSealingReturns, Rename, handle, copies
  <1>2. LastRead' = LastRead
    BY <1>1 DEF LastRead
  <1>3. CopiesMatch' /\ LastGrows'
    BY <1>1, <1>2 DEF ReaderInv, CopiesMatch, LastGrows
  <1>4. LastIsActive'
    <2>1. CASE SaveReturns
      <3>1. active' = active /\ sealed' = sealed
        BY <2>1 DEF SaveReturns
      <3>2. Target' = Target /\ registry' = Total
        BY <1>1, <3>1, OpenFacts DEF Target, CallProgress
      <3>3. Total = Target => active # <<>>
        <4>1. active = <<>> => Total = Len(sealed)
          BY DEF Total
        <4>2. Len(sealed) # Target
          BY <1>1, OpenFacts DEF MemoryTypeOK, Target
        <4> QED BY <4>1, <4>2
      <3>4. ASSUME NEW n \in LastRead, n = Target PROVE HoldsPrefixesOf(got[n], active)
        <4>1. registry # Unreadable /\ registry \in Nat /\ n \in 1..registry
          BY ReaderFacts DEF ReaderInv, LastRead
        <4>2. registry = Target
          <5>1. /\ Len(sealed) \in Nat /\ Target = Len(sealed) + 1
                /\ registry \in {Len(sealed), Target}
            BY <1>1, <4>1, OpenCounts
          <5> QED BY <3>4, <4>1, <5>1
        <4> QED BY <1>1, <3>4, <4>2 DEF ReaderInv, LastIsActive
      <3> QED BY <1>1, <1>2, <3>1, <3>2, <3>3, <3>4 DEF LastIsActive
    <2>2. CASE InsertSealingReturns
      <3>1. registry' = Target
        BY <1>1, <2>2, SealedDirectory
      <3>2. sealed' = Append(sealed, disk[Target])
        BY <2>2 DEF InsertSealingReturns
      <3>3. sealed \in Seq(Segment) /\ disk[Target] \in Segment
        BY <2>2, SealedDirectory
      <3>4. Len(sealed') = Len(sealed) + 1 /\ Len(sealed) \in Nat
        BY <3>2, <3>3
      <3>5. registry' # Target'
        BY <3>1, <3>4 DEF Target
      <3> QED BY <3>5 DEF LastIsActive
    <2> QED BY <2>1, <2>2
  <1> QED BY <1>1, <1>3, <1>4, MixedKept DEF ReaderInv

\* Opening the first handle: nothing is active, and what is on disk is sealed.
LEMMA ReaderOpen ==
    ASSUME ~Recreate, IInv, ReaderInv, ReaderTypeOK', Construct \/ Load, UNCHANGED handle
    PROVE  ReaderInv'
  <1>1. up' /\ UNCHANGED <<disk, registry, reader, count, got>>
    BY DEF Construct, Load, files, handle, copies
  <1>2. CopiesMatch' /\ LastGrows'
    BY <1>1 DEF ReaderInv, CopiesMatch, LastGrows, LastRead
  <1>3. registry' # Target'
    <2>1. CASE Construct
      <3>1. registry' = Unreadable /\ sealed' = <<>>
        BY <1>1, <2>1 DEF Construct, IInv, ClosedInv, Closed
      <3> QED BY <3>1, UnreadableAssumption DEF Target
    <2>2. CASE Load
      <3>1. registry # Unreadable /\ TypeOK /\ sealed' = [n \in 1..registry |-> disk[n]]
        BY <2>2 DEF Load, CanLoad, IInv
      <3>2. registry \in Nat
        BY <3>1, MaxSegmentsAssumption DEF TypeOK, FilesTypeOK
      <3>3. Len(sealed') = registry
        BY <3>1, <3>2
      <3> QED BY <1>1, <3>2, <3>3 DEF Target
    <2> QED BY <2>1, <2>2
  <1> QED BY <1>1, <1>2, <1>3, MixedKept DEF ReaderInv, LastIsActive

\* Leaving it, between calls or in one: the files of the last directory come
\* from the active segment, or from the sealed one that they are.
LEMMA ReaderLeft ==
    ASSUME IInv, ReaderInv, ReaderTypeOK', Exit \/ Crash, UNCHANGED handle
    PROVE  ReaderInv'
  <1>1. up /\ ~up' /\ UNCHANGED <<disk, registry, reader, count, got>>
    BY CallIsOpen DEF Exit, Crash, ForgetMemory, files, handle, copies
  <1>2. CopiesMatch' /\ LastGrows'
    BY <1>1 DEF ReaderInv, CopiesMatch, LastGrows, LastRead
  <1>3. ASSUME registry \notin {Unreadable, 0}
        PROVE  \E w \in Seq(Entry) :
                  /\ HoldsPrefixesOf(disk[registry], w)
                  /\ \A n \in LastRead : n = registry => HoldsPrefixesOf(got[n], w)
    <2>1. /\ registry \in Nat /\ Len(sealed) \in Nat
          /\ registry \in {Len(sealed), Target}
      BY <1>1, <1>3, OpenCounts
    <2>2. MemoryTypeOK /\ IdsAgree /\ OwnMapsIntact /\ RewritesPrefix
      BY <1>1, OpenFacts
    <2>3. CASE registry = Target
      <3>1. HoldsPrefixesOf(disk[registry], active)
        BY <2>2, <2>3 DEF RewritesPrefix, HoldsPrefixesOf
      <3>2. \A n \in LastRead : n = registry => HoldsPrefixesOf(got[n], active)
        BY <1>1, <2>3 DEF ReaderInv, LastIsActive
      <3>3. active \in Seq(Entry)
        BY <2>2 DEF MemoryTypeOK
      <3> QED BY <3>1, <3>2, <3>3
    <2>4. CASE registry = Len(sealed)
      <3> DEFINE w == disk[registry]["ids"]
      <3>1. registry \in 1..Len(sealed)
        BY <1>3, <2>1, <2>4
      <3>2. disk[registry] = sealed[registry] /\ Coherent(disk[registry])
        BY <2>1, <2>2, <3>1, SealedLoadable DEF MemoryTypeOK
      <3>3. disk[registry] \in Segment
        BY <2>2, <3>1, <3>2 DEF MemoryTypeOK
      <3>4. w \in Seq(Entry) /\ \A p \in Parts : disk[registry][p] = w
        BY <3>2, <3>3 DEF Segment, Coherent, Parts
      <3>5. w # Unreadable
        BY <3>4, UnreadableAssumption
      <3> HIDE DEF w
      <3>6. HoldsPrefixesOf(disk[registry], w)
        BY <3>4, PrefixReflexive DEF HoldsPrefixesOf
      <3>7. \A n \in LastRead : n = registry => HoldsPrefixesOf(got[n], w)
        BY <3>4, <3>5 DEF ReaderInv, LastGrows, HoldsPrefixesOf
      <3> QED BY <3>4, <3>6, <3>7
    <2> QED BY <2>1, <2>3, <2>4
  <1>4. LastHadOneSource'
    BY <1>1, <1>3 DEF LastHadOneSource, LastRead, HoldsPrefixesOf
  <1> QED BY <1>1, <1>2, <1>4, MixedKept DEF ReaderInv

\* Every step of the first handle preserves ReaderInv.
LEMMA WriterKeepsReader ==
    ASSUME ~Recreate, IInv, ReaderInv, [Next]_vars, UNCHANGED handle
    PROVE  ReaderInv'
  <1>1. ReaderTypeOK'
    BY ReaderTypeKept DEF ReaderInv, LastIsActive
  <1>2. CASE Construct \/ Load
    BY <1>1, <1>2, ReaderOpen
  <1>3. CASE Exit \/ Crash
    BY <1>1, <1>3, ReaderLeft
  <1>4. CASE \E e \in Entry : Insert(e)
    BY <1>1, <1>4, ReaderInsert
  <1>5. CASE OpenFile \/ WriteFile
    BY <1>1, <1>5, ReaderWrite
  <1>6. CASE SaveReturns \/ InsertSealingReturns
    BY <1>1, <1>6, ReaderRename
  <1>7. CASE \/ \E e \in Entry : InsertSealing(e)
             \/ Save \/ WriteFileShort \/ Verify \/ OpenTmp \/ WriteTmp \/ Throw
             \/ UNCHANGED vars
    BY <1>1, <1>7, QuietSteps, ReaderUnnoticed
  <1> QED BY <1>2, <1>3, <1>4, <1>5, <1>6, <1>7 DEF Next

-----------------------------------------------------------------------------
(* The steps of the second handle.                                         *)

\* A directory of which nothing has been read yet.
LEMMA NothingReadYet ==
    NothingRead \in Directory /\ \A p \in Parts : NothingRead[p] = Unreadable
  BY DEF NothingRead, Directory

\* Once the next of the three files is there to be read, it is one of them.
LEMMA NextFileIsPart ==
    ASSUME NEW d \in Directory, FilesRead(d) # Parts
    PROVE  NextFile(d) \in Parts
  <1> DEFINE F == FilesRead(d)
  <1>1. F \subseteq Parts /\ F # Parts
    BY DEF FilesRead
  <1>2. IsFiniteSet(Parts) /\ Cardinality(Parts) = 3
    <2>1. IsFiniteSet({"vectors"}) /\ Cardinality({"vectors"}) = 1
      BY FS_Singleton
    <2>2. /\ IsFiniteSet({"vectors"} \cup {"hnsw"})
          /\ Cardinality({"vectors"} \cup {"hnsw"}) = 2
      BY <2>1, FS_AddElement
    <2>3. /\ IsFiniteSet(({"vectors"} \cup {"hnsw"}) \cup {"ids"})
          /\ Cardinality(({"vectors"} \cup {"hnsw"}) \cup {"ids"}) = 3
      BY <2>2, FS_AddElement
    <2>4. Parts = ({"vectors"} \cup {"hnsw"}) \cup {"ids"}
      BY DEF Parts
    <2> QED BY <2>3, <2>4
  <1>3. IsFiniteSet(F) /\ Cardinality(F) \in Nat /\ Cardinality(F) < 3
    BY <1>1, <1>2, FS_Subset, FS_CardinalityType
  <1>4. Cardinality(F) + 1 \in 1..3
    BY <1>3
  <1>5. \A i \in 1..3 : ReadOrder[i] \in Parts
    BY DEF ReadOrder, Parts
  <1> QED BY <1>4, <1>5 DEF NextFile

\* A new directory, or none: the copies made so far are kept.
LEMMA ReaderKeepsCopies ==
    ASSUME ReaderInv, ReaderTypeOK', MixedIsLast', UNCHANGED <<vars, count>>,
           \A n \in DOMAIN got' : \/ got'[n] = NothingRead
                                  \/ n \in DOMAIN got /\ got'[n] = got[n]
    PROVE  ReaderInv'
  <1>1. UNCHANGED <<up, active, sealed, disk, registry, count>>
    BY DEF vars, memory, files
  <1>2. \A n \in DOMAIN got' : \/ n \in DOMAIN got /\ got'[n] = got[n]
                               \/ \A p \in Parts : got'[n][p] = Unreadable
    BY NothingReadYet
  <1>3. CopiesMatch'
    BY <1>1, <1>2 DEF ReaderInv, CopiesMatch, LastRead
  <1>4. LastGrows'
    BY <1>1, <1>2 DEF ReaderInv, LastGrows, LastRead
  <1>5. up => LastIsActive'
    BY <1>1, <1>2 DEF ReaderInv, LastIsActive, LastRead, Target, HoldsPrefixesOf
  <1>6. ~up => LastHadOneSource'
    <2> SUFFICES ASSUME ~up, registry \notin {Unreadable, 0}
                 PROVE  \E w \in Seq(Entry) :
                           /\ HoldsPrefixesOf(disk[registry], w)
                           /\ \A n \in LastRead' : n = registry => HoldsPrefixesOf(got'[n], w)
      BY <1>1 DEF LastHadOneSource, HoldsPrefixesOf
    <2>1. PICK w \in Seq(Entry) :
             /\ HoldsPrefixesOf(disk[registry], w)
             /\ \A n \in LastRead : n = registry => HoldsPrefixesOf(got[n], w)
      BY DEF ReaderInv, LastHadOneSource
    <2>2. \A n \in LastRead' : n = registry => HoldsPrefixesOf(got'[n], w)
      BY <1>1, <1>2, <2>1 DEF LastRead, HoldsPrefixesOf
    <2> QED BY <2>1, <2>2
  <1> QED BY <1>1, <1>3, <1>4, <1>5, <1>6 DEF ReaderInv

\* load() reads the registry.
LEMMA ReaderLoadsStep ==
    ASSUME IInv, ReaderInv, ReaderLoads
    PROVE  ReaderInv'
  <1>1. /\ reader' = "loading" /\ count' = registry /\ got' = <<NothingRead>>
        /\ registry \notin {Unreadable, 0}
        /\ UNCHANGED <<up, active, sealed, disk, registry, mixed>> /\ mixed = {}
    BY DEF ReaderLoads, vars, memory, files, ReaderInv, ReaderTypeOK
  <1>2. registry \in Nat \ {0}
    BY <1>1, MaxSegmentsAssumption DEF IInv, TypeOK, FilesTypeOK
  <1>3. ReaderTypeOK'
    <2>1. got' \in Seq(Directory) /\ Len(got') = 1
      BY <1>1, NothingReadYet
    <2>2. count' \in 1..registry' /\ Len(got') \in 1..count'
      BY <1>1, <1>2, <2>1
    <2> QED BY <1>1, <2>1, <2>2 DEF ReaderTypeOK
  <1>4. \A n \in DOMAIN got' : \A p \in Parts : got'[n][p] = Unreadable
    BY <1>1, NothingReadYet
  <1>5. CopiesMatch' /\ LastGrows'
    BY <1>4 DEF CopiesMatch, LastGrows, LastRead
  <1>6. up => LastIsActive'
    BY <1>1, <1>4 DEF ReaderInv, LastIsActive, LastRead, Target, HoldsPrefixesOf
  <1>7. ~up => LastHadOneSource'
    <2> SUFFICES ASSUME ~up
                 PROVE  \E w \in Seq(Entry) :
                           /\ HoldsPrefixesOf(disk[registry], w)
                           /\ \A n \in LastRead' : n = registry => HoldsPrefixesOf(got'[n], w)
      BY <1>1 DEF LastHadOneSource, HoldsPrefixesOf
    <2>1. PICK w \in Seq(Entry) : HoldsPrefixesOf(disk[registry], w)
      BY <1>1 DEF ReaderInv, LastHadOneSource
    <2>2. \A n \in LastRead' : HoldsPrefixesOf(got'[n], w)
      BY <1>4 DEF LastRead, HoldsPrefixesOf
    <2> QED BY <2>1, <2>2
  <1>8. MixedIsLast'
    BY <1>1 DEF MixedIsLast
  <1> QED BY <1>1, <1>3, <1>5, <1>6, <1>7, <1>8 DEF ReaderInv

\* What opening one file changes.
LEMMA OpensOneFile ==
    ASSUME IInv, ReaderTypeOK, ReaderOpensFile
    PROVE  \E n \in DOMAIN got : \E p \in Parts :
              /\ disk[n][p] # Unreadable
              /\ got'[n][p] = disk[n][p]
              /\ \A q \in Parts \ {p} : got'[n][q] = got[n][q]
              /\ \A m \in DOMAIN got \ {n} : got'[m] = got[m]
              /\ DOMAIN got' = DOMAIN got
              /\ ReaderTypeOK'
              /\ UNCHANGED <<up, active, sealed, disk, registry, reader, count, mixed>>
  <1> DEFINE n == Len(got)
             p == NextFile(got[n])
  <1>1. /\ reader = "loading" /\ FilesRead(got[n]) # Parts
        /\ disk[n][p] # Unreadable
        /\ got' = [got EXCEPT ![n] = [@ EXCEPT ![p] = disk[n][p]]]
        /\ UNCHANGED <<up, active, sealed, disk, registry, reader, count, mixed>>
    BY DEF ReaderOpensFile, vars, memory, files
  <1>2. /\ got \in Seq(Directory) /\ DOMAIN got = 1..n
        /\ registry # Unreadable /\ count \in 1..registry /\ n \in 1..count
    BY <1>1 DEF ReaderTypeOK
  <1>3. registry \in Nat
    BY <1>2, MaxSegmentsAssumption DEF IInv, TypeOK, FilesTypeOK
  <1>4. n \in DOMAIN got
    BY <1>2, <1>3
  <1>5. got[n] \in Directory /\ disk[n] \in Directory
    BY <1>4, ReaderFacts
  <1>6. p \in Parts
    BY <1>1, <1>5, NextFileIsPart
  <1> HIDE DEF n, p
  <1>7. /\ got'[n] = [got[n] EXCEPT ![p] = disk[n][p]]
        /\ \A m \in DOMAIN got \ {n} : got'[m] = got[m]
        /\ DOMAIN got' = DOMAIN got
    BY <1>1, <1>2, <1>4
  <1>8. /\ got'[n][p] = disk[n][p]
        /\ \A q \in Parts \ {p} : got'[n][q] = got[n][q]
        /\ got'[n] \in Directory
    BY <1>5, <1>6, <1>7 DEF Directory
  <1>9. got' \in Seq(Directory) /\ Len(got') = Len(got)
    <2>1. got' = [got EXCEPT ![n] = got'[n]]
      BY <1>1, <1>2, <1>4, <1>7
    <2> QED BY <1>2, <1>4, <1>8, <2>1
  <1>10. ReaderTypeOK'
    BY <1>1, <1>9 DEF ReaderTypeOK
  <1> QED BY <1>1, <1>4, <1>6, <1>7, <1>8, <1>10

\* load_segment_mmap() opens a file of the segment it is at: what it has is
\* what the file holds, and that is a first part of what the others hold.
LEMMA ReaderOpensFileStep ==
    ASSUME IInv, ReaderInv, ReaderOpensFile
    PROVE  ReaderInv'
  <1>1. PICK n \in DOMAIN got, p \in Parts :
           /\ disk[n][p] # Unreadable
           /\ got'[n][p] = disk[n][p]
           /\ \A q \in Parts \ {p} : got'[n][q] = got[n][q]
           /\ \A m \in DOMAIN got \ {n} : got'[m] = got[m]
           /\ DOMAIN got' = DOMAIN got
           /\ ReaderTypeOK'
           /\ UNCHANGED <<up, active, sealed, disk, registry, reader, count, mixed>>
    BY OpensOneFile DEF ReaderInv
  <1>2. LastRead' = LastRead /\ LastRead \subseteq DOMAIN got /\ Target' = Target
    BY <1>1 DEF LastRead, Target
  <1>3. \A m \in DOMAIN got : \A q \in Parts :
           \/ got'[m][q] = got[m][q]
           \/ m = n /\ q = p /\ got'[m][q] = disk[m][q]
    BY <1>1
  <1>4. CopiesMatch'
    BY <1>1, <1>2, <1>3 DEF ReaderInv, CopiesMatch
  <1>5. LastGrows'
    <2>1. IsPrefixOf(disk[n][p], disk[n][p])
      BY <1>1, ReaderFacts, PartOf, PrefixReflexive DEF ReaderInv
    <2> QED BY <1>1, <1>2, <1>3, <2>1 DEF ReaderInv, LastGrows
  <1>6. up => LastIsActive'
    <2> SUFFICES ASSUME up, registry = Target, NEW m \in LastRead, m = Target, NEW q \in Parts
                 PROVE  got'[m][q] = Unreadable \/ IsPrefixOf(got'[m][q], active)
      BY <1>1, <1>2 DEF ReaderInv, LastIsActive, HoldsPrefixesOf
    <2>1. CASE got'[m][q] = got[m][q]
      BY <2>1 DEF ReaderInv, LastIsActive, HoldsPrefixesOf
    <2>2. CASE got'[m][q] = disk[m][q]
      BY <2>2, OpenFacts DEF RewritesPrefix
    <2> QED BY <1>2, <1>3, <2>1, <2>2
  <1>7. ~up => LastHadOneSource'
    <2> SUFFICES ASSUME ~up, registry \notin {Unreadable, 0}
                 PROVE  \E w \in Seq(Entry) :
                           /\ HoldsPrefixesOf(disk[registry], w)
                           /\ \A m \in LastRead : m = registry => HoldsPrefixesOf(got'[m], w)
      BY <1>1, <1>2 DEF LastHadOneSource, HoldsPrefixesOf
    <2>1. PICK w \in Seq(Entry) :
             /\ HoldsPrefixesOf(disk[registry], w)
             /\ \A m \in LastRead : m = registry => HoldsPrefixesOf(got[m], w)
      BY DEF ReaderInv, LastHadOneSource
    <2>2. \A m \in LastRead : m = registry => HoldsPrefixesOf(got'[m], w)
      BY <1>2, <1>3, <2>1 DEF HoldsPrefixesOf
    <2> QED BY <2>1, <2>2
  <1>8. MixedIsLast'
    BY <1>1, <1>2 DEF ReaderInv, MixedIsLast
  <1> QED BY <1>1, <1>4, <1>5, <1>6, <1>7, <1>8 DEF ReaderInv

\* Whatever a stream still reads of a file begins with the copy made so far,
\* and of the earlier segments it is that copy.
LEMMA ContentGrows ==
    ASSUME IInv, ReaderInv, NEW n \in DOMAIN got, NEW p \in Parts,
           got[n][p] # Unreadable, Content(n, p) # Unreadable
    PROVE  /\ IsPrefixOf(got[n][p], Content(n, p))
           /\ n \notin LastRead => Content(n, p) = got[n][p]
  <1>1. /\ registry # Unreadable /\ registry \in Nat /\ n \in 1..registry
        /\ n \notin LastRead => n < registry
        /\ got[n] \in Directory
    BY ReaderFacts DEF ReaderInv
  <1>2. CASE opened /\ n = Target /\ p = stage
    <2>1. up
      BY <1>2 DEF IInv, ClosedInv, Idle
    <2>2. /\ Len(sealed) \in Nat /\ Target = Len(sealed) + 1
          /\ registry \in {Len(sealed), Target}
      BY <1>1, <2>1, OpenCounts
    <2>3. registry = Target /\ n \in LastRead
      BY <1>1, <1>2, <2>2
    <2>4. IsPrefixOf(got[n][p], active)
      BY <1>2, <2>1, <2>3 DEF ReaderInv, LastIsActive, HoldsPrefixesOf
    <2> QED BY <1>2, <2>3, <2>4 DEF Content
  <1>3. CASE ~(opened /\ n = Target /\ p = stage)
    <2>1. Content(n, p) = disk[n][p] /\ disk[n][p] # Unreadable
      BY <1>3 DEF Content
    <2>2. CASE n \in LastRead
      BY <2>1, <2>2 DEF ReaderInv, LastGrows
    <2>3. CASE n \notin LastRead
      <3>1. got[n][p] = disk[n][p]
        BY <2>3 DEF ReaderInv, CopiesMatch
      <3>2. IsPrefixOf(got[n][p], got[n][p])
        BY <1>1, PartOf, PrefixReflexive
      <3> QED BY <2>1, <3>1, <3>2
    <2> QED BY <2>2, <2>3
  <1> QED BY <1>2, <1>3

\* So the ids that a later read brings are those that were there, and only a
\* graph can be put together from two writes, that of the last segment.
LEMMA ReadsOn ==
    ASSUME IInv, ReaderInv, ReaderReadsOn
    PROVE  /\ UNCHANGED <<vars, copies>>
           /\ mixed' \subseteq mixed \cup LastRead
  <1> DEFINE n == Len(got)
             p == Streamed(got[n])
             c == Content(n, p)
  <1>1. /\ reader = "loading" /\ got[n][p] # Unreadable
        /\ c # Unreadable /\ c # got[n][p]
        /\ UNCHANGED <<vars, reader, count>>
    BY DEF ReaderReadsOn
  <1>2. n \in DOMAIN got /\ got \in Seq(Directory) /\ p \in Parts
    <2>1. registry # Unreadable /\ count \in 1..registry /\ n \in 1..count
      BY <1>1 DEF ReaderInv, ReaderTypeOK
    <2>2. registry \in Nat
      BY <2>1, MaxSegmentsAssumption DEF IInv, TypeOK, FilesTypeOK
    <2>3. n \in 1..Len(got)
      BY <2>1, <2>2
    <2> QED BY <2>3, ReaderFacts DEF ReaderInv, Streamed, Parts
  <1>3. IsPrefixOf(got[n][p], c) /\ n \in LastRead
    BY <1>1, <1>2, ContentGrows
  <1>4. \/ mixed' = mixed \cup {n} /\ got' = got
        \/ /\ mixed' = mixed
           /\ \E where \in SUBSET (DOMAIN got[n][p] \cap DOMAIN c) :
                 got' = [got EXCEPT ![n][p] = Spliced(@, c, where)]
    BY DEF ReaderReadsOn
  <1> HIDE DEF n, p, c
  <1>5. ASSUME NEW where \in SUBSET (DOMAIN got[n][p] \cap DOMAIN c),
               got' = [got EXCEPT ![n][p] = Spliced(@, c, where)]
        PROVE  got' = got
    <2> DEFINE d == got[n]
    <2>1. d \in [Parts -> Seq(Entry) \cup {Unreadable}] /\ d[p] \in Seq(Entry)
      BY <1>1, <1>2 DEF Directory
    <2>2. \A i \in DOMAIN d[p] : c[i] = d[p][i]
      BY <1>3 DEF IsPrefixOf
    <2>3. Spliced(d[p], c, where) = [i \in DOMAIN d[p] |-> d[p][i]]
      BY <2>2 DEF Spliced
    <2>4. Spliced(d[p], c, where) = d[p]
      BY <2>1, <2>3
    <2>5. got' = [got EXCEPT ![n] = [d EXCEPT ![p] = d[p]]]
      BY <1>5, <2>4
    <2>6. [d EXCEPT ![p] = d[p]] = d
      BY <1>2, <2>1
    <2> QED BY <1>2, <2>5, <2>6
  <1>6. got' = got /\ mixed' \subseteq mixed \cup {n}
    BY <1>4, <1>5
  <1> QED BY <1>1, <1>3, <1>6 DEF copies

\* All that ReaderInv says of the copies stays as it was.
LEMMA ReaderReadsOnStep ==
    ASSUME IInv, ReaderInv, ReaderReadsOn
    PROVE  ReaderInv'
  <1>1. /\ UNCHANGED <<up, active, sealed, disk, registry, reader, count, got>>
        /\ mixed' \subseteq mixed \cup LastRead
    BY ReadsOn DEF vars, memory, files, copies
  <1>2. LastRead' = LastRead /\ LastRead \subseteq DOMAIN got /\ Target' = Target
    BY <1>1 DEF LastRead, Target
  <1>3. MixedIsLast' /\ ReaderTypeOK'
    BY <1>1, <1>2 DEF ReaderInv, MixedIsLast, ReaderTypeOK
  <1>4. CopiesMatch' /\ LastGrows'
    BY <1>1, <1>2 DEF ReaderInv, CopiesMatch, LastGrows
  <1>5. up => LastIsActive'
    BY <1>1, <1>2 DEF ReaderInv, LastIsActive, HoldsPrefixesOf
  <1>6. ~up => LastHadOneSource'
    BY <1>1, <1>2 DEF ReaderInv, LastHadOneSource, HoldsPrefixesOf
  <1> QED BY <1>1, <1>3, <1>4, <1>5, <1>6 DEF ReaderInv

\* The segment is complete: load() goes on to the next one, or is done.
LEMMA AddsSegment ==
    ASSUME IInv, ReaderTypeOK, ReaderAddsSegment
    PROVE  /\ ReaderTypeOK'
           /\ DOMAIN got \subseteq DOMAIN got' /\ UNCHANGED <<count, mixed>>
           /\ \A n \in DOMAIN got' : \/ got'[n] = NothingRead
                                     \/ n \in DOMAIN got /\ got'[n] = got[n]
  <1>1. /\ reader = "loading" /\ UNCHANGED <<registry, count, mixed>>
        /\ IF Len(got) = count
           THEN reader' = "open" /\ got' = got
           ELSE got' = Append(got, NothingRead) /\ reader' = reader
    BY DEF ReaderAddsSegment, vars, files
  <1>2. /\ got \in Seq(Directory)
        /\ registry # Unreadable /\ count \in 1..registry /\ Len(got) \in 1..count
    BY <1>1 DEF ReaderTypeOK
  <1>3. CASE Len(got) = count
    BY <1>1, <1>2, <1>3 DEF ReaderTypeOK
  <1>4. CASE Len(got) # count
    <2>1. registry \in Nat
      BY <1>2, MaxSegmentsAssumption DEF IInv, TypeOK, FilesTypeOK
    <2>2. Len(got) + 1 \in 1..count
      BY <1>2, <1>4, <2>1
    <2>3. got' = Append(got, NothingRead) /\ reader' = "loading"
      BY <1>1, <1>4
    <2>4. /\ got' \in Seq(Directory) /\ Len(got') = Len(got) + 1
          /\ DOMAIN got \subseteq DOMAIN got'
          /\ \A n \in DOMAIN got' : \/ got'[n] = NothingRead
                                    \/ n \in DOMAIN got /\ got'[n] = got[n]
      BY <1>2, <2>3, NothingReadYet
    <2> QED BY <1>1, <1>2, <2>2, <2>3, <2>4 DEF ReaderTypeOK
  <1> QED BY <1>3, <1>4

\* Closing the second handle, or a load() that throws, leaves no copies.
LEMMA ReaderLeaves ==
    ASSUME ReaderThrows \/ ReaderCloses
    PROVE  ReaderTypeOK' /\ got' = <<>> /\ mixed' = {} /\ UNCHANGED vars
  <1>1. reader' = "closed" /\ count' = 0 /\ got' = <<>> /\ mixed' = {}
        /\ UNCHANGED vars
    BY DEF ReaderThrows, ReaderCloses, Close
  <1> QED BY <1>1 DEF ReaderTypeOK

LEMMA ReaderLeavesStep ==
    ASSUME ReaderInv, ReaderThrows \/ ReaderCloses
    PROVE  ReaderInv'
  <1>1. ReaderTypeOK' /\ got' = <<>> /\ mixed' = {}
        /\ UNCHANGED <<up, active, sealed, disk, registry>>
    BY ReaderLeaves DEF vars, memory, files
  <1>2. LastRead' = {} /\ DOMAIN got' = {}
    BY <1>1 DEF LastRead
  <1>3. CopiesMatch' /\ LastGrows'
    BY <1>2 DEF CopiesMatch, LastGrows
  <1>4. up => LastIsActive'
    BY <1>1, <1>2 DEF ReaderInv, LastIsActive, Target
  <1>5. ~up => LastHadOneSource'
    <2> SUFFICES ASSUME ~up, registry \notin {Unreadable, 0}
                 PROVE  \E w \in Seq(Entry) : HoldsPrefixesOf(disk[registry], w)
      BY <1>1, <1>2 DEF LastHadOneSource, HoldsPrefixesOf
    <2> QED BY DEF ReaderInv, LastHadOneSource
  <1> QED BY <1>1, <1>3, <1>4, <1>5 DEF ReaderInv, MixedIsLast

\* Every step of the two handles preserves both invariants.
LEMMA SharedStep ==
    ASSUME ~Recreate, IInv, ReaderInv, [SharedNext]_<<vars, handle>>
    PROVE  IInv' /\ ReaderInv'
  <1>1. IInv'
    BY SharedIsNext, StepInvariance
  <1>2. ReaderInv'
    <2>1. CASE WriterNext \/ UNCHANGED <<vars, handle>>
      BY <2>1, WriterKeepsReader DEF WriterNext
    <2>2. CASE ReaderLoads
      BY <2>2, ReaderLoadsStep
    <2>3. CASE ReaderOpensFile
      BY <2>3, ReaderOpensFileStep
    <2>4. CASE ReaderReadsOn
      BY <2>4, ReaderReadsOnStep
    <2>5. CASE ReaderAddsSegment
      <3>1. MixedIsLast'
        BY <2>5, AddsSegment DEF ReaderInv, MixedIsLast, LastRead
      <3> QED BY <2>5, <3>1, AddsSegment, ReaderKeepsCopies DEF ReaderAddsSegment, ReaderInv
    <2>6. CASE ReaderThrows \/ ReaderCloses
      BY <2>6, ReaderLeavesStep
    <2> QED BY <2>1, <2>2, <2>3, <2>4, <2>5, <2>6 DEF SharedNext, ReaderNext
  <1> QED BY <1>1, <1>2

-----------------------------------------------------------------------------
(* The theorems, for every client of the first handle.                     *)

\* IInv and ReaderInv hold of every reachable state of the two handles.
THEOREM ReaderInvariance ==
    ASSUME ~Recreate
    PROVE  SharedSpec => [](IInv /\ ReaderInv)
  <1>1. SharedInit => IInv /\ ReaderInv
    <2> SUFFICES ASSUME SharedInit PROVE ReaderInv
      BY InitStep DEF SharedInit
    <2>1. got = <<>> /\ reader = "closed" /\ count = 0 /\ registry = Unreadable /\ ~up
          /\ mixed = {}
      BY DEF SharedInit, Init, Closed
    <2>2. ReaderTypeOK
      BY <2>1 DEF ReaderTypeOK
    <2>3. CopiesMatch /\ LastGrows /\ LastHadOneSource
      BY <2>1 DEF CopiesMatch, LastGrows, LastHadOneSource, LastRead
    <2> QED BY <2>1, <2>2, <2>3 DEF ReaderInv, MixedIsLast
  <1>2. IInv /\ ReaderInv /\ [SharedNext]_<<vars, handle>> => (IInv /\ ReaderInv)'
    BY SharedStep
  <1> QED BY <1>1, <1>2, PTL DEF SharedSpec

\* The copies of a segment that is complete on disk are first parts of it.
LEMMA CompleteSource ==
    ASSUME NEW n \in LastRead, ReaderInv, disk[n] \in Directory,
           Loadable(disk[n]), Coherent(disk[n])
    PROVE  \E w \in Seq(Entry) : HoldsPrefixesOf(got[n], w)
  <1> DEFINE w == disk[n]["ids"]
  <1>1. \A p \in Parts : disk[n][p] = w /\ disk[n][p] # Unreadable
    BY LoadableIff DEF Coherent, Parts
  <1>2. w \in Seq(Entry)
    BY <1>1 DEF Directory, Parts
  <1> HIDE DEF w
  <1>3. HoldsPrefixesOf(got[n], w)
    BY <1>1 DEF ReaderInv, LastGrows, HoldsPrefixesOf
  <1> QED BY <1>2, <1>3

\* Whatever the first handle has done in between, the reader's copies of the
\* last segment's files are first parts of one list of entries.
LEMMA LastSource ==
    ASSUME IInv, ReaderInv, NEW n \in LastRead
    PROVE  \E w \in Seq(Entry) : HoldsPrefixesOf(got[n], w)
  <1>1. /\ n \in DOMAIN got /\ registry # Unreadable /\ registry \in Nat
        /\ n \in 1..registry /\ n \in Referenced
        /\ disk[n] \in Directory
    BY ReaderFacts DEF ReaderInv, LastRead
  <1>2. n # registry => Loadable(disk[n]) /\ Coherent(disk[n])
    BY <1>1, FilesSound DEF DamageConfinedToLastSlot
  <1>3. CASE n # registry
    BY <1>1, <1>2, <1>3, CompleteSource
  <1>4. CASE ~up /\ n = registry
    BY <1>1, <1>4 DEF ReaderInv, LastHadOneSource
  <1>5. CASE up /\ n = registry
    <2>1. /\ Len(sealed) \in Nat
          /\ Target = Len(sealed) + 1 /\ registry \in {Len(sealed), Target}
      BY <1>1, <1>5, OpenCounts
    <2>2. CASE registry = Target
      BY <1>5, <2>2, OpenFacts DEF MemoryTypeOK, ReaderInv, LastIsActive
    <2>3. CASE registry = Len(sealed)
      <3>1. Loadable(disk[n]) /\ Coherent(disk[n])
        BY <1>1, <1>5, <2>1, <2>3, OpenFacts, SealedLoadable DEF MemoryTypeOK
      <3> QED BY <1>1, <3>1, CompleteSource
    <2> QED BY <2>1, <2>2, <2>3
  <1> QED BY <1>3, <1>4, <1>5

\* A load() that races with inserts, saves, seals, crashes and restarts of the
\* other handle never takes in a segment whose three files are of different
\* sizes or belong to different ids, even when a file is rewritten between two
\* reads of it and nothing but sizes is compared (loader.cpp:17-127).  Only
\* the graph of the last segment can be made of two writes.
THEOREM ReaderStaysCoherent ==
    ASSUME ~Recreate
    PROVE  SharedSpec => []ReaderCoherent
  <1>1. ASSUME IInv, ReaderInv, NEW n \in Taken
        PROVE  Coherent(got[n])
    <2>1. n \in DOMAIN got /\ Loadable(got[n])
      BY <1>1 DEF Taken
    <2>2. /\ got[n] \in Directory
          /\ \A p \in Parts : got[n][p] # Unreadable /\ Len(got[n][p]) = Len(got[n]["ids"])
      BY <1>1, <2>1, ReaderFacts, LoadableIff DEF ReaderInv
    <2>3. CASE n \in LastRead
      <3>1. PICK w \in Seq(Entry) : HoldsPrefixesOf(got[n], w)
        BY <1>1, <2>3, LastSource
      <3>2. \A p \in Parts : got[n][p] \in Seq(Entry) /\ IsPrefixOf(got[n][p], w)
        BY <2>2, <3>1, PartOf DEF HoldsPrefixesOf
      <3> QED BY <2>2, <3>2, SameLengthPrefixes DEF Coherent
    <2>4. CASE n \notin LastRead
      <3>1. \A p \in Parts : got[n][p] = disk[n][p]
        BY <1>1, <2>1, <2>2, <2>4 DEF ReaderInv, CopiesMatch
      <3>2. Coherent(disk[n])
        BY <1>1, <2>1, <2>4, ReaderFacts, FilesSound DEF ReaderInv, DamageConfinedToLastSlot
      <3> QED BY <3>1, <3>2 DEF Coherent
    <2> QED BY <2>3, <2>4
  <1>2. IInv /\ ReaderInv => ReaderCoherent
    BY <1>1 DEF ReaderCoherent, ReaderInv, MixedIsLast, LastRead
  <1> QED BY <1>2, ReaderInvariance, PTL

\* Of the mappings that a load() has taken in, only the last segment's can be
\* rewritten under it (segment_manager.cpp:110, 138).
THEOREM ReaderDamageStaysConfined ==
    ASSUME ~Recreate
    PROVE  SharedSpec => []ReaderDamageConfined
  <1>1. ASSUME IInv, ReaderInv, NEW n \in Taken, n # count
        PROVE  disk[n]["vectors"] = got[n]["vectors"]
    <2>1. n \in DOMAIN got \ LastRead /\ got[n]["vectors"] # Unreadable
      BY <1>1, LoadableIff DEF Taken, LastRead, Parts
    <2> QED BY <1>1, <2>1 DEF ReaderInv, CopiesMatch, Parts
  <1>2. IInv /\ ReaderInv => ReaderDamageConfined
    BY <1>1 DEF ReaderDamageConfined
  <1> QED BY <1>2, ReaderInvariance, PTL

-----------------------------------------------------------------------------
(* The theorems, for a first handle that stops at save().                  *)

\* Such a handle never writes a directory that the registry counts.
LEMMA CountedStay ==
    ASSUME StopsAtSave, IInv, SavedInv, [Next]_vars, NEW n \in Referenced,
           n \in 1..MaxSegments
    PROVE  disk'[n] = disk[n]
  <1>1. CASE OpenFile \/ WriteFile
    <2>1. up /\ stage # "idle"
      BY <1>1, WritesTarget DEF Parts
    <2>2. registry # Target
      BY <2>1, CallWritesUncounted
    <2>3. registry # Unreadable
      BY DEF Referenced
    <2>4. /\ registry \in Nat /\ Len(sealed) \in Nat /\ Target = Len(sealed) + 1
          /\ registry \in {Len(sealed), Target} /\ n \in 1..registry
      BY <2>1, <2>3, OpenCounts
    <2>5. n # Target
      BY <2>2, <2>4
    <2> QED BY <1>1, <2>5, WritesTarget
  <1>2. CASE disk' = disk
    BY <1>2
  <1> QED
    BY <1>1, <1>2
    DEF Next, Construct, Load, Exit, Crash, Insert, InsertSealing, Save,
        WriteFileShort, Verify, OpenTmp, WriteTmp, SaveReturns, InsertSealingReturns, Rename,
        Throw, vars, files

\* No stream finds its file changed.
LEMMA NothingReadOn ==
    ASSUME IInv, SavedInv, CopiesInv
    PROVE  ~ReaderReadsOn
  <1> SUFFICES ASSUME ReaderReadsOn PROVE FALSE
    OBVIOUS
  <1> DEFINE n == Len(got)
             p == Streamed(got[n])
  <1>1. /\ reader = "loading" /\ got[n][p] # Unreadable
        /\ Content(n, p) # got[n][p]
    BY DEF ReaderReadsOn
  <1>2. registry # Unreadable /\ count \in 1..registry /\ n \in 1..count
    BY <1>1 DEF CopiesInv, ReaderTypeOK
  <1>3. registry \in Nat
    BY <1>2, MaxSegmentsAssumption DEF IInv, TypeOK, FilesTypeOK
  <1>4. n \in 1..registry /\ n \in DOMAIN got /\ p \in Parts
    BY <1>2, <1>3, ReaderFacts DEF CopiesInv, Streamed, Parts
  <1>5. got[n][p] = disk[n][p]
    BY <1>1, <1>4 DEF CopiesInv
  <1> HIDE DEF n, p
  <1>6. opened /\ n = Target
    BY <1>1, <1>5 DEF Content
  <1>7. up /\ stage # "idle"
    <2>1. up
      BY <1>6 DEF IInv, ClosedInv, Idle
    <2> QED BY <1>6, <2>1, OpenFacts DEF CallProgress, Parts
  <1>8. registry # Target
    BY <1>7, CallWritesUncounted
  <1>9. /\ Len(sealed) \in Nat /\ Target = Len(sealed) + 1
        /\ registry \in {Len(sealed), Target}
    BY <1>2, <1>7, OpenCounts
  <1> QED BY <1>3, <1>4, <1>6, <1>8, <1>9

\* Neither handle invalidates a copy.
LEMMA CopiesStep ==
    ASSUME StopsAtSave, IInv, SavedInv, CopiesInv, [SharedNext]_<<vars, handle>>
    PROVE  CopiesInv'
  <1>1. CASE WriterNext \/ UNCHANGED <<vars, handle>>
    <2>1. [Next]_vars /\ UNCHANGED <<reader, count, got, mixed>>
      BY <1>1 DEF WriterNext, handle, copies
    <2>2. up /\ registry = Target => active # <<>>
      BY SavedDirectory
    <2>3. ReaderTypeOK'
      BY <2>1, <2>2, ReaderTypeKept DEF CopiesInv, handle, copies
    <2>4. \A n \in DOMAIN got : disk'[n] = disk[n]
      BY <2>1, CountedStay, ReaderFacts DEF CopiesInv
    <2> QED BY <2>1, <2>3, <2>4 DEF CopiesInv
  <1>2. CASE ReaderLoads
    <2>1. /\ reader' = "loading" /\ count' = registry /\ got' = <<NothingRead>>
          /\ registry \notin {Unreadable, 0} /\ registry' = registry
          /\ mixed' = {}
      BY <1>2 DEF ReaderLoads, vars, files, CopiesInv
    <2>2. registry \in Nat \ {0}
      BY <2>1, MaxSegmentsAssumption DEF IInv, TypeOK, FilesTypeOK
    <2>3. got' \in Seq(Directory) /\ Len(got') = 1
      BY <2>1, NothingReadYet
    <2>4. count' \in 1..registry' /\ Len(got') \in 1..count'
      BY <2>1, <2>2, <2>3
    <2>5. \A n \in DOMAIN got' : \A p \in Parts : got'[n][p] = Unreadable
      BY <2>1, NothingReadYet
    <2> QED BY <2>1, <2>3, <2>4, <2>5 DEF CopiesInv, ReaderTypeOK
  <1>3. CASE ReaderOpensFile
    <2>1. PICK n \in DOMAIN got, p \in Parts :
             /\ got'[n][p] = disk[n][p]
             /\ \A q \in Parts \ {p} : got'[n][q] = got[n][q]
             /\ \A m \in DOMAIN got \ {n} : got'[m] = got[m]
             /\ DOMAIN got' = DOMAIN got
             /\ ReaderTypeOK'
             /\ disk' = disk /\ mixed' = mixed
      BY <1>3, OpensOneFile DEF CopiesInv
    <2>2. \A m \in DOMAIN got : \A q \in Parts :
             got'[m][q] = got[m][q] \/ got'[m][q] = disk[m][q]
      BY <2>1
    <2> QED BY <2>1, <2>2 DEF CopiesInv
  <1>4. CASE ReaderAddsSegment
    <2>1. /\ ReaderTypeOK' /\ disk' = disk /\ mixed' = mixed
          /\ \A n \in DOMAIN got' : \/ \A p \in Parts : got'[n][p] = Unreadable
                                    \/ n \in DOMAIN got /\ got'[n] = got[n]
      BY <1>4, AddsSegment, NothingReadYet DEF CopiesInv, ReaderAddsSegment, vars, files
    <2> QED BY <2>1 DEF CopiesInv
  <1>5. CASE ReaderReadsOn
    BY <1>5, NothingReadOn
  <1>6. CASE ReaderThrows \/ ReaderCloses
    BY <1>6, ReaderLeaves DEF CopiesInv
  <1> QED BY <1>1, <1>2, <1>3, <1>4, <1>5, <1>6 DEF SharedNext, ReaderNext

\* IInv, SavedInv and CopiesInv hold of every reachable state.
THEOREM CopiesInvariance ==
    ASSUME StopsAtSave
    PROVE  SharedSpec => [](IInv /\ SavedInv /\ CopiesInv)
  <1>1. SharedInit => CopiesInv
    BY DEF SharedInit, CopiesInv, ReaderTypeOK
  <1>2. IInv /\ SavedInv /\ CopiesInv /\ [SharedNext]_<<vars, handle>> => CopiesInv'
    BY CopiesStep
  <1> QED BY <1>1, <1>2, SavedInvariance, WriterUndisturbed, PTL DEF SharedSpec

\* Nor is a graph ever put together from two writes (docs/PRD.md:148).
THEOREM ReaderGraphsStayWhole ==
    ASSUME StopsAtSave
    PROVE  SharedSpec => []ReaderGraphWhole
  <1>1. CopiesInv => ReaderGraphWhole
    BY DEF CopiesInv, ReaderGraphWhole
  <1> QED BY <1>1, CopiesInvariance, PTL

\* The vectors of a segment that load() has taken in never change under it
\* (docs/PRD.md:40, segment_manager.cpp:138).
THEOREM ReaderMapsStayIntact ==
    ASSUME StopsAtSave
    PROVE  SharedSpec => []ReaderMapsIntact
  <1>1. ASSUME CopiesInv, NEW n \in Taken
        PROVE  disk[n]["vectors"] = got[n]["vectors"]
    <2>1. n \in DOMAIN got /\ got[n]["vectors"] # Unreadable
      BY LoadableIff DEF Taken, Parts
    <2> QED BY <1>1, <2>1 DEF CopiesInv, Parts
  <1>2. CopiesInv => ReaderMapsIntact
    BY <1>1 DEF ReaderMapsIntact
  <1> QED BY <1>2, CopiesInvariance, PTL

\* A load() that has read the registry finds every segment it counts complete,
\* whatever the first handle does meanwhile (segment_manager.cpp:113-116).
THEOREM ReaderNeverRefused ==
    ASSUME StopsAtSave
    PROVE  SharedSpec => []ReaderNotRefused
  <1>1. IInv /\ SavedInv /\ CopiesInv => ReaderNotRefused
    <2> SUFFICES ASSUME IInv, SavedInv, CopiesInv, reader # "closed", NEW n \in 1..count
                 PROVE  Loadable(disk[n]) /\ Coherent(disk[n])
      BY DEF ReaderNotRefused
    <2>1. registry # Unreadable /\ count \in 1..registry
      BY DEF CopiesInv, ReaderTypeOK
    <2>2. registry \in Nat
      BY <2>1, MaxSegmentsAssumption DEF IInv, TypeOK, FilesTypeOK
    <2>3. n \in Referenced
      BY <2>1, <2>2 DEF Referenced
    <2> QED BY <2>3, ReferencedComplete
  <1> QED BY <1>1, CopiesInvariance, PTL

=============================================================================
