------------------------------ MODULE MmapStore ------------------------------
(***************************************************************************)
(* MmapStore (store/mmap_store.cpp): an object that owns the mapping of a  *)
(* vectors.bin file.  The constructor decides in the arithmetic of machine *)
(* words whether the file holds the vectors its header announces; moves    *)
(* hand the mapping from object to object, SealedSegment::from_mmap() and  *)
(* a growing sealed_ among them; the destructor unmaps what is still owned.*)
(*                                                                         *)
(* Objects are the variables of type MmapStore.  Addresses come back: an   *)
(* unmapped Address may be the next mapping.                               *)
(***************************************************************************)
EXTENDS Integers, FiniteSets

CONSTANTS
    Object,      \* variables of type MmapStore
    Address,     \* where mmap() may put a mapping
    File,        \* vectors.bin files: records of length, good, dim and count
    WordWidth,   \* the bits of the fields of Vex0Header: 32; size_t has twice
                 \* as many
    HeaderSize,  \* sizeof(Vex0Header)
    FloatSize    \* sizeof(float)

Word == 0 .. 2 ^ WordWidth - 1
Size == 0 .. 2 ^ (2 * WordWidth) - 1

ASSUME WidthAssumption == WordWidth \in Nat \ {0}
ASSUME SizesAssumption == HeaderSize \in Size /\ FloatSize \in Size \ {0}
ASSUME FileAssumption == File \subseteq [length : Size, good : BOOLEAN, dim : Word, count : Word]

Null == "nullptr"   \* no mapping

ASSUME NullAssumption == Null \notin Address

VARIABLES
    alive,      \* the objects that are constructed and not destroyed
    building,   \* the objects whose constructors are at work, with their files
    obj,        \* the members of each object
    length      \* the mappings of the process, with their lengths

vars == <<alive, building, obj, length>>

InConstructor == {b[1] : b \in building}

Live == DOMAIN length

\* mapped_, mapped_size_, data_, dim_, count_
Empty == [mapped |-> Null, size |-> 0, data |-> Null, dim |-> 0, count |-> 0]

SizeT(n) == n % 2 ^ (2 * WordWidth)

VectorsSize(f) == SizeT(SizeT(f.count * f.dim) * FloatSize)

\* Mutant of Overflows: the product is not divided back.
OverflowsHeaderOnly(f) == VectorsSize(f) > 2 ^ (2 * WordWidth) - 1 - HeaderSize

\* The header values would overflow.
Overflows(f) ==
    \/ f.count # 0 /\ (VectorsSize(f) \div f.dim) \div FloatSize # f.count
    \/ VectorsSize(f) > 2 ^ (2 * WordWidth) - 1 - HeaderSize

\* The header fields of a file with good = FALSE have the wrong magic or version.
Accepts(f) ==
    /\ f.good
    /\ f.dim # 0
    /\ ~Overflows(f)
    /\ f.length >= HeaderSize + VectorsSize(f)

-----------------------------------------------------------------------------

Init ==
    /\ alive = {}
    /\ building = {}
    /\ obj = [o \in Object |-> Empty]
    /\ length = [a \in {} |-> 0]

Mapped(a, n) == [b \in Live \cup {a} |-> IF b = a THEN n ELSE length[b]]

Unmapped(a) == [b \in Live \ {a} |-> length[b]]

\* Release the mapping that o owns, if it owns one.
Release(o) == IF obj[o].mapped = Null THEN length ELSE Unmapped(obj[o].mapped)

-----------------------------------------------------------------------------
(* The constructor.  Until the file is mapped it throws without a trace: a *)
(* file that cannot be opened or mapped, or that is shorter than a header. *)

\* open(), fstat(), mmap() and close().
ConstructorMaps(o, f, a) ==
    /\ o \notin alive \cup InConstructor
    /\ a \notin Live
    /\ f.length >= HeaderSize
    /\ building' = building \cup {<<o, f>>}
    /\ obj' = [obj EXCEPT ![o] = [Empty EXCEPT !.mapped = a, !.size = f.length]]
    /\ length' = Mapped(a, f.length)
    /\ UNCHANGED alive

\* munmap() and throw: no destructor runs for an object whose constructor threw.
Throws(o, f) ==
    /\ <<o, f>> \in building
    /\ building' = building \ {<<o, f>>}
    /\ obj' = [obj EXCEPT ![o] = Empty]
    /\ length' = Release(o)
    /\ UNCHANGED alive

\* invalid magic bytes, unsupported version
HeaderThrows(o, f) == ~f.good /\ Throws(o, f)

\* dim cannot be zero
DimThrows(o, f) == f.good /\ f.dim = 0 /\ Throws(o, f)

\* header values would overflow
OverflowThrows(o, f) == f.good /\ f.dim # 0 /\ Overflows(f) /\ Throws(o, f)

\* Mutant of LengthThrows: the file stays mapped.
LengthThrowsMapped(o, f) ==
    /\ f.good /\ f.dim # 0 /\ ~Overflows(f) /\ ~Accepts(f)
    /\ <<o, f>> \in building
    /\ building' = building \ {<<o, f>>}
    /\ obj' = [obj EXCEPT ![o] = Empty]
    /\ UNCHANGED <<alive, length>>

\* file size does not match header
LengthThrows(o, f) == f.good /\ f.dim # 0 /\ ~Overflows(f) /\ ~Accepts(f) /\ Throws(o, f)

ConstructorReturns(o, f) ==
    /\ <<o, f>> \in building
    /\ Accepts(f)
    /\ building' = building \ {<<o, f>>}
    /\ alive' = alive \cup {o}
    /\ obj' = [obj EXCEPT ![o] = [mapped |-> obj[o].mapped, size |-> obj[o].size,
                                  data |-> obj[o].mapped, dim |-> f.dim, count |-> f.count]]
    /\ UNCHANGED length

-----------------------------------------------------------------------------
(* Moves and the destructor.                                               *)

\* Mutant of MoveConstruct: other keeps its pointer.
MoveConstructCopy(o, other) ==
    /\ o \notin alive \cup InConstructor
    /\ other \in alive
    /\ alive' = alive \cup {o}
    /\ obj' = [obj EXCEPT ![o] = obj[other]]
    /\ UNCHANGED <<building, length>>

\* MmapStore o(std::move(other)): a return value, an argument, a push_back().
MoveConstruct(o, other) ==
    /\ o \notin alive \cup InConstructor
    /\ other \in alive
    /\ alive' = alive \cup {o}
    /\ obj' = [obj EXCEPT ![o] = obj[other], ![other] = Empty]
    /\ UNCHANGED <<building, length>>

\* o = std::move(other), which may be o.
MoveAssign(o, other) ==
    /\ {o, other} \subseteq alive
    /\ IF o = other THEN UNCHANGED <<obj, length>>
       ELSE /\ length' = Release(o)
            /\ obj' = [obj EXCEPT ![o] = obj[other], ![other] = Empty]
    /\ UNCHANGED <<alive, building>>

Destroy(o) ==
    /\ o \in alive
    /\ alive' = alive \ {o}
    /\ length' = Release(o)
    /\ obj' = [obj EXCEPT ![o] = Empty]
    /\ UNCHANGED building

Next ==
    \/ \E b \in building :
        \/ HeaderThrows(b[1], b[2])
        \/ DimThrows(b[1], b[2])
        \/ OverflowThrows(b[1], b[2])
        \/ LengthThrows(b[1], b[2])
        \/ ConstructorReturns(b[1], b[2])
    \/ \E o \in Object :
        \/ \E f \in File, a \in Address : ConstructorMaps(o, f, a)
        \/ \E other \in Object : MoveConstruct(o, other) \/ MoveAssign(o, other)
        \/ Destroy(o)

Spec == Init /\ [][Next]_vars

-----------------------------------------------------------------------------
(* Properties.                                                             *)

OwnersHold ==
    \A o \in Object : obj[o].mapped # Null =>
        /\ o \in alive \cup InConstructor
        /\ obj[o].mapped \in Live
        /\ obj[o].size = length[obj[o].mapped]

NothingLeaked == \A a \in Live : \E o \in Object : obj[o].mapped = a

NothingShared ==
    \A o, p \in Object : obj[o].mapped = obj[p].mapped /\ obj[o].mapped # Null => o = p

\* Every mapping of the process belongs to exactly one object, which knows its
\* length, through constructors that throw at any of their checks and any
\* sequence of moves: nothing is leaked and nothing is unmapped twice
\* (mmap_store.cpp:47-89, 95-133).
OwnedOnce == OwnersHold /\ NothingLeaked /\ NothingShared

\* get_vector() of an offset that size() allows lies within a mapping that is
\* still there, whatever the header says and whoever else was moved from or
\* destroyed (mmap_store.cpp:60-92, 135-139).
ReadsInBounds ==
    \A o \in alive : \A offset \in 0 .. obj[o].count - 1 :
        /\ obj[o].data \in Live
        /\ HeaderSize + SizeT(SizeT(offset * obj[o].dim) * FloatSize) + obj[o].dim * FloatSize
              <= length[obj[o].data]

=============================================================================
