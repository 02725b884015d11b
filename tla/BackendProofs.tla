---------------------------- MODULE BackendProofs ----------------------------
(***************************************************************************)
(* Proofs about what lies behind a sealed index.  MmapStore: for any       *)
(* objects, addresses and files, and for every sequence of constructors,   *)
(* moves and destructors, each mapping has one owner.  VisitedTracking:    *)
(* whatever the width of the counter and the size of the graph, a search   *)
(* looks once at every node that it meets.                                 *)
(***************************************************************************)
EXTENDS MmapStore, VisitedTracking, TLAPS

-----------------------------------------------------------------------------
(* Mapped files: who owns them, and what is read.                          *)

\* obj and length are functions on their domains.
Shape ==
    /\ obj = [o \in Object |-> obj[o]]
    /\ length = [a \in Live |-> length[a]]

\* A destroyed object owns nothing, and a mapping is never at the null pointer.
Owners ==
    /\ \A o \in Object \ (alive \cup InConstructor) : obj[o].mapped = Null
    /\ Live \subseteq Address
    /\ building \subseteq Object \X File /\ alive \cap InConstructor = {}
    /\ \A b, c \in building : b[1] = c[1] => b = c

\* The inductive invariant.
OInv == Shape /\ Owners /\ OwnedOnce

\* No object and no mapping: nothing is owned.
LEMMA InitInv == Init => OInv
  BY DEF Init, OInv, Shape, Owners, OwnedOnce, OwnersHold, NothingLeaked,
         NothingShared, Live, Empty, InConstructor

\* The steps, those of a constructor by whether it throws.
LEMMA NextSteps ==
    ASSUME Owners, [Next]_vars
    PROVE  \/ \E o \in Object, f \in File, a \in Address : ConstructorMaps(o, f, a)
           \/ \E o \in Object, f \in File : Throws(o, f) \/ ConstructorReturns(o, f)
           \/ \E o \in Object, other \in Object : MoveConstruct(o, other) \/ MoveAssign(o, other)
           \/ \E o \in Object : Destroy(o)
           \/ UNCHANGED vars
  <1>1. \A b \in building : b[1] \in Object /\ b[2] \in File
    BY DEF Owners
  <1> QED BY <1>1 DEF Next, HeaderThrows, DimThrows, OverflowThrows, LengthThrows

\* What is known of the mappings after Mapped() and Unmapped().
LEMMA MappingsType ==
    ASSUME NEW a, NEW n
    PROVE  /\ DOMAIN Mapped(a, n) = Live \cup {a}
           /\ DOMAIN Unmapped(a) = Live \ {a}
           /\ Unmapped(a) = [b \in Live \ {a} |-> Unmapped(a)[b]]
           /\ \A b \in Live \ {a} : Unmapped(a)[b] = length[b]
  BY DEF Mapped, Unmapped

\* The objects that constructors are at work on, with one more or less.
LEMMA BuildingChanges ==
    ASSUME Owners, NEW o \in Object, NEW f \in File
    PROVE  /\ o \notin InConstructor /\ building' = building \cup {<<o, f>>} =>
                 InConstructor' = InConstructor \cup {o}
           /\ <<o, f>> \in building /\ building' = building \ {<<o, f>>} =>
                 o \in InConstructor /\ InConstructor' = InConstructor \ {o}
  <1>1. <<o, f>>[1] = o
    OBVIOUS
  <1>2. ASSUME building' = building \cup {<<o, f>>}
        PROVE  InConstructor' = InConstructor \cup {o}
    BY <1>1, <1>2 DEF InConstructor
  <1>3. ASSUME <<o, f>> \in building, building' = building \ {<<o, f>>}
        PROVE  o \in InConstructor /\ InConstructor' = InConstructor \ {o}
    <2>1. \A b \in building : b[1] = o => b = <<o, f>>
      BY <1>1, <1>3 DEF Owners
    <2>2. o \in InConstructor
      BY <1>1, <1>3 DEF InConstructor
    <2>3. InConstructor' \subseteq InConstructor \ {o}
      BY <1>3, <2>1 DEF InConstructor
    <2>4. InConstructor \ {o} \subseteq InConstructor'
      BY <1>1, <1>3 DEF InConstructor
    <2> QED BY <2>2, <2>3, <2>4
  <1> QED BY <1>2, <1>3

\* The object whose constructor has mapped a file is the owner of the mapping.
LEMMA ConstructorMapsInv ==
    ASSUME OInv, NEW o \in Object, NEW f \in File, NEW a \in Address, ConstructorMaps(o, f, a)
    PROVE  OInv'
  <1> DEFINE m == [Empty EXCEPT !.mapped = a, !.size = f.length]
  <1>1. /\ o \notin alive /\ o \notin InConstructor /\ a \notin Live /\ alive' = alive
        /\ building' = building \cup {<<o, f>>}
        /\ obj' = [obj EXCEPT ![o] = m] /\ length' = Mapped(a, f.length)
    BY DEF ConstructorMaps
  <1>2. InConstructor' = InConstructor \cup {o}
    BY <1>1, BuildingChanges DEF OInv
  <1>3. /\ obj' = [p \in Object |-> obj'[p]]
        /\ obj'[o] = m
        /\ \A p \in Object : p # o => obj'[p] = obj[p]
    BY <1>1 DEF OInv, Shape
  <1>4. Live' = Live \cup {a} /\ length' = [b \in Live' |-> length'[b]]
        /\ length'[a] = f.length /\ \A b \in Live : length'[b] = length[b]
    <2>1. DOMAIN length = Live /\ DOMAIN length' = Live'
      BY DEF Live
    <2>2. DOMAIN length' = Live \cup {a}
      BY <1>1, MappingsType
    <2>3. Live' = Live \cup {a}
      BY <2>1, <2>2
    <2>4. length' = [b \in Live \cup {a} |-> IF b = a THEN f.length ELSE length[b]]
      BY <1>1 DEF Mapped
    <2>5. length' = [b \in Live \cup {a} |-> length'[b]]
      BY <2>4
    <2>6. length'[a] = f.length /\ \A b \in Live : length'[b] = length[b]
      BY <1>1, <2>4
    <2> QED BY <2>3, <2>5, <2>6
  <1>5. Shape'
    BY <1>3, <1>4 DEF Shape
  <1>6. Owners'
    <2>1. \A b, c \in building' : b[1] = c[1] => b = c
      <3>1. \A b \in building : b[1] # o
        BY <1>1 DEF InConstructor
      <3>2. <<o, f>>[1] = o
        OBVIOUS
      <3>3. \A b \in building' : b \in building \/ b = <<o, f>>
        BY <1>1
      <3> QED BY <3>1, <3>2, <3>3 DEF OInv, Owners
    <2>2. building' \subseteq Object \X File /\ alive' \cap InConstructor' = {}
      BY <1>1, <1>2 DEF OInv, Owners
    <2>3. \A p \in Object \ (alive' \cup InConstructor') : obj'[p].mapped = Null
      BY <1>1, <1>3, <1>2 DEF OInv, Owners
    <2>4. Live' \subseteq Address
      BY <1>4 DEF OInv, Owners
    <2> QED BY <2>1, <2>2, <2>3, <2>4 DEF Owners
  <1>7. a # Null /\ m.mapped = a /\ m.size = f.length
    BY NullAssumption DEF Empty
  <1> HIDE DEF m
  <1>8. \A p \in Object : p # o => obj[p].mapped # a
    BY <1>1, <1>7 DEF OInv, OwnedOnce, OwnersHold
  <1>9. OwnersHold'
    BY <1>1, <1>3, <1>4, <1>7, <1>2 DEF OInv, OwnedOnce, OwnersHold
  <1>10. NothingLeaked'
    <2>1. obj[o].mapped = Null /\ Null \notin Live
      BY <1>1, NullAssumption DEF OInv, Owners
    <2> QED BY <1>3, <1>4, <1>7, <2>1 DEF OInv, OwnedOnce, NothingLeaked
  <1>11. NothingShared'
    BY <1>3, <1>7, <1>8 DEF OInv, OwnedOnce, NothingShared
  <1> QED BY <1>5, <1>6, <1>9, <1>10, <1>11 DEF OInv, OwnedOnce

\* A move hands the mapping on, and the object that had it is empty.
LEMMA MoveConstructInv ==
    ASSUME OInv, NEW o \in Object, NEW other \in Object, MoveConstruct(o, other)
    PROVE  OInv'
  <1>1. /\ o \notin alive /\ other \in alive /\ o # other
        /\ alive' = alive \cup {o} /\ length' = length /\ Live' = Live
        /\ o \notin InConstructor /\ building' = building /\ InConstructor' = InConstructor
        /\ obj' = [obj EXCEPT ![o] = obj[other], ![other] = Empty]
    BY DEF MoveConstruct, Live, InConstructor
  <1>2. /\ obj' = [p \in Object |-> obj'[p]]
        /\ obj'[o] = obj[other] /\ obj'[other] = Empty
        /\ \A p \in Object \ {o, other} : obj'[p] = obj[p]
    BY <1>1 DEF OInv, Shape
  <1>3. Shape'
    BY <1>1, <1>2 DEF OInv, Shape
  <1>4. obj[o].mapped = Null /\ Empty.mapped = Null
    BY <1>1 DEF OInv, Owners, Empty
  <1>5. Owners'
    BY <1>1, <1>2, <1>4 DEF OInv, Owners
  <1>6. OwnersHold'
    BY <1>1, <1>2, <1>4 DEF OInv, OwnedOnce, OwnersHold
  <1>7. NothingLeaked'
    <2> SUFFICES ASSUME NEW a \in Live PROVE \E p \in Object : obj'[p].mapped = a
      BY <1>1 DEF NothingLeaked
    <2>1. PICK q \in Object : obj[q].mapped = a
      BY DEF OInv, OwnedOnce, NothingLeaked
    <2>2. a # Null
      BY NullAssumption DEF OInv, Owners
    <2>3. q # o
      BY <1>4, <2>1, <2>2
    <2>4. CASE q = other
      BY <1>2, <2>1, <2>4
    <2>5. CASE q # other
      BY <1>2, <2>1, <2>3, <2>5
    <2> QED BY <2>4, <2>5
  <1>8. NothingShared'
    BY <1>1, <1>2, <1>4 DEF OInv, OwnedOnce, NothingShared
  <1> QED BY <1>3, <1>5, <1>6, <1>7, <1>8 DEF OInv, OwnedOnce

\* What Release() leaves: all mappings but the one that o owned, if any.
LEMMA Released ==
    ASSUME OInv, NEW o \in Object
    PROVE  /\ DOMAIN Release(o) = Live \ {obj[o].mapped}
           /\ Release(o) = [b \in Live \ {obj[o].mapped} |-> Release(o)[b]]
           /\ \A b \in Live \ {obj[o].mapped} : Release(o)[b] = length[b]
  <1>1. CASE obj[o].mapped = Null
    <2>1. Live \ {obj[o].mapped} = Live
      BY <1>1, NullAssumption DEF OInv, Owners
    <2>2. Release(o) = length
      BY <1>1 DEF Release
    <2> QED BY <2>1, <2>2 DEF OInv, Shape, Live
  <1>2. CASE obj[o].mapped # Null
    BY <1>2, MappingsType DEF Release
  <1> QED BY <1>1, <1>2

\* An assignment unmaps what its target owned and hands the other mapping on.
LEMMA MoveAssignInv ==
    ASSUME OInv, NEW o \in Object, NEW other \in Object, MoveAssign(o, other)
    PROVE  OInv'
  <1>1. CASE o = other
    BY <1>1 DEF MoveAssign, OInv, Shape, Owners, OwnedOnce, OwnersHold,
                       NothingLeaked, NothingShared, Live, InConstructor
  <1>2. CASE o # other
    <2>1. /\ {o, other} \subseteq alive /\ alive' = alive
          /\ length' = Release(o)
          /\ obj' = [obj EXCEPT ![o] = obj[other], ![other] = Empty]
          /\ building' = building /\ InConstructor' = InConstructor
      BY <1>2 DEF MoveAssign, InConstructor
    <2>2. /\ obj' = [p \in Object |-> obj'[p]]
          /\ obj'[o] = obj[other] /\ obj'[other] = Empty
          /\ \A p \in Object \ {o, other} : obj'[p] = obj[p]
      BY <1>2, <2>1 DEF OInv, Shape
    <2>3. /\ Live' = Live \ {obj[o].mapped}
          /\ length' = [b \in Live' |-> length'[b]]
          /\ \A b \in Live' : length'[b] = length[b]
      BY <2>1, Released DEF Live
    <2>4. Shape'
      BY <2>2, <2>3 DEF Shape
    <2>5. Empty.mapped = Null
      BY DEF Empty
    <2>6. Owners'
      BY <2>1, <2>2, <2>3, <2>5 DEF OInv, Owners
    <2>7. \A p \in Object \ {o} : obj[p].mapped # Null => obj[p].mapped \in Live'
      BY <2>3 DEF OInv, OwnedOnce, OwnersHold, NothingShared
    <2>8. OwnersHold'
      BY <1>2, <2>1, <2>2, <2>3, <2>5, <2>7 DEF OInv, OwnedOnce, OwnersHold
    <2>9. NothingLeaked'
      <3> SUFFICES ASSUME NEW a \in Live' PROVE \E p \in Object : obj'[p].mapped = a
        BY DEF NothingLeaked
      <3>1. PICK q \in Object : obj[q].mapped = a
        BY <2>3 DEF OInv, OwnedOnce, NothingLeaked
      <3>2. q # o
        BY <2>3, <3>1
      <3>3. CASE q = other
        BY <2>2, <3>1, <3>3
      <3>4. CASE q # other
        BY <2>2, <3>1, <3>2, <3>4
      <3> QED BY <3>3, <3>4
    <2>10. NothingShared'
      BY <1>2, <2>2, <2>5 DEF OInv, OwnedOnce, NothingShared
    <2> QED BY <2>4, <2>6, <2>8, <2>9, <2>10 DEF OInv, OwnedOnce
  <1> QED BY <1>1, <1>2

\* The destructor, and the constructor that throws, unmap what the object owned.
LEMMA ReleaseInv ==
    ASSUME OInv, NEW o \in Object,
           length' = Release(o), obj' = [obj EXCEPT ![o] = Empty],
           building' \subseteq building, alive' \subseteq alive,
           alive' \cup InConstructor' = (alive \cup InConstructor) \ {o}
    PROVE  OInv'
  <1>1. InConstructor' \subseteq InConstructor
    BY DEF InConstructor
  <1>2. /\ obj' = [p \in Object |-> obj'[p]]
        /\ obj'[o] = Empty
        /\ \A p \in Object \ {o} : obj'[p] = obj[p]
    BY DEF OInv, Shape
  <1>3. /\ Live' = Live \ {obj[o].mapped}
        /\ length' = [b \in Live' |-> length'[b]]
        /\ \A b \in Live' : length'[b] = length[b]
    BY Released DEF Live
  <1>4. Shape'
    BY <1>2, <1>3 DEF Shape
  <1>5. Empty.mapped = Null
    BY DEF Empty
  <1>6. Owners'
    <2>1. \A p \in Object \ (alive' \cup InConstructor') : obj'[p].mapped = Null
      BY <1>2, <1>5 DEF OInv, Owners
    <2>2. Live' \subseteq Address
      BY <1>3 DEF OInv, Owners
    <2>3. building' \subseteq Object \X File /\ alive' \cap InConstructor' = {}
      BY <1>1 DEF OInv, Owners
    <2>4. \A b, c \in building' : b[1] = c[1] => b = c
      BY DEF OInv, Owners
    <2> QED BY <2>1, <2>2, <2>3, <2>4 DEF Owners
  <1>7. \A p \in Object \ {o} : obj[p].mapped # Null => obj[p].mapped \in Live'
    BY <1>3 DEF OInv, OwnedOnce, OwnersHold, NothingShared
  <1>8. OwnersHold'
    BY <1>2, <1>3, <1>5, <1>7 DEF OInv, OwnedOnce, OwnersHold
  <1>9. NothingLeaked'
    BY <1>2, <1>3 DEF OInv, OwnedOnce, NothingLeaked
  <1>10. NothingShared'
    BY <1>2, <1>5 DEF OInv, OwnedOnce, NothingShared
  <1> QED BY <1>4, <1>6, <1>8, <1>9, <1>10 DEF OInv, OwnedOnce

\* A constructor that throws at one of its checks has unmapped its file.
LEMMA ThrowsInv ==
    ASSUME OInv, NEW o \in Object, NEW f \in File, Throws(o, f)
    PROVE  OInv'
  <1>1. /\ <<o, f>> \in building /\ building' = building \ {<<o, f>>} /\ alive' = alive
        /\ obj' = [obj EXCEPT ![o] = Empty] /\ length' = Release(o)
    BY DEF Throws
  <1>2. o \in InConstructor /\ InConstructor' = InConstructor \ {o}
    BY <1>1, BuildingChanges DEF OInv
  <1>3. o \notin alive
    BY <1>2 DEF OInv, Owners
  <1> QED BY <1>1, <1>2, <1>3, ReleaseInv

\* A constructor that returns leaves the mapping with its object.
LEMMA ConstructorReturnsInv ==
    ASSUME OInv, NEW o \in Object, NEW f \in File, ConstructorReturns(o, f)
    PROVE  OInv'
  <1> DEFINE m == [mapped |-> obj[o].mapped, size |-> obj[o].size,
                   data |-> obj[o].mapped, dim |-> f.dim, count |-> f.count]
  <1>1. /\ <<o, f>> \in building /\ building' = building \ {<<o, f>>}
        /\ alive' = alive \cup {o} /\ length' = length /\ Live' = Live
        /\ obj' = [obj EXCEPT ![o] = m]
    BY DEF ConstructorReturns, Live
  <1>2. o \in InConstructor /\ InConstructor' = InConstructor \ {o}
    BY <1>1, BuildingChanges DEF OInv
  <1>3. /\ obj' = [p \in Object |-> obj'[p]]
        /\ \A p \in Object : obj'[p].mapped = obj[p].mapped /\ obj'[p].size = obj[p].size
    BY <1>1 DEF OInv, Shape
  <1>4. alive' \cup InConstructor' = alive \cup InConstructor
    BY <1>1, <1>2
  <1>5. Shape'
    BY <1>1, <1>3 DEF OInv, Shape
  <1>6. Owners'
    BY <1>1, <1>2, <1>3, <1>4 DEF OInv, Owners
  <1>7. OwnersHold'
    BY <1>1, <1>3, <1>4 DEF OInv, OwnedOnce, OwnersHold
  <1>8. NothingLeaked' /\ NothingShared'
    BY <1>1, <1>3 DEF OInv, OwnedOnce, NothingLeaked, NothingShared
  <1> QED BY <1>5, <1>6, <1>7, <1>8 DEF OInv, OwnedOnce

\* The destructor unmaps what the object owned.
LEMMA DestroyInv ==
    ASSUME OInv, NEW o \in Object, Destroy(o)
    PROVE  OInv'
  <1>1. /\ o \in alive /\ alive' = alive \ {o} /\ length' = Release(o)
        /\ obj' = [obj EXCEPT ![o] = Empty] /\ building' = building
        /\ InConstructor' = InConstructor
    BY DEF Destroy, InConstructor
  <1>2. o \notin InConstructor
    BY <1>1 DEF OInv, Owners
  <1> QED BY <1>1, <1>2, ReleaseInv

-----------------------------------------------------------------------------

\* The invariant of ownership.
THEOREM OwnershipInvariance == Spec => []OInv
  <1>1. OInv /\ [Next]_vars => OInv'
    <2> SUFFICES ASSUME OInv, [Next]_vars PROVE OInv'
      OBVIOUS
    <2>1. ASSUME NEW o \in Object, NEW f \in File, NEW a \in Address, ConstructorMaps(o, f, a)
          PROVE  OInv'
      BY <2>1, ConstructorMapsInv
    <2>2. ASSUME UNCHANGED vars
          PROVE  OInv'
      BY <2>2 DEF vars, OInv, Shape, Owners, OwnedOnce, OwnersHold, NothingLeaked,
                  NothingShared, Live, InConstructor
    <2>3. ASSUME NEW o \in Object, NEW f \in File, Throws(o, f) \/ ConstructorReturns(o, f)
          PROVE  OInv'
      BY <2>3, ThrowsInv, ConstructorReturnsInv
    <2>4. ASSUME NEW o \in Object, NEW other \in Object, MoveConstruct(o, other)
          PROVE  OInv'
      BY <2>4, MoveConstructInv
    <2>5. ASSUME NEW o \in Object, NEW other \in Object, MoveAssign(o, other)
          PROVE  OInv'
      BY <2>5, MoveAssignInv
    <2>6. ASSUME NEW o \in Object, Destroy(o)
          PROVE  OInv'
      BY <2>6, DestroyInv
    <2> QED BY <2>1, <2>2, <2>3, <2>4, <2>5, <2>6, NextSteps DEF OInv
  <1> QED BY <1>1, InitInv, PTL DEF Spec

\* Every mapping belongs to exactly one object, through constructors that throw
\* and any sequence of moves (mmap_store.cpp:47-89, 95-133).
THEOREM MappingsOwnedOnce == Spec => []OwnedOnce
  BY OwnershipInvariance, PTL DEF OInv

-----------------------------------------------------------------------------
(* Reading the vectors.                                                    *)

\* What the proofs use of the arithmetic of size_t.
LEMMA SizeTFacts ==
    /\ \A n \in Nat : SizeT(n) \in Nat /\ SizeT(n) <= n
    /\ \A n, m \in Nat : n <= m /\ SizeT(m) = m => SizeT(n) = n
  <1> DEFINE W == 2 ^ (2 * WordWidth)
  <1>1. W \in Nat \ {0}
    <2>1. 2 * WordWidth \in Nat
      BY WidthAssumption
    <2>2. W \in Int
      BY <2>1
    <2> QED BY <2>2, SizesAssumption DEF Size
  <1>2. \A n : SizeT(n) = n % W
    BY DEF SizeT
  <1> HIDE DEF W
  <1>3. \A n \in Nat : n % W \in Nat /\ n % W <= n /\ n % W < W
    BY <1>1
  <1>4. \A n \in Nat : n < W => n % W = n
    BY <1>1
  <1> QED BY <1>1, <1>2, <1>3, <1>4

LEMMA Products ==
    /\ \A a, b \in Nat : a * b \in Nat
    /\ \A a, b, c \in Nat : a <= b => a * c <= b * c
    /\ \A a \in Nat, d \in Nat \ {0} : a \div d \in Nat /\ (a \div d) * d <= a
  <1>1. \A a, b \in Nat : a * b \in Nat
    OBVIOUS
  <1>2. \A a, b, c \in Nat : a <= b => a * c <= b * c
    OBVIOUS
  <1>3. \A a \in Nat, d \in Nat \ {0} : a \div d \in Nat /\ (a \div d) * d <= a
    OBVIOUS
  <1> QED BY <1>1, <1>2, <1>3

\* When the constructor accepts a header, the size it computed is the real one:
\* dividing the product back leaves no room for a wrap of size_t in either
\* multiplication.
LEMMA VectorsSizeExact ==
    ASSUME NEW f \in File, Accepts(f), f.count # 0
    PROVE  /\ f.count \in Nat /\ f.dim \in Nat \ {0} /\ FloatSize \in Nat \ {0}
           /\ VectorsSize(f) = (f.count * f.dim) * FloatSize
           /\ SizeT((f.count * f.dim) * FloatSize) = (f.count * f.dim) * FloatSize
           /\ SizeT(f.count * f.dim) = f.count * f.dim
  <1>1. f.count \in Nat /\ f.dim \in Nat \ {0} /\ FloatSize \in Nat \ {0}
    <2>1. f.count \in Word /\ f.dim \in Word
      BY FileAssumption
    <2>2. FloatSize \in Nat \ {0}
      BY SizesAssumption DEF Size
    <2>3. f.dim # 0
      BY DEF Accepts
    <2>4. \A n \in Word : n \in Nat
      BY DEF Word
    <2> QED BY <2>1, <2>2, <2>3, <2>4
  <1> DEFINE cd == f.count * f.dim
             vs == VectorsSize(f)
  <1>2. cd \in Nat /\ cd * FloatSize \in Nat /\ SizeT(cd) \in Nat /\ SizeT(cd) <= cd
    BY <1>1, Products, SizeTFacts
  <1>3. vs = SizeT(SizeT(cd) * FloatSize)
    BY DEF VectorsSize
  <1>4. SizeT(cd) * FloatSize \in Nat /\ SizeT(cd) * FloatSize <= cd * FloatSize
    BY <1>1, <1>2, Products
  <1>5. vs \in Nat /\ vs <= SizeT(cd) * FloatSize
    BY <1>3, <1>4, SizeTFacts
  <1>6. (vs \div f.dim) \div FloatSize = f.count
    BY DEF Accepts, Overflows
  <1> HIDE DEF vs
  <1>7. cd * FloatSize <= vs
    <2> DEFINE q == vs \div f.dim
    <2>1. q \in Nat /\ q * f.dim <= vs
      BY <1>1, <1>5, Products
    <2>2. f.count * FloatSize <= q /\ f.count * FloatSize \in Nat
      BY <1>1, <1>6, <2>1, Products
    <2> HIDE DEF q
    <2>3. (f.count * FloatSize) * f.dim <= q * f.dim
      BY <1>1, <2>1, <2>2, Products
    <2>4. \A a, b, c \in Nat : (a * b) * c = (a * c) * b
      OBVIOUS
    <2>5. (f.count * FloatSize) * f.dim = cd * FloatSize
      BY <1>1, <2>4
    <2>6. q * f.dim \in Nat
      BY <1>1, <2>1, Products
    <2> HIDE DEF cd
    <2> QED BY <1>2, <1>5, <2>1, <2>3, <2>5, <2>6
  <1> HIDE DEF cd
  <1>8. vs = cd * FloatSize /\ SizeT(cd) * FloatSize = cd * FloatSize
    BY <1>2, <1>4, <1>5, <1>7
  <1>9. SizeT(cd) = cd
    <2>1. \A a, b, c \in Nat : c # 0 /\ a * c = b * c => a = b
      OBVIOUS
    <2> QED BY <1>1, <1>2, <1>8, <2>1
  <1>10. SizeT(cd * FloatSize) = cd * FloatSize
    BY <1>3, <1>8
  <1> QED BY <1>1, <1>8, <1>9, <1>10 DEF vs, cd

\* Behind the header of a file that the constructor accepts there is room for
\* every vector that it announces, where get_vector() looks for it.
LEMMA RoomForVector ==
    ASSUME NEW f \in File, Accepts(f), NEW offset \in 0 .. f.count - 1
    PROVE  HeaderSize + SizeT(SizeT(offset * f.dim) * FloatSize) + f.dim * FloatSize <= f.length
  <1> DEFINE F == FloatSize
             d == f.dim
             c == f.count
  <1>1. c \in Int
    BY FileAssumption DEF Word
  <1>2. c # 0 /\ offset \in Nat /\ offset + 1 <= c
    BY <1>1
  <1>3. /\ c \in Nat /\ d \in Nat \ {0} /\ F \in Nat \ {0}
        /\ VectorsSize(f) = (c * d) * F
        /\ SizeT((c * d) * F) = (c * d) * F /\ SizeT(c * d) = c * d
    BY <1>2, VectorsSizeExact
  <1>4. HeaderSize \in Nat /\ f.length \in Nat /\ HeaderSize + VectorsSize(f) <= f.length
    <2>1. f.length \in Size /\ HeaderSize \in Size
      BY FileAssumption, SizesAssumption
    <2>2. f.length \in Nat /\ HeaderSize \in Nat
      BY <2>1 DEF Size
    <2>3. VectorsSize(f) \in Nat
      BY <1>3, Products
    <2> QED BY <2>2, <2>3 DEF Accepts
  <1> HIDE DEF F, d, c
  <1>5. /\ offset * d \in Nat /\ d * F \in Nat /\ c * d \in Nat /\ (c * d) * F \in Nat
        /\ (offset * d) * F \in Nat
    BY <1>2, <1>3, Products
  <1>6. offset * d + d <= c * d
    <2>1. (offset + 1) * d <= c * d
      BY <1>2, <1>3, Products
    <2>2. \A a, b \in Nat : (a + 1) * b = a * b + b
      OBVIOUS
    <2> QED BY <1>2, <1>3, <2>1, <2>2
  <1>7. (offset * d) * F + d * F <= (c * d) * F
    <2>1. \A a, b, e \in Nat : (a + b) * e = a * e + b * e
      OBVIOUS
    <2>2. (offset * d + d) * F <= (c * d) * F
      BY <1>3, <1>5, <1>6, Products
    <2> QED BY <1>3, <1>5, <2>1, <2>2
  <1>8. SizeT(offset * d) = offset * d
    BY <1>3, <1>5, <1>6, SizeTFacts
  <1>9. SizeT((offset * d) * F) = (offset * d) * F
    BY <1>3, <1>5, <1>7, SizeTFacts
  <1>10. HeaderSize + (offset * d) * F + d * F <= f.length
    BY <1>3, <1>4, <1>5, <1>7
  <1> QED BY <1>8, <1>9, <1>10 DEF F, d

\* An object that owns a mapping, its constructor having returned, has the header
\* of the file that is mapped there, which the constructor accepted; without a
\* mapping it has no vectors.
HeaderAccepted(o) ==
    IF obj[o].mapped = Null THEN obj[o].count = 0
    ELSE /\ obj[o].data = obj[o].mapped
         /\ \E f \in File : /\ Accepts(f)
                            /\ obj[o].size = f.length
                            /\ obj[o].dim = f.dim
                            /\ obj[o].count = f.count

HeadersInv ==
    /\ alive \subseteq Object
    /\ \A o \in alive : HeaderAccepted(o)
    /\ \A b \in building : obj[b[1]].mapped # Null /\ obj[b[1]].size = b[2].length

\* A step gives an object the members of another, of an accepted file, or none.
LEMMA HeadersStep ==
    ASSUME OInv, HeadersInv, [Next]_vars
    PROVE  HeadersInv'
  <1>1. /\ obj = [o \in Object |-> obj[o]]
        /\ \A b \in building : b[1] \in InConstructor /\ b[1] \in Object
        /\ alive \cap InConstructor = {}
    BY DEF OInv, Shape, Owners, InConstructor
  <1>2. Empty.mapped = Null /\ Empty.count = 0
    BY DEF Empty
  <1>3. ASSUME NEW o \in Object, NEW f \in File, NEW a \in Address, ConstructorMaps(o, f, a)
        PROVE  HeadersInv'
    <2> DEFINE m == [Empty EXCEPT !.mapped = a, !.size = f.length]
    <2>1. /\ obj' = [obj EXCEPT ![o] = m] /\ alive' = alive
          /\ building' = building \cup {<<o, f>>} /\ o \notin alive \cup InConstructor
      BY <1>3 DEF ConstructorMaps
    <2>2. obj'[o] = m /\ \A p \in Object : p # o => obj'[p] = obj[p]
      BY <1>1, <2>1
    <2>3. m.mapped = a /\ m.size = f.length /\ a # Null
      BY NullAssumption DEF Empty
    <2>4. \A p \in alive' : HeaderAccepted(p)'
      BY <2>1, <2>2 DEF HeadersInv, HeaderAccepted
    <2>5. <<o, f>>[1] = o /\ <<o, f>>[2] = f
      OBVIOUS
    <2>6. \A b \in building' : obj'[b[1]].mapped # Null /\ obj'[b[1]].size = b[2].length
      <3>1. \A b \in building' : b \in building \/ b = <<o, f>>
        BY <2>1
      <3> QED BY <1>1, <2>1, <2>2, <2>3, <2>5, <3>1 DEF HeadersInv
    <2> QED BY <2>1, <2>4, <2>6 DEF HeadersInv
  <1>4. ASSUME NEW o \in Object, NEW f \in File, Throws(o, f) \/ ConstructorReturns(o, f)
        PROVE  HeadersInv'
    <2>1. <<o, f>> \in building /\ building' = building \ {<<o, f>>}
      BY <1>4 DEF Throws, ConstructorReturns
    <2>2. \A p \in Object : p # o => obj'[p] = obj[p]
      BY <1>1, <1>4 DEF Throws, ConstructorReturns
    <2>3. <<o, f>>[1] = o /\ <<o, f>>[2] = f
      OBVIOUS
    <2>4. o \in InConstructor /\ o \notin alive /\ \A b \in building' : b[1] # o
      BY <1>1, <2>1, <2>3 DEF OInv, Owners
    <2>5. \A b \in building' : obj'[b[1]].mapped # Null /\ obj'[b[1]].size = b[2].length
      BY <1>1, <2>1, <2>2, <2>4 DEF HeadersInv
    <2>6. \A p \in alive : HeaderAccepted(p)'
      BY <2>2, <2>4 DEF HeadersInv, HeaderAccepted
    <2>7. CASE Throws(o, f)
      BY <2>5, <2>6, <2>7 DEF HeadersInv, Throws
    <2>8. CASE ConstructorReturns(o, f)
      <3>1. /\ Accepts(f) /\ alive' = alive \cup {o}
            /\ obj'[o] = [mapped |-> obj[o].mapped, size |-> obj[o].size,
                          data |-> obj[o].mapped, dim |-> f.dim, count |-> f.count]
        BY <1>1, <2>8 DEF ConstructorReturns
      <3>2. obj[o].mapped # Null /\ obj[o].size = f.length
        BY <2>1, <2>3 DEF HeadersInv
      <3>3. HeaderAccepted(o)'
        BY <3>1, <3>2 DEF HeaderAccepted
      <3> QED BY <2>5, <2>6, <3>1, <3>3 DEF HeadersInv
    <2> QED BY <1>4, <2>7, <2>8
  <1>5. ASSUME NEW o \in Object, NEW other \in alive,
               obj' = [obj EXCEPT ![o] = obj[other], ![other] = Empty],
               o \notin InConstructor, building' = building, alive' = alive \cup {o}
        PROVE  HeadersInv'
    <2>1. other \in Object /\ other \notin InConstructor
      BY <1>1 DEF HeadersInv
    <2>2. /\ obj'[other] = Empty /\ (o # other => obj'[o] = obj[other])
          /\ \A p \in Object \ {o, other} : obj'[p] = obj[p]
      BY <1>1, <1>5, <2>1
    <2>3. \A p \in alive' : obj'[p] = Empty \/ \E q \in alive : obj'[p] = obj[q]
      BY <1>5, <2>2 DEF HeadersInv
    <2>4. \A p : obj'[p] = Empty => HeaderAccepted(p)'
      BY <1>2 DEF HeaderAccepted
    <2>5. \A p, q : obj'[p] = obj[q] /\ HeaderAccepted(q) => HeaderAccepted(p)'
      BY DEF HeaderAccepted
    <2>6. \A p \in alive' : HeaderAccepted(p)'
      BY <2>3, <2>4, <2>5 DEF HeadersInv
    <2>7. \A b \in building' : obj'[b[1]].mapped # Null /\ obj'[b[1]].size = b[2].length
      BY <1>1, <1>5, <2>1, <2>2 DEF HeadersInv
    <2> QED BY <1>5, <2>6, <2>7 DEF HeadersInv
  <1>6. ASSUME NEW o \in Object, NEW other \in Object, MoveConstruct(o, other)
        PROVE  HeadersInv'
    BY <1>5, <1>6 DEF MoveConstruct
  <1>7. ASSUME obj' = obj, alive' = alive, building' = building
        PROVE  HeadersInv'
    BY <1>7 DEF HeadersInv, HeaderAccepted
  <1>8. ASSUME NEW o \in Object, NEW other \in Object, MoveAssign(o, other)
        PROVE  HeadersInv'
    <2>1. /\ alive' = alive /\ building' = building /\ {o, other} \subseteq alive
          /\ alive' = alive \cup {o} /\ o \notin InConstructor
      BY <1>1, <1>8 DEF MoveAssign
    <2>2. CASE o = other
      BY <1>7, <1>8, <2>1, <2>2 DEF MoveAssign
    <2>3. CASE o # other
      BY <1>5, <1>8, <2>1, <2>3 DEF MoveAssign
    <2> QED BY <2>2, <2>3
  <1>9. ASSUME NEW o \in Object, Destroy(o)
        PROVE  HeadersInv'
    <2>1. /\ obj' = [obj EXCEPT ![o] = Empty] /\ alive' = alive \ {o} /\ o \in alive
          /\ building' = building
      BY <1>9 DEF Destroy
    <2>2. obj'[o] = Empty /\ \A p \in Object : p # o => obj'[p] = obj[p]
      BY <1>1, <2>1
    <2>3. \A b \in building' : obj'[b[1]].mapped # Null /\ obj'[b[1]].size = b[2].length
      BY <1>1, <2>1, <2>2 DEF HeadersInv
    <2>4. \A p \in alive' : HeaderAccepted(p)'
      BY <2>1, <2>2 DEF HeadersInv, HeaderAccepted
    <2> QED BY <2>1, <2>3, <2>4 DEF HeadersInv
  <1> QED BY <1>3, <1>4, <1>6, <1>7, <1>8, <1>9, NextSteps DEF OInv, vars

\* For words of any width and any files: get_vector() of an offset that size()
\* allows lies within a mapping that is still there, whatever the header says
\* and whatever was moved or destroyed before (mmap_store.cpp:60-92, 135-139).
THEOREM ReadsStayInBounds == Spec => []ReadsInBounds
  <1>1. Init => HeadersInv
    <2> SUFFICES ASSUME Init PROVE HeadersInv
      OBVIOUS
    <2>1. alive = {} /\ building = {}
      BY DEF Init
    <2> QED BY <2>1 DEF HeadersInv
  <1>2. OInv /\ HeadersInv /\ [Next]_vars => HeadersInv'
    BY HeadersStep
  <1>3. OInv /\ HeadersInv => ReadsInBounds
    <2> SUFFICES ASSUME OInv, HeadersInv, NEW o \in alive, NEW offset \in 0 .. obj[o].count - 1
                 PROVE  /\ obj[o].data \in Live
                        /\ HeaderSize + SizeT(SizeT(offset * obj[o].dim) * FloatSize)
                              + obj[o].dim * FloatSize <= length[obj[o].data]
      BY DEF ReadsInBounds
    <2>1. o \in Object /\ HeaderAccepted(o)
      BY DEF HeadersInv
    <2>2. obj[o].mapped # Null
      BY <2>1 DEF HeaderAccepted
    <2>3. PICK f \in File : /\ Accepts(f) /\ obj[o].size = f.length
                            /\ obj[o].dim = f.dim /\ obj[o].count = f.count
      BY <2>1, <2>2 DEF HeaderAccepted
    <2>4. obj[o].data = obj[o].mapped
      BY <2>1, <2>2 DEF HeaderAccepted
    <2>5. obj[o].mapped \in Live /\ obj[o].size = length[obj[o].mapped]
      BY <2>1, <2>2 DEF OInv, OwnedOnce, OwnersHold
    <2>6. HeaderSize + SizeT(SizeT(offset * f.dim) * FloatSize) + f.dim * FloatSize <= f.length
      BY <2>3, RoomForVector
    <2> QED BY <2>3, <2>4, <2>5, <2>6
  <1> QED BY <1>1, <1>2, <1>3, OwnershipInvariance, PTL DEF Spec

-----------------------------------------------------------------------------
(* Marks of the nodes that a search has met.                               *)

\* An entry of a sequence is one of its range.
LEMMA EntryType ==
    ASSUME NEW S, NEW s \in Seq(S), NEW i \in DOMAIN s
    PROVE  s[i] \in S
  OBVIOUS

\* A fresh index has no marks and no search.
LEMMA MarksInitInv == MarksInit => MarksInv
  <1> SUFFICES ASSUME MarksInit PROVE MarksInv
    OBVIOUS
  <1>1. marks \in Seq(0 .. Generations - 1) /\ Len(marks) = 0 /\ DOMAIN marks = {}
    BY DEF MarksInit
  <1>2. MarksTypeOK
    <2>1. gen \in 0 .. Generations - 1 /\ Len(marks) <= MaxNodes
      BY <1>1, GenerationsAssumption, MaxNodesAssumption DEF MarksInit
    <2>2. looks \in [Node -> Nat] /\ met \subseteq Node /\ searching \in BOOLEAN
      BY DEF MarksInit
    <2> QED BY <1>1, <2>1, <2>2 DEF MarksTypeOK
  <1>3. LooksOnce
    BY DEF MarksInit, LooksOnce
  <1>4. MarksBehind
    BY <1>1 DEF MarksInit, MarksBehind
  <1> QED BY <1>2, <1>3, <1>4 DEF MarksInv

\* The marks of a new graph of n nodes.
LEMMA ZerosType ==
    ASSUME NEW n \in Nat
    PROVE  /\ Zeros(n) \in Seq(0 .. Generations - 1)
           /\ Len(Zeros(n)) = n
           /\ DOMAIN Zeros(n) = 1 .. n
           /\ \A i \in 1 .. n : Zeros(n)[i] = 0
  <1>1. 0 \in 0 .. Generations - 1
    BY GenerationsAssumption
  <1> QED BY <1>1 DEF Zeros

\* A node added between two searches is visited by none.
LEMMA AddNodeInv == MarksInv /\ AddNode => MarksInv'
  <1> SUFFICES ASSUME MarksInv, AddNode PROVE MarksInv'
    OBVIOUS
  <1> USE DEF MarksInv, MarksTypeOK, AddNode
  <1>1. 0 \in 0 .. Generations - 1
    BY GenerationsAssumption
  <1>2. /\ marks' \in Seq(0 .. Generations - 1)
        /\ Len(marks') = Len(marks) + 1
        /\ DOMAIN marks' = 1 .. Len(marks) + 1
        /\ \A n \in 1 .. Len(marks) : marks'[n] = marks[n]
        /\ marks'[Len(marks) + 1] = 0
    BY <1>1
  <1>3. MarksTypeOK'
    BY <1>2, MaxNodesAssumption
  <1>4. LooksOnce'
    BY DEF LooksOnce
  <1>5. MarksBehind'
    BY <1>2 DEF MarksBehind
  <1> QED BY <1>3, <1>4, <1>5

\* An index over a loaded graph starts with marks and counter at zero.
LEMMA NewIndexInv ==
    ASSUME MarksInv, NEW n \in 0 .. MaxNodes, NewIndex(n)
    PROVE  MarksInv'
  <1> USE DEF MarksInv, MarksTypeOK, NewIndex
  <1>1. n \in Nat
    BY MaxNodesAssumption
  <1>2. MarksTypeOK'
    BY <1>1, ZerosType, GenerationsAssumption, MaxNodesAssumption
  <1>3. LooksOnce'
    BY DEF LooksOnce
  <1>4. MarksBehind'
    BY <1>1, ZerosType DEF MarksBehind
  <1> QED BY <1>2, <1>3, <1>4

\* The number of a new search is above every mark, and positive.
LEMMA NextGenerationFresh ==
    ASSUME MarksInv, NextGeneration
    PROVE  /\ marks' \in Seq(0 .. Generations - 1)
           /\ Len(marks') = Len(marks)
           /\ gen' \in 1 .. Generations - 1
           /\ \A n \in DOMAIN marks' : marks'[n] < gen'
  <1> USE DEF MarksInv, MarksTypeOK, NextGeneration
  <1>1. Len(marks) \in Nat
    OBVIOUS
  <1>2. CASE gen + 1 = Generations
    BY <1>1, <1>2, ZerosType, GenerationsAssumption
  <1>3. CASE gen + 1 # Generations
    <2>1. gen' = gen + 1 /\ marks' = marks
      BY <1>3
    <2>2. gen \in Nat /\ gen + 1 <= Generations - 1 /\ gen' \in 1 .. Generations - 1
      BY <1>3, <2>1, GenerationsAssumption
    <2>3. \A n \in DOMAIN marks : marks[n] \in 0 .. Generations - 1
      BY EntryType
    <2>4. \A n \in DOMAIN marks : marks[n] <= gen
      BY DEF MarksBehind
    <2>5. \A n \in DOMAIN marks' : marks'[n] < gen'
      BY <2>1, <2>2, <2>3, <2>4, GenerationsAssumption
    <2> QED BY <2>1, <2>2, <2>5
  <1> QED BY <1>2, <1>3

\* So it begins with no node visited.
LEMMA BeginSearchInv == MarksInv /\ BeginSearch => MarksInv'
  <1> SUFFICES ASSUME MarksInv, BeginSearch PROVE MarksInv'
    OBVIOUS
  <1> USE DEF BeginSearch
  <1>1. NextGeneration
    OBVIOUS
  <1>2. /\ marks' \in Seq(0 .. Generations - 1)
        /\ Len(marks') = Len(marks)
        /\ gen' \in 1 .. Generations - 1
        /\ \A n \in DOMAIN marks' : marks'[n] < gen'
    BY <1>1, NextGenerationFresh
  <1>3. \A n \in DOMAIN marks' : marks'[n] \in Nat
    <2>1. \A n \in DOMAIN marks' : marks'[n] \in 0 .. Generations - 1
      BY <1>2, EntryType
    <2> QED BY <2>1, GenerationsAssumption
  <1>4. MarksTypeOK'
    BY <1>2, GenerationsAssumption DEF MarksInv, MarksTypeOK
  <1>5. LooksOnce'
    BY DEF LooksOnce
  <1>6. MarksBehind'
    BY <1>2, <1>3, GenerationsAssumption DEF MarksBehind
  <1> QED BY <1>4, <1>5, <1>6 DEF MarksInv

\* The mark of a node says whether this search has met it already.
LEMMA MeetInv ==
    ASSUME MarksInv, NEW n \in Node, Meet(n)
    PROVE  MarksInv'
  <1> USE DEF MarksInv, MarksTypeOK, Meet
  <1>1. /\ searching /\ n \in DOMAIN marks
        /\ met' = met \cup {n} /\ gen' = gen /\ searching' = searching
    OBVIOUS
  <1>2. /\ gen > 0
        /\ \A k \in DOMAIN marks : marks[k] = gen <=> k \in met
        /\ \A k \in DOMAIN marks : marks[k] <= gen
        /\ met \subseteq DOMAIN marks
    BY <1>1 DEF MarksBehind
  <1>3. CASE marks[n] = gen
    <2>1. n \in met /\ met' = met /\ marks' = marks /\ looks' = looks
      BY <1>1, <1>2, <1>3
    <2> QED BY <1>1, <2>1 DEF LooksOnce, MarksBehind
  <1>4. CASE marks[n] # gen
    <2>1. /\ n \notin met
          /\ marks' = [marks EXCEPT ![n] = gen]
          /\ looks' = [looks EXCEPT ![n] = @ + 1]
      BY <1>1, <1>2, <1>4
    <2>2. /\ marks' \in Seq(0 .. Generations - 1)
          /\ Len(marks') = Len(marks)
          /\ DOMAIN marks' = DOMAIN marks
          /\ \A k \in DOMAIN marks : marks'[k] = IF k = n THEN gen ELSE marks[k]
      BY <1>1, <2>1
    <2>3. MarksTypeOK'
      BY <1>1, <2>1, <2>2
    <2>4. LooksOnce'
      BY <1>1, <2>1 DEF LooksOnce
    <2>5. MarksBehind'
      BY <1>1, <1>2, <2>2 DEF MarksBehind
    <2> QED BY <2>3, <2>4, <2>5
  <1> QED BY <1>3, <1>4

\* The end of a search leaves its marks behind.
LEMMA EndSearchInv == MarksInv /\ EndSearch => MarksInv'
  BY DEF MarksInv, MarksTypeOK, LooksOnce, MarksBehind, EndSearch

-----------------------------------------------------------------------------

\* MarksInv is an invariant of the visited marks (hnsw_index.h:186-189).
THEOREM MarksInvariance == MarksSpec => []MarksInv
  <1>1. MarksInit => MarksInv
    BY MarksInitInv
  <1>2. MarksInv /\ [MarksNext]_marksVars => MarksInv'
    <2> SUFFICES ASSUME MarksInv, [MarksNext]_marksVars PROVE MarksInv'
      OBVIOUS
    <2>1. CASE AddNode
      BY <2>1, AddNodeInv
    <2>2. CASE \E n \in 0 .. MaxNodes : NewIndex(n)
      BY <2>2, NewIndexInv
    <2>3. CASE BeginSearch
      BY <2>3, BeginSearchInv
    <2>4. CASE \E n \in Node : Meet(n)
      BY <2>4, MeetInv
    <2>5. CASE EndSearch
      BY <2>5, EndSearchInv
    <2>6. CASE UNCHANGED marksVars
      BY <2>6 DEF marksVars, MarksInv, MarksTypeOK, LooksOnce, MarksBehind
    <2> QED BY <2>1, <2>2, <2>3, <2>4, <2>5, <2>6 DEF MarksNext
  <1> QED BY <1>1, <1>2, PTL DEF MarksSpec

\* A search looks exactly once at each node it meets, whatever searches before
\* it left behind and wherever the counter stands (hnsw_index.h:279-283, 306-308).
THEOREM EveryNodeOnce == MarksSpec => []LooksOnce
  <1>1. MarksInv => LooksOnce
    BY DEF MarksInv
  <1> QED BY <1>1, MarksInvariance, PTL

\* No mark is ahead of the counter (hnsw_index.h:280-283).
THEOREM NoMarkAhead == MarksSpec => []MarksBehind
  <1>1. MarksInv => MarksBehind
    BY DEF MarksInv
  <1> QED BY <1>1, MarksInvariance, PTL

=============================================================================
