-------------------------- MODULE HnswIndexProofs ---------------------------
(***************************************************************************)
(* Proofs about HnswIndex, for any vectors, any M, ef, number of nodes and *)
(* of layers, and any k and ef_search.                                     *)
(*                                                                         *)
(* The order of the queues comes first, then the selection of neighbours   *)
(* and the main loop of greedy_search(): what each of them returns.  With  *)
(* that a step of insert() is one that HnswGraph allows, and search()      *)
(* answers with the nearest of what it can reach.                          *)
(***************************************************************************)
EXTENDS HnswIndex, FiniteSetTheorems, LoopProofs, TLAPS

-----------------------------------------------------------------------------
(* Sets and orders.                                                        *)

\* R orders the elements of S.
Orders(R, S) ==
    /\ \A a, b \in S : a # b => <<a, b>> \in R \/ <<b, a>> \in R
    /\ \A a \in S : <<a, a>> \notin R
    /\ \A a, b, c \in S : <<a, b>> \in R /\ <<b, c>> \in R => <<a, c>> \in R

\* The elements of S that R puts in front of a.
InFront(R, S, a) == {b \in S : <<b, a>> \in R}

\* How many are in front of an element says where it stands: the ones behind
\* it have more.
LEMMA RankIs ==
    ASSUME NEW S, IsFiniteSet(S), NEW R, Orders(R, S)
    PROVE  /\ \A a \in S : Cardinality(InFront(R, S, a)) \in 0 .. Cardinality(S) - 1
           /\ \A a, b \in S : <<a, b>> \in R =>
                 Cardinality(InFront(R, S, a)) < Cardinality(InFront(R, S, b))
  <1>1. \A T \in SUBSET S : IsFiniteSet(T) /\ Cardinality(T) \in Nat
    BY FS_Subset, FS_CardinalityType
  <1>2. \A T, U \in SUBSET S : T \subseteq U /\ T # U => Cardinality(T) < Cardinality(U)
    <2> SUFFICES ASSUME NEW T \in SUBSET S, NEW U \in SUBSET S, T \subseteq U, T # U
                 PROVE  Cardinality(T) < Cardinality(U)
      OBVIOUS
    <2>1. IsFiniteSet(U) /\ Cardinality(T) \in Nat /\ Cardinality(U) \in Nat
      BY <1>1
    <2>2. Cardinality(T) <= Cardinality(U) /\ Cardinality(U) # Cardinality(T)
      BY <2>1, FS_Subset
    <2> QED BY <2>1, <2>2
  <1>3. ASSUME NEW a \in S
        PROVE  Cardinality(InFront(R, S, a)) \in 0 .. Cardinality(S) - 1
    <2>1. InFront(R, S, a) \subseteq S /\ InFront(R, S, a) # S
      BY DEF InFront, Orders
    <2>2. Cardinality(InFront(R, S, a)) < Cardinality(S)
      BY <1>2, <2>1
    <2>3. Cardinality(InFront(R, S, a)) \in Nat /\ Cardinality(S) \in Nat
      BY <1>1, <2>1
    <2> QED BY <2>2, <2>3
  <1>4. ASSUME NEW a \in S, NEW b \in S, <<a, b>> \in R
        PROVE  Cardinality(InFront(R, S, a)) < Cardinality(InFront(R, S, b))
    <2>1. InFront(R, S, a) \subseteq InFront(R, S, b)
      BY <1>4 DEF InFront, Orders
    <2>2. a \in InFront(R, S, b) /\ a \notin InFront(R, S, a)
      BY <1>4 DEF InFront, Orders
    <2>3. InFront(R, S, b) \subseteq S
      BY DEF InFront
    <2> QED BY <1>2, <2>1, <2>2, <2>3
  <1> QED BY <1>3, <1>4

\* A finite set that is ordered has a first element.
LEMMA FirstExists ==
    ASSUME NEW S, IsFiniteSet(S), S # {}, NEW R, Orders(R, S)
    PROVE  \E a \in S : \A b \in S \ {a} : <<a, b>> \in R
  <1> DEFINE rank(a) == Cardinality(InFront(R, S, a))
             T == {rank(a) : a \in S}
  <1>1. /\ \A a \in S : rank(a) \in Nat
        /\ \A a, b \in S : <<a, b>> \in R => rank(a) < rank(b)
    <2>1. /\ \A a \in S : rank(a) \in 0 .. Cardinality(S) - 1
          /\ \A a, b \in S : <<a, b>> \in R => rank(a) < rank(b)
      BY RankIs
    <2> HIDE DEF rank
    <2> QED BY <2>1
  <1> HIDE DEF rank
  <1>2. T \in SUBSET Nat /\ T # {}
    BY <1>1
  <1>3. PICK x \in T : \A y \in T : ~(y < x)
    <2> HIDE DEF T
    <2> QED BY <1>2, LeastNat
  <1>4. PICK a \in S : x = rank(a)
    BY <1>3
  <1>5. \A b \in S : ~(rank(b) < rank(a))
    BY <1>3, <1>4
  <1>6. ASSUME NEW b \in S \ {a} PROVE <<a, b>> \in R
    <2>1. <<b, a>> \notin R
      BY <1>1, <1>5
    <2> QED BY <2>1 DEF Orders
  <1> QED BY <1>6

\* The pairs of the nodes of S.
Pairs(q, S) == {Pair(q, n) : n \in S}

\* A point has as many integers as the store has dimensions.
IsVector(v) == v \in [1 .. Dimensions -> Int]

\* The vectors of the store and the query have the dimensions of the store.
Stored == store \in Seq(Point)

\* A point is a vector of the dimensions of the store.
LEMMA PointIsVector == \A v \in Point : IsVector(v)
  BY PointAssumption DEF IsVector

\* What is stored under an offset is a point.
LEMMA VectorIs ==
    ASSUME Stored
    PROVE  Len(store) \in Nat /\ \A n \in Inserted : Vector(n) \in Point /\ IsVector(Vector(n))
  <1>1. Len(store) \in Nat /\ \A n \in Inserted : n + 1 \in 1 .. Len(store)
    BY DEF Stored, Inserted
  <1>2. \A n \in Inserted : Vector(n) \in Point
    BY <1>1 DEF Stored, Vector
  <1> QED BY <1>1, <1>2, PointIsVector

\* A distance is an integer.
LEMMA DistIs ==
    ASSUME NEW v, NEW w, IsVector(v), IsVector(w)
    PROVE  Dist(v, w) \in Int
  <1> DEFINE N == Dimensions
             Step(i, x) == x + (v[i] - w[i]) * (v[i] - w[i])
             IsSum(h) == h = [i \in 0 .. N |-> IF i = 0 THEN 0 ELSE Step(i, h[i - 1])]
             G == [i \in 1 .. N |-> [x \in Int |-> Step(i, x)]]
             sum == CHOOSE h : IsSum(h)
  <1>1. N \in Nat /\ \A i \in 1 .. N : v[i] \in Int /\ w[i] \in Int
    BY PointAssumption DEF IsVector
  <1>2. \A i \in 1 .. N : \A x \in Int : Step(i, x) \in Int /\ G[i][x] = Step(i, x)
    BY <1>1
  <1>3. G \in [1 .. N -> [Int -> Int]]
    <2> HIDE DEF Step
    <2> QED BY <1>2
  <1>4. PICK f \in [0 .. N -> Int] : f[0] = 0 /\ \A i \in 1 .. N : f[i] = G[i][f[i - 1]]
    <2> DEFINE zero == 0
    <2>1. zero \in Int
      OBVIOUS
    <2> HIDE DEF G, N, zero
    <2>2. Iterations(N, Int, zero, G) # {}
      BY <1>1, <1>3, <2>1, Iterates
    <2> QED BY <2>2 DEF Iterations, zero
  <1>5. IsSum(f)
    <2> HIDE DEF N, G, Step
    <2>1. \A i \in 1 .. N : f[i] = Step(i, f[i - 1])
      <3> TAKE i \in 1 .. N
      <3>1. i - 1 \in 0 .. N
        BY <1>1
      <3> QED BY <1>2, <1>4, <3>1
    <2>2. \A i \in 0 .. N : i # 0 => i \in 1 .. N
      BY <1>1
    <2> QED BY <1>4, <2>1, <2>2
  <1>6. IsSum(sum)
    <2> HIDE DEF N, Step
    <2> QED BY <1>5
  <1>7. Dist(v, w) = sum[N]
    BY DEF Dist
  <1> HIDE DEF sum, N, Step
  <1>8. sum[0] = 0 /\ \A i \in 1 .. N : sum[i] = Step(i, sum[i - 1])
    <2>1. sum = [i \in 0 .. N |-> IF i = 0 THEN 0 ELSE Step(i, sum[i - 1])]
      BY <1>6
    <2>2. 0 \in 0 .. N /\ \A i \in 1 .. N : i \in 0 .. N /\ i # 0
      BY <1>1
    <2> QED BY <2>1, <2>2
  <1> DEFINE T == {i \in 0 .. N : sum[i] \in Int}
  <1>9. 0 \in T
    BY <1>1, <1>8
  <1>10. ASSUME NEW i \in 1 .. N, i - 1 \in T PROVE i \in T
    <2>1. sum[i - 1] \in Int /\ i \in 0 .. N
      BY <1>1, <1>10
    <2> QED BY <1>2, <1>8, <2>1
  <1> HIDE DEF T
  <1>11. N \in T
    <2>1. 0 .. N \subseteq T
      BY <1>1, <1>9, <1>10, UpTo
    <2> QED BY <1>1, <2>1
  <1> QED BY <1>7, <1>11 DEF T

-----------------------------------------------------------------------------
(* std::pair<float, Offset>: a queue never holds an offset twice, so the   *)
(* pairs in it are ordered.                                                *)

\* The nodes are finitely many.
LEMMA InsertedIs ==
    ASSUME Stored
    PROVE  /\ IsFiniteSet(Inserted) /\ Cardinality(Inserted) = Len(store)
           /\ \A n \in Inserted : n \in Nat
           /\ \A S \in SUBSET Inserted :
                 IsFiniteSet(S) /\ Cardinality(S) \in Nat /\ Cardinality(S) <= Len(store)
  <1>1. Len(store) \in Nat
    BY VectorIs
  <1>2. IsFiniteSet(Inserted) /\ Cardinality(Inserted) = Len(store)
    <2>1. 0 \in Int /\ Len(store) - 1 \in Int
      BY <1>1
    <2>2. /\ IsFiniteSet(0 .. Len(store) - 1)
          /\ Cardinality(0 .. Len(store) - 1) =
                IF 0 > Len(store) - 1 THEN 0 ELSE (Len(store) - 1) - 0 + 1
      BY <2>1, FS_Interval
    <2> QED BY <1>1, <2>2 DEF Inserted
  <1>3. \A n \in Inserted : n \in Nat
    BY <1>1 DEF Inserted
  <1>4. ASSUME NEW S \in SUBSET Inserted
        PROVE  IsFiniteSet(S) /\ Cardinality(S) \in Nat /\ Cardinality(S) <= Len(store)
    <2>1. IsFiniteSet(S) /\ Cardinality(S) <= Len(store)
      BY <1>2, FS_Subset
    <2> QED BY <2>1, FS_CardinalityType
  <1> QED BY <1>2, <1>3, <1>4

\* A pair has the distance in front and its node behind.
LEMMA PairIs ==
    ASSUME Stored, NEW q, IsVector(q)
    PROVE  \A n \in Inserted : /\ Pair(q, n)[1] = Dist(q, Vector(n)) /\ Pair(q, n)[1] \in Int
                               /\ Pair(q, n)[2] = n
  BY VectorIs, DistIs DEF Pair

\* There are as many pairs as nodes.
LEMMA PairsAre ==
    ASSUME Stored, NEW q, IsVector(q), NEW S \in SUBSET Inserted
    PROVE  /\ \A a \in Pairs(q, S) : a[1] \in Int /\ a[2] \in S /\ a = Pair(q, a[2])
           /\ \A P \in SUBSET Pairs(q, S) : IsFiniteSet(P) /\ Cardinality(P) \in Nat
           /\ Cardinality(Pairs(q, S)) = Cardinality(S)
  <1>1. \A a \in Pairs(q, S) : a[1] \in Int /\ a[2] \in S /\ a = Pair(q, a[2])
    BY PairIs DEF Pairs
  <1> DEFINE f == [n \in S |-> Pair(q, n)]
  <1>2. f \in Bijection(S, Pairs(q, S))
    <2>1. f \in [S -> Pairs(q, S)]
      BY DEF Pairs
    <2>2. \A a, b \in S : f[a] = f[b] => a = b
      BY PairIs
    <2>3. \A y \in Pairs(q, S) : \E x \in S : f[x] = y
      BY DEF Pairs
    <2> HIDE DEF f
    <2> QED BY <2>1, <2>2, <2>3 DEF Bijection, Injection, Surjection, IsInjective
  <1>3. IsFiniteSet(S)
    BY InsertedIs
  <1>4. IsFiniteSet(Pairs(q, S)) /\ Cardinality(Pairs(q, S)) = Cardinality(S)
    <2>1. ExistsBijection(S, Pairs(q, S))
      BY <1>2 DEF ExistsBijection
    <2> QED BY <1>3, <2>1, FS_Bijection
  <1>5. \A P \in SUBSET Pairs(q, S) : IsFiniteSet(P) /\ Cardinality(P) \in Nat
    BY <1>4, FS_Subset, FS_CardinalityType
  <1> QED BY <1>1, <1>4, <1>5

\* The pairs of P, nearest first.
Order(P) == {t \in P \X P : Closer(t[1], t[2])}

\* A queue of some nodes.
IsQueue(q, P) == P \in SUBSET Pairs(q, Inserted)

\* A queue is a finite set of pairs of nodes, all of them comparable.
LEMMA QueueIs ==
    ASSUME Stored, NEW q, IsVector(q), NEW P, IsQueue(q, P)
    PROVE  /\ \A a \in P : a[1] \in Int /\ a[2] \in Inserted /\ a[2] \in Nat /\ a = Pair(q, a[2])
           /\ IsFiniteSet(P) /\ Cardinality(P) \in Nat
           /\ \A a, b \in P : <<a, b>> \in Order(P) <=> Closer(a, b)
           /\ \A a, b \in P : a # b => a[2] # b[2]
           /\ \A a, b \in P : a # b => Closer(a, b) \/ Closer(b, a)
           /\ \A a, b \in P : Closer(a, b) => ~Closer(b, a) /\ a # b /\ a[1] <= b[1]
           /\ Orders(Order(P), P)
  <1>1. /\ \A a \in P : a[1] \in Int /\ a[2] \in Inserted /\ a = Pair(q, a[2])
        /\ IsFiniteSet(P) /\ Cardinality(P) \in Nat
    BY PairsAre DEF IsQueue
  <1>2. \A a \in P : a[1] \in Int /\ a[2] \in Nat
    BY <1>1, InsertedIs
  <1>3. \A a, b \in P : a # b => a[2] # b[2]
    BY <1>1
  <1>4. \A a, b \in P : a # b => Closer(a, b) \/ Closer(b, a)
    BY <1>2, <1>3 DEF Closer
  <1>5. \A a, b \in P : Closer(a, b) => ~Closer(b, a) /\ a # b /\ a[1] <= b[1]
    BY <1>2 DEF Closer
  <1>6. \A a, b \in P : <<a, b>> \in Order(P) <=> Closer(a, b)
    BY DEF Order
  <1>7. \A a, b, c \in P : Closer(a, b) /\ Closer(b, c) => Closer(a, c)
    BY <1>2 DEF Closer
  <1>8. Orders(Order(P), P)
    BY <1>4, <1>5, <1>6, <1>7 DEF Orders
  <1> QED BY <1>1, <1>2, <1>3, <1>4, <1>5, <1>6, <1>8

\* The nearest of a queue.
LEMMA NearestIs ==
    ASSUME Stored, NEW q, IsVector(q), NEW P, IsQueue(q, P), P # {}
    PROVE  /\ Nearest(P) \in P
           /\ \A b \in P : Nearest(P)[1] <= b[1]
  <1>1. PICK a \in P : \A b \in P \ {a} : <<a, b>> \in Order(P)
    BY QueueIs, FirstExists
  <1>2. \E c \in P : \A b \in P \ {c} : Closer(c, b)
    BY <1>1, QueueIs
  <1>3. Nearest(P) \in P /\ \A b \in P \ {Nearest(P)} : Closer(Nearest(P), b)
    BY <1>2 DEF Nearest
  <1>4. \A b \in P : Nearest(P)[1] <= b[1]
    <2> TAKE b \in P
    <2>1. CASE b = Nearest(P)
      BY <1>3, <2>1, QueueIs
    <2>2. CASE b # Nearest(P)
      BY <1>3, <2>2, QueueIs
    <2> QED BY <2>1, <2>2
  <1> QED BY <1>3, <1>4

\* The worst result, on top of the heap.
LEMMA FarthestIs ==
    ASSUME Stored, NEW q, IsVector(q), NEW P, IsQueue(q, P), P # {}
    PROVE  /\ Farthest(P) \in P
           /\ \A b \in P : b[1] <= Farthest(P)[1]
           /\ \A b \in P \ {Farthest(P)} : Closer(b, Farthest(P))
  <1> DEFINE R == {t \in P \X P : Closer(t[2], t[1])}
  <1>1. /\ \A a, b \in P : <<a, b>> \in R <=> Closer(b, a)
    BY DEF Order
  <1>2. Orders(R, P)
    <2> HIDE DEF R
    <2>1. Orders(Order(P), P) /\ \A a, b \in P : <<b, a>> \in Order(P) <=> <<a, b>> \in R
      BY <1>1, QueueIs
    <2> QED BY <2>1 DEF Orders
  <1>3. PICK a \in P : \A b \in P \ {a} : <<a, b>> \in R
    <2> HIDE DEF R
    <2> QED BY <1>2, QueueIs, FirstExists
  <1>4. \E c \in P : \A b \in P \ {c} : Closer(b, c)
    <2> HIDE DEF R
    <2> QED BY <1>1, <1>3
  <1>5. Farthest(P) \in P /\ \A b \in P \ {Farthest(P)} : Closer(b, Farthest(P))
    BY <1>4 DEF Farthest
  <1>6. \A b \in P : b[1] <= Farthest(P)[1]
    <2> TAKE b \in P
    <2>1. CASE b = Farthest(P)
      BY <1>5, <2>1, QueueIs
    <2>2. CASE b # Farthest(P)
      BY <1>5, <2>2, QueueIs
    <2> QED BY <2>1, <2>2
  <1> QED BY <1>5, <1>6

\* The list of a queue: every node in it once, nearest first.
ListsQueue(q, P, out) ==
    /\ out \in Seq(Inserted)
    /\ Len(out) = Cardinality(P)
    /\ \A i \in 1 .. Len(out) : Pair(q, out[i]) \in P
    /\ \A a \in P : \E i \in 1 .. Len(out) : Pair(q, out[i]) = a /\ out[i] = a[2]
    /\ \A i, j \in 1 .. Len(out) : i < j =>
          out[i] # out[j] /\ Closer(Pair(q, out[i]), Pair(q, out[j]))

\* Popping a queue empty lists it.
LEMMA OffsetsAre ==
    ASSUME Stored, NEW q, IsVector(q), NEW P, IsQueue(q, P)
    PROVE  ListsQueue(q, P, Offsets(P))
  <1> DEFINE N == Cardinality(P)
             f == [a \in P |-> Cardinality(Before(P, a)) + 1]
             at(i) == CHOOSE a \in P : Cardinality(Before(P, a)) = i - 1
             out == [i \in 1 .. N |-> at(i)[2]]
  <1>1. Offsets(P) = out
    BY DEF Offsets
  <1>2. N \in Nat /\ IsFiniteSet(P)
    BY QueueIs
  <1>3. /\ \A a \in P : Cardinality(Before(P, a)) \in 0 .. N - 1
        /\ \A a, b \in P : Closer(a, b) =>
              Cardinality(Before(P, a)) < Cardinality(Before(P, b))
    <2>1. \A a \in P : Before(P, a) = InFront(Order(P), P, a)
      BY QueueIs DEF Before, InFront
    <2> HIDE DEF N
    <2> QED BY <1>2, <2>1, QueueIs, RankIs DEF N
  <1>4. f \in Injection(P, 1 .. N)
    <2>1. \A a \in P : f[a] \in 1 .. N
      BY <1>2, <1>3
    <2>2. \A a, b \in P : Closer(a, b) => f[a] # f[b]
      BY <1>2, <1>3
    <2>3. \A a, b \in P : f[a] = f[b] => a = b
      <3> HIDE DEF f, N
      <3> QED BY <2>2, QueueIs
    <2>4. f \in [P -> 1 .. N]
      BY <2>1
    <2> HIDE DEF f, N
    <2> QED BY <2>3, <2>4 DEF Injection, IsInjective
  <1>5. f \in Surjection(P, 1 .. N)
    <2>1. IsFiniteSet(1 .. N) /\ Cardinality(1 .. N) = N
      <3> HIDE DEF N
      <3>1. 1 \in Int /\ N \in Int
        BY <1>2
      <3>2. IsFiniteSet(1 .. N) /\ Cardinality(1 .. N) = IF 1 > N THEN 0 ELSE N - 1 + 1
        BY <3>1, FS_Interval
      <3> QED BY <1>2, <3>2
    <2>2. Cardinality(P) = N
      OBVIOUS
    <2> HIDE DEF f, N
    <2> QED BY <1>4, <2>1, <2>2, FS_Injection
  <1>6. \A i \in 1 .. N : at(i) \in P /\ Cardinality(Before(P, at(i))) = i - 1
    <2> TAKE i \in 1 .. N
    <2>1. PICK a \in P : f[a] = i
      <3> HIDE DEF f, N
      <3> QED BY <1>5 DEF Surjection
    <2>2. Cardinality(Before(P, a)) = i - 1
      BY <1>2, <1>3, <2>1
    <2> QED BY <2>2
  <1> HIDE DEF at
  <1>7. \A a \in P : \E i \in 1 .. N : at(i) = a
    <2> TAKE a \in P
    <2>1. f[a] \in 1 .. N
      <3> HIDE DEF f, N
      <3> QED BY <1>4 DEF Injection, IsInjective
    <2>2. f[at(f[a])] = f[a]
      <3>1. f[at(f[a])] = Cardinality(Before(P, at(f[a]))) + 1
        BY <1>6, <2>1
      <3>2. f[a] \in Nat
        BY <1>2, <2>1
      <3> HIDE DEF f, N
      <3> QED BY <1>6, <2>1, <3>1, <3>2
    <2>3. at(f[a]) \in P
      BY <1>6, <2>1
    <2>4. at(f[a]) = a
      <3> HIDE DEF f, N
      <3> QED BY <1>4, <2>2, <2>3 DEF Injection, IsInjective
    <2> QED BY <2>1, <2>4
  <1>8. \A i \in 1 .. N : /\ out[i] = at(i)[2] /\ at(i) \in P
                          /\ Pair(q, out[i]) = at(i) /\ out[i] \in Inserted
    <2> HIDE DEF N
    <2> QED BY <1>6, QueueIs
  <1>9. out \in Seq(Inserted) /\ Len(out) = N
    <2>1. \A i \in 1 .. N : at(i)[2] \in Inserted
      BY <1>8
    <2> HIDE DEF N
    <2> QED BY <1>2, <2>1
  <1>10. ASSUME NEW i \in 1 .. N, NEW j \in 1 .. N, i < j
         PROVE  Closer(at(i), at(j)) /\ at(i)[2] # at(j)[2]
    <2>1. at(i) \in P /\ at(j) \in P /\ at(i) # at(j)
      BY <1>2, <1>6, <1>10
    <2>2. ~Closer(at(j), at(i))
      BY <1>2, <1>3, <1>6, <1>10, <2>1
    <2> HIDE DEF N
    <2> QED BY <2>1, <2>2, QueueIs
  <1> HIDE DEF out, N
  <1>11. ListsQueue(q, P, out)
    BY <1>7, <1>8, <1>9, <1>10 DEF ListsQueue, N
  <1> QED BY <1>1, <1>11

-----------------------------------------------------------------------------
(* Lists of nodes.                                                         *)

Distinct(s) == \A i, j \in 1 .. Len(s) : s[i] = s[j] => i = j

\* A list of nodes: its entries, the set of them, and how many there are.
LEMMA ListIs ==
    ASSUME Stored, NEW s \in Seq(Inserted)
    PROVE  /\ Len(s) \in Nat /\ DOMAIN s = 1 .. Len(s)
           /\ \A i \in 1 .. Len(s) : s[i] \in Inserted
           /\ \A n : n \in ToSet(s) <=> \E i \in 1 .. Len(s) : s[i] = n
           /\ ToSet(s) \subseteq Inserted /\ IsFiniteSet(ToSet(s))
           /\ Cardinality(ToSet(s)) \in Nat
           /\ Distinct(s) => Cardinality(ToSet(s)) = Len(s)
           /\ Cardinality(ToSet(s)) = Len(s) => Distinct(s)
  <1>1. /\ Len(s) \in Nat /\ DOMAIN s = 1 .. Len(s)
        /\ \A i \in 1 .. Len(s) : s[i] \in Inserted
    OBVIOUS
  <1>2. \A n : n \in ToSet(s) <=> \E i \in 1 .. Len(s) : s[i] = n
    BY <1>1 DEF ToSet
  <1>3. ToSet(s) \subseteq Inserted
    BY <1>1, <1>2
  <1>4. IsFiniteSet(ToSet(s)) /\ Cardinality(ToSet(s)) \in Nat
    BY <1>3, InsertedIs
  <1>5. s \in Surjection(1 .. Len(s), ToSet(s))
    <2>1. s \in [1 .. Len(s) -> ToSet(s)]
      BY <1>1, <1>2
    <2> QED BY <1>2, <2>1 DEF Surjection
  <1>6. IsFiniteSet(1 .. Len(s)) /\ Cardinality(1 .. Len(s)) = Len(s)
    <2>1. 1 \in Int /\ Len(s) \in Int
      BY <1>1
    <2>2. /\ IsFiniteSet(1 .. Len(s))
          /\ Cardinality(1 .. Len(s)) = IF 1 > Len(s) THEN 0 ELSE Len(s) - 1 + 1
      BY <2>1, FS_Interval
    <2> QED BY <1>1, <2>2
  <1>7. Cardinality(ToSet(s)) = Len(s) <=> s \in Injection(1 .. Len(s), ToSet(s))
    BY <1>5, <1>6, FS_Surjection
  <1>8. s \in Injection(1 .. Len(s), ToSet(s)) <=> Distinct(s)
    BY <1>1, <1>5 DEF Injection, Surjection, IsInjective, Distinct
  <1> QED BY <1>1, <1>2, <1>3, <1>4, <1>7, <1>8

\* A list with another node at its end.
LEMMA AppendIs ==
    ASSUME Stored, NEW s \in Seq(Inserted), NEW c \in Inserted
    PROVE  /\ Append(s, c) \in Seq(Inserted) /\ Len(Append(s, c)) = Len(s) + 1
           /\ ToSet(Append(s, c)) = ToSet(s) \cup {c}
           /\ Distinct(s) /\ c \notin ToSet(s) => Distinct(Append(s, c))
  <1> DEFINE t == Append(s, c)
  <1>1. /\ t \in Seq(Inserted) /\ Len(t) = Len(s) + 1 /\ Len(s) \in Nat /\ t[Len(s) + 1] = c
        /\ \A i \in 1 .. Len(s) : t[i] = s[i]
    OBVIOUS
  <1>2. 1 .. Len(t) = (1 .. Len(s)) \cup {Len(s) + 1}
    BY <1>1
  <1> HIDE DEF t
  <1>3. \A n : n \in ToSet(s) <=> \E i \in 1 .. Len(s) : s[i] = n
    BY ListIs
  <1>4. \A n : n \in ToSet(t) <=> \E i \in 1 .. Len(t) : t[i] = n
    BY <1>1, ListIs
  <1>5. ToSet(t) = ToSet(s) \cup {c}
    BY <1>1, <1>2, <1>3, <1>4
  <1>6. Distinct(s) /\ c \notin ToSet(s) => Distinct(t)
    BY <1>1, <1>2, <1>3 DEF Distinct
  <1> QED BY <1>1, <1>5, <1>6 DEF t

-----------------------------------------------------------------------------
(* select_neighbors_heuristic()                                            *)

\* Candidates without repetition.
AreCandidates(candidates) == candidates \in Seq(Inserted) /\ Distinct(candidates)

\* A selection among the first n candidates.
Chosen(candidates, m, n, sel) ==
    /\ sel \in Seq(Inserted) /\ Distinct(sel) /\ Len(sel) <= m
    /\ \A c \in ToSet(sel) : \E j \in 1 .. n : candidates[j] = c
    /\ n > 0 /\ m > 0 => candidates[1] \in ToSet(sel)

\* One candidate more keeps what is chosen apart by distance well formed.
LEMMA ChosenGrows ==
    ASSUME Stored, NEW candidates, AreCandidates(candidates), NEW m \in Nat,
           NEW n \in 1 .. Len(candidates), NEW sel, Chosen(candidates, m, n - 1, sel),
           NEW base
    PROVE  Chosen(candidates, m, n, IfDiverse(base, sel, candidates[n], m))
  <1> DEFINE c == candidates[n]
             next == IfDiverse(base, sel, c, m)
  <1> SUFFICES Chosen(candidates, m, n, next)
    OBVIOUS
  <1>1. /\ n \in Nat /\ n - 1 \in Nat /\ c \in Inserted /\ 1 .. n - 1 \subseteq 1 .. n
        /\ n \in 1 .. n /\ n \notin 1 .. n - 1 /\ Len(candidates) \in Nat
        /\ \A j \in 1 .. n : j \in 1 .. Len(candidates)
    BY DEF AreCandidates
  <1>2. sel \in Seq(Inserted) /\ Distinct(sel) /\ Len(sel) <= m /\ Len(sel) \in Nat
    BY DEF Chosen
  <1>3. c \notin ToSet(sel)
    <2> SUFFICES ASSUME c \in ToSet(sel) PROVE FALSE
      OBVIOUS
    <2>1. PICK j \in 1 .. n - 1 : candidates[j] = c
      BY DEF Chosen
    <2> QED BY <1>1, <2>1 DEF AreCandidates, Distinct
  <1>4. CASE next = Append(sel, c) /\ Len(sel) < m
    <2>1. /\ next \in Seq(Inserted) /\ Distinct(next) /\ Len(next) = Len(sel) + 1
          /\ ToSet(next) = ToSet(sel) \cup {c}
      BY <1>1, <1>2, <1>3, <1>4, AppendIs
    <2>2. Len(next) <= m
      BY <1>2, <1>4, <2>1
    <2>3. \A d \in ToSet(next) : \E j \in 1 .. n : candidates[j] = d
      BY <1>1, <2>1 DEF Chosen
    <2>4. candidates[1] \in ToSet(next) \/ m = 0
      <3>1. CASE n = 1
        BY <2>1, <3>1
      <3>2. CASE n - 1 > 0
        BY <2>1, <3>2 DEF Chosen
      <3> QED BY <1>1, <3>1, <3>2
    <2> HIDE DEF next
    <2> QED BY <2>1, <2>2, <2>3, <2>4 DEF Chosen
  <1>5. CASE next = sel /\ (Len(sel) < m => n > 1)
    <2>1. \A d \in ToSet(next) : \E j \in 1 .. n : candidates[j] = d
      BY <1>1, <1>5 DEF Chosen
    <2>2. candidates[1] \in ToSet(next) \/ m = 0
      <3>1. CASE n - 1 > 0
        BY <1>5, <3>1 DEF Chosen
      <3>2. CASE n = 1
        <4>1. ToSet(sel) = {}
          BY <3>2 DEF Chosen
        <4>2. Len(sel) = 0
          <5>1. \A i \in 1 .. Len(sel) : sel[i] \in ToSet(sel)
            BY <1>2, ListIs
          <5>2. 1 \notin 1 .. Len(sel)
            BY <4>1, <5>1
          <5> QED BY <1>2, <5>2
        <4> QED BY <1>5, <3>2, <4>2
      <3> QED BY <1>1, <3>1, <3>2
    <2> HIDE DEF next
    <2> QED BY <1>2, <1>5, <2>1, <2>2 DEF Chosen
  <1>6. n = 1 => ToSet(sel) = {}
    BY DEF Chosen
  <1>7. \/ next = Append(sel, c) /\ Len(sel) < m
        \/ next = sel /\ (Len(sel) < m => n > 1)
    BY <1>1, <1>6 DEF IfDiverse
  <1> QED BY <1>4, <1>5, <1>7

\* The first loop selects some, the closest candidate first of all.
LEMMA DiverseIs ==
    ASSUME Stored, NEW candidates, AreCandidates(candidates), NEW m \in Nat, NEW base
    PROVE  Chosen(candidates, m, Len(candidates), Diverse(base, candidates, m))
  <1> DEFINE N == Len(candidates)
             V == Seq(Inserted)
             Step(i, x) == IfDiverse(base, x, candidates[i], m)
             IsLoop(h) == h = [i \in 0 .. N |-> IF i = 0 THEN <<>> ELSE Step(i, h[i - 1])]
             G == [i \in 1 .. N |-> [x \in V |-> Step(i, x)]]
             sel == CHOOSE h : IsLoop(h)
  <1>1. N \in Nat /\ \A i \in 1 .. N : candidates[i] \in Inserted
    BY DEF AreCandidates
  <1>2. \A i \in 1 .. N : \A x \in V : Step(i, x) \in V /\ G[i][x] = Step(i, x)
    BY <1>1 DEF IfDiverse
  <1>3. G \in [1 .. N -> [V -> V]]
    <2> HIDE DEF Step
    <2> QED BY <1>2
  <1>4. PICK f \in [0 .. N -> V] : f[0] = <<>> /\ \A i \in 1 .. N : f[i] = G[i][f[i - 1]]
    <2> DEFINE none == <<>>
    <2>1. none \in V
      OBVIOUS
    <2> HIDE DEF G, N, V, none
    <2>2. Iterations(N, V, none, G) # {}
      BY <1>1, <1>3, <2>1, Iterates
    <2> QED BY <2>2 DEF Iterations, none
  <1>5. IsLoop(f)
    <2> HIDE DEF N, G, V, Step
    <2>1. \A i \in 1 .. N : f[i] = Step(i, f[i - 1])
      <3> TAKE i \in 1 .. N
      <3>1. i - 1 \in 0 .. N
        BY <1>1
      <3> QED BY <1>2, <1>4, <3>1
    <2>2. \A i \in 0 .. N : i # 0 => i \in 1 .. N
      BY <1>1
    <2> QED BY <1>4, <2>1, <2>2
  <1>6. IsLoop(sel)
    <2> HIDE DEF N, Step
    <2> QED BY <1>5
  <1>7. Diverse(base, candidates, m) = sel[N]
    BY DEF Diverse
  <1> HIDE DEF sel, N, Step
  <1>8. sel[0] = <<>> /\ \A i \in 1 .. N : sel[i] = Step(i, sel[i - 1])
    <2>1. sel = [i \in 0 .. N |-> IF i = 0 THEN <<>> ELSE Step(i, sel[i - 1])]
      BY <1>6
    <2>2. 0 \in 0 .. N /\ \A i \in 1 .. N : i \in 0 .. N /\ i # 0
      BY <1>1
    <2> QED BY <2>1, <2>2
  <1> DEFINE T == {i \in 0 .. N : Chosen(candidates, m, i, sel[i])}
  <1>9. 0 \in T
    <2>1. <<>> \in Seq(Inserted) /\ Len(<<>>) = 0 /\ ToSet(<<>>) = {}
      BY DEF ToSet
    <2>2. Chosen(candidates, m, 0, <<>>)
      BY <2>1 DEF Chosen, Distinct
    <2> QED BY <1>1, <1>8, <2>2
  <1>10. ASSUME NEW i \in 1 .. N, i - 1 \in T PROVE i \in T
    <2>1. Chosen(candidates, m, i - 1, sel[i - 1]) /\ i \in 0 .. N
      BY <1>1, <1>10
    <2>2. i \in 1 .. Len(candidates)
      BY DEF N
    <2>3. Chosen(candidates, m, i, IfDiverse(base, sel[i - 1], candidates[i], m))
      BY <2>1, <2>2, ChosenGrows
    <2> QED BY <1>8, <2>1, <2>3 DEF Step
  <1> HIDE DEF T
  <1>11. N \in T
    <2>1. 0 .. N \subseteq T
      BY <1>1, <1>9, <1>10, UpTo
    <2> QED BY <1>1, <2>1
  <1> QED BY <1>7, <1>11 DEF T, N

\* The second loop has come to the n-th candidate: the slots are full, or every
\* candidate so far is selected.
Filled(candidates, m, n, sel) ==
    /\ Chosen(candidates, m, Len(candidates), sel)
    /\ Len(sel) = m \/ \A j \in 1 .. n : candidates[j] \in ToSet(sel)

\* One candidate more is selected while there is room.
LEMMA FilledGrows ==
    ASSUME Stored, NEW candidates, AreCandidates(candidates), NEW m \in Nat,
           NEW n \in 1 .. Len(candidates), NEW sel, Filled(candidates, m, n - 1, sel)
    PROVE  Filled(candidates, m, n, IfRoom(sel, candidates[n], m))
  <1> DEFINE c == candidates[n]
             N == Len(candidates)
             next == IfRoom(sel, c, m)
  <1>1. /\ n \in Nat /\ c \in Inserted /\ N \in Nat /\ n \in 1 .. N
        /\ \A j \in 1 .. n : j = n \/ j \in 1 .. n - 1
    BY DEF AreCandidates
  <1>2. /\ sel \in Seq(Inserted) /\ Distinct(sel) /\ Len(sel) <= m /\ Len(sel) \in Nat
        /\ \A d \in ToSet(sel) : \E j \in 1 .. N : candidates[j] = d
        /\ N > 0 /\ m > 0 => candidates[1] \in ToSet(sel)
    BY DEF Filled, Chosen
  <1>3. CASE next = Append(sel, c) /\ Len(sel) < m /\ c \notin ToSet(sel)
    <2>1. /\ next \in Seq(Inserted) /\ Distinct(next) /\ Len(next) = Len(sel) + 1
          /\ ToSet(next) = ToSet(sel) \cup {c}
      BY <1>1, <1>2, <1>3, AppendIs
    <2>2. Len(next) <= m
      BY <1>2, <1>3, <2>1
    <2> HIDE DEF next, c, N
    <2>3. \A d \in ToSet(next) : \E j \in 1 .. N : candidates[j] = d
      BY <1>1, <1>2, <2>1 DEF c
    <2>4. Chosen(candidates, m, N, next)
      BY <1>2, <2>1, <2>2, <2>3 DEF Chosen
    <2>5. \A j \in 1 .. n : candidates[j] \in ToSet(next)
      BY <1>1, <1>2, <1>3, <2>1 DEF Filled, c
    <2> QED BY <2>4, <2>5 DEF Filled, N, next, c
  <1>4. CASE next = sel /\ (Len(sel) = m \/ c \in ToSet(sel))
    <2>1. Len(sel) = m \/ \A j \in 1 .. n : candidates[j] \in ToSet(sel)
      BY <1>1, <1>4 DEF Filled
    <2> HIDE DEF next
    <2> QED BY <1>4, <2>1 DEF Filled, next
  <1>5. \/ next = Append(sel, c) /\ Len(sel) < m /\ c \notin ToSet(sel)
        \/ next = sel /\ (Len(sel) = m \/ c \in ToSet(sel))
    BY <1>2 DEF IfRoom
  <1> QED BY <1>3, <1>4, <1>5

\* What is selected: as many of the candidates as there are slots, the closest
\* one among them.
LEMMA SelectedIs ==
    ASSUME Stored, NEW candidates, AreCandidates(candidates), NEW m \in Nat, NEW base,
           NEW sel, sel = Selected(base, candidates, m)
    PROVE  /\ sel \in Seq(Inserted) /\ Distinct(sel) /\ Len(sel) <= m
           /\ ToSet(sel) \subseteq ToSet(candidates)
           /\ Len(candidates) > 0 /\ m > 0 => candidates[1] \in ToSet(sel)
           /\ Len(sel) = m \/ ToSet(sel) = ToSet(candidates)
  <1> DEFINE N == Len(candidates)
             V == Seq(Inserted)
             v == Diverse(base, candidates, m)
             Step(i, x) == IfRoom(x, candidates[i], m)
             IsLoop(h) == h = [i \in 0 .. N |-> IF i = 0 THEN v ELSE Step(i, h[i - 1])]
             G == [i \in 1 .. N |-> [x \in V |-> Step(i, x)]]
             loop == CHOOSE h : IsLoop(h)
  <1>1. N \in Nat /\ \A i \in 1 .. N : candidates[i] \in Inserted
    BY DEF AreCandidates
  <1>2. \A i \in 1 .. N : \A x \in V : Step(i, x) \in V /\ G[i][x] = Step(i, x)
    BY <1>1 DEF IfRoom
  <1>3. G \in [1 .. N -> [V -> V]]
    <2> HIDE DEF Step
    <2> QED BY <1>2
  <1>4. v \in V /\ Chosen(candidates, m, N, v)
    BY DiverseIs DEF Chosen
  <1>5. PICK f \in [0 .. N -> V] : f[0] = v /\ \A i \in 1 .. N : f[i] = G[i][f[i - 1]]
    <2> HIDE DEF G, N, V, v
    <2>1. Iterations(N, V, v, G) # {}
      BY <1>1, <1>3, <1>4, Iterates
    <2> QED BY <2>1 DEF Iterations
  <1>6. IsLoop(f)
    <2> HIDE DEF N, G, V, v, Step
    <2>1. \A i \in 1 .. N : f[i] = Step(i, f[i - 1])
      <3> TAKE i \in 1 .. N
      <3>1. i - 1 \in 0 .. N
        BY <1>1
      <3> QED BY <1>2, <1>5, <3>1
    <2>2. \A i \in 0 .. N : i # 0 => i \in 1 .. N
      BY <1>1
    <2> QED BY <1>5, <2>1, <2>2
  <1>7. IsLoop(loop)
    <2> HIDE DEF N, v, Step
    <2> QED BY <1>6
  <1>8. sel = loop[N]
    BY DEF Selected
  <1> HIDE DEF loop, N, v, Step
  <1>9. loop[0] = v /\ \A i \in 1 .. N : loop[i] = Step(i, loop[i - 1])
    <2>1. loop = [i \in 0 .. N |-> IF i = 0 THEN v ELSE Step(i, loop[i - 1])]
      BY <1>7
    <2>2. 0 \in 0 .. N /\ \A i \in 1 .. N : i \in 0 .. N /\ i # 0
      BY <1>1
    <2> QED BY <2>1, <2>2
  <1> DEFINE T == {i \in 0 .. N : Filled(candidates, m, i, loop[i])}
  <1>10. 0 \in T
    <2>1. Filled(candidates, m, 0, v)
      BY <1>4 DEF Filled, N
    <2> QED BY <1>1, <1>9, <2>1
  <1>11. ASSUME NEW i \in 1 .. N, i - 1 \in T PROVE i \in T
    <2>1. Filled(candidates, m, i - 1, loop[i - 1]) /\ i \in 0 .. N
      BY <1>1, <1>11
    <2>2. i \in 1 .. Len(candidates)
      BY DEF N
    <2>3. Filled(candidates, m, i, IfRoom(loop[i - 1], candidates[i], m))
      BY <2>1, <2>2, FilledGrows
    <2> QED BY <1>9, <2>1, <2>3 DEF Step
  <1> HIDE DEF T
  <1>12. Filled(candidates, m, N, sel)
    <2>1. 0 .. N \subseteq T
      BY <1>1, <1>10, <1>11, UpTo
    <2>2. N \in T
      BY <1>1, <2>1
    <2> QED BY <1>8, <2>2 DEF T
  <1>13. \A n : n \in ToSet(candidates) <=> \E i \in 1 .. N : candidates[i] = n
    BY ListIs DEF AreCandidates, N
  <1>14. ToSet(sel) \subseteq ToSet(candidates)
    BY <1>12, <1>13 DEF Filled, Chosen, N
  <1>15. Len(sel) = m \/ ToSet(sel) = ToSet(candidates)
    BY <1>12, <1>13, <1>14 DEF Filled
  <1> QED BY <1>12, <1>14, <1>15 DEF Filled, Chosen, N

-----------------------------------------------------------------------------
(* greedy_search()                                                         *)

\* The lists hold nodes that are there.
ListsTyped ==
    /\ Stored /\ Len(store) <= MaxNodes
    /\ nbrs \in [Layer -> [Node -> Seq(Inserted)]]

\* A call of greedy_search() with a start that is there.
Asked(q, l, from, ef) ==
    /\ ListsTyped /\ IsVector(q)
    /\ l \in Layer /\ from \in Inserted /\ ef \in Nat \ {0}

Reach(l, from) == Graph!Reachable(l, from)

\* What a search and a selection may return to HnswGraph.
LEMMA GraphAllows ==
    /\ \A l, from, ef :
          Graph!SearchResults(l, from, ef) =
             IF Cardinality(Reach(l, from)) <= ef THEN {Reach(l, from)}
             ELSE {S \in SUBSET Reach(l, from) : Cardinality(S) = ef}
    /\ \A candidates, m :
          Graph!Selections(candidates, m) =
             IF Cardinality(candidates) <= m THEN {candidates}
             ELSE {S \in SUBSET candidates : Cardinality(S) = m}
  <1>1. \A S : Graph!Cardinality(S) = Cardinality(S)
    BY DEF Graph!Cardinality, Cardinality
  <1>2. \A k, S : Graph!kSubset(k, S) = {T \in SUBSET S : Cardinality(T) = k}
    BY <1>1 DEF Graph!kSubset
  <1> QED BY <1>1, <1>2 DEF Graph!SearchResults, Graph!Selections, Reach

\* The nodes that are there have a place in the lists.
LEMMA InsertedNode == ListsTyped => Inserted \subseteq Node
  <1> SUFFICES ASSUME ListsTyped PROVE Inserted \subseteq Node
    OBVIOUS
  <1>1. Len(store) \in Nat /\ Len(store) <= MaxNodes
    BY DEF ListsTyped, Stored
  <1> QED BY <1>1, MaxNodesAssumption DEF Inserted, Node

\* What can be reached is the smallest set with the start that no link leaves.
LEMMA ReachIs ==
    ASSUME ListsTyped, NEW l \in Layer, NEW from \in Inserted
    PROVE  /\ from \in Reach(l, from) /\ Reach(l, from) \subseteq Inserted
           /\ \A n \in Reach(l, from) :
                 /\ nbrs[l][n] \in Seq(Inserted)
                 /\ ToSet(nbrs[l][n]) \subseteq Reach(l, from)
           /\ \A S \in SUBSET Inserted :
                 from \in S /\ (\A n \in S : ToSet(nbrs[l][n]) \subseteq S) =>
                    Reach(l, from) \subseteq S
  <1> DEFINE closed == {S \in SUBSET Node : \A n \in S : ToSet(nbrs[l][n]) \subseteq S}
  <1>1. Reach(l, from) = {n \in Node : \A S \in {T \in closed : from \in T} : n \in S}
    <2>1. \A n \in Node : Links[l][n] = ToSet(nbrs[l][n])
      BY DEF Links
    <2>2. Graph!ClosedOn(l) = closed
      BY <2>1 DEF Graph!ClosedOn, Graph!Node, Node
    <2> HIDE DEF closed
    <2> QED BY <2>2 DEF Reach, Graph!Reachable, Graph!Node, Node
  <1>2. Stored /\ \A n \in Node : nbrs[l][n] \in Seq(Inserted)
    BY DEF ListsTyped
  <1>3. Inserted \in closed
    BY <1>2, InsertedNode, ListIs
  <1>4. from \in Reach(l, from) /\ Reach(l, from) \subseteq Inserted
    BY <1>1, <1>3, InsertedNode
  <1>5. ASSUME NEW n \in Reach(l, from)
        PROVE  /\ nbrs[l][n] \in Seq(Inserted)
               /\ ToSet(nbrs[l][n]) \subseteq Reach(l, from)
    <2>1. n \in Node /\ nbrs[l][n] \in Seq(Inserted) /\ ToSet(nbrs[l][n]) \subseteq Node
      BY <1>2, <1>4, InsertedNode, ListIs
    <2>2. \A S \in closed : from \in S => ToSet(nbrs[l][n]) \subseteq S
      BY <1>1
    <2> HIDE DEF closed
    <2> QED BY <1>1, <2>1, <2>2
  <1>6. \A S \in SUBSET Inserted :
           from \in S /\ (\A n \in S : ToSet(nbrs[l][n]) \subseteq S) => Reach(l, from) \subseteq S
    BY <1>1, InsertedNode
  <1> QED BY <1>4, <1>5, <1>6

\* A push, and a pop if that was one too many.
LEMMA PushedIs ==
    ASSUME Stored, NEW q, IsVector(q), NEW ef \in Nat \ {0},
           NEW found, IsQueue(q, found), found # {}, Cardinality(found) <= ef,
           NEW c \in Pairs(q, Inserted), c \notin found
    PROVE  /\ Pushed(found, c, ef) \subseteq found \cup {c}
           /\ Pushed(found, c, ef) # {} /\ Cardinality(Pushed(found, c, ef)) <= ef
           /\ Cardinality(Pushed(found, c, ef)) < ef =>
                 Cardinality(found) < ef
           /\ Cardinality(found) < ef => Pushed(found, c, ef) = found \cup {c}
           /\ \A a \in found : \E b \in Pushed(found, c, ef) : b[1] <= a[1]
  <1> DEFINE P == found \cup {c}
             z == Farthest(P)
  <1>1. /\ IsQueue(q, P) /\ P # {}
    BY DEF IsQueue
  <1>2. /\ IsFiniteSet(P) /\ Cardinality(P) = Cardinality(found) + 1
        /\ Cardinality(found) \in Nat /\ IsFiniteSet(found)
    BY QueueIs, FS_AddElement
  <1>3. \A a \in P : a[1] \in Int
    BY <1>1, QueueIs
  <1>4. CASE Cardinality(found) < ef
    <2>1. Pushed(found, c, ef) = P
      BY <1>4 DEF Pushed
    <2> QED BY <1>2, <1>3, <1>4, <2>1
  <1>5. CASE Cardinality(found) = ef
    <2>1. Pushed(found, c, ef) = P \ {z}
      BY <1>2, <1>5 DEF Pushed
    <2>2. z \in P /\ \A b \in P : b[1] <= z[1]
      BY <1>1, FarthestIs
    <2>3. IsFiniteSet(P \ {z}) /\ Cardinality(P \ {z}) = ef
      <3> HIDE DEF P, z
      <3>1. IsFiniteSet(P \ {z}) /\ Cardinality(P \ {z}) = Cardinality(P) - 1
        BY <1>2, <2>2, FS_RemoveElement
      <3> QED BY <1>2, <1>5, <3>1
    <2>4. P \ {z} # {}
      BY <2>3, FS_EmptySet
    <2>5. \A a \in found : \E b \in P \ {z} : b[1] <= a[1]
      <3> TAKE a \in found
      <3>1. CASE a # z
        BY <1>3, <3>1
      <3>2. CASE a = z
        BY <2>2, <2>4, <3>2
      <3> QED BY <3>1, <3>2
    <2> HIDE DEF z, P
    <2> QED BY <1>5, <2>1, <2>3, <2>4, <2>5 DEF P
  <1> QED BY <1>2, <1>4, <1>5

\* The state of the main loop: all in it has been visited and can be reached,
\* there is room left only while everything visited is a result, and one result
\* is as close as the start.
Sound(q, from, ef, s) ==
    /\ from \in s.visited
    /\ s.open \subseteq Pairs(q, s.visited) /\ s.found \subseteq Pairs(q, s.visited)
    /\ s.found # {} /\ Cardinality(s.found) <= ef
    /\ Cardinality(s.found) < ef => s.found = Pairs(q, s.visited)
    /\ \E a \in s.found : a[1] <= Dist(q, Vector(from))

\* While there is room left, the neighbours of a visited node are visited too,
\* unless it is still in the queue or one of X.
Complete(q, l, ef, s, X) ==
    Cardinality(s.found) < ef =>
        \A n \in s.visited :
            n \in X \/ Pair(q, n) \in s.open \/ ToSet(nbrs[l][n]) \subseteq s.visited

States(q, l, from, ef, X) ==
    {s \in [open : SUBSET Pairs(q, Reach(l, from)), found : SUBSET Pairs(q, Reach(l, from)),
            visited : SUBSET Reach(l, from)] :
        Sound(q, from, ef, s) /\ Complete(q, l, ef, s, X)}

\* How many nodes have been expanded, or visited and left out of the queue.
Expansions(s) == Cardinality(s.visited) - Cardinality(s.open)

\* What a state of the search may be used for.
LEMMA StateIs ==
    ASSUME NEW q, NEW l, NEW from, NEW ef, Asked(q, l, from, ef), NEW X,
           NEW s \in States(q, l, from, ef, X)
    PROVE  /\ IsQueue(q, s.open) /\ IsQueue(q, s.found) /\ s.visited \subseteq Inserted
           /\ s.open \subseteq Pairs(q, Reach(l, from)) /\ s.visited \subseteq Reach(l, from)
           /\ s.found \subseteq Pairs(q, Reach(l, from))
           /\ Sound(q, from, ef, s) /\ Complete(q, l, ef, s, X)
           /\ Cardinality(s.visited) \in Nat /\ Cardinality(s.visited) <= Len(store)
           /\ Cardinality(s.open) \in Nat /\ Cardinality(s.found) \in Nat
           /\ IsFiniteSet(s.visited) /\ IsFiniteSet(s.open) /\ IsFiniteSet(s.found)
           /\ Expansions(s) \in Int
           /\ s = [open |-> s.open, found |-> s.found, visited |-> s.visited]
  <1>1. /\ s.open \subseteq Pairs(q, Reach(l, from)) /\ s.visited \subseteq Reach(l, from)
        /\ s.found \subseteq Pairs(q, Reach(l, from))
        /\ Sound(q, from, ef, s) /\ Complete(q, l, ef, s, X)
        /\ s = [open |-> s.open, found |-> s.found, visited |-> s.visited]
    BY DEF States
  <1>2. Stored /\ IsVector(q) /\ Reach(l, from) \subseteq Inserted
    BY ReachIs DEF Asked, ListsTyped
  <1>3. Pairs(q, Reach(l, from)) \subseteq Pairs(q, Inserted) /\ s.visited \subseteq Inserted
    BY <1>1, <1>2 DEF Pairs
  <1>4. IsQueue(q, s.open) /\ IsQueue(q, s.found)
    BY <1>1, <1>3 DEF IsQueue
  <1>5. /\ Cardinality(s.visited) \in Nat /\ Cardinality(s.visited) <= Len(store)
        /\ IsFiniteSet(s.visited)
    BY <1>2, <1>3, InsertedIs
  <1>6. /\ Cardinality(s.open) \in Nat /\ Cardinality(s.found) \in Nat
        /\ IsFiniteSet(s.open) /\ IsFiniteSet(s.found)
    BY <1>2, <1>4, QueueIs
  <1>7. Expansions(s) \in Int
    BY <1>5, <1>6 DEF Expansions
  <1> QED BY <1>1, <1>3, <1>4, <1>5, <1>6, <1>7

\* A neighbour that is visited for the first time enters the queue while there
\* is room, and the state stays sound.
LEMMA VisitIs ==
    ASSUME NEW q, NEW l, NEW from, NEW ef, Asked(q, l, from, ef), NEW X,
           NEW s \in States(q, l, from, ef, X), NEW nb \in Reach(l, from),
           NEW t, t = Visit(q, ef, s, nb)
    PROVE  /\ t \in States(q, l, from, ef, X)
           /\ t.visited = s.visited \cup {nb}
           /\ Expansions(t) >= Expansions(s)
  <1> DEFINE c == Pair(q, nb)
             R == Reach(l, from)
  <1>1. /\ IsQueue(q, s.open) /\ IsQueue(q, s.found) /\ s.visited \subseteq Inserted
        /\ s.open \subseteq Pairs(q, R) /\ s.visited \subseteq R /\ s.found \subseteq Pairs(q, R)
        /\ Sound(q, from, ef, s) /\ Complete(q, l, ef, s, X)
        /\ Cardinality(s.visited) \in Nat
        /\ Cardinality(s.open) \in Nat /\ Cardinality(s.found) \in Nat
        /\ IsFiniteSet(s.visited) /\ IsFiniteSet(s.open) /\ IsFiniteSet(s.found)
        /\ s = [open |-> s.open, found |-> s.found, visited |-> s.visited]
    BY StateIs
  <1>2. /\ Stored /\ IsVector(q) /\ ef \in Nat \ {0} /\ from \in Inserted
        /\ R \subseteq Inserted /\ nb \in Inserted /\ c \in Pairs(q, Inserted) /\ c \in Pairs(q, R)
        /\ c[2] = nb
    <2>1. R \subseteq Inserted
      BY ReachIs DEF Asked
    <2>2. Stored /\ IsVector(q)
      BY DEF Asked, ListsTyped
    <2> QED BY <2>1, <2>2, PairIs DEF Asked, Pairs
  <1>3. CASE nb \in s.visited
    <2>1. t = s
      BY <1>3 DEF Visit
    <2> QED BY <1>1, <1>3, <2>1 DEF Expansions
  <1>4. CASE nb \notin s.visited
    <2>1. \A a \in Pairs(q, s.visited) : a # c
      BY <1>1, <1>2, <1>4, PairsAre
    <2>2. c \notin s.found /\ c \notin s.open
      BY <1>1, <2>1 DEF Sound
    <2> DEFINE seen == s.visited \cup {nb}
    <2>3. Cardinality(seen) = Cardinality(s.visited) + 1
      BY <1>1, <1>4, FS_AddElement
    <2>4. /\ s.visited \subseteq seen /\ seen \subseteq R
          /\ Pairs(q, seen) = Pairs(q, s.visited) \cup {c}
          /\ from \in seen
      BY <1>1, <1>2 DEF Pairs, Sound
    <2>5. CASE Improves(s.found, c, ef)
      <3> DEFINE found == Pushed(s.found, c, ef)
                 open == s.open \cup {c}
      <3>1. t = [open |-> open, found |-> found, visited |-> seen]
        BY <1>4, <2>5 DEF Visit
      <3> HIDE DEF seen, c
      <3>2. /\ found \subseteq s.found \cup {c} /\ found # {} /\ Cardinality(found) <= ef
            /\ Cardinality(found) < ef => Cardinality(s.found) < ef
            /\ Cardinality(s.found) < ef => found = s.found \cup {c}
            /\ \A a \in s.found : \E b \in found : b[1] <= a[1]
        BY <1>1, <1>2, <2>2, PushedIs DEF Sound
      <3>3. Cardinality(open) = Cardinality(s.open) + 1
        BY <1>1, <2>2, FS_AddElement
      <3> HIDE DEF found, open
      <3>4. /\ t.open = open /\ t.found = found /\ t.visited = seen
        BY <3>1
      <3>5. open \subseteq Pairs(q, seen) /\ found \subseteq Pairs(q, seen)
        BY <1>1, <2>4, <3>2 DEF Sound, open
      <3>6. \E a \in found : a[1] <= Dist(q, Vector(from))
        <4>1. PICK a \in s.found : a[1] <= Dist(q, Vector(from))
          BY <1>1 DEF Sound
        <4>2. PICK b \in found : b[1] <= a[1]
          BY <3>2
        <4>3. a \in Pairs(q, Inserted) /\ b \in Pairs(q, Inserted)
          BY <1>1, <1>2, <3>2, <4>1, <4>2 DEF IsQueue
        <4>4. a[1] \in Int /\ b[1] \in Int /\ Dist(q, Vector(from)) \in Int
          BY <1>2, <4>3, PairsAre, PairIs
        <4> QED BY <4>1, <4>2, <4>4
      <3>7. Cardinality(found) < ef => found = Pairs(q, seen)
        BY <1>1, <2>4, <3>2 DEF Sound
      <3>8. Sound(q, from, ef, t)
        BY <2>4, <3>2, <3>4, <3>5, <3>6, <3>7 DEF Sound
      <3>9. Complete(q, l, ef, t, X)
        <4> SUFFICES ASSUME Cardinality(found) < ef, NEW n \in seen
                     PROVE  n \in X \/ Pair(q, n) \in open \/ ToSet(nbrs[l][n]) \subseteq seen
          BY <3>4 DEF Complete
        <4>1. CASE n = nb
          BY <4>1 DEF open, c
        <4>2. CASE n \in s.visited
          BY <1>1, <2>4, <3>2, <4>2 DEF Complete, open
        <4> QED BY <4>1, <4>2 DEF seen
      <3>10. t \in States(q, l, from, ef, X)
        <4>1. open \subseteq Pairs(q, R) /\ found \subseteq Pairs(q, R) /\ seen \subseteq R
          BY <1>1, <1>2, <2>4, <3>2 DEF open
        <4> HIDE DEF R
        <4> QED BY <3>1, <3>8, <3>9, <4>1 DEF States, R
      <3>11. Expansions(t) >= Expansions(s)
        BY <1>1, <2>3, <3>3, <3>4 DEF Expansions
      <3> QED BY <3>4, <3>10, <3>11 DEF seen
    <2>6. CASE ~Improves(s.found, c, ef)
      <3>1. t = [s EXCEPT !.visited = seen]
        BY <1>4, <2>6 DEF Visit
      <3>2. ~(Cardinality(s.found) < ef)
        BY <2>6 DEF Improves
      <3> HIDE DEF seen, c
      <3>3. /\ t = [open |-> s.open, found |-> s.found, visited |-> seen]
            /\ t.open = s.open /\ t.found = s.found /\ t.visited = seen
        BY <1>1, <3>1
      <3>4. Sound(q, from, ef, t)
        BY <1>1, <2>4, <3>2, <3>3 DEF Sound
      <3>5. Complete(q, l, ef, t, X)
        BY <3>2, <3>3 DEF Complete
      <3>6. t \in States(q, l, from, ef, X)
        <4> HIDE DEF R
        <4> QED BY <1>1, <2>4, <3>3, <3>4, <3>5 DEF States, R
      <3>7. Expansions(t) >= Expansions(s)
        BY <1>1, <2>3, <3>3 DEF Expansions
      <3> QED BY <3>3, <3>6, <3>7 DEF seen
    <2> QED BY <2>5, <2>6
  <1> QED BY <1>3, <1>4

\* After the loop over the neighbours all of them are visited.
LEMMA ExpandedIs ==
    ASSUME NEW q, NEW l, NEW from, NEW ef, Asked(q, l, from, ef), NEW X,
           NEW s \in States(q, l, from, ef, X), NEW neighbors \in Seq(Reach(l, from)),
           NEW t, t = Expanded(q, ef, s, neighbors)
    PROVE  /\ t \in States(q, l, from, ef, X)
           /\ \A j \in 1 .. Len(neighbors) : neighbors[j] \in t.visited
           /\ Expansions(t) >= Expansions(s)
  <1> DEFINE N == Len(neighbors)
             V == States(q, l, from, ef, X)
             Step(i, x) == Visit(q, ef, x, neighbors[i])
             IsLoop(h) == h = [i \in 0 .. N |-> IF i = 0 THEN s ELSE Step(i, h[i - 1])]
             G == [i \in 1 .. N |-> [x \in V |-> Step(i, x)]]
             after == CHOOSE h : IsLoop(h)
  <1>1. N \in Nat /\ \A i \in 1 .. N : neighbors[i] \in Reach(l, from)
    OBVIOUS
  <1>2. \A i \in 1 .. N : \A x \in V :
           /\ Step(i, x) \in V
           /\ Step(i, x).visited = x.visited \cup {neighbors[i]}
           /\ Expansions(Step(i, x)) >= Expansions(x)
    <2> SUFFICES ASSUME NEW i \in 1 .. N, NEW x \in V
                 PROVE  /\ Step(i, x) \in V
                        /\ Step(i, x).visited = x.visited \cup {neighbors[i]}
                        /\ Expansions(Step(i, x)) >= Expansions(x)
      OBVIOUS
    <2>1. neighbors[i] \in Reach(l, from)
      BY <1>1
    <2> QED BY <2>1, VisitIs
  <1> HIDE DEF Step
  <1>3. /\ G \in [1 .. N -> [V -> V]]
        /\ \A i \in 1 .. N : \A x \in V : G[i][x] = Step(i, x)
    BY <1>2
  <1>4. PICK f \in [0 .. N -> V] : f[0] = s /\ \A i \in 1 .. N : f[i] = G[i][f[i - 1]]
    <2> HIDE DEF G, N, V
    <2>1. s \in V
      BY DEF V
    <2>2. Iterations(N, V, s, G) # {}
      BY <1>1, <1>3, <2>1, Iterates
    <2> QED BY <2>2 DEF Iterations
  <1>5. IsLoop(f)
    <2> HIDE DEF N, G, V
    <2>1. \A i \in 1 .. N : f[i] = Step(i, f[i - 1])
      <3> TAKE i \in 1 .. N
      <3>1. i - 1 \in 0 .. N
        BY <1>1
      <3> QED BY <1>3, <1>4, <3>1
    <2>2. \A i \in 0 .. N : i # 0 => i \in 1 .. N
      BY <1>1
    <2> QED BY <1>4, <2>1, <2>2
  <1>6. IsLoop(after)
    <2> HIDE DEF N
    <2> QED BY <1>5
  <1>7. t = after[N]
    BY DEF Expanded, Step
  <1> HIDE DEF after, N
  <1>8. after[0] = s /\ \A i \in 1 .. N : after[i] = Step(i, after[i - 1])
    <2>1. after = [i \in 0 .. N |-> IF i = 0 THEN s ELSE Step(i, after[i - 1])]
      BY <1>6
    <2>2. 0 \in 0 .. N /\ \A i \in 1 .. N : i \in 0 .. N /\ i # 0
      BY <1>1
    <2> QED BY <2>1, <2>2
  <1> HIDE DEF V
  <1> DEFINE T == {i \in 0 .. N : /\ after[i] \in V
                                  /\ Expansions(after[i]) >= Expansions(s)
                                  /\ \A j \in 1 .. i : neighbors[j] \in after[i].visited}
  <1>9. \A x \in V : Expansions(x) \in Int
    BY StateIs DEF V
  <1>10. s \in V
    BY DEF V
  <1>11. 0 \in T
    BY <1>1, <1>8, <1>9, <1>10
  <1>12. ASSUME NEW i \in 1 .. N, i - 1 \in T PROVE i \in T
    <2> DEFINE x == after[i - 1]
    <2>1. /\ x \in V /\ Expansions(x) >= Expansions(s) /\ i \in 0 .. N
          /\ \A j \in 1 .. i - 1 : neighbors[j] \in x.visited
      BY <1>1, <1>12
    <2>2. /\ after[i] \in V /\ after[i].visited = x.visited \cup {neighbors[i]}
          /\ Expansions(after[i]) >= Expansions(x)
      BY <1>2, <1>8, <2>1
    <2> HIDE DEF x
    <2>3. Expansions(after[i]) >= Expansions(s)
      BY <1>9, <1>10, <2>1, <2>2
    <2>4. \A j \in 1 .. i : j = i \/ j \in 1 .. i - 1
      BY <1>1
    <2>5. \A j \in 1 .. i : neighbors[j] \in after[i].visited
      BY <2>1, <2>2, <2>4
    <2> QED BY <2>1, <2>2, <2>3, <2>5
  <1> HIDE DEF T
  <1>13. N \in T
    <2>1. 0 .. N \subseteq T
      BY <1>1, <1>11, <1>12, UpTo
    <2> QED BY <1>1, <2>1
  <1> QED BY <1>7, <1>13 DEF T, V, N

\* A round expands one more node.
LEMMA RoundIs ==
    ASSUME NEW q, NEW l, NEW from, NEW ef, Asked(q, l, from, ef),
           NEW s \in States(q, l, from, ef, {}), NEW t, t = Round(q, l, ef, s)
    PROVE  /\ t \in States(q, l, from, ef, {})
           /\ Done(s) => t = s
           /\ ~Done(s) => Expansions(t) > Expansions(s)
  <1>1. CASE Done(s)
    BY <1>1 DEF Round
  <1>2. CASE ~Done(s)
    <2> DEFINE c == Nearest(s.open)
               u == [s EXCEPT !.open = s.open \ {c}]
               x == c[2]
    <2>1. t = Expanded(q, ef, u, nbrs[l][x])
      BY <1>2 DEF Round
    <2>2. s.open # {}
      BY <1>2 DEF Done
    <2>3. /\ IsQueue(q, s.open) /\ s.open \subseteq Pairs(q, Reach(l, from))
          /\ s.visited \subseteq Reach(l, from) /\ s.found \subseteq Pairs(q, Reach(l, from))
          /\ Sound(q, from, ef, s) /\ Complete(q, l, ef, s, {})
          /\ Cardinality(s.visited) \in Nat /\ Cardinality(s.open) \in Nat
          /\ IsFiniteSet(s.open)
          /\ s = [open |-> s.open, found |-> s.found, visited |-> s.visited]
      BY StateIs
    <2>4. Stored /\ IsVector(q) /\ Reach(l, from) \subseteq Inserted
      BY ReachIs DEF Asked, ListsTyped
    <2>5. c \in s.open
      BY <2>2, <2>3, <2>4, NearestIs
    <2>6. x \in Reach(l, from) /\ c = Pair(q, x)
      BY <2>3, <2>4, <2>5, PairsAre
    <2> HIDE DEF c, x
    <2>7. /\ nbrs[l][x] \in Seq(Reach(l, from))
          /\ ToSet(nbrs[l][x]) = {nbrs[l][x][j] : j \in 1 .. Len(nbrs[l][x])}
      <3>1. /\ nbrs[l][x] \in Seq(Inserted)
            /\ ToSet(nbrs[l][x]) \subseteq Reach(l, from)
        BY <2>6, ReachIs DEF Asked
      <3>2. /\ Len(nbrs[l][x]) \in Nat /\ DOMAIN nbrs[l][x] = 1 .. Len(nbrs[l][x])
            /\ ToSet(nbrs[l][x]) = {nbrs[l][x][j] : j \in 1 .. Len(nbrs[l][x])}
        BY <3>1 DEF ToSet
      <3> QED BY <3>1, <3>2
    <2>8. /\ u = [open |-> s.open \ {c}, found |-> s.found, visited |-> s.visited]
          /\ u.open = s.open \ {c} /\ u.found = s.found /\ u.visited = s.visited
      BY <2>3
    <2> HIDE DEF u
    <2>9. Sound(q, from, ef, u)
      BY <2>3, <2>8 DEF Sound
    <2>10. Complete(q, l, ef, u, {x})
      <3> SUFFICES ASSUME Cardinality(s.found) < ef, NEW n \in s.visited, n # x
                   PROVE  Pair(q, n) \in u.open \/ ToSet(nbrs[l][n]) \subseteq s.visited
        BY <2>8 DEF Complete
      <3>1. Pair(q, n) \in s.open \/ ToSet(nbrs[l][n]) \subseteq s.visited
        BY <2>3 DEF Complete
      <3>2. Pair(q, n) # c
        BY <2>3, <2>4, <2>6, PairIs
      <3> QED BY <2>8, <3>1, <3>2
    <2>11. u \in States(q, l, from, ef, {x})
      BY <2>3, <2>8, <2>9, <2>10 DEF States
    <2>12. /\ t \in States(q, l, from, ef, {x})
           /\ \A j \in 1 .. Len(nbrs[l][x]) : nbrs[l][x][j] \in t.visited
           /\ Expansions(t) >= Expansions(u)
      BY <2>1, <2>7, <2>11, ExpandedIs
    <2>13. ToSet(nbrs[l][x]) \subseteq t.visited
      BY <2>7, <2>12
    <2>14. Complete(q, l, ef, t, {})
      BY <2>12, <2>13, StateIs DEF Complete
    <2>15. t \in States(q, l, from, ef, {})
      BY <2>12, <2>14 DEF States
    <2>16. Expansions(u) = Expansions(s) + 1
      <3>1. Cardinality(u.open) = Cardinality(s.open) - 1
        BY <2>3, <2>5, <2>8, FS_RemoveElement
      <3> QED BY <2>3, <2>8, <3>1 DEF Expansions
    <2>17. Expansions(t) > Expansions(s)
      <3>1. Expansions(t) \in Int /\ Expansions(s) \in Int
        BY <2>15, StateIs
      <3> QED BY <2>12, <2>16, <3>1
    <2> QED BY <1>2, <2>15, <2>17
  <1> QED BY <1>1, <1>2

\* The first state of a search.
LEMMA StartIs ==
    ASSUME NEW q, NEW l, NEW from, NEW ef, Asked(q, l, from, ef),
           NEW c, c = Pair(q, from),
           NEW s, s = [open |-> {c}, found |-> {c}, visited |-> {from}]
    PROVE  s \in States(q, l, from, ef, {}) /\ Expansions(s) = 0
  <1>1. /\ Stored /\ IsVector(q) /\ from \in Inserted /\ ef \in Nat \ {0}
        /\ from \in Reach(l, from)
    BY ReachIs DEF Asked, ListsTyped
  <1>2. s.open = {c} /\ s.found = {c} /\ s.visited = {from}
    OBVIOUS
  <1>3. /\ c[1] = Dist(q, Vector(from)) /\ Dist(q, Vector(from)) \in Int
        /\ Pairs(q, {from}) = {c} /\ c \in Pairs(q, Reach(l, from))
    BY <1>1, PairIs DEF Pairs
  <1>4. Cardinality({c}) = 1 /\ Cardinality({from}) = 1
    BY FS_Singleton
  <1>5. Sound(q, from, ef, s)
    BY <1>1, <1>2, <1>3, <1>4 DEF Sound
  <1>6. Complete(q, l, ef, s, {})
    BY <1>2 DEF Complete
  <1>7. s \in States(q, l, from, ef, {})
    BY <1>1, <1>3, <1>5, <1>6 DEF States
  <1> QED BY <1>2, <1>4, <1>7 DEF Expansions

\* When the loop ends with room left, it has found all that can be reached.
LEMMA DoneIs ==
    ASSUME NEW q, NEW l, NEW from, NEW ef, Asked(q, l, from, ef),
           NEW s \in States(q, l, from, ef, {}), Done(s), Cardinality(s.found) < ef
    PROVE  s.found = Pairs(q, Reach(l, from))
  <1>1. /\ IsQueue(q, s.open) /\ IsQueue(q, s.found) /\ s.visited \subseteq Inserted
        /\ s.visited \subseteq Reach(l, from)
        /\ Sound(q, from, ef, s) /\ Complete(q, l, ef, s, {})
    BY StateIs
  <1>2. Stored /\ IsVector(q) /\ from \in s.visited
    BY <1>1 DEF Asked, ListsTyped, Sound
  <1>3. s.open = {}
    <2> SUFFICES ASSUME s.open # {} PROVE FALSE
      OBVIOUS
    <2>1. Nearest(s.open) \in s.open /\ s.open \subseteq s.found
      BY <1>1, <1>2, NearestIs DEF Sound
    <2>2. Farthest(s.found) \in s.found /\ Nearest(s.open)[1] <= Farthest(s.found)[1]
      BY <1>1, <1>2, <2>1, FarthestIs
    <2>3. Nearest(s.open)[1] \in Int /\ Farthest(s.found)[1] \in Int
      BY <1>1, <1>2, <2>1, <2>2, QueueIs
    <2> QED BY <2>2, <2>3 DEF Done
  <1>4. \A n \in s.visited : ToSet(nbrs[l][n]) \subseteq s.visited
    BY <1>1, <1>3 DEF Complete
  <1>5. Reach(l, from) \subseteq s.visited
    BY <1>1, <1>2, <1>4, ReachIs DEF Asked
  <1> QED BY <1>1, <1>5 DEF Sound

\* The results of a search, when ef may be kept of what can be reached.
IsResult(q, l, from, ef, found) ==
    /\ found \subseteq Pairs(q, Reach(l, from)) /\ found # {}
    /\ Cardinality(found) <= ef
    /\ Cardinality(found) < ef => found = Pairs(q, Reach(l, from))
    /\ \E a \in found : a[1] <= Dist(q, Vector(from))

\* The main loop ends after as many rounds as there are nodes.
LEMMA FoundIs ==
    ASSUME NEW q, NEW l, NEW from, NEW ef, Asked(q, l, from, ef)
    PROVE  IsResult(q, l, from, ef, Found(q, l, from, ef))
  <1> DEFINE N == Len(store)
             V == States(q, l, from, ef, {})
             c == Pair(q, from)
             v == [open |-> {c}, found |-> {c}, visited |-> {from}]
             Step(x) == Round(q, l, ef, x)
             IsLoop(h) == h = [n \in 0 .. N |-> IF n = 0 THEN v ELSE Step(h[n - 1])]
             G == [n \in 1 .. N |-> [x \in V |-> Step(x)]]
             rounds == CHOOSE h : IsLoop(h)
  <1>1. N \in Nat
    BY DEF Asked, ListsTyped, Stored
  <1>2. v \in V /\ Expansions(v) = 0
    BY StartIs
  <1>3. \A x \in V : /\ Step(x) \in V
                     /\ Done(x) => Step(x) = x
                     /\ ~Done(x) => Expansions(Step(x)) > Expansions(x)
    BY RoundIs
  <1>4. Found(q, l, from, ef) = rounds[N].found
    BY DEF Found
  <1> HIDE DEF Step, v
  <1>5. /\ G \in [1 .. N -> [V -> V]]
        /\ \A i \in 1 .. N : \A x \in V : G[i][x] = Step(x)
    BY <1>3
  <1>6. PICK f \in [0 .. N -> V] : f[0] = v /\ \A i \in 1 .. N : f[i] = G[i][f[i - 1]]
    <2> HIDE DEF G, N, V
    <2>1. Iterations(N, V, v, G) # {}
      BY <1>1, <1>2, <1>5, Iterates
    <2> QED BY <2>1 DEF Iterations
  <1>7. IsLoop(f)
    <2> HIDE DEF N, G, V
    <2>1. \A i \in 1 .. N : f[i] = Step(f[i - 1])
      <3> TAKE i \in 1 .. N
      <3>1. i - 1 \in 0 .. N
        BY <1>1
      <3> QED BY <1>5, <1>6, <3>1
    <2>2. \A i \in 0 .. N : i # 0 => i \in 1 .. N
      BY <1>1
    <2> QED BY <1>6, <2>1, <2>2
  <1>8. IsLoop(rounds)
    <2> HIDE DEF N
    <2> QED BY <1>7
  <1> HIDE DEF rounds, N
  <1>9. rounds[0] = v /\ \A i \in 1 .. N : rounds[i] = Step(rounds[i - 1])
    <2>1. rounds = [i \in 0 .. N |-> IF i = 0 THEN v ELSE Step(rounds[i - 1])]
      BY <1>8
    <2>2. 0 \in 0 .. N /\ \A i \in 1 .. N : i \in 0 .. N /\ i # 0
      BY <1>1
    <2> QED BY <2>1, <2>2
  <1> HIDE DEF V
  <1>10. \A x \in V : Expansions(x) \in Int
    BY StateIs DEF V
  <1> DEFINE T == {i \in 0 .. N : /\ rounds[i] \in V
                                  /\ Done(rounds[i]) \/ Expansions(rounds[i]) >= i}
  <1>11. 0 \in T
    BY <1>1, <1>2, <1>9
  <1>12. ASSUME NEW i \in 1 .. N, i - 1 \in T PROVE i \in T
    <2> DEFINE x == rounds[i - 1]
    <2>1. /\ x \in V /\ i \in 0 .. N /\ i \in Nat /\ rounds[i] = Step(x)
          /\ Done(x) \/ Expansions(x) >= i - 1
      BY <1>1, <1>9, <1>12
    <2> HIDE DEF x
    <2>2. rounds[i] \in V /\ Expansions(rounds[i]) \in Int /\ Expansions(x) \in Int
      BY <1>3, <1>10, <2>1
    <2>3. CASE Done(x)
      BY <1>3, <2>1, <2>2, <2>3
    <2>4. CASE ~Done(x)
      <3>1. Expansions(rounds[i]) > Expansions(x) /\ Expansions(x) >= i - 1
        BY <1>3, <2>1, <2>4
      <3>2. Expansions(rounds[i]) >= i
        BY <2>1, <2>2, <3>1
      <3> QED BY <2>1, <2>2, <3>2
    <2> QED BY <2>3, <2>4
  <1> HIDE DEF T
  <1> DEFINE s == rounds[N]
  <1>13. s \in V /\ (Done(s) \/ Expansions(s) >= N)
    <2>1. 0 .. N \subseteq T
      BY <1>1, <1>11, <1>12, UpTo
    <2>2. N \in T
      BY <1>1, <2>1
    <2> QED BY <2>2 DEF T
  <1> HIDE DEF s
  <1>14. /\ Sound(q, from, ef, s) /\ s.found \subseteq Pairs(q, Reach(l, from))
         /\ Cardinality(s.visited) \in Nat /\ Cardinality(s.visited) <= N
         /\ Cardinality(s.open) \in Nat /\ IsFiniteSet(s.open)
    BY <1>13, StateIs DEF V, N
  <1>15. Done(s)
    <2> SUFFICES ASSUME Expansions(s) >= N PROVE Done(s)
      BY <1>13
    <2>1. Cardinality(s.open) = 0
      BY <1>1, <1>14 DEF Expansions
    <2>2. s.open = {}
      BY <1>14, <2>1, FS_EmptySet
    <2> QED BY <2>2 DEF Done
  <1>16. Cardinality(s.found) < ef => s.found = Pairs(q, Reach(l, from))
    BY <1>13, <1>15, DoneIs DEF V
  <1>17. IsResult(q, l, from, ef, s.found)
    BY <1>14, <1>16 DEF IsResult, Sound
  <1> QED BY <1>4, <1>17 DEF s

\* What greedy_search() returns: nodes it can reach, each once and nearest
\* first, all of them or ef, and the first not farther than the start.
LEMMA GreedySearchIs ==
    ASSUME NEW q, NEW l, NEW from, NEW ef, Asked(q, l, from, ef),
           NEW out, out = GreedySearch(q, l, from, ef)
    PROVE  /\ out \in Seq(Inserted) /\ Distinct(out) /\ Len(out) > 0
           /\ ListsQueue(q, Found(q, l, from, ef), out)
           /\ IsResult(q, l, from, ef, Found(q, l, from, ef))
           /\ IsQueue(q, Found(q, l, from, ef))
           /\ ToSet(out) \subseteq Reach(l, from) /\ Head(out) \in ToSet(out) /\ Head(out) = out[1]
           /\ ToSet(out) \in Graph!SearchResults(l, from, ef)
           /\ Cardinality(Reach(l, from)) <= ef =>
                 Found(q, l, from, ef) = Pairs(q, Reach(l, from))
           /\ Len(out) = IF Cardinality(Reach(l, from)) <= ef
                         THEN Cardinality(Reach(l, from)) ELSE ef
           /\ Dist(q, Vector(out[1])) <= Dist(q, Vector(from))
  <1> DEFINE found == Found(q, l, from, ef)
             R == Reach(l, from)
  <1>1. /\ Stored /\ IsVector(q) /\ from \in Inserted /\ ef \in Nat \ {0}
        /\ R \subseteq Inserted
    BY ReachIs DEF Asked, ListsTyped
  <1>2. IsResult(q, l, from, ef, found)
    BY FoundIs
  <1> HIDE DEF found, R
  <1>3. IsQueue(q, found) /\ found \subseteq Pairs(q, R)
    BY <1>1, <1>2 DEF IsResult, IsQueue, Pairs, R
  <1>4. ListsQueue(q, found, out)
    <2>1. out = Offsets(found)
      BY DEF GreedySearch, found
    <2> QED BY <1>1, <1>3, <2>1, OffsetsAre
  <1>5. /\ IsFiniteSet(found) /\ Cardinality(found) \in Nat
        /\ Cardinality(R) \in Nat /\ Cardinality(Pairs(q, R)) = Cardinality(R)
        /\ IsFiniteSet(Pairs(q, R)) /\ IsFiniteSet(R)
    BY <1>1, <1>3, QueueIs, PairsAre, InsertedIs
  <1>6. Cardinality(found) <= Cardinality(R) /\ Cardinality(found) > 0
    <2>1. Cardinality(found) <= Cardinality(R)
      BY <1>3, <1>5, FS_Subset
    <2>2. Cardinality(found) # 0
      BY <1>2, <1>5, FS_EmptySet DEF IsResult
    <2> QED BY <1>5, <2>1, <2>2
  <1>7. Cardinality(R) <= ef => found = Pairs(q, R)
    <2> HAVE Cardinality(R) <= ef
    <2>1. CASE Cardinality(found) < ef
      BY <1>2, <2>1 DEF IsResult, R
    <2>2. CASE Cardinality(found) = ef
      <3>1. Cardinality(found) = Cardinality(Pairs(q, R))
        BY <1>1, <1>5, <1>6, <2>2
      <3> QED BY <1>3, <1>5, <3>1, FS_Subset
    <2> QED BY <1>1, <1>2, <1>5, <2>1, <2>2 DEF IsResult
  <1>8. Cardinality(found) = IF Cardinality(R) <= ef THEN Cardinality(R) ELSE ef
    <2>1. CASE Cardinality(R) <= ef
      BY <1>5, <1>7, <2>1
    <2>2. CASE ~(Cardinality(R) <= ef)
      <3>1. ~(Cardinality(found) < ef)
        BY <1>1, <1>2, <1>5, <2>2 DEF IsResult, R
      <3> QED BY <1>1, <1>2, <1>5, <2>2, <3>1 DEF IsResult
    <2> QED BY <2>1, <2>2
  <1>9. out \in Seq(Inserted) /\ Len(out) = Cardinality(found) /\ Len(out) > 0 /\ Len(out) \in Nat
    BY <1>4, <1>5, <1>6 DEF ListsQueue
  <1>10. Distinct(out)
    <2> SUFFICES ASSUME NEW i \in 1 .. Len(out), NEW j \in 1 .. Len(out), i # j
                 PROVE  out[i] # out[j]
      BY DEF Distinct
    <2>1. i < j \/ j < i
      BY <1>9
    <2> QED BY <1>4, <2>1 DEF ListsQueue
  <1>11. ToSet(out) \subseteq R
    <2> SUFFICES ASSUME NEW n \in ToSet(out) PROVE n \in R
      OBVIOUS
    <2>1. PICK i \in 1 .. Len(out) : out[i] = n
      BY <1>1, <1>9, ListIs
    <2>2. Pair(q, n) \in found /\ n \in Inserted
      BY <1>4, <1>9, <2>1 DEF ListsQueue
    <2> QED BY <1>1, <1>3, <2>2, PairsAre, PairIs
  <1>12. 1 \in 1 .. Len(out) /\ Head(out) = out[1] /\ Head(out) \in ToSet(out)
    BY <1>1, <1>9, ListIs
  <1>13. Cardinality(ToSet(out)) = Len(out)
    BY <1>1, <1>9, <1>10, ListIs
  <1>14. ToSet(out) \in Graph!SearchResults(l, from, ef)
    <2>1. CASE Cardinality(R) <= ef
      <3>1. ToSet(out) = R
        BY <1>5, <1>8, <1>9, <1>11, <1>13, <2>1, FS_Subset
      <3> QED BY <2>1, <3>1, GraphAllows DEF R
    <2>2. CASE ~(Cardinality(R) <= ef)
      <3>1. Cardinality(ToSet(out)) = ef
        BY <1>8, <1>9, <1>13, <2>2
      <3> QED BY <1>11, <2>2, <3>1, GraphAllows DEF R
    <2> QED BY <2>1, <2>2
  <1>15. Dist(q, Vector(out[1])) <= Dist(q, Vector(from))
    <2>1. PICK a \in found : a[1] <= Dist(q, Vector(from))
      BY <1>2 DEF IsResult
    <2>2. PICK i \in 1 .. Len(out) : Pair(q, out[i]) = a
      BY <1>4 DEF ListsQueue
    <2>3. out[1] \in Inserted /\ out[i] \in Inserted
      BY <1>9, <1>12
    <2>4. /\ Pair(q, out[1])[1] = Dist(q, Vector(out[1])) /\ Dist(q, Vector(out[1])) \in Int
          /\ a[1] \in Int /\ Dist(q, Vector(from)) \in Int
      BY <1>1, <2>2, <2>3, PairIs
    <2>5. CASE i = 1
      BY <2>1, <2>2, <2>4, <2>5
    <2>6. CASE 1 < i
      <3>1. Closer(Pair(q, out[1]), a)
        BY <1>4, <1>12, <2>2, <2>6 DEF ListsQueue
      <3>2. Pair(q, out[1])[1] <= a[1]
        BY <2>4, <3>1 DEF Closer
      <3> QED BY <2>1, <2>4, <3>2
    <2> QED BY <1>9, <2>5, <2>6
  <1> QED BY <1>2, <1>3, <1>4, <1>7, <1>8, <1>9, <1>10, <1>11, <1>12, <1>14, <1>15 DEF found, R

-----------------------------------------------------------------------------
(* Sequences.                                                              *)

\* The elements from i to j.
LEMMA PartIs ==
    ASSUME NEW X, NEW s \in Seq(X), NEW i \in Nat \ {0}, NEW j \in Nat,
           i <= j + 1, j <= Len(s), NEW t, t = SubSeq(s, i, j)
    PROVE  /\ t \in Seq(X) /\ Len(t) = j - i + 1
           /\ \A n \in 1 .. j - i + 1 : t[n] = s[i + n - 1]
  <1>1. /\ \A n \in 1 .. j - i + 1 : i + n - 1 \in 1 .. Len(s)
        /\ Len(s) \in Nat /\ j - i + 1 \in Nat
    OBVIOUS
  <1>2. t = [n \in 1 .. j - i + 1 |-> s[i + n - 1]]
    OBVIOUS
  <1>3. \A n \in 1 .. Len(s) : s[n] \in X
    OBVIOUS
  <1> DEFINE N == j - i + 1
  <1>4. t \in [1 .. N -> X]
    BY <1>1, <1>2, <1>3
  <1>5. N \in Nat
    BY <1>1
  <1> HIDE DEF N
  <1>6. t \in Seq(X) /\ Len(t) = N
    BY <1>4, <1>5
  <1> QED BY <1>2, <1>6 DEF N

\* One sequence behind another.
LEMMA JoinIs ==
    ASSUME NEW X, NEW a \in Seq(X), NEW b \in Seq(X), NEW t, t = a \o b
    PROVE  /\ t \in Seq(X) /\ Len(t) = Len(a) + Len(b)
           /\ \A i \in 1 .. Len(a) : t[i] = a[i]
           /\ \A i \in 1 .. Len(b) : t[Len(a) + i] = b[i]
  <1>1. t \in Seq(X) /\ Len(t) = Len(a) + Len(b) /\ Len(a) \in Nat /\ Len(b) \in Nat
    OBVIOUS
  <1>2. ASSUME NEW i \in 1 .. Len(a) PROVE t[i] = a[i]
    OBVIOUS
  <1>3. ASSUME NEW i \in 1 .. Len(b) PROVE t[Len(a) + i] = b[i]
    OBVIOUS
  <1> QED BY <1>1, <1>2, <1>3

-----------------------------------------------------------------------------
(* Linking back.                                                           *)

\* remove_neighbor(): the list without one of its nodes.
LEMMA WithoutIs ==
    ASSUME Stored, NEW s \in Seq(Inserted), Distinct(s), NEW n, NEW l,
           NEW t, t = Without(s, n, l)
    PROVE  /\ t \in Seq(Inserted) /\ Distinct(t) /\ Len(t) <= Len(s)
           /\ ToSet(t) = ToSet(s) \ {n}
  <1>1. /\ Len(s) \in Nat /\ \A i \in 1 .. Len(s) : s[i] \in Inserted
        /\ \A m : m \in ToSet(s) <=> \E i \in 1 .. Len(s) : s[i] = m
    BY ListIs
  <1>2. CASE ~Contains(s, n)
    <2>1. t = s /\ n \notin ToSet(s)
      BY <1>1, <1>2 DEF Without, Contains
    <2> QED BY <1>1, <2>1
  <1>3. CASE Contains(s, n)
    <2>1. PICK k \in 1 .. Len(s) : s[k] = n
      BY <1>3 DEF Contains
    <2> DEFINE N == Len(s) - 1
    <2>2. /\ N \in Nat /\ N + 1 = Len(s) /\ k \in 1 .. N + 1 /\ N + 1 \in 1 .. N + 1
          /\ \A i \in 1 .. N : i \in 1 .. N + 1 /\ i + 1 \in 1 .. N + 1 /\ i # N + 1
      BY <1>1, <2>1
    <2>3. CASE l = 0
      <3> DEFINE r == ReplaceAll(s, n, Last(s))
      <3>1. /\ r \in Seq(Inserted) /\ Len(r) = Len(s)
            /\ \A i \in 1 .. Len(s) : r[i] = IF s[i] = n THEN s[Len(s)] ELSE s[i]
        <4>1. r = [i \in 1 .. Len(s) |-> IF s[i] = n THEN s[Len(s)] ELSE s[i]]
          BY DEF ReplaceAll, Last
        <4>2. \A i \in 1 .. Len(s) : (IF s[i] = n THEN s[Len(s)] ELSE s[i]) \in Inserted
          BY <1>1, <2>2
        <4> HIDE DEF r
        <4>3. r \in [1 .. Len(s) -> Inserted]
          BY <4>1, <4>2
        <4>4. r \in Seq(Inserted) /\ Len(r) = Len(s)
          BY <1>1, <4>3
        <4> QED BY <4>1, <4>4
      <3> HIDE DEF r
      <3>2. t = SubSeq(r, 1, N)
        BY <1>3, <2>3, <3>1 DEF Without, Front, r
      <3>3. /\ t \in Seq(Inserted) /\ Len(t) = N
            /\ \A i \in 1 .. N : t[i] = r[i]
        <4>1. /\ 1 \in Nat \ {0} /\ 1 <= N + 1 /\ N <= Len(r) /\ N - 1 + 1 = N
              /\ \A i \in 1 .. N : 1 + i - 1 = i
          BY <1>1, <2>1, <3>1
        <4> HIDE DEF N
        <4>2. /\ t \in Seq(Inserted) /\ Len(t) = N - 1 + 1
              /\ \A i \in 1 .. N - 1 + 1 : t[i] = r[1 + i - 1]
          BY <2>2, <3>1, <3>2, <4>1, PartIs
        <4> QED BY <4>1, <4>2
      <3> HIDE DEF N
      <3>4. \A i \in 1 .. N : t[i] = IF i = k THEN s[N + 1] ELSE s[i]
        BY <2>1, <2>2, <3>1, <3>3 DEF Distinct
      <3>5. Distinct(t)
        BY <2>2, <3>3, <3>4 DEF Distinct
      <3>6. \A m : m \in ToSet(t) <=> \E i \in 1 .. N : t[i] = m
        BY <3>3, ListIs
      <3>7. \A m \in ToSet(t) : m \in ToSet(s) /\ m # n
        BY <1>1, <2>1, <2>2, <3>4, <3>6 DEF Distinct
      <3>8. ASSUME NEW m \in ToSet(s), m # n PROVE m \in ToSet(t)
        <4>1. PICK i \in 1 .. N + 1 : s[i] = m
          BY <1>1, <2>2
        <4>2. CASE i \in 1 .. N
          BY <2>1, <3>4, <3>6, <3>8, <4>1, <4>2
        <4>3. CASE i = N + 1
          <5>1. k \in 1 .. N /\ t[k] = m
            BY <2>1, <2>2, <3>4, <3>8, <4>1, <4>3
          <5> QED BY <3>6, <5>1
        <4> QED BY <2>2, <4>1, <4>2, <4>3
      <3> QED BY <2>2, <3>3, <3>5, <3>7, <3>8
    <2>4. CASE l # 0
      <3>1. SelectInSeq(s, LAMBDA v : v = n) = k
        <4> DEFINE I == {i \in 1 .. Len(s) : s[i] = n}
        <4>1. I = {k}
          BY <2>1 DEF Distinct
        <4>2. (IF I # {} THEN Min(I) ELSE 0) = k
          <5>1. \E x \in {k} : \A y \in {k} : x =< y
            <6>1. k \in Int
              BY <1>1, <2>1
            <6> QED BY <6>1
          <5>2. Min({k}) \in {k}
            BY <5>1 DEF Min
          <5>3. Min({k}) = k
            BY <5>2
          <5> QED BY <4>1, <5>3
        <4> QED BY <4>2 DEF SelectInSeq
      <3>2. t = SubSeq(s, 1, k - 1) \o SubSeq(s, k + 1, Len(s))
        BY <1>3, <2>1, <2>4, <3>1 DEF Without, RemoveFirst, RemoveAt
      <3>3. /\ t \in Seq(Inserted) /\ Len(t) = N
            /\ \A i \in 1 .. N : t[i] = IF i < k THEN s[i] ELSE s[i + 1]
        <4> DEFINE a == SubSeq(s, 1, k - 1)
                   b == SubSeq(s, k + 1, Len(s))
        <4>1. a \in Seq(Inserted) /\ Len(a) = k - 1 /\ \A i \in 1 .. k - 1 : a[i] = s[i]
          <5>1. /\ 1 \in Nat \ {0} /\ k - 1 \in Nat /\ 1 <= k - 1 + 1 /\ k - 1 <= Len(s)
                /\ k - 1 - 1 + 1 = k - 1 /\ \A i \in 1 .. k - 1 : 1 + i - 1 = i
            BY <1>1, <2>1
          <5>2. /\ a \in Seq(Inserted) /\ Len(a) = k - 1 - 1 + 1
                /\ \A i \in 1 .. k - 1 - 1 + 1 : a[i] = s[1 + i - 1]
            BY <5>1, PartIs
          <5> QED BY <5>1, <5>2
        <4>2. /\ b \in Seq(Inserted) /\ Len(b) = Len(s) - k
              /\ \A i \in 1 .. Len(s) - k : b[i] = s[k + i]
          <5>1. /\ k + 1 \in Nat \ {0} /\ k + 1 <= Len(s) + 1 /\ Len(s) <= Len(s)
                /\ Len(s) - (k + 1) + 1 = Len(s) - k
                /\ \A i \in 1 .. Len(s) - k : (k + 1) + i - 1 = k + i
            BY <1>1, <2>1
          <5>2. /\ b \in Seq(Inserted) /\ Len(b) = Len(s) - (k + 1) + 1
                /\ \A i \in 1 .. Len(s) - (k + 1) + 1 : b[i] = s[(k + 1) + i - 1]
            <6> DEFINE x == k + 1
                       y == Len(s)
            <6>1. /\ x \in Nat \ {0} /\ y \in Nat /\ x <= y + 1 /\ y <= Len(s)
                  /\ b = SubSeq(s, x, y)
              BY <1>1, <5>1
            <6> SUFFICES /\ b \in Seq(Inserted) /\ Len(b) = y - x + 1
                         /\ \A i \in 1 .. y - x + 1 : b[i] = s[x + i - 1]
              OBVIOUS
            <6> HIDE DEF x, y, b
            <6> QED BY <6>1, PartIs
          <5> QED BY <5>1, <5>2
        <4>3. t = a \o b
          BY <3>2
        <4> HIDE DEF a, b
        <4>4. /\ t \in Seq(Inserted) /\ Len(t) = Len(a) + Len(b)
              /\ \A i \in 1 .. Len(a) : t[i] = a[i]
              /\ \A i \in 1 .. Len(b) : t[Len(a) + i] = b[i]
          <5>1. a \in Seq(Inserted) /\ b \in Seq(Inserted)
            BY <4>1, <4>2
          <5> QED BY <4>3, <5>1, JoinIs
        <4>5. Len(t) = N
          BY <1>1, <2>1, <4>1, <4>2, <4>4
        <4>6. ASSUME NEW i \in 1 .. N PROVE t[i] = IF i < k THEN s[i] ELSE s[i + 1]
          <5>1. CASE i < k
            <6>1. i \in 1 .. k - 1
              BY <2>1, <5>1
            <6> QED BY <4>1, <4>4, <5>1, <6>1
          <5>2. CASE ~(i < k)
            <6> DEFINE j == i - (k - 1)
            <6>1. /\ j \in 1 .. Len(s) - k /\ k - 1 + j = i /\ k + j = i + 1
              BY <1>1, <2>1, <5>2
            <6> HIDE DEF j
            <6>2. t[i] = b[j] /\ b[j] = s[i + 1]
              BY <4>1, <4>2, <4>4, <6>1
            <6> QED BY <5>2, <6>2
          <5> QED BY <5>1, <5>2
        <4> QED BY <4>4, <4>5, <4>6
      <3> HIDE DEF N
      <3>4. Distinct(t)
        <4> SUFFICES ASSUME NEW i \in 1 .. N, NEW j \in 1 .. N, t[i] = t[j]
                     PROVE  i = j
          BY <3>3 DEF Distinct
        <4> DEFINE at(x) == IF x < k THEN x ELSE x + 1
        <4>1. /\ at(i) \in 1 .. Len(s) /\ at(j) \in 1 .. Len(s)
              /\ t[i] = s[at(i)] /\ t[j] = s[at(j)]
          BY <2>2, <3>3
        <4>2. at(i) = at(j)
          <5> HIDE DEF at
          <5> QED BY <4>1 DEF Distinct
        <4> QED BY <2>2, <4>2
      <3>5. \A m : m \in ToSet(t) <=> \E i \in 1 .. N : t[i] = m
        BY <3>3, ListIs
      <3>6. \A m \in ToSet(t) : m \in ToSet(s) /\ m # n
        <4> TAKE m \in ToSet(t)
        <4>1. PICK i \in 1 .. N : t[i] = m
          BY <3>5
        <4>2. CASE i < k
          BY <1>1, <2>1, <2>2, <3>3, <4>1, <4>2 DEF Distinct
        <4>3. CASE ~(i < k)
          <5>1. s[i + 1] = m /\ i + 1 # k /\ i + 1 \in 1 .. Len(s)
            BY <2>2, <3>3, <4>1, <4>3
          <5> QED BY <1>1, <2>1, <5>1 DEF Distinct
        <4> QED BY <4>2, <4>3
      <3>7. ASSUME NEW m \in ToSet(s), m # n PROVE m \in ToSet(t)
        <4>1. PICK i \in 1 .. N + 1 : s[i] = m
          BY <1>1, <2>2
        <4>2. CASE i < k
          <5>1. i \in 1 .. N /\ t[i] = m
            BY <2>2, <3>3, <4>1, <4>2
          <5> QED BY <3>5, <5>1
        <4>3. CASE i > k
          <5>1. i - 1 \in 1 .. N /\ ~(i - 1 < k) /\ (i - 1) + 1 = i
            BY <2>2, <4>3
          <5>2. t[i - 1] = m
            BY <3>3, <4>1, <5>1
          <5> QED BY <3>5, <5>1, <5>2
        <4> QED BY <2>1, <2>2, <3>7, <4>1, <4>2, <4>3
      <3> QED BY <2>2, <3>3, <3>4, <3>6, <3>7
    <2> QED BY <2>3, <2>4
  <1> QED BY <1>2, <1>3

-----------------------------------------------------------------------------
(* The inductive invariant.                                                *)

\* The nodes that were there before the insert() in progress.
Old == Inserted \ {cur}

\* No list holds a node twice, or the node it belongs to, or more than its
\* layer allows.
ListsBounded ==
    \A l \in Layer : \A n \in Node :
        /\ Distinct(nbrs[l][n])
        /\ Len(nbrs[l][n]) <= MaxConnections(l)
        /\ n \notin ToSet(nbrs[l][n])

\* The search of the insert() in progress starts at an older node, the nodes
\* that have yet to link back are older ones too.
Progress ==
    /\ levels \in [Node -> Layer]
    /\ maxLevel \in Layer
    /\ layer \in Layer
    /\ entry \in Nat
    /\ store # <<>> => entry \in Inserted
    /\ cur # None => cur = Len(store) - 1 /\ start \in Old
    /\ todo \in Seq(Old) /\ Distinct(todo)
    /\ todo # <<>> => cur # None /\ layer <= levels[cur]

\* No list holds the new node on a layer that insert() has not come to.
Fresh ==
    cur # None =>
        \A l \in 0 .. layer : l < layer \/ todo = <<>> =>
            \A n \in Inserted : cur \notin ToSet(nbrs[l][n])

\* A set of nodes that no link of layer 0 leaves.
Closed(S) == S \subseteq Inserted /\ \A n \in S : ToSet(nbrs[0][n]) \subseteq S

\* Until a list of layer 0 can overflow, its older nodes hang together, and
\* each neighbour of the new one has linked back or will.
Joined ==
    Len(store) <= 2 * M + 1 =>
        /\ \A S \in SUBSET Inserted : Closed(S) /\ S \cap Old # {} => Old \subseteq S
        /\ cur # None /\ layer = 0 /\ todo # <<>> =>
              /\ ToSet(todo) \subseteq ToSet(nbrs[0][cur])
              /\ \A n \in ToSet(nbrs[0][cur]) :
                    n \in ToSet(todo) \/ cur \in ToSet(nbrs[0][n])

IndexInv == ListsTyped /\ ListsBounded /\ Progress /\ Fresh /\ Joined

\* What the lists of the layer are when nb has linked back to the new node: nb
\* keeps all it has, or as many as its layer allows, and those that it drops
\* drop nb.
IsLinkedBack(nb, kept, out) ==
    LET linked == ToSet(nbrs[layer][nb]) \cup {cur}
    IN  /\ out \in [Node -> Seq(Inserted)]
        /\ \A n \in Node :
              /\ Distinct(out[n]) /\ Len(out[n]) <= MaxConnections(layer)
              /\ ToSet(out[n]) =
                    IF n = nb THEN kept
                    ELSE IF n \in linked \ kept THEN ToSet(nbrs[layer][n]) \ {nb}
                    ELSE ToSet(nbrs[layer][n])
        /\ kept \in SUBSET linked
        /\ IF Cardinality(linked) <= MaxConnections(layer)
           THEN kept = linked ELSE Cardinality(kept) = MaxConnections(layer)

\* The node that links back, and the list it has.
LEMMA LinkingIs ==
    ASSUME IndexInv, cur # None, todo # <<>>, NEW nb, nb = Head(todo)
    PROVE  /\ Stored /\ layer \in Layer /\ Inserted \subseteq Node
           /\ nb \in Old /\ nb \in Inserted /\ nb # cur /\ cur \in Inserted
           /\ nbrs[layer] \in [Node -> Seq(Inserted)]
           /\ \A n \in Node :
                 /\ Distinct(nbrs[layer][n]) /\ Len(nbrs[layer][n]) <= MaxConnections(layer)
                 /\ n \notin ToSet(nbrs[layer][n])
           /\ nb \in ToSet(todo)
           /\ MaxConnections(layer) \in Nat \ {0}
  <1>1. /\ Stored /\ layer \in Layer /\ nbrs[layer] \in [Node -> Seq(Inserted)]
        /\ Inserted \subseteq Node
    BY InsertedNode DEF IndexInv, Progress, ListsTyped
  <1>2. todo \in Seq(Old) /\ cur = Len(store) - 1 /\ start \in Old
    BY DEF IndexInv, Progress
  <1>3. nb \in Old /\ nb = todo[1] /\ 1 \in 1 .. Len(todo)
    BY <1>2
  <1>4. nb \in ToSet(todo)
    <2>1. DOMAIN todo = 1 .. Len(todo)
      BY <1>2
    <2> QED BY <1>3, <2>1 DEF ToSet
  <1>5. cur \in Inserted
    BY <1>1, <1>2, VectorIs DEF Inserted, Old
  <1>6. MaxConnections(layer) \in Nat \ {0}
    BY MAssumption DEF MaxConnections
  <1>7. \A n \in Node :
           /\ Distinct(nbrs[layer][n]) /\ Len(nbrs[layer][n]) <= MaxConnections(layer)
           /\ n \notin ToSet(nbrs[layer][n])
    BY <1>1 DEF IndexInv, ListsBounded
  <1> QED BY <1>1, <1>3, <1>4, <1>5, <1>6, <1>7 DEF Old

\* The pruning of a list that has become one too long.
LEMMA PrunedIs ==
    ASSUME IndexInv, cur # None, todo # <<>>, NEW nb, nb = Head(todo),
           NEW linked, linked = Append(nbrs[layer][nb], cur),
           cur \notin ToSet(nbrs[layer][nb]), Len(linked) > MaxConnections(layer)
    PROVE  \E kept : IsLinkedBack(nb, kept, Pruned(nb, linked))
  <1> DEFINE s == nbrs[layer][nb]
             m == MaxConnections(layer)
             q == Vector(nb)
             P == Pairs(q, ToSet(linked))
             scored == Offsets(P)
             sel == Selected(q, scored, m)
             out == Pruned(nb, linked)
  <1>1. /\ Stored /\ Inserted \subseteq Node
        /\ nb \in Inserted /\ nb # cur /\ cur \in Inserted
        /\ nbrs[layer] \in [Node -> Seq(Inserted)]
        /\ \A n \in Node : /\ Distinct(nbrs[layer][n])
                           /\ Len(nbrs[layer][n]) <= m
                           /\ n \notin ToSet(nbrs[layer][n])
        /\ m \in Nat \ {0}
    BY LinkingIs
  <1>2. /\ s \in Seq(Inserted) /\ Distinct(s) /\ nb \in Node
    BY <1>1
  <1>3. /\ linked \in Seq(Inserted) /\ Len(linked) = Len(s) + 1 /\ Distinct(linked)
        /\ ToSet(linked) = ToSet(s) \cup {cur}
    <2> HIDE DEF s
    <2>1. linked = Append(s, cur) /\ cur \notin ToSet(s)
      BY DEF s
    <2> QED BY <1>1, <1>2, <2>1, AppendIs
  <1>4. /\ ToSet(linked) \subseteq Inserted /\ IsVector(q)
        /\ Cardinality(ToSet(linked)) = Len(linked) /\ Len(linked) \in Nat
    BY <1>1, <1>3, ListIs, VectorIs
  <1> HIDE DEF q, m
  <1>5. IsQueue(q, P) /\ Cardinality(P) = Len(linked)
    <2>1. P \in SUBSET Pairs(q, Inserted)
      BY <1>4 DEF Pairs
    <2>2. ToSet(linked) \in SUBSET Inserted
      BY <1>4
    <2>3. Cardinality(P) = Cardinality(ToSet(linked))
      BY <1>1, <1>4, <2>2, PairsAre
    <2> QED BY <1>4, <2>1, <2>3 DEF IsQueue
  <1>6. \A n \in Inserted : Pair(q, n)[2] = n
    BY <1>1, <1>4, PairIs
  <1> HIDE DEF P
  <1>7. ListsQueue(q, P, scored)
    BY <1>1, <1>4, <1>5, OffsetsAre
  <1> HIDE DEF scored
  <1>8. scored \in Seq(Inserted) /\ Distinct(scored) /\ Len(scored) = Len(linked)
    <2>1. /\ scored \in Seq(Inserted) /\ Len(scored) = Len(linked)
          /\ \A i, j \in 1 .. Len(scored) : i < j => scored[i] # scored[j]
      BY <1>5, <1>7 DEF ListsQueue
    <2>2. \A i, j \in 1 .. Len(scored) : i < j \/ j < i \/ i = j
      BY <1>4, <2>1
    <2> QED BY <2>1, <2>2 DEF Distinct
  <1>9. ToSet(scored) = ToSet(linked)
    <2>1. \A n : n \in ToSet(scored) <=> \E i \in 1 .. Len(scored) : scored[i] = n
      BY <1>1, <1>8, ListIs
    <2>2. \A n \in ToSet(scored) : n \in ToSet(linked)
      <3> TAKE n \in ToSet(scored)
      <3>1. PICK i \in 1 .. Len(scored) : scored[i] = n
        BY <2>1
      <3>2. Pair(q, n) \in P /\ n \in Inserted
        BY <1>7, <1>8, <3>1 DEF ListsQueue
      <3>3. PICK x \in ToSet(linked) : Pair(q, n) = Pair(q, x)
        BY <3>2 DEF P, Pairs
      <3> QED BY <1>4, <1>6, <3>2, <3>3
    <2>3. \A n \in ToSet(linked) : n \in ToSet(scored)
      <3> TAKE n \in ToSet(linked)
      <3>1. Pair(q, n) \in P /\ Pair(q, n)[2] = n
        BY <1>4, <1>6 DEF P, Pairs
      <3>2. PICK i \in 1 .. Len(scored) : scored[i] = Pair(q, n)[2]
        BY <1>7, <3>1 DEF ListsQueue
      <3> QED BY <2>1, <3>1, <3>2
    <2> QED BY <2>2, <2>3
  <1>10. /\ sel \in Seq(Inserted) /\ Distinct(sel) /\ Len(sel) <= m
         /\ ToSet(sel) \subseteq ToSet(linked)
         /\ Len(sel) = m \/ ToSet(sel) = ToSet(linked)
    BY <1>1, <1>8, <1>9, SelectedIs DEF AreCandidates
  <1>11. Cardinality(ToSet(sel)) = Len(sel) /\ Len(sel) \in Nat
    BY <1>1, <1>10, ListIs
  <1>12. Len(sel) = m /\ ~(Cardinality(ToSet(linked)) <= m)
    BY <1>1, <1>4, <1>10, <1>11 DEF m
  <1> HIDE DEF sel
  <1>13. out = [n \in Node |->
                   IF n = nb THEN sel
                   ELSE IF n \in ToSet(linked) \ ToSet(sel)
                        THEN Without(nbrs[layer][n], nb, layer)
                   ELSE nbrs[layer][n]]
    BY DEF Pruned, sel, scored, P, Pairs, q, m
  <1>14. \A n \in Node :
            /\ out[n] \in Seq(Inserted) /\ Distinct(out[n]) /\ Len(out[n]) <= m
            /\ ToSet(out[n]) =
                  IF n = nb THEN ToSet(sel)
                  ELSE IF n \in ToSet(linked) \ ToSet(sel)
                       THEN ToSet(nbrs[layer][n]) \ {nb}
                  ELSE ToSet(nbrs[layer][n])
    <2> TAKE n \in Node
    <2> DEFINE r == nbrs[layer][n]
    <2>1. r \in Seq(Inserted) /\ Distinct(r) /\ Len(r) <= m /\ Len(r) \in Nat
      BY <1>1
    <2>2. CASE n = nb
      BY <1>2, <1>10, <1>13, <2>2
    <2>3. CASE n # nb /\ n \in ToSet(linked) \ ToSet(sel)
      <3> DEFINE t == Without(r, nb, layer)
      <3>1. out[n] = t
        BY <1>13, <2>3
      <3> HIDE DEF t, r
      <3>2. t = Without(r, nb, layer)
        BY DEF t
      <3>3. /\ t \in Seq(Inserted) /\ Distinct(t) /\ Len(t) <= Len(r)
            /\ ToSet(t) = ToSet(r) \ {nb}
        BY <1>1, <2>1, <3>2, WithoutIs
      <3>4. Len(t) \in Nat
        BY <3>3
      <3>5. Len(t) <= m
        BY <1>1, <2>1, <3>3, <3>4
      <3> QED BY <2>3, <3>1, <3>3, <3>5 DEF r
    <2>4. CASE n # nb /\ n \notin ToSet(linked) \ ToSet(sel)
      BY <1>13, <2>1, <2>4
    <2> QED BY <2>2, <2>3, <2>4
  <1>15. out \in [Node -> Seq(Inserted)]
    BY <1>13, <1>14
  <1> HIDE DEF out
  <1>16. IsLinkedBack(nb, ToSet(sel), out)
    BY <1>3, <1>10, <1>11, <1>12, <1>14, <1>15 DEF IsLinkedBack, m, s
  <1> QED BY <1>16 DEF out

\* Linking back, with or without pruning.
LEMMA LinkedBackIs ==
    ASSUME IndexInv, cur # None, todo # <<>>, NEW nb, nb = Head(todo),
           NEW out, out = LinkedBack(nb)
    PROVE  \E kept : IsLinkedBack(nb, kept, out)
  <1> DEFINE s == nbrs[layer][nb]
             m == MaxConnections(layer)
             linked == Append(s, cur)
  <1>1. /\ Stored /\ Inserted \subseteq Node
        /\ nb \in Inserted /\ nb # cur /\ cur \in Inserted
        /\ nbrs[layer] \in [Node -> Seq(Inserted)]
        /\ \A n \in Node : Distinct(nbrs[layer][n]) /\ Len(nbrs[layer][n]) <= m
        /\ m \in Nat \ {0}
    BY LinkingIs
  <1>2. s \in Seq(Inserted) /\ Distinct(s) /\ Len(s) <= m /\ nb \in Node /\ Len(s) \in Nat
    BY <1>1
  <1>3. Contains(s, cur) <=> cur \in ToSet(s)
    BY <1>1, <1>2, ListIs DEF Contains
  <1>4. Cardinality(ToSet(s)) = Len(s)
    BY <1>1, <1>2, ListIs
  <1>5. CASE Contains(s, cur)
    <2>1. out = nbrs[layer] /\ ToSet(s) \cup {cur} = ToSet(s)
      BY <1>3, <1>5 DEF LinkedBack
    <2>2. IsLinkedBack(nb, ToSet(s), out)
      BY <1>1, <1>2, <1>4, <2>1 DEF IsLinkedBack
    <2> QED BY <2>2
  <1>6. CASE ~Contains(s, cur) /\ Len(linked) > m
    <2>1. out = Pruned(nb, linked) /\ cur \notin ToSet(s)
      BY <1>3, <1>6 DEF LinkedBack
    <2> QED BY <1>6, <2>1, PrunedIs
  <1>7. CASE ~Contains(s, cur) /\ ~(Len(linked) > m)
    <2>1. out = [nbrs[layer] EXCEPT ![nb] = linked] /\ cur \notin ToSet(s)
      BY <1>3, <1>7 DEF LinkedBack
    <2>2. /\ linked \in Seq(Inserted) /\ Len(linked) = Len(s) + 1
          /\ ToSet(linked) = ToSet(s) \cup {cur} /\ Distinct(linked)
      <3> HIDE DEF s
      <3> QED BY <1>1, <1>2, <2>1, AppendIs
    <2>3. Cardinality(ToSet(linked)) = Len(linked) /\ Len(linked) <= m
      <3>1. Cardinality(ToSet(linked)) = Len(linked)
        BY <1>1, <2>2, ListIs
      <3>2. Len(linked) <= m
        BY <1>1, <1>2, <1>7, <2>2
      <3> QED BY <3>1, <3>2
    <2> HIDE DEF linked
    <2>4. /\ out \in [Node -> Seq(Inserted)]
          /\ \A n \in Node : out[n] = IF n = nb THEN linked ELSE nbrs[layer][n]
      BY <1>1, <1>2, <2>1, <2>2
    <2>5. IsLinkedBack(nb, ToSet(linked), out)
      BY <1>1, <1>2, <2>2, <2>3, <2>4 DEF IsLinkedBack
    <2> QED BY <2>5
  <1> QED BY <1>5, <1>6, <1>7

-----------------------------------------------------------------------------
(* Every step keeps the invariant, and is a step of HnswGraph.             *)

\* Nothing is there at first.
LEMMA InitHolds == Init => IndexInv /\ Graph!Init
  <1> SUFFICES ASSUME Init PROVE IndexInv /\ Graph!Init
    OBVIOUS
  <1>1. /\ store = <<>> /\ cur = None /\ todo = <<>> /\ layer = 0 /\ entry = 0 /\ maxLevel = 0
        /\ start = 0
        /\ levels = [n \in Node |-> 0] /\ nbrs = [l \in Layer |-> [n \in Node |-> <<>>]]
    BY DEF Init
  <1>2. Len(store) = 0 /\ Inserted = {} /\ 0 \in Layer
    BY <1>1, TopLevelAssumption DEF Inserted, Layer
  <1>3. \A X : <<>> \in Seq(X)
    OBVIOUS
  <1>4. ToSet(<<>>) = {} /\ Len(<<>>) = 0 /\ Distinct(<<>>)
    BY DEF ToSet, Distinct
  <1>5. /\ \A l \in Layer : nbrs[l] = [n \in Node |-> <<>>]
        /\ \A l \in Layer : \A n \in Node : nbrs[l][n] = <<>>
    BY <1>1
  <1>6. ListsTyped
    <2>1. Stored /\ Len(store) <= MaxNodes
      BY <1>1, <1>2, <1>3, MaxNodesAssumption DEF Stored
    <2>2. [n \in Node |-> <<>>] \in [Node -> Seq(Inserted)]
      BY <1>3
    <2>3. nbrs \in [Layer -> [Node -> Seq(Inserted)]]
      BY <1>1, <2>2
    <2> QED BY <2>1, <2>3 DEF ListsTyped
  <1>7. ListsBounded
    <2>1. \A l : MaxConnections(l) \in Nat
      BY MAssumption DEF MaxConnections
    <2> QED BY <1>4, <1>5, <2>1 DEF ListsBounded
  <1>8. Progress
    BY <1>1, <1>2, <1>3, <1>4 DEF Progress
  <1>9. Fresh
    BY <1>1 DEF Fresh
  <1>10. Joined
    BY <1>1, <1>2 DEF Joined, Old
  <1>11. Graph!Init
    <2>1. Links = [l \in Layer |-> [n \in Node |-> {}]]
      BY <1>4, <1>5 DEF Links
    <2> QED BY <1>1, <1>2, <1>4, <2>1
        DEF Graph!Init, Graph!Node, Graph!Layer, Graph!None, Node, Layer, None
  <1> QED BY <1>6, <1>7, <1>8, <1>9, <1>10, <1>11 DEF IndexInv

\* A node is added: no list knows it yet.
LEMMA AddNodeHolds ==
    ASSUME IndexInv, NEW v \in Point, NEW lv \in Layer, AddNode(v, lv)
    PROVE  IndexInv' /\ Graph!AddNode(lv)
  <1> DEFINE N == Len(store)
  <1>1. /\ Stored /\ N \in Nat /\ Inserted \subseteq Node
        /\ nbrs \in [Layer -> [Node -> Seq(Inserted)]]
    BY InsertedNode, VectorIs DEF IndexInv, ListsTyped
  <1>2. /\ cur = None /\ store' = Append(store, v) /\ nbrs' = nbrs /\ todo' = todo
        /\ levels' = [levels EXCEPT ![N] = lv]
        /\ N < IF maxLevel = 0 /\ lv = 0 THEN MaxNodes ELSE MaxLayered
    BY DEF AddNode
  <1>4. /\ store = <<>> => entry' = 0 /\ maxLevel' = lv /\ UNCHANGED <<cur, layer, start>>
        /\ store # <<>> => /\ cur' = N /\ layer' = maxLevel /\ start' = entry
                           /\ UNCHANGED <<entry, maxLevel>>
    BY DEF AddNode
  <1>5. N < MaxNodes
    BY <1>1, <1>2, MaxLayeredAssumption, MaxNodesAssumption
  <1>6. store' \in Seq(Point) /\ Len(store') = N + 1 /\ N \in Node
    BY <1>1, <1>2, <1>5, MaxNodesAssumption DEF Stored, Node
  <1>7. /\ Inserted' = Inserted \cup {N} /\ N \notin Inserted
        /\ store = <<>> => Inserted = {} /\ N = 0
        /\ store # <<>> => N > 0
    <2>1. Inserted' = 0 .. N + 1 - 1
      BY <1>6 DEF Inserted
    <2>2. store = <<>> => N = 0
      OBVIOUS
    <2>3. store # <<>> => N > 0
      BY <1>1 DEF Stored
    <2> QED BY <1>1, <2>1, <2>2, <2>3 DEF Inserted
  <1>8. todo = <<>> /\ None \notin Inserted' /\ None # N
    BY <1>1, <1>2, <1>7 DEF IndexInv, Progress, Inserted, None
  <1> HIDE DEF N
  <1>9. ListsTyped'
    <2>1. Seq(Inserted) \subseteq Seq(Inserted')
      BY <1>7
    <2>2. nbrs' \in [Layer -> [Node -> Seq(Inserted')]]
      BY <1>1, <1>2, <2>1
    <2> QED BY <1>1, <1>5, <1>6, <2>2, MaxNodesAssumption DEF ListsTyped, Stored
  <1>10. ListsBounded'
    BY <1>2 DEF IndexInv, ListsBounded
  <1>11. levels' \in [Node -> Layer]
    BY <1>2 DEF IndexInv, Progress
  <1>12. /\ Distinct(todo') /\ \A X : todo' \in Seq(X)
    BY <1>2, <1>8 DEF IndexInv, Progress
  <1>13. Progress'
    <2>1. CASE store = <<>>
      BY <1>2, <1>4, <1>7, <1>8, <1>11, <1>12, <2>1 DEF IndexInv, Progress
    <2>2. CASE store # <<>>
      <3>1. /\ entry' \in Inserted /\ entry' \in Nat /\ maxLevel' \in Layer /\ layer' \in Layer
            /\ start' \in Inserted
        BY <1>4, <2>2 DEF IndexInv, Progress
      <3>2. start' \in Old' /\ cur' = Len(store') - 1
        BY <1>1, <1>4, <1>6, <1>7, <2>2, <3>1 DEF Old, N
      <3> QED BY <1>2, <1>7, <1>8, <1>11, <1>12, <3>1, <3>2 DEF Progress
    <2> QED BY <2>1, <2>2
  <1>14. Fresh'
    <2>1. CASE store = <<>>
      BY <1>2, <1>4, <2>1 DEF Fresh
    <2>2. CASE store # <<>>
      <3>1. ASSUME NEW l \in Layer, NEW n \in Node PROVE N \notin ToSet(nbrs[l][n])
        <4>1. nbrs[l][n] \in Seq(Inserted)
          BY <1>1
        <4>2. ToSet(nbrs[l][n]) \subseteq Inserted
          BY <1>1, <4>1, ListIs
        <4> QED BY <1>7, <4>2
      <3>2. Inserted' \subseteq Node /\ 0 .. layer' \subseteq Layer
        <4>1. layer' \in Layer
          BY <1>13 DEF Progress
        <4> QED BY <1>1, <1>6, <1>7, <4>1, TopLevelAssumption DEF Layer
      <3>3. cur' = N /\ nbrs' = nbrs
        BY <1>2, <1>4, <2>2
      <3> QED BY <3>1, <3>2, <3>3 DEF Fresh
    <2> QED BY <2>1, <2>2
  <1>15. Joined'
    <2> SUFFICES ASSUME Len(store') <= 2 * M + 1
                 PROVE  \A S \in SUBSET (Inserted') :
                           Closed(S)' /\ S \cap Old' # {} => Old' \subseteq S
      BY <1>2, <1>8 DEF Joined
    <2> TAKE S \in SUBSET (Inserted')
    <2> HAVE Closed(S)' /\ S \cap Old' # {}
    <2>1. CASE store = <<>>
      BY <1>7, <2>1 DEF Old
    <2>2. CASE store # <<>>
      <3> DEFINE T == S \cap Inserted
      <3>1. Old' = Inserted /\ Old = Inserted
        BY <1>1, <1>2, <1>4, <1>7, <1>8, <2>2 DEF Old
      <3>2. Closed(T)
        <4> SUFFICES ASSUME NEW n \in T PROVE ToSet(nbrs[0][n]) \subseteq T
          BY DEF Closed
        <4>1. 0 \in Layer
          BY TopLevelAssumption DEF Layer
        <4>2. nbrs[0][n] \in Seq(Inserted)
          BY <1>1, <4>1
        <4>3. ToSet(nbrs[0][n]) \subseteq Inserted
          BY <1>1, <4>2, ListIs
        <4>4. ToSet(nbrs[0][n]) \subseteq S
          BY <1>2 DEF Closed
        <4> QED BY <4>3, <4>4
      <3>3. Len(store) <= 2 * M + 1
        BY <1>1, <1>6, MAssumption DEF N
      <3> QED BY <3>1, <3>2, <3>3 DEF IndexInv, Joined
    <2> QED BY <2>1, <2>2
  <1>16. Graph!AddNode(lv)
    <2>1. Links' = Links /\ ToSet(todo)' = ToSet(todo)
      BY <1>2 DEF Links
    <2>2. N = 0 <=> store = <<>>
      BY <1>7
    <2> QED BY <1>2, <1>4, <1>6, <2>1, <2>2 DEF Graph!AddNode, Graph!None, None, N
  <1> QED BY <1>9, <1>10, <1>13, <1>14, <1>15, <1>16 DEF IndexInv

\* What insert() asks for is never the new node itself.
LEMMA SearchedIs ==
    ASSUME IndexInv, cur # None, NEW ef \in Nat \ {0}
    PROVE  /\ Asked(Vector(cur), layer, start, ef)
           /\ cur \in Inserted /\ Inserted \subseteq Node /\ Old \subseteq Inserted
           /\ todo = <<>> => Reach(layer, start) \subseteq Old
  <1>1. /\ ListsTyped /\ Stored /\ layer \in Layer /\ start \in Old /\ Old \subseteq Inserted
        /\ cur = Len(store) - 1 /\ Inserted \subseteq Node
    BY InsertedNode DEF IndexInv, Progress, ListsTyped, Old
  <1>2. cur \in Inserted /\ start \in Inserted
    BY <1>1, VectorIs DEF Inserted
  <1>3. Asked(Vector(cur), layer, start, ef)
    BY <1>1, <1>2, VectorIs DEF Asked
  <1>4. ASSUME todo = <<>> PROVE Reach(layer, start) \subseteq Old
    <2>1. \A n \in Old : ToSet(nbrs[layer][n]) \subseteq Old
      <3> TAKE n \in Old
      <3>1. nbrs[layer][n] \in Seq(Inserted)
        BY <1>1 DEF ListsTyped
      <3>2. ToSet(nbrs[layer][n]) \subseteq Inserted
        BY <1>1, <3>1, ListIs
      <3>3. layer \in 0 .. layer
        BY <1>1, TopLevelAssumption DEF Layer
      <3>4. cur \notin ToSet(nbrs[layer][n])
        BY <1>1, <1>4, <3>3 DEF IndexInv, Fresh
      <3> QED BY <3>2, <3>4 DEF Old
    <2>2. Old \in SUBSET Inserted
      BY <1>1
    <2> QED BY <1>1, <1>2, <2>1, <2>2, ReachIs
  <1> QED BY <1>1, <1>2, <1>3, <1>4

\* A layer above the new node's own is only searched.
LEMMA DescendHolds ==
    ASSUME IndexInv, Descend
    PROVE  IndexInv' /\ Graph!Descend
  <1> DEFINE q == Vector(cur)
             out == GreedySearch(q, layer, start, 1)
             next == Head(out)
  <1>1. /\ cur # None /\ layer > levels[cur] /\ start' = next /\ layer' = layer - 1
        /\ UNCHANGED <<store, levels, nbrs, entry, maxLevel, cur, todo>>
    BY DEF Descend, graph
  <1>2. 1 \in Nat \ {0}
    OBVIOUS
  <1>3. /\ Asked(q, layer, start, 1) /\ cur \in Inserted /\ Inserted \subseteq Node
        /\ todo = <<>> => Reach(layer, start) \subseteq Old
    BY <1>1, <1>2, SearchedIs
  <1>4. /\ levels \in [Node -> Layer] /\ layer \in Layer
    BY DEF IndexInv, Progress
  <1>5. layer' \in Layer
    BY <1>1, <1>3, <1>4, TopLevelAssumption DEF Layer
  <1>6. todo = <<>>
    <2>1. levels[cur] \in Int /\ layer \in Int
      BY <1>3, <1>4, TopLevelAssumption DEF Layer
    <2> QED BY <1>1, <2>1 DEF IndexInv, Progress
  <1>7. next \in Reach(layer, start)
    <2> HIDE DEF q
    <2>1. ToSet(out) \subseteq Reach(layer, start) /\ Head(out) \in ToSet(out)
      <3> DEFINE ef == 1
      <3>1. Asked(q, layer, start, ef) /\ out = GreedySearch(q, layer, start, ef)
        BY <1>3
      <3> HIDE DEF ef, out
      <3> QED BY <3>1, GreedySearchIs
    <2> QED BY <2>1
  <1> HIDE DEF next
  <1>8. Inserted' = Inserted /\ Old' = Old
    BY <1>1 DEF Inserted, Old
  <1>9. ListsTyped' /\ ListsBounded'
    BY <1>1, <1>8 DEF IndexInv, ListsTyped, ListsBounded, Stored
  <1>10. Progress'
    <2>1. start' \in Old'
      BY <1>1, <1>3, <1>6, <1>7, <1>8
    <2> QED BY <1>1, <1>5, <1>6, <1>8, <2>1 DEF IndexInv, Progress
  <1>11. Fresh'
    <2>1. 0 .. layer' \subseteq 0 .. layer
      BY <1>1, <1>4, TopLevelAssumption DEF Layer
    <2> QED BY <1>1, <1>6, <1>8, <2>1 DEF IndexInv, Fresh
  <1>12. Joined'
    BY <1>1, <1>6, <1>8 DEF IndexInv, Joined, Closed
  <1>13. Graph!Descend
    <2>1. Links' = Links /\ Len(store)' = Len(store) /\ ToSet(todo)' = ToSet(todo)
      BY <1>1 DEF Links
    <2> QED BY <1>1, <1>7, <2>1 DEF Graph!Descend, Graph!None, None, Graph!graph, Reach
  <1> QED BY <1>9, <1>10, <1>11, <1>12, <1>13 DEF IndexInv

\* The neighbours are selected from what the search finds; the closest is one
\* of them.
LEMMA SelectNeighborsHolds ==
    ASSUME IndexInv, SelectNeighbors
    PROVE  IndexInv' /\ Graph!SelectNeighbors
  <1> DEFINE q == Vector(cur)
             m == MaxConnections(layer)
             candidates == GreedySearch(q, layer, start, Ef)
             selected == Selected(q, candidates, m)
  <1>1. /\ cur # None /\ layer \in 0 .. levels[cur] /\ todo = <<>>
        /\ start' = Head(candidates) /\ nbrs' = [nbrs EXCEPT ![layer][cur] = selected]
        /\ todo' = selected
        /\ UNCHANGED <<store, levels, entry, maxLevel, cur, layer>>
    BY DEF SelectNeighbors
  <1>2. /\ Asked(q, layer, start, Ef) /\ cur \in Inserted /\ Inserted \subseteq Node
        /\ Reach(layer, start) \subseteq Old /\ Old \subseteq Inserted
    BY <1>1, EfAssumption, SearchedIs
  <1>3. /\ Stored /\ layer \in Layer /\ nbrs \in [Layer -> [Node -> Seq(Inserted)]]
        /\ m \in Nat \ {0} /\ cur \in Node
    BY <1>2, MAssumption DEF IndexInv, Progress, ListsTyped, MaxConnections
  <1> HIDE DEF q, m
  <1>4. /\ candidates \in Seq(Inserted) /\ Distinct(candidates) /\ Len(candidates) > 0
        /\ ToSet(candidates) \subseteq Reach(layer, start)
        /\ Head(candidates) = candidates[1]
        /\ ToSet(candidates) \in Graph!SearchResults(layer, start, Ef)
    BY <1>2, GreedySearchIs
  <1> HIDE DEF candidates
  <1>5. /\ selected \in Seq(Inserted) /\ Distinct(selected) /\ Len(selected) <= m
        /\ ToSet(selected) \subseteq ToSet(candidates)
        /\ start' \in ToSet(selected)
        /\ Len(selected) = m \/ ToSet(selected) = ToSet(candidates)
    <2> DEFINE sel == selected
    <2>1. AreCandidates(candidates) /\ m \in Nat /\ m > 0 /\ sel = Selected(q, candidates, m)
      BY <1>3, <1>4 DEF AreCandidates
    <2> HIDE DEF sel
    <2>2. /\ sel \in Seq(Inserted) /\ Distinct(sel) /\ Len(sel) <= m
          /\ ToSet(sel) \subseteq ToSet(candidates)
          /\ candidates[1] \in ToSet(sel)
          /\ Len(sel) = m \/ ToSet(sel) = ToSet(candidates)
      BY <1>3, <1>4, <2>1, SelectedIs
    <2> QED BY <1>1, <1>4, <2>2 DEF sel
  <1> HIDE DEF selected
  <1>6. /\ Cardinality(ToSet(selected)) = Len(selected) /\ Len(selected) \in Nat
        /\ Cardinality(ToSet(candidates)) \in Nat
        /\ IsFiniteSet(ToSet(candidates))
    BY <1>3, <1>4, <1>5, ListIs
  <1>7. ToSet(selected) \in Graph!Selections(ToSet(candidates), m)
    <2>1. CASE Cardinality(ToSet(candidates)) <= m
      <3>1. ToSet(selected) = ToSet(candidates)
        <4>1. CASE Len(selected) = m
          <5>1. Cardinality(ToSet(candidates)) <= Cardinality(ToSet(selected))
            BY <1>6, <2>1, <4>1
          <5> QED BY <1>5, <1>6, <5>1, FS_Subset
        <4> QED BY <1>5, <4>1
      <3> QED BY <2>1, <3>1, GraphAllows
    <2>2. CASE ~(Cardinality(ToSet(candidates)) <= m)
      <3>1. Cardinality(ToSet(selected)) = m
        BY <1>3, <1>5, <1>6, <2>2
      <3> QED BY <1>5, <2>2, <3>1, GraphAllows
    <2> QED BY <2>1, <2>2
  <1>8. Inserted' = Inserted /\ Old' = Old
    BY <1>1 DEF Inserted, Old
  <1>9. /\ nbrs' \in [Layer -> [Node -> Seq(Inserted)]]
        /\ \A l \in Layer : \A n \in Node :
              nbrs'[l][n] = IF l = layer /\ n = cur THEN selected ELSE nbrs[l][n]
    BY <1>1, <1>3, <1>5
  <1>10. ToSet(selected) \subseteq Old /\ selected # <<>>
    <2>1. ToSet(<<>>) = {}
      BY DEF ToSet
    <2> QED BY <1>2, <1>4, <1>5, <2>1
  <1>11. ListsTyped'
    BY <1>1, <1>8, <1>9 DEF IndexInv, ListsTyped, Stored
  <1>12. ListsBounded'
    <2> SUFFICES ASSUME NEW l \in Layer, NEW n \in Node
                 PROVE  /\ Distinct(nbrs'[l][n])
                        /\ Len(nbrs'[l][n]) <= MaxConnections(l)
                        /\ n \notin ToSet(nbrs'[l][n])
      BY DEF ListsBounded
    <2>1. CASE l = layer /\ n = cur
      BY <1>5, <1>9, <1>10, <2>1 DEF Old, m
    <2>2. CASE ~(l = layer /\ n = cur)
      BY <1>9, <2>2 DEF IndexInv, ListsBounded
    <2> QED BY <2>1, <2>2
  <1>13. selected \in Seq(Old)
    <2>1. DOMAIN selected = 1 .. Len(selected) /\ Len(selected) \in Nat
      BY <1>5
    <2>2. \A i \in 1 .. Len(selected) : selected[i] \in Old
      BY <1>10, <2>1 DEF ToSet
    <2>3. selected \in [1 .. Len(selected) -> Old]
      BY <1>5, <2>2
    <2> QED BY <2>1, <2>3
  <1>14. Progress'
    <2>1. start' \in Old' /\ layer <= levels[cur]
      <3>1. layer <= levels[cur]
        BY <1>1
      <3> QED BY <1>5, <1>8, <1>10, <3>1
    <2> QED BY <1>1, <1>5, <1>8, <1>13, <2>1 DEF IndexInv, Progress
  <1>15. Fresh'
    <2>1. \A l \in 0 .. layer : l \in Layer
      BY <1>3, TopLevelAssumption DEF Layer
    <2>2. ASSUME NEW l \in 0 .. layer, l < layer, NEW n \in Inserted
          PROVE  cur \notin ToSet(nbrs'[l][n])
      <3>1. nbrs'[l][n] = nbrs[l][n]
        BY <1>2, <1>3, <1>9, <2>1, <2>2, TopLevelAssumption DEF Layer
      <3> QED BY <1>1, <2>2, <3>1 DEF IndexInv, Fresh
    <2> QED BY <1>1, <1>8, <1>10, <2>2 DEF Fresh
  <1>16. Joined'
    <2> SUFFICES ASSUME Len(store) <= 2 * M + 1
                 PROVE  /\ \A S \in SUBSET Inserted :
                              Closed(S)' /\ S \cap Old # {} => Old \subseteq S
                        /\ layer = 0 =>
                              /\ ToSet(todo)' \subseteq ToSet(nbrs'[0][cur])
                              /\ \A n \in ToSet(nbrs'[0][cur]) :
                                    n \in ToSet(todo)' \/ cur \in ToSet(nbrs'[0][n])
      BY <1>1, <1>8 DEF Joined
    <2>1. 0 \in Layer
      BY TopLevelAssumption DEF Layer
    <2>2. ASSUME NEW S \in SUBSET Inserted, Closed(S)', S \cap Old # {}
          PROVE  Old \subseteq S
      <3> DEFINE T == IF layer = 0 THEN S \ {cur} ELSE S
      <3>1. Closed(T)
        <4> SUFFICES ASSUME NEW n \in T PROVE ToSet(nbrs[0][n]) \subseteq T
          BY DEF Closed
        <4>1. nbrs'[0][n] = nbrs[0][n]
          BY <1>2, <1>9, <2>1
        <4>2. ToSet(nbrs[0][n]) \subseteq S
          BY <2>2, <4>1 DEF Closed
        <4>3. layer = 0 => cur \notin ToSet(nbrs[0][n])
          BY <1>1 DEF IndexInv, Fresh
        <4> QED BY <4>2, <4>3
      <3>2. T \cap Old # {} /\ T \in SUBSET Inserted
        BY <2>2 DEF Old
      <3>3. Old \subseteq T
        <4> HIDE DEF T
        <4> QED BY <3>1, <3>2 DEF IndexInv, Joined
      <3> QED BY <3>3
    <2>3. layer = 0 => nbrs'[0][cur] = selected
      BY <1>3, <1>9, <2>1
    <2> QED BY <1>1, <2>2, <2>3
  <1>17. Graph!SelectNeighbors
    <2> DEFINE sel == ToSet(selected)
               cs == ToSet(candidates)
    <2>1. Links' = [Links EXCEPT ![layer][cur] = sel]
      <3>1. \A l \in Layer : \A n \in Node :
               ToSet(nbrs'[l][n]) = IF l = layer /\ n = cur THEN sel ELSE ToSet(nbrs[l][n])
        BY <1>9
      <3> HIDE DEF sel
      <3>2. Links' = [l \in Layer |-> [n \in Node |->
                         IF l = layer /\ n = cur THEN sel ELSE ToSet(nbrs[l][n])]]
        BY <3>1 DEF Links
      <3>3. [Links EXCEPT ![layer][cur] = sel] =
               [l \in Layer |-> [n \in Node |->
                   IF l = layer /\ n = cur THEN sel ELSE ToSet(nbrs[l][n])]]
        BY <1>3 DEF Links
      <3> QED BY <3>2, <3>3
    <2>2. ToSet(todo) = {}
      BY <1>1 DEF ToSet
    <2>3. /\ cs \in Graph!SearchResults(layer, start, Ef) /\ sel \in Graph!Selections(cs, m)
          /\ start' \in sel /\ ToSet(todo)' = sel
      BY <1>1, <1>4, <1>5, <1>7
    <2>4. m = Graph!MaxConnections(layer)
      BY DEF m, MaxConnections, Graph!MaxConnections
    <2> HIDE DEF sel, cs
    <2> QED BY <1>1, <2>1, <2>2, <2>3, <2>4 DEF Graph!SelectNeighbors, Graph!None, None
  <1> QED BY <1>11, <1>12, <1>14, <1>15, <1>16, <1>17 DEF IndexInv

\* Linking back adds a link to the list of nb and leaves the others alone.
OnlyLinks(nb, out) ==
    \A n \in Node :
        ToSet(out[n]) = IF n = nb THEN ToSet(nbrs[0][n]) \cup {cur} ELSE ToSet(nbrs[0][n])

\* While no list of layer 0 can overflow nothing is pruned: linking back adds
\* a link and takes none away.
LEMMA NothingPruned ==
    ASSUME IndexInv, cur # None, todo # <<>>, NEW nb, nb = Head(todo),
           NEW kept, NEW out, IsLinkedBack(nb, kept, out),
           layer = 0, Len(store) <= 2 * M + 1
    PROVE  OnlyLinks(nb, out)
  <1> DEFINE linked == ToSet(nbrs[layer][nb]) \cup {cur}
  <1>1. /\ Stored /\ nb \in Inserted /\ nb # cur /\ cur \in Inserted /\ nb \in Node
        /\ nbrs[layer][nb] \in Seq(Inserted) /\ nb \notin ToSet(nbrs[layer][nb])
    BY LinkingIs
  <1>2. linked \subseteq Inserted /\ nb \notin linked
    BY <1>1, ListIs
  <1>3. /\ IsFiniteSet(Inserted) /\ Cardinality(Inserted) = Len(store) /\ Len(store) \in Nat
        /\ IsFiniteSet(linked) /\ Cardinality(linked) \in Nat
    <2> HIDE DEF linked
    <2> QED BY <1>1, <1>2, InsertedIs, VectorIs
  <1>4. Cardinality(Inserted \ {nb}) = Len(store) - 1
    BY <1>1, <1>3, FS_RemoveElement
  <1>5. Cardinality(linked) <= Len(store) - 1
    <2>1. IsFiniteSet(Inserted \ {nb}) /\ linked \subseteq Inserted \ {nb}
      BY <1>1, <1>2, <1>3, FS_RemoveElement
    <2>2. Cardinality(linked) <= Cardinality(Inserted \ {nb})
      BY <2>1, FS_Subset
    <2> QED BY <1>4, <2>2
  <1>6. Cardinality(linked) <= MaxConnections(layer)
    BY <1>3, <1>5, MAssumption DEF MaxConnections
  <1>7. kept = linked
    BY <1>6 DEF IsLinkedBack
  <1> QED BY <1>7 DEF IsLinkedBack, OnlyLinks

\* What linking back makes of the lists is what HnswGraph allows.
LEMMA LinkedBackIsAllowed ==
    ASSUME IndexInv, cur # None, todo # <<>>, NEW nb, nb = Head(todo),
           NEW kept, NEW out, IsLinkedBack(nb, kept, out)
    PROVE  /\ kept \in Graph!Selections(Graph!LinkedBack(nb), Graph!MaxConnections(layer))
           /\ [n \in Node |-> ToSet(out[n])] = Graph!Pruned(nb, kept)
  <1> DEFINE linked == ToSet(nbrs[layer][nb]) \cup {cur}
             m == MaxConnections(layer)
  <1>1. layer \in Layer /\ nb \in Inserted /\ Inserted \subseteq Node
    BY LinkingIs
  <1>2. \A n \in Node : Links[layer][n] = ToSet(nbrs[layer][n])
    BY <1>1 DEF Links
  <1>3. Graph!LinkedBack(nb) = linked /\ Graph!MaxConnections(layer) = m /\ Graph!Node = Node
    BY <1>1, <1>2 DEF Graph!LinkedBack, MaxConnections, Graph!MaxConnections, Graph!Node, Node
  <1>4. kept \in Graph!Selections(linked, m)
    <2>1. /\ kept \in SUBSET linked
          /\ IF Cardinality(linked) <= m THEN kept = linked ELSE Cardinality(kept) = m
      BY DEF IsLinkedBack
    <2> HIDE DEF linked, m
    <2> QED BY <2>1, GraphAllows
  <1>5. Graph!Pruned(nb, kept) =
           [n \in Node |->
               IF n = nb THEN kept
               ELSE IF n \in linked \ kept THEN Links[layer][n] \ {nb}
               ELSE Links[layer][n]]
    BY <1>3 DEF Graph!Pruned
  <1>6. \A n \in Node :
           ToSet(out[n]) = IF n = nb THEN kept
                           ELSE IF n \in linked \ kept THEN Links[layer][n] \ {nb}
                           ELSE Links[layer][n]
    BY <1>2 DEF IsLinkedBack
  <1> HIDE DEF linked, m
  <1> QED BY <1>3, <1>4, <1>5, <1>6

\* What a step of linking back changes.
LEMMA LinkBackSteps ==
    ASSUME IndexInv, LinkBack
    PROVE  \E nb \in Old : \E kept : \E out :
              /\ cur # None /\ todo # <<>> /\ nb = Head(todo)
              /\ IsLinkedBack(nb, kept, out)
              /\ nbrs' = [nbrs EXCEPT ![layer] = out]
              /\ todo' = Tail(todo) /\ todo' \in Seq(Old) /\ Distinct(todo')
              /\ ToSet(todo) = ToSet(todo') \cup {nb} /\ nb \notin ToSet(todo')
              /\ Len(todo) > 1 <=> todo' # <<>>
              /\ todo' # <<>> <=> ToSet(todo') # {}
  <1>1. cur # None /\ todo # <<>> /\ todo' = Tail(todo)
    BY DEF LinkBack
  <1>2. PICK nb \in Old : nb = Head(todo)
    BY <1>1, LinkingIs
  <1>3. PICK out : out = LinkedBack(nb) /\ nbrs' = [nbrs EXCEPT ![layer] = out]
    BY <1>2 DEF LinkBack
  <1>4. PICK kept : IsLinkedBack(nb, kept, out)
    BY <1>1, <1>2, <1>3, LinkedBackIs
  <1>5. todo \in Seq(Old) /\ Distinct(todo)
    BY DEF IndexInv, Progress
  <1>6. /\ todo' \in Seq(Old) /\ Len(todo') = Len(todo) - 1 /\ Len(todo) \in Nat /\ Len(todo) > 0
        /\ \A i \in 1 .. Len(todo') : todo'[i] = todo[i + 1]
        /\ todo[1] = nb
    BY <1>1, <1>2, <1>5
  <1>7. /\ \A n : n \in ToSet(todo) <=> \E i \in 1 .. Len(todo) : todo[i] = n
        /\ \A n : n \in ToSet(todo') <=> \E i \in 1 .. Len(todo') : todo'[i] = n
    <2>1. DOMAIN todo = 1 .. Len(todo) /\ DOMAIN todo' = 1 .. Len(todo')
      BY <1>5, <1>6
    <2> QED BY <2>1 DEF ToSet
  <1>8. Distinct(todo')
    <2> SUFFICES ASSUME NEW i \in 1 .. Len(todo'), NEW j \in 1 .. Len(todo'), todo'[i] = todo'[j]
                 PROVE  i = j
      BY DEF Distinct
    <2>1. /\ i + 1 \in 1 .. Len(todo) /\ j + 1 \in 1 .. Len(todo)
          /\ todo[i + 1] = todo[j + 1]
      BY <1>6
    <2>2. i + 1 = j + 1
      BY <1>5, <2>1 DEF Distinct
    <2> QED BY <1>6, <2>2
  <1>9. nb \notin ToSet(todo')
    <2> SUFFICES ASSUME NEW i \in 1 .. Len(todo'), todo'[i] = nb PROVE FALSE
      BY <1>7
    <2>1. i + 1 \in 1 .. Len(todo) /\ todo[i + 1] = todo[1] /\ 1 \in 1 .. Len(todo)
      BY <1>6
    <2>2. i + 1 = 1
      BY <1>5, <2>1 DEF Distinct
    <2> QED BY <1>6, <2>2
  <1>10. ToSet(todo) = ToSet(todo') \cup {nb}
    <2>1. ASSUME NEW n \in ToSet(todo) PROVE n \in ToSet(todo') \cup {nb}
      <3>1. PICK i \in 1 .. Len(todo) : todo[i] = n
        BY <1>7
      <3>2. CASE i = 1
        BY <1>6, <3>1, <3>2
      <3>3. CASE i # 1
        <4>1. i - 1 \in 1 .. Len(todo') /\ (i - 1) + 1 = i
          BY <1>6, <3>3
        <4> QED BY <1>6, <1>7, <3>1, <4>1
      <3> QED BY <3>2, <3>3
    <2>2. ASSUME NEW n \in ToSet(todo') PROVE n \in ToSet(todo)
      <3>1. PICK i \in 1 .. Len(todo') : todo'[i] = n
        BY <1>7
      <3>2. i + 1 \in 1 .. Len(todo) /\ todo[i + 1] = n
        BY <1>6, <3>1
      <3> QED BY <1>7, <3>2
    <2>3. nb \in ToSet(todo)
      <3>1. 1 \in 1 .. Len(todo)
        BY <1>6
      <3> QED BY <1>6, <1>7, <3>1
    <2> QED BY <2>1, <2>2, <2>3
  <1>11. (Len(todo) > 1 <=> todo' # <<>>) /\ (todo' # <<>> <=> ToSet(todo') # {})
    <2>1. todo' # <<>> <=> Len(todo') > 0
      BY <1>6
    <2>2. Len(todo') > 0 <=> ToSet(todo') # {}
      <3>1. Len(todo') > 0 <=> 1 \in 1 .. Len(todo')
        BY <1>6
      <3>2. (1 .. Len(todo')) # {} <=> 1 \in 1 .. Len(todo')
        BY <1>6
      <3> QED BY <1>7, <3>1, <3>2
    <2> QED BY <1>6, <2>1, <2>2
  <1> QED BY <1>1, <1>2, <1>3, <1>4, <1>6, <1>8, <1>9, <1>10, <1>11

\* Linking back keeps the older nodes of layer 0 together, and the last link
\* back adds the new one to them.
LEMMA LinkBackJoins ==
    ASSUME IndexInv, NEW nb \in Old, NEW kept, NEW out,
           cur # None, todo # <<>>, nb = Head(todo), IsLinkedBack(nb, kept, out),
           nbrs' = [nbrs EXCEPT ![layer] = out], store' = store,
           ToSet(todo) = ToSet(todo') \cup {nb}, todo' # <<>> <=> ToSet(todo') # {},
           \/ todo' # <<>> /\ UNCHANGED <<cur, layer>>
           \/ todo' = <<>> /\ layer = 0 /\ cur' = None
           \/ todo' = <<>> /\ layer # 0 /\ cur' = cur
    PROVE  Joined'
  <1>1. /\ Stored /\ layer \in Layer /\ Inserted \subseteq Node
        /\ nb \in Inserted /\ nb # cur /\ cur \in Inserted
        /\ \A n \in Node : n \notin ToSet(nbrs[layer][n])
    BY LinkingIs
  <1>2. nbrs \in [Layer -> [Node -> Seq(Inserted)]] /\ 0 \in Layer
    BY TopLevelAssumption DEF IndexInv, ListsTyped, Layer
  <1>3. /\ Inserted' = Inserted /\ None \notin Inserted
    BY <1>1 DEF Inserted, None
  <1> SUFFICES ASSUME Len(store) <= 2 * M + 1
               PROVE  /\ \A S \in SUBSET Inserted :
                            Closed(S)' /\ S \cap Old' # {} => Old' \subseteq S
                      /\ cur' # None /\ layer' = 0 /\ todo' # <<>> =>
                            /\ ToSet(todo)' \subseteq ToSet(nbrs'[0][cur'])
                            /\ \A n \in ToSet(nbrs'[0][cur']) :
                                  n \in ToSet(todo)' \/ cur' \in ToSet(nbrs'[0][n])
    BY <1>3 DEF Joined
  <1>4. \A n \in Node : \A x :
           x \in ToSet(nbrs'[0][n]) <=>
              (x \in ToSet(nbrs[0][n]) \/ (layer = 0 /\ n = nb /\ x = cur))
    <2>1. CASE layer = 0
      <3>1. nbrs'[0] = out
        BY <1>2, <2>1
      <3>2. \A n \in Node :
               ToSet(out[n]) = IF n = nb THEN ToSet(nbrs[0][n]) \cup {cur} ELSE ToSet(nbrs[0][n])
        <4>1. OnlyLinks(nb, out)
          BY <2>1, NothingPruned
        <4> QED BY <4>1 DEF OnlyLinks
      <3> TAKE n \in Node
      <3>3. CASE n = nb
        <4>1. ToSet(nbrs'[0][nb]) = ToSet(nbrs[0][nb]) \cup {cur}
          BY <3>1, <3>2, <3>3
        <4> HIDE DEF ToSet
        <4> QED BY <2>1, <3>3, <4>1
      <3>4. CASE n # nb
        BY <3>1, <3>2, <3>4
      <3> QED BY <3>3, <3>4
    <2>2. CASE layer # 0
      <3>1. nbrs'[0] = nbrs[0]
        BY <1>2, <2>2
      <3> QED BY <2>2, <3>1
    <2> QED BY <2>1, <2>2
  <1>5. \A S \in SUBSET Inserted : Closed(S)' => Closed(S)
    <2> SUFFICES ASSUME NEW S \in SUBSET Inserted, Closed(S)', NEW n \in S
                 PROVE  ToSet(nbrs[0][n]) \subseteq S
      BY DEF Closed
    <2>1. ToSet(nbrs'[0][n]) \subseteq S /\ n \in Node
      BY <1>1 DEF Closed
    <2> QED BY <1>4, <2>1
  <1>6. \A S \in SUBSET Inserted : Closed(S) /\ S \cap Old # {} => Old \subseteq S
    BY DEF IndexInv, Joined
  <1>7. layer = 0 =>
           /\ ToSet(todo) \subseteq ToSet(nbrs[0][cur])
           /\ \A n \in ToSet(nbrs[0][cur]) : n \in ToSet(todo) \/ cur \in ToSet(nbrs[0][n])
    BY DEF IndexInv, Joined
  <1>8. layer = 0 =>
           /\ ToSet(todo') \subseteq ToSet(nbrs'[0][cur])
           /\ \A n \in ToSet(nbrs'[0][cur]) : n \in ToSet(todo') \/ cur \in ToSet(nbrs'[0][n])
           /\ nb \in ToSet(nbrs'[0][cur]) /\ cur \notin ToSet(nbrs'[0][cur])
    <2> SUFFICES ASSUME layer = 0
                 PROVE  /\ ToSet(todo') \subseteq ToSet(nbrs'[0][cur])
                        /\ \A n \in ToSet(nbrs'[0][cur]) :
                              n \in ToSet(todo') \/ cur \in ToSet(nbrs'[0][n])
                        /\ nb \in ToSet(nbrs'[0][cur]) /\ cur \notin ToSet(nbrs'[0][cur])
      OBVIOUS
    <2>1. ToSet(nbrs'[0][cur]) = ToSet(nbrs[0][cur]) /\ cur \in Node
      BY <1>1, <1>4
    <2>2. ToSet(nbrs[0][cur]) \subseteq Node
      <3>1. nbrs[0][cur] \in Seq(Inserted)
        BY <1>2, <2>1
      <3> QED BY <1>1, <3>1, ListIs
    <2>3. \A n \in ToSet(nbrs[0][cur]) : n \in ToSet(todo') \/ cur \in ToSet(nbrs'[0][n])
      <3> TAKE n \in ToSet(nbrs[0][cur])
      <3>1. n \in ToSet(todo') \/ n = nb \/ cur \in ToSet(nbrs[0][n])
        BY <1>7
      <3>2. n \in Node
        BY <2>2
      <3> QED BY <1>4, <3>1, <3>2
    <2> QED BY <1>1, <1>7, <2>1, <2>3
  <1>9. CASE cur' = cur
    <2>1. Old' = Old
      BY <1>3, <1>9 DEF Old
    <2> QED BY <1>5, <1>6, <1>8, <1>9, <2>1
  <1>10. CASE todo' = <<>> /\ layer = 0 /\ cur' = None
    <2>1. Old' = Inserted /\ Inserted = Old \cup {cur}
      BY <1>1, <1>3, <1>10 DEF Old
    <2>2. ASSUME NEW S \in SUBSET Inserted, Closed(S)', S \cap Inserted # {}
          PROVE  Inserted \subseteq S
      <3>1. \A n \in S : ToSet(nbrs'[0][n]) \subseteq S
        BY <2>2 DEF Closed
      <3>2. cur \in S => nb \in S
        BY <1>8, <1>10, <3>1
      <3>3. Old \subseteq S
        BY <1>5, <1>6, <2>1, <2>2, <3>2
      <3>4. cur \in S
        <4>1. nb \in S /\ ToSet(todo') = {}
          BY <1>10, <3>3
        <4>2. PICK n \in ToSet(nbrs'[0][cur]) : n = nb
          BY <1>8, <1>10
        <4>3. cur \in ToSet(nbrs'[0][nb])
          BY <1>8, <1>10, <4>1, <4>2
        <4> QED BY <3>1, <4>1, <4>3
      <3> QED BY <2>1, <3>3, <3>4
    <2> QED BY <1>10, <2>1, <2>2
  <1> QED BY <1>9, <1>10

\* A neighbour links back.
LEMMA LinkBackHolds ==
    ASSUME IndexInv, LinkBack
    PROVE  IndexInv' /\ \E nb \in Node : Graph!LinkBack(nb)
  <1>0. PICK nb \in Old : \E kept : \E out :
           /\ cur # None /\ todo # <<>> /\ nb = Head(todo)
           /\ IsLinkedBack(nb, kept, out)
           /\ nbrs' = [nbrs EXCEPT ![layer] = out]
           /\ todo' = Tail(todo) /\ todo' \in Seq(Old) /\ Distinct(todo')
           /\ ToSet(todo) = ToSet(todo') \cup {nb} /\ nb \notin ToSet(todo')
           /\ Len(todo) > 1 <=> todo' # <<>>
           /\ todo' # <<>> <=> ToSet(todo') # {}
    BY LinkBackSteps
  <1>1. PICK kept, out :
           /\ cur # None /\ todo # <<>> /\ nb = Head(todo)
           /\ IsLinkedBack(nb, kept, out)
           /\ nbrs' = [nbrs EXCEPT ![layer] = out]
           /\ todo' = Tail(todo) /\ todo' \in Seq(Old) /\ Distinct(todo')
           /\ ToSet(todo) = ToSet(todo') \cup {nb} /\ nb \notin ToSet(todo')
           /\ Len(todo) > 1 <=> todo' # <<>>
           /\ todo' # <<>> <=> ToSet(todo') # {}
    BY <1>0
  <1>2. /\ UNCHANGED <<store, levels>>
        /\ IF todo' # <<>> THEN UNCHANGED <<entry, maxLevel, cur, layer, start>>
                           ELSE IF layer = 0 THEN Finish ELSE NextLayer
    BY <1>1 DEF LinkBack
  <1>3. /\ Stored /\ layer \in Layer /\ Inserted \subseteq Node
        /\ nb \in Inserted /\ nb # cur /\ cur \in Inserted
        /\ \A n \in Node : n \notin ToSet(nbrs[layer][n])
    BY <1>1, LinkingIs
  <1>4. nbrs \in [Layer -> [Node -> Seq(Inserted)]]
    BY DEF IndexInv, ListsTyped
  <1>5. /\ out \in [Node -> Seq(Inserted)]
        /\ \A n \in Node :
              Distinct(out[n]) /\ Len(out[n]) <= MaxConnections(layer) /\ n \notin ToSet(out[n])
    <2>1. \A n \in Node : n \notin ToSet(out[n])
      BY <1>1, <1>3 DEF IsLinkedBack
    <2> QED BY <1>1, <2>1 DEF IsLinkedBack
  <1>6. \A l \in Layer : nbrs'[l] = IF l = layer THEN out ELSE nbrs[l]
    BY <1>1, <1>4
  <1>7. nbrs' \in [Layer -> [Node -> Seq(Inserted)]]
    BY <1>1, <1>4, <1>5
  <1>8. Inserted' = Inserted
    BY <1>2 DEF Inserted
  <1>9. ListsTyped'
    BY <1>2, <1>7, <1>8 DEF IndexInv, ListsTyped, Stored
  <1>10. ListsBounded'
    <2> SUFFICES ASSUME NEW l \in Layer, NEW n \in Node
                 PROVE  /\ Distinct(nbrs'[l][n])
                        /\ Len(nbrs'[l][n]) <= MaxConnections(l)
                        /\ n \notin ToSet(nbrs'[l][n])
      BY DEF ListsBounded
    <2>1. CASE l = layer
      BY <1>5, <1>6, <2>1
    <2>2. CASE l # layer
      BY <1>6, <2>2 DEF IndexInv, ListsBounded
    <2> QED BY <2>1, <2>2
  <1>11. /\ levels \in [Node -> Layer] /\ levels[cur] \in Layer
         /\ \A l \in Layer : l \in Nat /\ (l # 0 => l - 1 \in Layer)
    <2>1. levels \in [Node -> Layer]
      BY DEF IndexInv, Progress
    <2> QED BY <1>3, <2>1, TopLevelAssumption DEF Layer
  <1>12. Progress'
    <2>1. CASE todo' # <<>>
      <3>1. UNCHANGED <<store, levels, entry, maxLevel, cur, layer, start>> /\ Old' = Old
        BY <1>2, <1>8, <2>1 DEF Old
      <3> QED BY <1>1, <1>8, <3>1 DEF IndexInv, Progress
    <2>2. CASE todo' = <<>> /\ layer = 0
      <3>1. Finish
        BY <1>2, <2>2
      <3>2. /\ cur' = None /\ layer' = 0 /\ entry' \in Inserted /\ entry' \in Nat
            /\ maxLevel' \in Layer
        BY <1>3, <1>11, <3>1, InsertedIs DEF Finish, IndexInv, Progress, Inserted
      <3>3. 0 \in Layer /\ todo' \in Seq(Old')
        BY <1>3, <2>2
      <3> QED BY <1>1, <1>2, <1>8, <1>11, <2>2, <3>2, <3>3 DEF Progress
    <2>3. CASE todo' = <<>> /\ layer # 0
      <3>1. NextLayer
        BY <1>2, <2>3
      <3>2. /\ layer' \in Layer /\ Old' = Old
            /\ UNCHANGED <<store, levels, entry, maxLevel, cur, start>>
        BY <1>2, <1>3, <1>8, <1>11, <2>3, <3>1 DEF NextLayer, Old
      <3> QED BY <1>1, <1>8, <2>3, <3>2 DEF IndexInv, Progress
    <2> QED BY <2>1, <2>2, <2>3
  <1>13. ASSUME NEW l \in 0 .. layer, l < layer, NEW n \in Inserted
         PROVE  cur \notin ToSet(nbrs'[l][n])
    <2>1. l \in Layer /\ l # layer
      BY <1>3, <1>13, TopLevelAssumption DEF Layer
    <2>2. nbrs'[l] = nbrs[l]
      BY <1>6, <2>1
    <2> QED BY <1>1, <1>13, <2>2 DEF IndexInv, Fresh
  <1>14. Fresh'
    <2>1. CASE todo' # <<>>
      BY <1>2, <1>8, <1>13, <2>1 DEF Fresh
    <2>2. CASE todo' = <<>> /\ layer = 0
      BY <1>2, <2>2 DEF Fresh, Finish
    <2>3. CASE todo' = <<>> /\ layer # 0
      <3>1. cur' = cur /\ layer' = layer - 1
        BY <1>2, <2>3 DEF NextLayer
      <3>2. \A l \in 0 .. layer' : l \in 0 .. layer /\ l < layer
        BY <1>3, <1>11, <3>1
      <3> QED BY <1>8, <1>13, <3>1, <3>2 DEF Fresh
    <2> QED BY <2>1, <2>2, <2>3
  <1>15. Joined'
    <2>1. CASE todo' # <<>>
      BY <1>1, <1>2, <2>1, LinkBackJoins
    <2>2. CASE todo' = <<>> /\ layer = 0
      <3>1. cur' = None
        BY <1>2, <2>2 DEF Finish
      <3> QED BY <1>1, <1>2, <2>2, <3>1, LinkBackJoins
    <2>3. CASE todo' = <<>> /\ layer # 0
      <3>1. cur' = cur
        BY <1>2, <2>3 DEF NextLayer
      <3> QED BY <1>1, <1>2, <2>3, <3>1, LinkBackJoins
    <2> QED BY <2>1, <2>2, <2>3
  <1>16. Graph!LinkBack(nb)
    <2> DEFINE sets == [n \in Node |-> ToSet(out[n])]
    <2>1. /\ kept \in Graph!Selections(Graph!LinkedBack(nb), Graph!MaxConnections(layer))
          /\ sets = Graph!Pruned(nb, kept)
      BY <1>1, LinkedBackIsAllowed
    <2>2. Links' = [Links EXCEPT ![layer] = sets]
      <3>1. Links' = [l \in Layer |-> [n \in Node |-> ToSet(nbrs'[l][n])]]
        BY DEF Links
      <3>2. \A l \in Layer : [n \in Node |-> ToSet(nbrs'[l][n])] =
                                IF l = layer THEN sets ELSE Links[l]
        BY <1>6 DEF Links
      <3>3. Links' = [l \in Layer |-> IF l = layer THEN sets ELSE Links[l]]
        BY <3>1, <3>2
      <3>4. Links = [l \in Layer |-> Links[l]]
        BY DEF Links
      <3> HIDE DEF sets
      <3> QED BY <3>3, <3>4
    <2>3. ToSet(todo)' = ToSet(todo) \ {nb} /\ nb \in ToSet(todo)
      BY <1>1
    <2>4. todo' # <<>> <=> ToSet(todo) # {nb}
      BY <1>1
    <2>5. IF ToSet(todo) # {nb} THEN UNCHANGED <<entry, maxLevel, cur, layer, start>>
                                ELSE IF layer = 0 THEN Graph!Finish ELSE Graph!NextLayer
      BY <1>2, <2>4 DEF Finish, NextLayer, Graph!Finish, Graph!NextLayer, None, Graph!None
    <2>6. Len(store)' = Len(store) /\ UNCHANGED levels /\ cur # Graph!None
      BY <1>1, <1>2 DEF None, Graph!None
    <2> HIDE DEF sets
    <2> QED BY <2>1, <2>2, <2>3, <2>5, <2>6 DEF Graph!LinkBack
  <1> QED BY <1>3, <1>9, <1>10, <1>12, <1>14, <1>15, <1>16 DEF IndexInv

\* A step that changes nothing.
LEMMA StutterHolds ==
    ASSUME IndexInv, UNCHANGED vars
    PROVE  IndexInv' /\ UNCHANGED Graph!vars
  <1>1. UNCHANGED <<store, levels, nbrs, entry, maxLevel, cur, layer, start, todo>>
    BY DEF vars, graph
  <1>2. Inserted' = Inserted /\ Old' = Old /\ Links' = Links
    BY <1>1 DEF Inserted, Old, Links
  <1>3. ListsTyped' /\ ListsBounded' /\ Progress' /\ Fresh'
    BY <1>1, <1>2 DEF IndexInv, ListsTyped, ListsBounded, Progress, Fresh, Stored
  <1>4. Joined'
    BY <1>1, <1>2 DEF IndexInv, Joined, Closed
  <1> QED BY <1>1, <1>2, <1>3, <1>4 DEF IndexInv, Graph!vars, Graph!graph

\* A step of insert() is a step of HnswGraph.
LEMMA NextHolds ==
    ASSUME IndexInv, [Next]_vars
    PROVE  IndexInv' /\ [Graph!Next]_(Graph!vars)
  <1>1. Graph!Layer = Layer /\ Graph!Node = Node
    BY DEF Graph!Layer, Layer, Graph!Node, Node
  <1>2. ASSUME NEW v \in Point, NEW l \in Layer, AddNode(v, l)
        PROVE  IndexInv' /\ Graph!Next
    BY <1>1, <1>2, AddNodeHolds DEF Graph!Next
  <1>3. ASSUME Descend PROVE IndexInv' /\ Graph!Next
    BY <1>3, DescendHolds DEF Graph!Next
  <1>4. ASSUME SelectNeighbors PROVE IndexInv' /\ Graph!Next
    BY <1>4, SelectNeighborsHolds DEF Graph!Next
  <1>5. ASSUME LinkBack PROVE IndexInv' /\ Graph!Next
    BY <1>1, <1>5, LinkBackHolds DEF Graph!Next
  <1>6. ASSUME UNCHANGED vars PROVE IndexInv' /\ UNCHANGED Graph!vars
    BY <1>6, StutterHolds
  <1> QED BY <1>2, <1>3, <1>4, <1>5, <1>6 DEF Next

\* The lists are well formed and, until one of layer 0 can overflow, the nodes
\* hang together, whatever is inserted (hnsw_index.h:68-146, 193-195).
THEOREM IndexInvariant == Spec => []IndexInv
  <1>1. Init => IndexInv
    BY InitHolds
  <1>2. IndexInv /\ [Next]_vars => IndexInv'
    BY NextHolds
  <1> QED BY <1>1, <1>2, PTL DEF Spec

\* With the distances, the searches and the selections of the code each step of
\* insert() is one that HnswGraph allows (hnsw_index.h:68-146, 274-374).
THEOREM ImplementsGraph == Spec => ImplementsHnswGraph
  <1>1. Init => Graph!Init
    BY InitHolds
  <1>2. IndexInv /\ [Next]_vars => [Graph!Next]_(Graph!vars)
    BY NextHolds
  <1> QED BY <1>1, <1>2, IndexInvariant, PTL DEF Spec, ImplementsHnswGraph

\* No neighbour list holds a node twice (hnsw_index.h:252-270).
THEOREM ListsAreDistinct == Spec => []ListsDistinct
  <1>1. IndexInv => ListsDistinct
    <2> SUFFICES ASSUME IndexInv, NEW l \in Layer, NEW n \in Node
                 PROVE  Cardinality(Links[l][n]) = Len(nbrs[l][n])
      BY DEF ListsDistinct
    <2>1. /\ Stored /\ nbrs[l][n] \in Seq(Inserted) /\ Distinct(nbrs[l][n])
      BY DEF IndexInv, ListsTyped, ListsBounded
    <2>2. Links[l][n] = ToSet(nbrs[l][n])
      BY DEF Links
    <2> QED BY <2>1, <2>2, ListIs
  <1> QED BY <1>1, IndexInvariant, PTL

-----------------------------------------------------------------------------
(* search()                                                                *)

\* The descent through the upper layers ends at a node that is there.
LEMMA BaseStartIs ==
    ASSUME IndexInv, store # <<>>, NEW q, IsVector(q)
    PROVE  BaseStart(q) \in Inserted
  <1> DEFINE N == maxLevel
             V == Inserted
             Step(i, x) == Head(GreedySearch(q, N + 1 - i, x, 1))
             IsLoop(h) == h = [i \in 0 .. N |-> IF i = 0 THEN entry ELSE Step(i, h[i - 1])]
             G == [i \in 1 .. N |-> [x \in V |-> Step(i, x)]]
             at == CHOOSE h : IsLoop(h)
  <1>1. /\ ListsTyped /\ N \in Layer /\ N \in Nat /\ entry \in V
        /\ \A i \in 1 .. N : N + 1 - i \in Layer
    <2>1. ListsTyped /\ N \in Layer /\ entry \in V
      BY DEF IndexInv, Progress
    <2> QED BY <2>1, TopLevelAssumption DEF Layer
  <1>2. \A i \in 1 .. N : \A x \in V : Step(i, x) \in V /\ G[i][x] = Step(i, x)
    <2> SUFFICES ASSUME NEW i \in 1 .. N, NEW x \in V PROVE Step(i, x) \in V
      OBVIOUS
    <2> DEFINE ef == 1
               l == N + 1 - i
               out == GreedySearch(q, l, x, ef)
    <2>1. Asked(q, l, x, ef)
      BY <1>1 DEF Asked
    <2> HIDE DEF ef, l
    <2>2. Head(out) \in ToSet(out) /\ out \in Seq(Inserted)
      <3> HIDE DEF out
      <3>1. out = GreedySearch(q, l, x, ef)
        BY DEF out
      <3> QED BY <2>1, <3>1, GreedySearchIs
    <2>3. ToSet(out) \subseteq Inserted
      <3> HIDE DEF out
      <3>1. Stored
        BY <1>1 DEF ListsTyped
      <3> QED BY <2>2, <3>1, ListIs
    <2>4. Step(i, x) = Head(out)
      BY DEF ef, l
    <2> QED BY <2>2, <2>3, <2>4
  <1>3. G \in [1 .. N -> [V -> V]]
    <2> HIDE DEF Step
    <2> QED BY <1>2
  <1>4. PICK f \in [0 .. N -> V] : f[0] = entry /\ \A i \in 1 .. N : f[i] = G[i][f[i - 1]]
    <2> HIDE DEF G, N, V
    <2>1. Iterations(N, V, entry, G) # {}
      BY <1>1, <1>3, Iterates
    <2> QED BY <2>1 DEF Iterations
  <1>5. IsLoop(f)
    <2> HIDE DEF N, G, Step, V
    <2>1. \A i \in 1 .. N : f[i] = Step(i, f[i - 1])
      <3> TAKE i \in 1 .. N
      <3>1. i - 1 \in 0 .. N
        BY <1>1
      <3> QED BY <1>2, <1>4, <3>1
    <2>2. \A i \in 0 .. N : i # 0 => i \in 1 .. N
      BY <1>1
    <2> QED BY <1>4, <2>1, <2>2
  <1>6. IsLoop(at)
    <2> HIDE DEF N, Step
    <2> QED BY <1>5
  <1>7. BaseStart(q) = at[N]
    BY DEF BaseStart
  <1> HIDE DEF at, N, Step, V
  <1>8. at[0] = entry /\ \A i \in 1 .. N : at[i] = Step(i, at[i - 1])
    <2>1. at = [i \in 0 .. N |-> IF i = 0 THEN entry ELSE Step(i, at[i - 1])]
      BY <1>6
    <2>2. 0 \in 0 .. N /\ \A i \in 1 .. N : i \in 0 .. N /\ i # 0
      BY <1>1
    <2> QED BY <2>1, <2>2
  <1> DEFINE T == {i \in 0 .. N : at[i] \in V}
  <1>9. 0 \in T
    BY <1>1, <1>8
  <1>10. ASSUME NEW i \in 1 .. N, i - 1 \in T PROVE i \in T
    <2>1. at[i - 1] \in V /\ i \in 0 .. N
      BY <1>1, <1>10
    <2> QED BY <1>2, <1>8, <2>1
  <1> HIDE DEF T
  <1>11. 0 .. N \subseteq T
    BY <1>1, <1>9, <1>10, UpTo
  <1>12. at[N] \in V
    BY <1>1, <1>11 DEF T
  <1> QED BY <1>7, <1>12 DEF V

\* ef is never below ef_search, whatever k becomes as an int.
LEMMA EfUsedIs ==
    ASSUME NEW k \in Nat, NEW e \in Nat \ {0}
    PROVE  EfUsed(k, e) \in Nat \ {0}
  <1> DEFINE w == k % IntValues
  <1>1. w \in Nat /\ IntValues \in Nat
    BY SearchAssumption
  <1>2. ToInt(k) = IF 2 * w < IntValues THEN w ELSE w - IntValues
    BY DEF ToInt
  <1> HIDE DEF w
  <1>3. ToInt(k) \in Int
    BY <1>1, <1>2
  <1> QED BY <1>3 DEF EfUsed

\* An answer is the first k of what the search on the base layer finds.
LEMMA SearchIs ==
    ASSUME IndexInv, store # <<>>, NEW q \in Point, NEW k \in Nat \ {0}, NEW e \in Nat \ {0},
           NEW R, R = Reach(0, BaseStart(q)),
           NEW found, found = GreedySearch(q, 0, BaseStart(q), EfUsed(k, e)),
           NEW answer, answer = Search(q, k, e)
    PROVE  /\ Stored /\ IsVector(q) /\ R \in SUBSET Inserted /\ Cardinality(R) \in Nat
           /\ found \in Seq(Inserted) /\ Len(found) > 0 /\ Distinct(found)
           /\ Len(found) = IF Cardinality(R) <= EfUsed(k, e) THEN Cardinality(R) ELSE EfUsed(k, e)
           /\ Cardinality(R) <= EfUsed(k, e) => found = Offsets(Pairs(q, R))
           /\ ToSet(found) \subseteq R
           /\ \A i, j \in 1 .. Len(found) : i < j =>
                 Dist(q, Vector(found[i])) <= Dist(q, Vector(found[j]))
           /\ Dist(q, Vector(found[1])) <= Dist(q, Vector(BaseStart(q)))
           /\ answer \in Seq(Inserted)
           /\ Len(answer) = IF Len(found) > k THEN k ELSE Len(found)
           /\ \A i \in 1 .. Len(answer) : answer[i] = found[i]
  <1> DEFINE ef == EfUsed(k, e)
             from == BaseStart(q)
  <1>1. ListsTyped /\ Stored /\ IsVector(q) /\ 0 \in Layer
    BY PointIsVector, TopLevelAssumption DEF IndexInv, ListsTyped, Layer
  <1>2. from \in Inserted /\ ef \in Nat \ {0}
    BY <1>1, BaseStartIs, EfUsedIs
  <1>3. Asked(q, 0, from, ef)
    BY <1>1, <1>2 DEF Asked
  <1>4. R \in SUBSET Inserted /\ Cardinality(R) \in Nat
    BY <1>1, <1>2, ReachIs, InsertedIs
  <1> HIDE DEF ef, from
  <1>5. /\ found \in Seq(Inserted) /\ Distinct(found) /\ Len(found) > 0
        /\ ListsQueue(q, Found(q, 0, from, ef), found)
        /\ IsQueue(q, Found(q, 0, from, ef))
        /\ ToSet(found) \subseteq R
        /\ Cardinality(R) <= ef => Found(q, 0, from, ef) = Pairs(q, R)
        /\ Len(found) = IF Cardinality(R) <= ef THEN Cardinality(R) ELSE ef
        /\ Dist(q, Vector(found[1])) <= Dist(q, Vector(from))
    <2>1. found = GreedySearch(q, 0, from, ef) /\ R = Reach(0, from)
      BY DEF ef, from
    <2> QED BY <1>3, <2>1, GreedySearchIs
  <1>6. Cardinality(R) <= ef => found = Offsets(Pairs(q, R))
    <2>1. found = Offsets(Found(q, 0, from, ef))
      BY DEF GreedySearch, ef, from
    <2> QED BY <1>5, <2>1
  <1>7. ASSUME NEW i \in 1 .. Len(found), NEW j \in 1 .. Len(found), i < j
        PROVE  Dist(q, Vector(found[i])) <= Dist(q, Vector(found[j]))
    <2>1. Closer(Pair(q, found[i]), Pair(q, found[j]))
      BY <1>5, <1>7 DEF ListsQueue
    <2>2. found[i] \in Inserted /\ found[j] \in Inserted
      BY <1>5
    <2> DEFINE x == Dist(q, Vector(found[i]))
               y == Dist(q, Vector(found[j]))
    <2>3. /\ Pair(q, found[i])[1] = x /\ Pair(q, found[j])[1] = y
          /\ x \in Int /\ y \in Int
      BY <1>1, <2>2, PairIs
    <2> HIDE DEF x, y
    <2>4. x <= y
      BY <2>1, <2>3 DEF Closer
    <2> QED BY <2>4 DEF x, y
  <1> DEFINE n == IF Len(found) > k THEN k ELSE Len(found)
  <1>8. n \in Nat /\ n <= Len(found)
    BY <1>5
  <1>9. answer = SubSeq(found, 1, n)
    BY DEF Search
  <1> HIDE DEF n
  <1>10. answer \in Seq(Inserted) /\ Len(answer) = n /\ \A i \in 1 .. n : answer[i] = found[i]
    <2>1. 1 \in Nat \ {0} /\ 1 <= n + 1 /\ n - 1 + 1 = n /\ \A i \in 1 .. n : 1 + i - 1 = i
      BY <1>8
    <2>2. /\ answer \in Seq(Inserted) /\ Len(answer) = n - 1 + 1
          /\ \A i \in 1 .. n - 1 + 1 : answer[i] = found[1 + i - 1]
      BY <1>5, <1>8, <1>9, <2>1, PartIs
    <2> QED BY <2>1, <2>2
  <1> QED BY <1>1, <1>4, <1>5, <1>6, <1>7, <1>10 DEF ef, from, n

\* However small ef is, the answer has min(k, ef, nodes reached) distinct nodes
\* in order of distance, none of the nearer ones left out for where the search
\* of the base layer began (hnsw_index.h:287-334).
THEOREM SearchIsWellFormed == Spec => []SearchWellFormed
  <1>1. IndexInv => SearchWellFormed
    <2> SUFFICES ASSUME IndexInv, cur = None, store # <<>>, NEW q \in Point,
                        NEW k \in K \ {0}, NEW e \in EfSearch
                 PROVE  LET reached == Cardinality(Reached(q))
                            answer == Search(q, k, e)
                            d == Distances(q, answer)
                        IN  /\ Cardinality(ToSet(answer)) = Len(answer)
                            /\ \A i \in 2 .. Len(answer) : d[i - 1] <= d[i]
                            /\ Len(answer) <= k /\ Len(answer) <= reached
                            /\ k <= EfUsed(k, e) =>
                                  Len(answer) = IF k < reached THEN k ELSE reached
                            /\ d[1] <= Dist(q, Vector(BaseStart(q)))
      BY DEF SearchWellFormed
    <2> DEFINE R == Reach(0, BaseStart(q))
               found == GreedySearch(q, 0, BaseStart(q), EfUsed(k, e))
               answer == Search(q, k, e)
               d == Distances(q, answer)
               ef == EfUsed(k, e)
    <2>1. k \in Nat \ {0} /\ e \in Nat \ {0} /\ ef \in Nat \ {0}
      BY SearchAssumption, EfUsedIs
    <2>2. Reached(q) = R
      BY DEF Reached, Reach
    <2> HIDE DEF R, found, answer, ef
    <2>3. /\ Stored /\ IsVector(q) /\ R \in SUBSET Inserted /\ Cardinality(R) \in Nat
          /\ found \in Seq(Inserted) /\ Len(found) > 0 /\ Distinct(found)
          /\ Len(found) = IF Cardinality(R) <= ef THEN Cardinality(R) ELSE ef
          /\ \A i, j \in 1 .. Len(found) : i < j =>
                Dist(q, Vector(found[i])) <= Dist(q, Vector(found[j]))
          /\ Dist(q, Vector(found[1])) <= Dist(q, Vector(BaseStart(q)))
          /\ answer \in Seq(Inserted)
          /\ Len(answer) = IF Len(found) > k THEN k ELSE Len(found)
          /\ \A i \in 1 .. Len(answer) : answer[i] = found[i]
      BY <2>1, SearchIs DEF R, found, answer, ef
    <2>4. Len(found) \in Nat /\ Len(answer) \in Nat /\ 1 \in 1 .. Len(answer)
          /\ 1 .. Len(answer) \subseteq 1 .. Len(found) /\ DOMAIN answer = 1 .. Len(answer)
      BY <2>1, <2>3
    <2>5. Distinct(answer)
      BY <2>3, <2>4 DEF Distinct
    <2>6. Cardinality(ToSet(answer)) = Len(answer)
      BY <2>3, <2>5, ListIs
    <2>7. \A i \in 1 .. Len(answer) : d[i] = Dist(q, Vector(found[i]))
      BY <2>3, <2>4 DEF Distances
    <2> HIDE DEF d
    <2>8. ASSUME NEW i \in 2 .. Len(answer) PROVE d[i - 1] <= d[i]
      <3>1. i - 1 \in 1 .. Len(answer) /\ i \in 1 .. Len(answer) /\ i - 1 < i
        BY <2>4
      <3> QED BY <2>3, <2>4, <2>7, <3>1
    <2>9. /\ Len(answer) <= k /\ Len(answer) <= Cardinality(R)
          /\ k <= ef => Len(answer) = IF k < Cardinality(R) THEN k ELSE Cardinality(R)
      BY <2>1, <2>3, <2>4
    <2>10. d[1] <= Dist(q, Vector(BaseStart(q)))
      BY <2>3, <2>4, <2>7
    <2> QED BY <2>2, <2>6, <2>8, <2>9, <2>10 DEF answer, d, ef
  <1> QED BY <1>1, IndexInvariant, PTL

\* The best k distances are the first k of the queue of all.
LEMMA BestDistancesAre ==
    ASSUME Stored, NEW q, IsVector(q), NEW S \in SUBSET Inserted, NEW k \in Nat,
           NEW all, all = Offsets(Pairs(q, S)), all \in Seq(Inserted),
           NEW n, n = IF Len(all) > k THEN k ELSE Len(all)
    PROVE  BestDistances(q, S, k) = [i \in 1 .. n |-> Dist(q, Vector(all[i]))]
  <1> DEFINE best == Distances(q, all)
  <1>1. /\ Len(all) \in Nat /\ DOMAIN all = 1 .. Len(all) /\ n \in Nat /\ n <= Len(all)
    OBVIOUS
  <1>2. best = [i \in 1 .. Len(all) |-> Dist(q, Vector(all[i]))]
    BY <1>1 DEF Distances
  <1>3. \A i \in 1 .. Len(all) : Dist(q, Vector(all[i])) \in Int
    <2> TAKE i \in 1 .. Len(all)
    <2>1. all[i] \in Inserted
      OBVIOUS
    <2> QED BY <2>1, PairIs
  <1> HIDE DEF best
  <1>4. best \in [1 .. Len(all) -> Int]
    BY <1>2, <1>3
  <1>5. best \in Seq(Int) /\ Len(best) = Len(all)
    <2>1. \A N \in Nat : \A f \in [1 .. N -> Int] : f \in Seq(Int) /\ Len(f) = N
      OBVIOUS
    <2> QED BY <1>1, <1>4, <2>1
  <1>6. BestDistances(q, S, k) = SubSeq(best, 1, n)
    BY <1>5 DEF BestDistances, Pairs, best
  <1> DEFINE t == SubSeq(best, 1, n)
  <1>7. t = [i \in 1 .. n |-> best[i]]
    <2>1. 1 \in Nat \ {0} /\ 1 <= n + 1 /\ n - 1 + 1 = n /\ \A i \in 1 .. n : 1 + i - 1 = i
      <3>1. \A x \in Nat : /\ 1 \in Nat \ {0} /\ 1 <= x + 1 /\ x - 1 + 1 = x
                          /\ \A i \in 1 .. x : 1 + i - 1 = i
        OBVIOUS
      <3> QED BY <1>1, <3>1
    <2>2. /\ t \in Seq(Int) /\ Len(t) = n - 1 + 1
          /\ \A i \in 1 .. n - 1 + 1 : t[i] = best[1 + i - 1]
      <3>1. n <= Len(best)
        BY <1>1, <1>5
      <3> DEFINE m == n
      <3>2. /\ best \in Seq(Int) /\ 1 \in Nat \ {0} /\ m \in Nat /\ 1 <= m + 1 /\ m <= Len(best)
            /\ t = SubSeq(best, 1, m)
        BY <1>1, <1>5, <2>1, <3>1
      <3> SUFFICES /\ t \in Seq(Int) /\ Len(t) = m - 1 + 1
                   /\ \A i \in 1 .. m - 1 + 1 : t[i] = best[1 + i - 1]
        OBVIOUS
      <3> HIDE DEF m, t
      <3> QED BY <3>2, PartIs
    <2> HIDE DEF t
    <2>3. t \in [1 .. n -> Int] /\ \A i \in 1 .. n : t[i] = best[i]
      BY <2>1, <2>2
    <2> QED BY <2>3
  <1>8. \A i \in 1 .. n : best[i] = Dist(q, Vector(all[i]))
    <2>1. \A x, y \in Nat : x <= y => 1 .. x \subseteq 1 .. y
      OBVIOUS
    <2>2. 1 .. n \subseteq 1 .. Len(all)
      BY <1>1, <2>1
    <2> QED BY <1>2, <2>2
  <1> QED BY <1>6, <1>7, <1>8

\* Nothing is found in an empty index, and nothing when nothing is asked for.
LEMMA SearchNothing ==
    ASSUME IndexInv, NEW q \in Point, NEW k \in Nat, NEW e, store = <<>> \/ k = 0
    PROVE  /\ Search(q, k, e) = <<>>
           /\ Cardinality(ToSet(Search(q, k, e))) = Len(Search(q, k, e))
           /\ \A S \in SUBSET Inserted : Distances(q, Search(q, k, e)) = BestDistances(q, S, k)
  <1>1. Search(q, k, e) = <<>>
    BY DEF Search
  <1>2. ToSet(<<>>) = {} /\ Cardinality({}) = 0 /\ Len(<<>>) = 0
    BY FS_EmptySet DEF ToSet
  <1>3. Stored /\ IsVector(q)
    BY PointIsVector DEF IndexInv, ListsTyped
  <1>4. ASSUME NEW S \in SUBSET Inserted
        PROVE  Distances(q, <<>>) = BestDistances(q, S, k)
    <2> DEFINE all == Offsets(Pairs(q, S))
               n == IF Len(all) > k THEN k ELSE Len(all)
    <2>1. Pairs(q, S) \in SUBSET Pairs(q, Inserted)
      BY DEF Pairs
    <2>2. all \in Seq(Inserted) /\ Len(all) = Cardinality(Pairs(q, S))
      BY <1>3, <2>1, OffsetsAre DEF IsQueue, ListsQueue
    <2>3. n = 0
      <3>1. CASE k = 0
        BY <2>2, <3>1
      <3>2. CASE store = <<>>
        <4>1. Inserted = {}
          BY <3>2 DEF Inserted
        <4>2. Pairs(q, S) = {}
          BY <4>1 DEF Pairs
        <4>3. Len(all) = 0
          BY <1>2, <2>2, <4>2
        <4> HIDE DEF all
        <4> QED BY <4>3
      <3> QED BY <3>1, <3>2
    <2> HIDE DEF all, n
    <2>4. BestDistances(q, S, k) = [i \in 1 .. n |-> Dist(q, Vector(all[i]))]
      BY <1>3, <2>2, BestDistancesAre DEF all, n
    <2>5. 1 .. n = {} /\ DOMAIN <<>> = {}
      BY <2>3
    <2> QED BY <2>4, <2>5 DEF Distances
  <1> QED BY <1>1, <1>2, <1>4

\* When the search may keep as many nodes as there are, the answer is exact for
\* what the base layer reaches.
LEMMA ExactOnReachable ==
    ASSUME IndexInv, NEW q \in Point, NEW k \in K, NEW e \in EfSearch,
           EfUsed(k, e) >= Len(store)
    PROVE  /\ Cardinality(ToSet(Search(q, k, e))) = Len(Search(q, k, e))
           /\ Distances(q, Search(q, k, e)) = BestDistances(q, Reached(q), k)
  <1>1. k \in Nat /\ e \in Nat \ {0}
    BY SearchAssumption
  <1>2. CASE store = <<>> \/ k = 0
    <2>1. Reached(q) \in SUBSET Inserted
      <3>1. CASE store = <<>>
        BY <3>1 DEF Reached
      <3>2. CASE store # <<>>
        <4>1. ListsTyped /\ BaseStart(q) \in Inserted /\ 0 \in Layer
          BY <3>2, PointIsVector, BaseStartIs, TopLevelAssumption DEF IndexInv, Layer
        <4>2. Reached(q) = Reach(0, BaseStart(q))
          BY <3>2 DEF Reached, Reach
        <4> QED BY <4>1, <4>2, ReachIs
      <3> QED BY <3>1, <3>2
    <2> QED BY <1>1, <1>2, <2>1, SearchNothing
  <1>3. CASE store # <<>> /\ k # 0
    <2> DEFINE R == Reach(0, BaseStart(q))
               found == GreedySearch(q, 0, BaseStart(q), EfUsed(k, e))
               answer == Search(q, k, e)
               n == IF Len(found) > k THEN k ELSE Len(found)
               ef == EfUsed(k, e)
    <2>1. k \in Nat \ {0} /\ ef \in Nat \ {0}
      BY <1>1, <1>3, EfUsedIs
    <2>2. Reached(q) = R
      BY <1>3 DEF Reached, Reach
    <2> HIDE DEF R, found, answer, ef
    <2>3. /\ Stored /\ IsVector(q) /\ R \in SUBSET Inserted /\ Cardinality(R) \in Nat
          /\ found \in Seq(Inserted) /\ Distinct(found)
          /\ Cardinality(R) <= ef => found = Offsets(Pairs(q, R))
          /\ answer \in Seq(Inserted) /\ Len(answer) = n
          /\ \A i \in 1 .. Len(answer) : answer[i] = found[i]
      BY <1>1, <1>3, <2>1, SearchIs DEF R, found, answer, ef
    <2>4. Len(store) \in Nat /\ Cardinality(R) <= Len(store)
      BY <2>3, VectorIs, InsertedIs
    <2>5. found = Offsets(Pairs(q, R))
      <3>1. ef >= Len(store)
        BY DEF ef
      <3> QED BY <2>1, <2>3, <2>4, <3>1
    <2>6. BestDistances(q, R, k) = [i \in 1 .. n |-> Dist(q, Vector(found[i]))]
      BY <2>1, <2>3, <2>5, BestDistancesAre
    <2>7. DOMAIN answer = 1 .. n /\ n \in Nat /\ n <= Len(found)
      BY <2>1, <2>3
    <2> HIDE DEF n
    <2>8. Distances(q, answer) = [i \in 1 .. n |-> Dist(q, Vector(found[i]))]
      BY <2>3, <2>7 DEF Distances
    <2>9. Cardinality(ToSet(answer)) = Len(answer)
      <3>1. 1 .. Len(answer) \subseteq 1 .. Len(found)
        BY <2>3, <2>7
      <3>2. Distinct(answer)
        BY <2>3, <3>1 DEF Distinct
      <3> QED BY <2>3, <3>2, ListIs
    <2> QED BY <2>2, <2>6, <2>8, <2>9 DEF answer
  <1> QED BY <1>2, <1>3

\* When the search may keep as many nodes as there are, the answer is exact for
\* what the base layer reaches, for every k: one that becomes negative as an
\* int leaves ef_search in force and still cuts the answer
\* (hnsw_index.h:150-175, 274-336).
THEOREM SearchIsExactOnReachable == Spec => []SearchExactOnReachable
  <1>1. IndexInv => SearchExactOnReachable
    BY ExactOnReachable DEF SearchExactOnReachable
  <1> QED BY <1>1, IndexInvariant, PTL

\* While there are at most 2m + 1 nodes the base layer reaches all of them from
\* any of them.
LEMMA AllReached ==
    ASSUME IndexInv, cur = None, Len(store) <= 2 * M + 1, NEW q \in Point
    PROVE  Reached(q) = Inserted
  <1>1. CASE store = <<>>
    BY <1>1 DEF Reached, Inserted
  <1>2. CASE store # <<>>
    <2> DEFINE R == Reach(0, BaseStart(q))
    <2>1. ListsTyped /\ BaseStart(q) \in Inserted /\ 0 \in Layer
      BY <1>2, PointIsVector, BaseStartIs, TopLevelAssumption DEF IndexInv, Layer
    <2>2. Reached(q) = R
      BY <1>2 DEF Reached, Reach
    <2> HIDE DEF R
    <2>3. /\ BaseStart(q) \in R /\ R \subseteq Inserted
          /\ \A n \in R : ToSet(nbrs[0][n]) \subseteq R
      BY <2>1, ReachIs DEF R
    <2>4. Closed(R)
      BY <2>3 DEF Closed
    <2>5. Old = Inserted
      <3>1. None \notin Inserted
        BY DEF Inserted, None
      <3> QED BY <3>1 DEF Old
    <2>6. Inserted \subseteq R
      BY <2>1, <2>3, <2>4, <2>5 DEF IndexInv, Joined
    <2> QED BY <2>2, <2>3, <2>6
  <1> QED BY <1>1, <1>2

\* Until a list of layer 0 can overflow, with 2m + 1 nodes at most, a search
\* that may keep as many nodes as there are is exact for everything inserted
\* (hnsw_index.h:106, 193-195).
THEOREM SearchIsExactWhileSmall == Spec => []SearchExactWhileSmall
  <1>1. IndexInv => SearchExactWhileSmall
    BY AllReached, ExactOnReachable DEF SearchExactWhileSmall
  <1> QED BY <1>1, IndexInvariant, PTL

=============================================================================
