-------------------------- MODULE AlgorithmProofs ---------------------------
(***************************************************************************)
(* Proofs about the algorithms that keep no state of their own, for any    *)
(* number of vectors, segments, dimensions and codes: brute force and the  *)
(* merge of the segments' answers are exact, the quantisation is as tight  *)
(* as its codes allow, the distance kernel adds every term once, a graph   *)
(* is read back from its file, and so is what the registry still holds.    *)
(*                                                                         *)
(* The loops of the code are recursive functions here.  That such a        *)
(* function exists follows from Iterates, and what it computes by UpTo:    *)
(* both rest on the least element of a set of naturals.  IInv carries the  *)
(* results over to the behaviours: it says that an answer is               *)
(* one that the algorithm may give to the call.                            *)
(***************************************************************************)
EXTENDS Algorithms, FiniteSetTheorems, LoopProofs, TLAPS

-----------------------------------------------------------------------------
(* The smaller and the greater of two numbers.                             *)

LEMMA SmallerGreater ==
    \A a, b \in Int : /\ Min({a, b}) = IF a <= b THEN a ELSE b
                      /\ Max({a, b}) = IF a >= b THEN a ELSE b
  <1> SUFFICES ASSUME NEW a \in Int, NEW b \in Int
               PROVE  /\ Min({a, b}) = IF a <= b THEN a ELSE b
                      /\ Max({a, b}) = IF a >= b THEN a ELSE b
    OBVIOUS
  <1>1. Min({a, b}) = IF a <= b THEN a ELSE b
    <2> DEFINE m == IF a <= b THEN a ELSE b
    <2>1. m \in {a, b} /\ \A y \in {a, b} : m <= y
      OBVIOUS
    <2>2. \A x \in {a, b} : (\A y \in {a, b} : x <= y) => x = m
      OBVIOUS
    <2> HIDE DEF m
    <2> QED BY <2>1, <2>2 DEF Min, m
  <1>2. Max({a, b}) = IF a >= b THEN a ELSE b
    <2> DEFINE m == IF a >= b THEN a ELSE b
    <2>1. m \in {a, b} /\ \A y \in {a, b} : m >= y
      OBVIOUS
    <2>2. \A x \in {a, b} : (\A y \in {a, b} : x >= y) => x = m
      OBVIOUS
    <2> HIDE DEF m
    <2> QED BY <2>1, <2>2 DEF Max, m
  <1> QED BY <1>1, <1>2

-----------------------------------------------------------------------------
(* FlatIndex.                                                              *)

\* pq holds the k nearest of the first n vectors, or all when there are no
\* more than k.
HoldsNearest(dist, k, n, pq) ==
    /\ pq \subseteq 1 .. n
    /\ Cardinality(pq) = IF n < k THEN n ELSE k
    /\ \A a \in pq, b \in (1 .. n) \ pq : dist[a] <= dist[b]

\* One step of the scan keeps the k nearest of the vectors seen so far,
\* whichever of the farthest ones is on top of the heap (flat_index.h:27-36).
THEOREM OfferKeepsNearest ==
    ASSUME NEW k \in Nat \ {0}, NEW n \in Nat,
           NEW dist, \A i \in 1 .. n + 1 : dist[i] \in Int,
           NEW pq, HoldsNearest(dist, k, n, pq),
           NEW next \in Offer(dist, k, pq, n + 1)
    PROVE  HoldsNearest(dist, k, n + 1, next)
  <1>1. /\ IsFiniteSet(pq) /\ Cardinality(pq) \in Nat /\ n + 1 \notin pq
        /\ pq \subseteq 1 .. n /\ 1 .. n + 1 = (1 .. n) \cup {n + 1}
        /\ Cardinality(pq) = IF n < k THEN n ELSE k
    <2>1. IsFiniteSet(1 .. n)
      BY FS_Interval
    <2>2. pq \subseteq 1 .. n
      BY DEF HoldsNearest
    <2>3. n + 1 \notin 1 .. n /\ 1 .. n + 1 = (1 .. n) \cup {n + 1}
      OBVIOUS
    <2>4. Cardinality(pq) = IF n < k THEN n ELSE k
      BY DEF HoldsNearest
    <2> QED BY <2>1, <2>2, <2>3, <2>4, FS_Subset, FS_CardinalityType
  <1>2. CASE Cardinality(pq) < k
    <2>1. Cardinality(pq) = n /\ n < k
      BY <1>1, <1>2
    <2>2. pq = 1 .. n
      <3>1. IsFiniteSet(1 .. n) /\ Cardinality(1 .. n) = n
        BY FS_Interval
      <3> QED BY <1>1, <2>1, <3>1, FS_Subset
    <2>3. next = pq \cup {n + 1}
      BY <1>2 DEF Offer
    <2>4. Cardinality(next) = n + 1
      BY <1>1, <2>1, <2>3, FS_AddElement
    <2>5. next = 1 .. n + 1
      BY <1>1, <2>2, <2>3
    <2>6. n + 1 = IF n + 1 < k THEN n + 1 ELSE k
      BY <2>1
    <2> QED BY <2>4, <2>5, <2>6 DEF HoldsNearest
  <1>3. CASE ~(Cardinality(pq) < k)
    <2>1. Cardinality(pq) = k /\ k <= n /\ ~(n + 1 < k)
      BY <1>1, <1>3
    <2>2. PICK t \in Tops(dist, pq) :
             next = IF dist[n + 1] < dist[t] THEN (pq \ {t}) \cup {n + 1} ELSE pq
      BY <1>3 DEF Offer
    <2>3. t \in pq /\ \A v \in pq : dist[v] <= dist[t]
      BY DEF Tops
    <2>4. /\ \A i \in (1 .. n) \cup {n + 1} : dist[i] \in Int
          /\ \A a \in pq, b \in (1 .. n) \ pq : dist[a] <= dist[b]
      BY <1>1 DEF HoldsNearest
    <2>5. next \subseteq (1 .. n) \cup {n + 1}
      BY <1>1, <2>2
    <2>6. Cardinality(next) = k
      <3>1. IsFiniteSet(pq \ {t}) /\ Cardinality(pq \ {t}) = k - 1 /\ n + 1 \notin pq \ {t}
        BY <1>1, <2>1, <2>3, FS_RemoveElement
      <3>2. Cardinality((pq \ {t}) \cup {n + 1}) = (k - 1) + 1
        BY <3>1, FS_AddElement
      <3> QED BY <2>1, <2>2, <3>2
    <2>7. \A a \in next, b \in ((1 .. n) \cup {n + 1}) \ next : dist[a] <= dist[b]
      <3> SUFFICES ASSUME NEW a \in next, NEW b \in ((1 .. n) \cup {n + 1}) \ next
                   PROVE  dist[a] <= dist[b]
        OBVIOUS
      <3>1. /\ dist[a] \in Int /\ dist[b] \in Int /\ dist[t] \in Int /\ dist[n + 1] \in Int
        BY <1>1, <2>3, <2>4, <2>5
      <3>2. CASE dist[n + 1] < dist[t]
        <4>1. next = (pq \ {t}) \cup {n + 1}
          BY <2>2, <3>2
        <4>2. b = t \/ b \in (1 .. n) \ pq
          BY <4>1
        <4>3. dist[t] <= dist[b]
          BY <2>3, <2>4, <3>1, <4>2
        <4>4. dist[a] <= dist[t]
          BY <2>3, <3>1, <3>2, <4>1
        <4> QED BY <3>1, <4>3, <4>4
      <3>3. CASE ~(dist[n + 1] < dist[t])
        <4>1. next = pq
          BY <2>2, <3>3
        <4>2. dist[a] <= dist[t]
          BY <2>3, <4>1
        <4>3. b = n + 1 \/ b \in (1 .. n) \ pq
          BY <4>1
        <4> QED BY <2>4, <3>1, <3>3, <4>1, <4>2, <4>3
      <3> QED BY <3>2, <3>3
    <2> QED BY <1>1, <2>1, <2>5, <2>6, <2>7 DEF HoldsNearest
  <1> QED BY <1>2, <1>3

\* The scan as a whole: Scanned() is what the loop leaves, whose heaps hold the
\* k nearest of all vectors.
LEMMA ScanIsNearest ==
    ASSUME NEW dist \in Seq(Int), NEW k \in Nat \ {0}, NEW pq \in Scanned(dist, k)
    PROVE  HoldsNearest(dist, k, Len(dist), pq)
  <1> DEFINE N == Len(dist)
             Next1(n, H) == UNION {Offer(dist, k, q, n) : q \in H}
             IsScan(h) == h = [n \in 0 .. N |-> IF n = 0 THEN {{}} ELSE Next1(n, h[n - 1])]
             V == SUBSET SUBSET (1 .. N)
             G == [n \in 1 .. N |-> [H \in V |-> Next1(n, H)]]
             heaps == CHOOSE h : IsScan(h)
  <1>1. N \in Nat /\ \A i \in 1 .. N : dist[i] \in Int
    OBVIOUS
  <1>2. \E h : IsScan(h)
    <2>1. ASSUME NEW n \in 1 .. N, NEW H \in V PROVE Next1(n, H) \in V
      <3> SUFFICES ASSUME NEW q \in H, NEW r \in Offer(dist, k, q, n)
                   PROVE  r \subseteq 1 .. N
        OBVIOUS
      <3>1. q \subseteq 1 .. N /\ n \in 1 .. N
        OBVIOUS
      <3> HIDE DEF N
      <3> QED BY <3>1 DEF Offer, Tops
    <2>2. \A n \in 1 .. N : \A H \in V : G[n][H] = Next1(n, H)
      OBVIOUS
    <2>4. G \in [1 .. N -> [V -> V]]
      <3> HIDE DEF N, V, Next1
      <3> QED BY <2>1
    <2>3. {{}} \in V
      OBVIOUS
    <2> HIDE DEF N, V, G, Next1
    <2> DEFINE v == {{}}
    <2>5. v \in V
      BY <2>3
    <2> HIDE DEF v
    <2>6. Iterations(N, V, v, G) # {}
      BY <1>1, <2>4, <2>5, Iterates
    <2>7. PICK f \in [0 .. N -> V] : f[0] = {{}} /\ \A n \in 1 .. N : f[n] = G[n][f[n - 1]]
      BY <2>6 DEF v, Iterations
    <2>8. \A n \in 1 .. N : f[n] = Next1(n, f[n - 1])
      <3> SUFFICES ASSUME NEW n \in 1 .. N PROVE f[n] = Next1(n, f[n - 1])
        OBVIOUS
      <3>1. n - 1 \in 0 .. N
        BY <1>1
      <3> QED BY <2>2, <2>7, <3>1
    <2>9. \A n \in 0 .. N : n # 0 => n \in 1 .. N
      BY <1>1
    <2>10. IsScan(f)
      BY <1>1, <2>7, <2>8, <2>9
    <2> QED BY <2>10
  <1>3. IsScan(heaps)
    <2> HIDE DEF N, Next1
    <2> QED BY <1>2
  <1>4. Scanned(dist, k) = heaps[N]
    BY DEF Scanned
  <1> HIDE DEF N, heaps
  <1>5. heaps[0] = {{}} /\ \A n \in 1 .. N : heaps[n] = Next1(n, heaps[n - 1])
    <2> HIDE DEF Next1
    <2>1. heaps = [n \in 0 .. N |-> IF n = 0 THEN {{}} ELSE Next1(n, heaps[n - 1])]
      BY <1>3
    <2>2. 0 \in 0 .. N /\ \A n \in 1 .. N : n \in 0 .. N /\ n # 0
      BY <1>1
    <2> QED BY <2>1, <2>2
  <1> DEFINE T == {n \in 0 .. N : \A q \in heaps[n] : HoldsNearest(dist, k, n, q)}
  <1>6. 0 \in T
    <2>1. HoldsNearest(dist, k, 0, {})
      BY FS_EmptySet DEF HoldsNearest
    <2>2. \A q \in heaps[0] : HoldsNearest(dist, k, 0, q)
      BY <1>5, <2>1
    <2> QED BY <1>1, <2>2
  <1>7. ASSUME NEW n \in 1 .. N, n - 1 \in T PROVE n \in T
    <2> SUFFICES ASSUME NEW q \in heaps[n - 1], NEW r \in Offer(dist, k, q, n)
                 PROVE  HoldsNearest(dist, k, n, r)
      BY <1>5
    <2> DEFINE m == n - 1
    <2>1. m \in Nat /\ m + 1 = n /\ \A i \in 1 .. m + 1 : dist[i] \in Int
      BY <1>1
    <2>2. HoldsNearest(dist, k, m, q) /\ r \in Offer(dist, k, q, m + 1)
      BY <1>7, <2>1
    <2> HIDE DEF m
    <2> QED BY <2>1, <2>2, OfferKeepsNearest
  <1> HIDE DEF T
  <1>8. N \in T
    <2>1. 0 .. N \subseteq T
      BY <1>1, <1>6, <1>7, UpTo
    <2> QED BY <1>1, <2>1
  <1> QED BY <1>4, <1>8 DEF T, N

\* out lists the vectors of S, each once and in order of distance.
ListsInOrder(dist, S, out) ==
    /\ out \in Seq(S)
    /\ \A v \in S : \E i \in DOMAIN out : out[i] = v
    /\ \A i, j \in DOMAIN out : i < j => out[i] # out[j] /\ dist[out[i]] <= dist[out[j]]

\* Half-way through the drain of pq: what is out lists the rest, in order, and
\* nothing that is left is farther than what is out.
Draining(dist, pq, d) ==
    /\ d.left \subseteq pq
    /\ ListsInOrder(dist, pq \ d.left, d.out)
    /\ \A a \in d.left, b \in pq \ d.left : dist[a] <= dist[b]

\* Taking one of the farthest out of the heap and putting it in front of those
\* that came out before keeps them in order, however distances tie
\* (flat_index.h:38-46).
THEOREM DrainKeepsOrder ==
    ASSUME NEW dist, NEW pq, NEW d, Draining(dist, pq, d), NEW next \in TakeOut(dist, d)
    PROVE  Draining(dist, pq, next)
  <1>1. PICK t \in Tops(dist, d.left) : next = [left |-> d.left \ {t}, out |-> <<t>> \o d.out]
    BY DEF TakeOut
  <1> DEFINE S == pq \ d.left
             rest == d.out
             out == <<t>> \o rest
             n == Len(rest)
  <1>2. t \in d.left /\ t \in pq /\ \A v \in d.left : dist[v] <= dist[t]
    BY DEF Tops, Draining
  <1>3. /\ rest \in Seq(S) /\ n \in Nat /\ DOMAIN rest = 1 .. n
        /\ \A i \in 1 .. n : rest[i] \in S
        /\ \A v \in S : \E i \in 1 .. n : rest[i] = v
        /\ \A i, j \in 1 .. n : i < j => rest[i] # rest[j] /\ dist[rest[i]] <= dist[rest[j]]
    BY DEF Draining, ListsInOrder
  <1>4. /\ pq \ next.left = S \cup {t} /\ t \notin S
        /\ next.left = d.left \ {t} /\ next.out = out
    BY <1>1, <1>2
  <1>5. /\ out \in Seq(S \cup {t}) /\ DOMAIN out = 1 .. n + 1
        /\ out[1] = t
        /\ \A i \in 2 .. n + 1 : i - 1 \in 1 .. n /\ out[i] = rest[i - 1]
    <2>1. rest \in Seq(S \cup {t}) /\ <<t>> \in Seq(S \cup {t})
      BY <1>3
    <2> HIDE DEF rest, S
    <2> QED BY <1>3, <2>1
  <1>6. \A v \in S : dist[t] <= dist[v]
    BY <1>2 DEF Draining
  <1> HIDE DEF S, rest, out, n
  <1>7. ASSUME NEW v \in S \cup {t} PROVE \E i \in 1 .. n + 1 : out[i] = v
    <2>1. CASE v = t
      <3>1. 1 \in 1 .. n + 1
        BY <1>3
      <3> QED BY <1>5, <2>1, <3>1
    <2>2. CASE v # t
      <3>1. PICK i \in 1 .. n : rest[i] = v
        BY <1>3, <2>2
      <3>2. i + 1 \in 2 .. n + 1 /\ i + 1 \in 1 .. n + 1 /\ (i + 1) - 1 = i
        BY <1>3
      <3>3. out[i + 1] = v
        BY <1>5, <3>1, <3>2
      <3> QED BY <3>2, <3>3
    <2> QED BY <2>1, <2>2
  <1>8. ASSUME NEW i \in 1 .. n + 1, NEW j \in 1 .. n + 1, i < j
        PROVE  out[i] # out[j] /\ dist[out[i]] <= dist[out[j]]
    <2>1. j \in 2 .. n + 1
      BY <1>3, <1>8
    <2>2. j - 1 \in 1 .. n /\ out[j] = rest[j - 1] /\ rest[j - 1] \in S
      BY <1>3, <1>5, <2>1
    <2>3. CASE i = 1
      BY <1>4, <1>5, <1>6, <2>2, <2>3
    <2>4. CASE i # 1
      <3>1. i \in 2 .. n + 1 /\ i - 1 < j - 1
        BY <1>3, <1>8, <2>4
      <3>2. i - 1 \in 1 .. n /\ out[i] = rest[i - 1]
        BY <1>5, <3>1
      <3> QED BY <1>3, <2>2, <3>1, <3>2
    <2> QED BY <2>3, <2>4
  <1>9. ListsInOrder(dist, pq \ next.left, next.out)
    BY <1>4, <1>5, <1>7, <1>8 DEF ListsInOrder
  <1>10. ASSUME NEW a \in next.left, NEW b \in pq \ next.left
         PROVE  dist[a] <= dist[b]
    <2>1. CASE b = t
      BY <1>2, <1>4, <2>1
    <2>2. CASE b # t
      BY <1>4, <2>2 DEF Draining, S
    <2> QED BY <2>1, <2>2
  <1> QED BY <1>4, <1>9, <1>10 DEF Draining

\* The drain as a whole: every answer lists the heap, in order.
LEMMA DrainListsInOrder ==
    ASSUME NEW dist, NEW pq, IsFiniteSet(pq), NEW found \in Drained(dist, pq)
    PROVE  ListsInOrder(dist, pq, found)
  <1> DEFINE N == Cardinality(pq)
             first == [left |-> pq, out |-> <<>>]
             After(D) == UNION {TakeOut(dist, d) : d \in D}
             IsDrain(h) == h = [n \in 0 .. N |-> IF n = 0 THEN {first} ELSE After(h[n - 1])]
             Full == [left : SUBSET pq, out : Seq(pq)]
             V == SUBSET Full
             G == [n \in 1 .. N |-> [D \in V |-> After(D)]]
             drains == CHOOSE h : IsDrain(h)
  <1>1. N \in Nat
    BY FS_CardinalityType
  <1>2. \E h : IsDrain(h)
    <2>1. ASSUME NEW D \in V PROVE After(D) \in V
      <3> HIDE DEF Full
      <3> SUFFICES ASSUME NEW d \in Full, NEW e \in TakeOut(dist, d) PROVE e \in Full
        OBVIOUS
      <3>1. PICK t \in Tops(dist, d.left) : e = [left |-> d.left \ {t}, out |-> <<t>> \o d.out]
        BY DEF TakeOut
      <3>2. d.left \in SUBSET pq /\ d.out \in Seq(pq)
        BY DEF Full
      <3>3. t \in pq /\ d.left \ {t} \in SUBSET pq
        BY <3>2 DEF Tops
      <3>4. <<t>> \in Seq(pq)
        BY <3>3
      <3>5. <<t>> \o d.out \in Seq(pq)
        BY <3>2, <3>4
      <3> QED BY <3>1, <3>3, <3>5 DEF Full
    <2>2. \A n \in 1 .. N : \A D \in V : G[n][D] = After(D)
      OBVIOUS
    <2>3. G \in [1 .. N -> [V -> V]]
      <3> HIDE DEF N, V, After
      <3> QED BY <2>1
    <2> DEFINE v == {first}
    <2>4. v \in V
      OBVIOUS
    <2> HIDE DEF N, V, G, After, first, v
    <2>5. Iterations(N, V, v, G) # {}
      BY <1>1, <2>3, <2>4, Iterates
    <2>6. PICK f \in [0 .. N -> V] : f[0] = {first} /\ \A n \in 1 .. N : f[n] = G[n][f[n - 1]]
      BY <2>5 DEF v, Iterations
    <2>7. \A n \in 1 .. N : f[n] = After(f[n - 1])
      <3> SUFFICES ASSUME NEW n \in 1 .. N PROVE f[n] = After(f[n - 1])
        OBVIOUS
      <3>1. n - 1 \in 0 .. N
        BY <1>1
      <3> QED BY <2>2, <2>6, <3>1
    <2>8. \A n \in 0 .. N : n # 0 => n \in 1 .. N
      BY <1>1
    <2>9. IsDrain(f)
      BY <1>1, <2>6, <2>7, <2>8
    <2> QED BY <2>9
  <1>3. IsDrain(drains)
    <2> HIDE DEF N, After, first
    <2> QED BY <1>2
  <1>4. PICK last \in drains[N] : found = last.out
    BY DEF Drained
  <1> HIDE DEF N, drains, first
  <1>5. drains[0] = {first} /\ \A n \in 1 .. N : drains[n] = After(drains[n - 1])
    <2> HIDE DEF After
    <2>1. drains = [n \in 0 .. N |-> IF n = 0 THEN {first} ELSE After(drains[n - 1])]
      BY <1>3
    <2>2. 0 \in 0 .. N /\ \A n \in 1 .. N : n \in 0 .. N /\ n # 0
      BY <1>1
    <2> QED BY <2>1, <2>2
  <1> DEFINE Good(n, d) == Draining(dist, pq, d) /\ Cardinality(d.left) = N - n
             T == {n \in 0 .. N : \A d \in drains[n] : Good(n, d)}
  <1>6. 0 \in T
    <2>1. pq \ pq = {} /\ <<>> \in Seq({})
      OBVIOUS
    <2>2. Good(0, first)
      BY <1>1, <2>1 DEF first, N, Draining, ListsInOrder
    <2> HIDE DEF Good
    <2>3. \A d \in drains[0] : Good(0, d)
      BY <1>5, <2>2
    <2> QED BY <1>1, <2>3
  <1>7. ASSUME NEW n \in 1 .. N, n - 1 \in T PROVE n \in T
    <2> SUFFICES ASSUME NEW d \in drains[n - 1], NEW next \in TakeOut(dist, d)
                 PROVE  Good(n, next)
      BY <1>5
    <2>1. Draining(dist, pq, d) /\ Cardinality(d.left) = N - (n - 1)
      BY <1>7
    <2>2. Draining(dist, pq, next)
      BY <2>1, DrainKeepsOrder
    <2>3. PICK t \in d.left : next.left = d.left \ {t}
      <3>1. PICK t \in Tops(dist, d.left) :
                next = [left |-> d.left \ {t}, out |-> <<t>> \o d.out]
        BY DEF TakeOut
      <3> QED BY <3>1 DEF Tops
    <2>4. IsFiniteSet(d.left)
      BY <2>1, FS_Subset DEF Draining
    <2>5. Cardinality(next.left) = Cardinality(d.left) - 1
      BY <2>3, <2>4, FS_RemoveElement
    <2>6. Cardinality(next.left) = N - n
      BY <1>1, <2>1, <2>5
    <2> QED BY <2>2, <2>6
  <1> HIDE DEF T
  <1>8. N \in T
    <2>1. 0 .. N \subseteq T
      BY <1>1, <1>6, <1>7, UpTo
    <2> QED BY <1>1, <2>1
  <1>9. Draining(dist, pq, last) /\ Cardinality(last.left) = 0
    BY <1>1, <1>8 DEF T
  <1>10. last.left = {}
    <2>1. IsFiniteSet(last.left)
      BY <1>9, FS_Subset DEF Draining
    <2> QED BY <1>9, <2>1, FS_EmptySet
  <1>11. pq \ last.left = pq
    BY <1>10
  <1> QED BY <1>4, <1>9, <1>11 DEF Draining

\* A list in order of the nearest of the domain of dist is what a search for
\* the k nearest may answer.
LEMMA ListIsNearest ==
    ASSUME NEW dist, NEW k \in Nat, IsFiniteSet(DOMAIN dist), NEW A \in SUBSET DOMAIN dist,
           Cardinality(A) = IF Cardinality(DOMAIN dist) < k THEN Cardinality(DOMAIN dist) ELSE k,
           \A a \in A, b \in (DOMAIN dist) \ A : dist[a] <= dist[b],
           NEW found, ListsInOrder(dist, A, found)
    PROVE  IsNearest(found, k, dist)
  <1> DEFINE n == Len(found)
  <1>1. /\ found \in Seq(A) /\ n \in Nat /\ DOMAIN found = 1 .. n
        /\ \A v \in A : \E i \in 1 .. n : found[i] = v
        /\ \A i, j \in 1 .. n : i < j => found[i] # found[j] /\ dist[found[i]] <= dist[found[j]]
    BY DEF ListsInOrder
  <1>2. found \in [1 .. n -> A]
    BY <1>1
  <1> HIDE DEF n
  <1>3. IsInjective(found)
    <2>1. ASSUME NEW i \in 1 .. n, NEW j \in 1 .. n, found[i] = found[j] PROVE i = j
      <3>1. ~(i < j) /\ ~(j < i)
        BY <1>1, <2>1
      <3> QED BY <1>1, <3>1
    <2> QED BY <1>1, <2>1 DEF IsInjective
  <1>4. ToSet(found) = A
    BY <1>1, <1>2 DEF ToSet
  <1>5. Cardinality(A) = n
    <2>1. found \in Bijection(1 .. n, A)
      BY <1>1, <1>2, <1>3 DEF Bijection, Injection, Surjection
    <2>2. ExistsBijection(1 .. n, A)
      BY <2>1 DEF ExistsBijection
    <2>3. IsFiniteSet(1 .. n) /\ Cardinality(1 .. n) = n
      BY <1>1, FS_Interval
    <2> QED BY <2>2, <2>3, FS_Bijection
  <1>6. n = Min({k, Cardinality(DOMAIN dist)})
    <2>1. Cardinality(DOMAIN dist) \in Int
      BY FS_CardinalityType
    <2>2. Min({k, Cardinality(DOMAIN dist)})
            = IF k <= Cardinality(DOMAIN dist) THEN k ELSE Cardinality(DOMAIN dist)
      BY <2>1, SmallerGreater
    <2> QED BY <1>5, <2>1, <2>2
  <1>7. \A i, j \in 1 .. Len(found) : i < j => dist[found[i]] <= dist[found[j]]
    BY <1>1 DEF n
  <1>8. IsSorted(found, LAMBDA a, b : dist[a] <= dist[b])
    BY <1>7 DEF IsSorted
  <1> QED BY <1>3, <1>4, <1>6, <1>8 DEF IsNearest, n

\* Brute force finds the k nearest vectors of any store, in order, for any k
\* (flat_index.h:20-47).
LEMMA FlatSearchIsNearest ==
    ASSUME NEW dist \in Seq(Int), NEW k \in Nat, NEW found \in FlatSearch(dist, k)
    PROVE  IsNearest(found, k, dist)
  <1> DEFINE N == Len(dist)
  <1>1. /\ N \in Nat /\ DOMAIN dist = 1 .. N
        /\ IsFiniteSet(1 .. N) /\ Cardinality(1 .. N) = N
    <2>1. N \in Nat /\ DOMAIN dist = 1 .. N
      OBVIOUS
    <2> HIDE DEF N
    <2> QED BY <2>1, FS_Interval
  <1>2. CASE k = 0 \/ dist = <<>>
    <2>1. found = <<>>
      BY <1>2 DEF FlatSearch
    <2>2. ListsInOrder(dist, {}, <<>>)
      BY DEF ListsInOrder
    <2>3. Cardinality({}) = 0
      BY FS_EmptySet
    <2>4. 0 = IF N < k THEN N ELSE k
      BY <1>1, <1>2
    <2>5. \A a \in {}, b \in (DOMAIN dist) \ {} : dist[a] <= dist[b]
      OBVIOUS
    <2> HIDE DEF N
    <2> QED BY <1>1, <2>1, <2>2, <2>3, <2>4, <2>5, ListIsNearest
  <1>3. CASE ~(k = 0 \/ dist = <<>>)
    <2>1. PICK pq \in Scanned(dist, k) : found \in Drained(dist, pq)
      BY <1>3 DEF FlatSearch
    <2>2. HoldsNearest(dist, k, N, pq)
      BY <1>3, ScanIsNearest
    <2> HIDE DEF N
    <2>3. /\ pq \subseteq DOMAIN dist
          /\ Cardinality(pq) = IF N < k THEN N ELSE k
          /\ \A a \in pq, b \in (DOMAIN dist) \ pq : dist[a] <= dist[b]
      BY <1>1, <2>2 DEF HoldsNearest
    <2>4. IsFiniteSet(pq)
      BY <1>1, <2>3, FS_Subset
    <2>5. ListsInOrder(dist, pq, found)
      BY <2>1, <2>4, DrainListsInOrder
    <2> QED BY <1>1, <2>3, <2>5, ListIsNearest
  <1> QED BY <1>2, <1>3

-----------------------------------------------------------------------------
(* SQ8.                                                                    *)

LEMMA ClampIs ==
    ASSUME NEW x \in Int, NEW scale \in Nat
    PROVE  Clamp(x, scale) = IF x < 0 THEN 0 ELSE IF x > scale THEN scale ELSE x
  <1>1. Min({scale, x}) = IF scale <= x THEN scale ELSE x
    BY SmallerGreater
  <1> DEFINE m == Min({scale, x})
  <1>2. m \in Int
    BY <1>1
  <1>3. Clamp(x, scale) = Max({0, m})
    BY DEF Clamp
  <1>4. m = IF scale <= x THEN scale ELSE x
    BY <1>1
  <1> HIDE DEF m
  <1>5. Max({0, m}) = IF 0 >= m THEN 0 ELSE m
    BY <1>2, SmallerGreater
  <1> QED BY <1>3, <1>4, <1>5

\* Rounding is to the nearest: the result is off by half of y at most.
LEMMA RoundIsNearest ==
    ASSUME NEW x \in Nat, NEW y \in Nat \ {0}
    PROVE  /\ Round(x, y) \in Nat
           /\ 2 * (Round(x, y) * y) <= 2 * x + y
           /\ 2 * x < 2 * (Round(x, y) * y) + y
  <1> DEFINE n == 2 * x + y
             q == n \div (2 * y)
  <1>1. \A a \in Nat, b \in Nat \ {0} :
           a \div b \in Nat /\ (a \div b) * b <= a /\ a < (a \div b) * b + b
    OBVIOUS
  <1>2. n \in Nat /\ 2 * y \in Nat \ {0}
    OBVIOUS
  <1>3. q \in Nat /\ q * (2 * y) <= n /\ n < q * (2 * y) + 2 * y
    BY <1>1, <1>2
  <1>4. q = Round(x, y)
    BY DEF Round
  <1> HIDE DEF q
  <1>5. q * (2 * y) = 2 * (q * y) /\ q * y \in Nat
    BY <1>3
  <1> QED BY <1>3, <1>4, <1>5

\* How far the decoded code is from component x of dimension d, times Steps.
Apart(a, b) == IF a < b THEN b - a ELSE a - b

CodeError(code, x, d, params) == Apart(Decode(code, d, params), x * Steps)

\* Parameters of a dimension as sq8_compute_params() leaves them.
Trained(d, params) == params.min[d] \in Int /\ params.scale[d] \in Nat \ {0}

\* What Encode() computes: the code of the clamped component needs no more than
\* a byte, so the conversion to one does not wrap.
LEMMA EncodeIs ==
    ASSUME NEW params, NEW d, Trained(d, params), NEW x \in Int, NEW y \in Nat,
           y = Clamp(x - params.min[d], params.scale[d])
    PROVE  LET code == Encode(x, d, params)
               scale == params.scale[d]
           IN  /\ code \in 0 .. Steps
               /\ y <= scale
               /\ 2 * (code * scale) <= 2 * (y * Steps) + scale
               /\ 2 * (y * Steps) < 2 * (code * scale) + scale
  <1> DEFINE c == params.scale[d]
             t == x - params.min[d]
             q == Round(y * Steps, c)
  <1>1. c \in Nat \ {0} /\ t \in Int /\ Steps \in Nat \ {0}
    BY Sq8Assumption DEF Trained
  <1>2. Encode(x, d, params) = q % (Steps + 1)
    BY DEF Encode
  <1>3. y = IF t < 0 THEN 0 ELSE IF t > c THEN c ELSE t
    <2>1. y = Clamp(t, c)
      OBVIOUS
    <2> HIDE DEF t, c
    <2> QED BY <1>1, <2>1, ClampIs
  <1> HIDE DEF t, c
  <1>4. y <= c /\ y * Steps \in Nat /\ c * Steps \in Nat
    BY <1>1, <1>3
  <1>5. q \in Nat /\ 2 * (q * c) <= 2 * (y * Steps) + c /\ 2 * (y * Steps) < 2 * (q * c) + c
    BY <1>1, <1>4, RoundIsNearest
  <1> HIDE DEF q
  <1>6. y * Steps <= c * Steps
    <2>1. \A a, b, e \in Nat : a <= b => a * e <= b * e
      OBVIOUS
    <2> QED BY <1>1, <1>4, <2>1
  <1>7. q <= Steps
    <2> SUFFICES ASSUME q >= Steps + 1 PROVE FALSE
      BY <1>1, <1>5
    <2>1. \A a, b, e \in Nat : a <= b => a * e <= b * e
      OBVIOUS
    <2>2. (Steps + 1) * c <= q * c
      BY <1>1, <1>5, <2>1
    <2>3. (Steps + 1) * c = c * Steps + c
      BY <1>1
    <2>4. q * c \in Nat
      BY <1>1, <1>5
    <2> QED BY <1>1, <1>4, <1>5, <1>6, <2>2, <2>3, <2>4
  <1>8. q % (Steps + 1) = q
    BY <1>1, <1>5, <1>7
  <1>9. Encode(x, d, params) = q
    BY <1>2, <1>8
  <1>10. q \in 0 .. Steps
    BY <1>1, <1>5, <1>7
  <1> QED BY <1>4, <1>5, <1>9, <1>10 DEF c

\* The error of a code depends on where the component is above the minimum.
LEMMA CodeErrorIs ==
    ASSUME NEW params, NEW d, Trained(d, params), NEW x \in Int, NEW code \in Nat,
           NEW t \in Int, t = x - params.min[d]
    PROVE  CodeError(code, x, d, params) = Apart(code * params.scale[d], t * Steps)
  <1> DEFINE c == params.scale[d]
             lo == params.min[d]
  <1>1. c \in Nat /\ lo \in Int /\ Steps \in Nat
    BY Sq8Assumption DEF Trained
  <1>2. CodeError(code, x, d, params) = Apart(code * c + lo * Steps, x * Steps)
    BY DEF CodeError, Decode
  <1>3. t = x - lo
    OBVIOUS
  <1> HIDE DEF c, lo
  <1>4. x * Steps = t * Steps + lo * Steps
    <2>1. x = t + lo
      BY <1>1, <1>3
    <2>2. \A a, b, e \in Int : (a + b) * e = a * e + b * e
      OBVIOUS
    <2> QED BY <1>1, <2>1, <2>2
  <1>5. code * c \in Int /\ lo * Steps \in Int /\ t * Steps \in Int /\ x * Steps \in Int
    BY <1>1
  <1>6. \A a, b, e \in Int : Apart(a + e, b + e) = Apart(a, b)
    BY DEF Apart
  <1>7. Apart(code * c + lo * Steps, x * Steps) = Apart(code * c, t * Steps)
    <2> DEFINE a == code * c
               b == t * Steps
               e == lo * Steps
    <2>1. Apart(a + e, b + e) = Apart(a, b)
      <3>1. a \in Int /\ b \in Int /\ e \in Int
        BY <1>5
      <3> HIDE DEF a, b, e
      <3> QED BY <1>6, <3>1
    <2>2. x * Steps = b + e
      BY <1>4
    <2> QED BY <2>1, <2>2
  <1> QED BY <1>2, <1>7 DEF c

\* A component within the range of the training set comes back with an error of
\* half a step at most, and one that is less than half a step above the least
\* gets its code (sq8.cpp:14-61).
THEOREM TrainedWithinHalfStep ==
    ASSUME NEW params, NEW d, Trained(d, params),
           NEW x \in params.min[d] .. params.min[d] + params.scale[d]
    PROVE  /\ 2 * CodeError(Encode(x, d, params), x, d, params) <= params.scale[d]
           /\ 2 * ((x - params.min[d]) * Steps) < params.scale[d] => Encode(x, d, params) = 0
  <1> DEFINE c == params.scale[d]
             t == x - params.min[d]
             code == Encode(x, d, params)
  <1>1. c \in Nat \ {0} /\ x \in Int /\ params.min[d] \in Int /\ Steps \in Nat \ {0}
    BY Sq8Assumption DEF Trained
  <1>2. t \in Nat /\ t <= c
    BY <1>1
  <1>3. t = Clamp(x - params.min[d], c)
    <2>1. Clamp(t, c) = t
      <3> HIDE DEF t, c
      <3> QED BY <1>1, <1>2, ClampIs
    <2> QED BY <2>1
  <1>4. /\ code \in 0 .. Steps
        /\ 2 * (code * c) <= 2 * (t * Steps) + c
        /\ 2 * (t * Steps) < 2 * (code * c) + c
    <2> HIDE DEF t
    <2> QED BY <1>1, <1>2, <1>3, EncodeIs
  <1>5. code \in Nat
    BY <1>1, <1>4
  <1>6. CodeError(code, x, d, params) = Apart(code * c, t * Steps)
    <2>1. t = x - params.min[d] /\ t \in Int
      BY <1>2
    <2> HIDE DEF t, code
    <2> QED BY <1>1, <1>5, <2>1, CodeErrorIs
  <1> HIDE DEF c, t, code
  <1>7. code * c \in Nat /\ t * Steps \in Nat
    BY <1>1, <1>2, <1>5
  <1>8. 2 * CodeError(code, x, d, params) <= c
    BY <1>1, <1>4, <1>6, <1>7 DEF Apart
  <1>9. 2 * (t * Steps) < c => code = 0
    <2> SUFFICES ASSUME 2 * (t * Steps) < c, code >= 1 PROVE FALSE
      BY <1>5
    <2>1. \A a, b, e \in Nat : a <= b => a * e <= b * e
      OBVIOUS
    <2>2. 1 * c <= code * c
      BY <1>1, <1>5, <2>1
    <2> QED BY <1>1, <1>4, <1>7, <2>2
  <1> QED BY <1>8, <1>9 DEF c, t, code

\* Whatever component is encoded, one far outside the range of the training set
\* included, it gets a code that fits into a byte and that no other code beats
\* (sq8.cpp:49-61).
THEOREM CodeIsNearest ==
    ASSUME NEW params, NEW d, Trained(d, params), NEW x \in Int, NEW other \in 0 .. Steps
    PROVE  /\ Encode(x, d, params) \in 0 .. Steps
           /\ CodeError(Encode(x, d, params), x, d, params) <= CodeError(other, x, d, params)
  <1> DEFINE c == params.scale[d]
             t == x - params.min[d]
             y == Clamp(t, c)
             code == Encode(x, d, params)
  <1>1. c \in Nat \ {0} /\ t \in Int /\ Steps \in Nat \ {0}
    BY Sq8Assumption DEF Trained
  <1>2. y = IF t < 0 THEN 0 ELSE IF t > c THEN c ELSE t
    <2> HIDE DEF t, c
    <2> QED BY <1>1, ClampIs
  <1>3. y \in Nat
    <2> HIDE DEF y, t, c
    <2> QED BY <1>1, <1>2
  <1>4. /\ code \in 0 .. Steps
        /\ 2 * (code * c) <= 2 * (y * Steps) + c
        /\ 2 * (y * Steps) < 2 * (code * c) + c
    <2>1. y = Clamp(x - params.min[d], params.scale[d])
      OBVIOUS
    <2> HIDE DEF y
    <2> QED BY <1>3, <2>1, EncodeIs
  <1>5. code \in Nat /\ other \in Nat /\ code <= Steps /\ other <= Steps
    BY <1>1, <1>4
  <1>6. /\ CodeError(code, x, d, params) = Apart(code * c, t * Steps)
        /\ CodeError(other, x, d, params) = Apart(other * c, t * Steps)
    <2>1. t = x - params.min[d]
      OBVIOUS
    <2> HIDE DEF t, code
    <2> QED BY <1>1, <1>5, <2>1, CodeErrorIs
  <1> HIDE DEF c, t, y, code
  <1>7. /\ code * c \in Nat /\ other * c \in Nat /\ t * Steps \in Int
        /\ y * Steps \in Nat /\ c * Steps \in Nat
    BY <1>1, <1>3, <1>5
  <1>8. \A a, b, e \in Int : e >= 0 /\ a <= b => a * e <= b * e
    OBVIOUS
  <1>9. Apart(code * c, t * Steps) <= Apart(other * c, t * Steps)
    <2>1. CASE t < 0
      <3>1. y * Steps = 0 /\ t * Steps <= 0
        <4>1. t * Steps <= 0 * Steps
          BY <1>1, <1>8, <2>1
        <4> QED BY <1>1, <1>2, <2>1, <4>1
      <3>2. code * c = 0
        <4>1. code >= 1 => 1 * c <= code * c
          BY <1>1, <1>5, <1>8
        <4>2. ~(code >= 1)
          BY <1>1, <1>4, <1>7, <3>1, <4>1
        <4>3. code = 0
          BY <1>5, <4>2
        <4> QED BY <1>1, <4>3
      <3> QED BY <1>7, <3>1, <3>2 DEF Apart
    <2>2. CASE t > c
      <3>1. y = c /\ c * Steps <= t * Steps
        <4>1. y = c
          BY <1>1, <1>2, <2>2
        <4> QED BY <1>1, <1>8, <2>2, <4>1
      <3>2. other * c <= c * Steps
        <4>1. other * c <= Steps * c
          BY <1>1, <1>5, <1>8
        <4> QED BY <1>1, <4>1
      <3>3. code * c = c * Steps
        <4>1. code + 1 <= Steps => (code + 1) * c <= Steps * c
          BY <1>1, <1>5, <1>8
        <4>2. (code + 1) * c = code * c + c /\ Steps * c = c * Steps
          BY <1>1, <1>5
        <4>3. ~(code + 1 <= Steps)
          BY <1>1, <1>4, <1>7, <3>1, <4>1, <4>2
        <4>4. code = Steps
          BY <1>1, <1>5, <4>3
        <4> QED BY <4>2, <4>4
      <3> QED BY <1>7, <3>1, <3>2, <3>3 DEF Apart
    <2>3. CASE ~(t < 0) /\ ~(t > c)
      <3>1. y = t
        BY <1>2, <2>3
      <3>2. CASE other = code
        BY <1>7, <3>2 DEF Apart
      <3>3. CASE other < code
        <4>1. (other + 1) * c <= code * c
          BY <1>1, <1>5, <1>8, <3>3
        <4>2. (other + 1) * c = other * c + c
          BY <1>1, <1>5
        <4> QED BY <1>1, <1>4, <1>7, <3>1, <4>1, <4>2 DEF Apart
      <3>4. CASE other > code
        <4>1. (code + 1) * c <= other * c
          BY <1>1, <1>5, <1>8, <3>4
        <4>2. (code + 1) * c = code * c + c
          BY <1>1, <1>5
        <4> QED BY <1>1, <1>4, <1>7, <3>1, <4>1, <4>2 DEF Apart
      <3> QED BY <1>5, <3>2, <3>3, <3>4
    <2> QED BY <2>1, <2>2, <2>3
  <1> QED BY <1>4, <1>6, <1>9 DEF code

-----------------------------------------------------------------------------
(* SegmentManager::search().                                               *)

\* The hits of A are the k nearest of S, or all when there are no more than k.
NearestHits(db, k, S, A) ==
    /\ A \subseteq S
    /\ Cardinality(A) = IF Cardinality(S) < k THEN Cardinality(S) ELSE k
    /\ \A a \in A, b \in S \ A : HitDistance(db, a) <= HitDistance(db, b)

\* The hits of a list, each once and in order of distance.
HitsInOrder(db, hits) ==
    /\ hits \in Seq(ToSet(hits))
    /\ \A i, j \in DOMAIN hits : i < j =>
          hits[i] # hits[j] /\ HitDistance(db, hits[i]) <= HitDistance(db, hits[j])

\* Sorting some hits and cutting the result to k leaves the k nearest.
LEMMA FirstHitsAreNearest ==
    ASSUME NEW db, NEW k \in Nat, NEW S, IsFiniteSet(S), NEW hits \in SortedHits(db, S)
    PROVE  /\ NearestHits(db, k, S, ToSet(FirstHits(hits, k)))
           /\ HitsInOrder(db, FirstHits(hits, k))
  <1> DEFINE N == Cardinality(S)
             m == IF N > k THEN k ELSE N
             T == {hits[i] : i \in 1 .. m}
  <1>1. N \in Nat
    BY FS_CardinalityType
  <1>2. /\ hits \in [1 .. N -> S]
        /\ \A i, j \in 1 .. N : i # j => hits[i] # hits[j]
        /\ \A i, j \in 1 .. Len(hits) : i < j => HitDistance(db, hits[i]) <= HitDistance(db, hits[j])
    BY DEF SortedHits, SetToSeqs, IsSorted
  <1> HIDE DEF N
  <1>3. Len(hits) = N /\ hits \in Seq(S)
    BY <1>1, <1>2
  <1>4. m \in Nat /\ m <= N /\ 1 .. m \subseteq 1 .. N
    BY <1>1
  <1>5. FirstHits(hits, k) = SubSeq(hits, 1, m)
    BY <1>3 DEF FirstHits
  <1>6. m = IF N < k THEN N ELSE k
    BY <1>1
  <1> HIDE DEF m
  <1>7. /\ DOMAIN SubSeq(hits, 1, m) = 1 .. m
        /\ \A i \in 1 .. m : SubSeq(hits, 1, m)[i] = hits[i]
    BY <1>3, <1>4
  <1>8. ToSet(FirstHits(hits, k)) = T
    BY <1>5, <1>7 DEF ToSet
  <1>9. Cardinality(T) = m
    <2> DEFINE f == [i \in 1 .. m |-> hits[i]]
    <2>1. f \in Bijection(1 .. m, T)
      BY <1>2, <1>4 DEF Bijection, Injection, Surjection, IsInjective
    <2>2. ExistsBijection(1 .. m, T)
      BY <2>1 DEF ExistsBijection
    <2>3. IsFiniteSet(1 .. m) /\ Cardinality(1 .. m) = m
      BY <1>4, FS_Interval
    <2> HIDE DEF T
    <2> QED BY <2>2, <2>3, FS_Bijection
  <1>10. \A b \in S : \E j \in 1 .. N : hits[j] = b
    <2>1. hits \in Injection(1 .. N, S)
      BY <1>2 DEF Injection, IsInjective
    <2>2. Cardinality(1 .. N) = N
      BY <1>1, FS_Interval
    <2>3. hits \in Surjection(1 .. N, S)
      BY <2>1, <2>2, FS_Injection DEF N
    <2> QED BY <2>3 DEF Surjection
  <1>11. T \subseteq S
    BY <1>2, <1>4
  <1>12. ASSUME NEW a \in T, NEW b \in S \ T
         PROVE  HitDistance(db, a) <= HitDistance(db, b)
    <2>1. PICK i \in 1 .. m : hits[i] = a
      OBVIOUS
    <2>2. PICK j \in 1 .. N : hits[j] = b
      BY <1>10
    <2>3. j \notin 1 .. m
      BY <2>2
    <2>4. i < j /\ i \in 1 .. N
      BY <1>1, <1>4, <2>3
    <2> QED BY <1>2, <1>3, <2>1, <2>2, <2>4
  <1>13. HitsInOrder(db, FirstHits(hits, k))
    <2>1. \A i, j \in 1 .. m : i < j =>
             hits[i] # hits[j] /\ HitDistance(db, hits[i]) <= HitDistance(db, hits[j])
      BY <1>2, <1>3, <1>4
    <2>2. SubSeq(hits, 1, m) \in Seq(T)
      <3>1. SubSeq(hits, 1, m) = [i \in 1 .. m |-> hits[i]]
        BY <1>3, <1>4
      <3> QED BY <1>4, <3>1
    <2> HIDE DEF T
    <2> QED BY <1>5, <1>7, <1>8, <2>1, <2>2 DEF HitsInOrder
  <1> HIDE DEF T
  <1>14. NearestHits(db, k, S, T)
    BY <1>6, <1>9, <1>11, <1>12 DEF NearestHits, N
  <1> QED BY <1>8, <1>13, <1>14

\* The hits of segment s, and of all segments, that their searches find.
FoundIn(db, s) == {<<s, o>> : o \in db[s].found}
AllFound(db) == UNION {FoundIn(db, s) : s \in DOMAIN db}

\* Asking each segment for k is enough: the k nearest of what the segments
\* answered are the k nearest of what they all find.
LEMMA NearestOfAnswers ==
    ASSUME NEW db, NEW k \in Nat, NEW I, NEW R, NEW Q, NEW All, NEW Got,
           \A s \in I : R[s] \subseteq All /\ Q[s] \subseteq Got,
           \A b \in All : \E s \in I : b \in R[s],
           \A b \in Got : \E s \in I : b \in Q[s],
           IsFiniteSet(All), \A hit \in All : HitDistance(db, hit) \in Int,
           \A s \in I : NearestHits(db, k, R[s], Q[s]),
           NEW A, NearestHits(db, k, Got, A)
    PROVE  NearestHits(db, k, All, A)
  <1>1. \A s \in I : Q[s] \subseteq R[s]
    BY DEF NearestHits
  <1>2. Got \subseteq All /\ A \subseteq Got
    BY <1>1 DEF NearestHits
  <1>3. /\ IsFiniteSet(Got) /\ IsFiniteSet(A)
        /\ Cardinality(All) \in Nat /\ Cardinality(Got) \in Nat
        /\ Cardinality(Got) <= Cardinality(All)
    BY <1>2, FS_Subset, FS_CardinalityType
  <1>4. \A s \in I : /\ IsFiniteSet(Q[s]) /\ IsFiniteSet(R[s])
                     /\ Cardinality(Q[s]) \in Nat /\ Cardinality(R[s]) \in Nat
    <2> SUFFICES ASSUME NEW s \in I
                 PROVE  /\ IsFiniteSet(Q[s]) /\ IsFiniteSet(R[s])
                        /\ Cardinality(Q[s]) \in Nat /\ Cardinality(R[s]) \in Nat
      OBVIOUS
    <2>1. Q[s] \subseteq All /\ R[s] \subseteq All
      BY <1>1
    <2> QED BY <2>1, FS_Subset, FS_CardinalityType
  <1>5. /\ Cardinality(A) = IF Cardinality(Got) < k THEN Cardinality(Got) ELSE k
        /\ \A a \in A, b \in Got \ A : HitDistance(db, a) <= HitDistance(db, b)
    BY DEF NearestHits
  \* A segment that left something out answered with k hits, none farther.
  <1>6. ASSUME NEW s \in I, NEW b \in R[s] \ Q[s]
        PROVE  /\ Cardinality(Q[s]) = k
               /\ \A c \in Q[s] : HitDistance(db, c) <= HitDistance(db, b)
    <2>1. /\ Cardinality(Q[s]) = IF Cardinality(R[s]) < k THEN Cardinality(R[s]) ELSE k
          /\ \A c \in Q[s] : HitDistance(db, c) <= HitDistance(db, b)
      BY <1>6 DEF NearestHits
    <2>2. Cardinality(Q[s]) # Cardinality(R[s])
      BY <1>1, <1>4, <1>6, FS_Subset
    <2> QED BY <2>1, <2>2
  <1>7. ASSUME NEW a \in A, NEW b \in All \ A
        PROVE  HitDistance(db, a) <= HitDistance(db, b)
    <2>1. CASE b \in Got
      BY <1>5, <2>1
    <2>2. CASE b \notin Got
      <3>1. PICK s \in I : b \in R[s]
        OBVIOUS
      <3>2. b \in R[s] \ Q[s]
        BY <1>1, <2>2, <3>1
      <3>3. /\ Cardinality(Q[s]) = k
            /\ \A c \in Q[s] : HitDistance(db, c) <= HitDistance(db, b)
        BY <1>6, <3>2
      <3> SUFFICES ASSUME HitDistance(db, b) < HitDistance(db, a) PROVE FALSE
        BY <1>2
      <3>4. Q[s] \subseteq A
        <4> SUFFICES ASSUME NEW c \in Q[s], c \notin A PROVE FALSE
          OBVIOUS
        <4>1. HitDistance(db, a) <= HitDistance(db, c)
          BY <1>1, <1>5
        <4>2. HitDistance(db, c) <= HitDistance(db, b)
          BY <3>3
        <4>3. /\ HitDistance(db, a) \in Int /\ HitDistance(db, b) \in Int
              /\ HitDistance(db, c) \in Int
          BY <1>1, <1>2
        <4> QED BY <4>1, <4>2, <4>3
      <3>5. Cardinality(A) = k
        <4>1. Cardinality(Q[s]) <= Cardinality(A) /\ Cardinality(A) \in Nat
          BY <1>3, <3>4, FS_Subset, FS_CardinalityType
        <4> QED BY <1>3, <1>5, <3>3, <4>1
      <3>6. Q[s] = A
        BY <1>3, <3>3, <3>4, <3>5, FS_Subset
      <3>7. HitDistance(db, a) <= HitDistance(db, b)
        BY <3>3, <3>6
      <3> QED BY <1>2, <3>7
    <2> QED BY <2>1, <2>2
  <1>8. Cardinality(A) = IF Cardinality(All) < k THEN Cardinality(All) ELSE k
    <2>1. CASE \A s \in I : R[s] \subseteq Q[s]
      <3>1. All = Got
        BY <1>1, <1>2, <2>1
      <3> QED BY <1>5, <3>1
    <2>2. CASE \E s \in I : ~(R[s] \subseteq Q[s])
      <3>1. PICK s \in I : \E b \in R[s] : b \notin Q[s]
        BY <2>2
      <3>2. Cardinality(Q[s]) = k
        BY <1>6, <3>1
      <3>3. Cardinality(Q[s]) <= Cardinality(Got)
        BY <1>1, <1>3, FS_Subset
      <3> QED BY <1>3, <1>5, <3>2, <3>3
    <2> QED BY <2>1, <2>2
  <1> QED BY <1>2, <1>7, <1>8 DEF NearestHits

LEMMA FoundFacts ==
    ASSUME NEW db \in Databases
    PROVE  /\ IsFiniteSet(AllFound(db))
           /\ \A s \in DOMAIN db : IsFiniteSet(FoundIn(db, s))
           /\ \A hit \in AllFound(db) : HitDistance(db, hit) \in Int
  <1>1. /\ Len(db) \in Nat /\ DOMAIN db = 1 .. Len(db)
        /\ \A s \in DOMAIN db : /\ db[s].dist \in Seq(Int)
                                /\ db[s].found \subseteq DOMAIN db[s].dist
    BY DEF Databases
  <1>2. ASSUME NEW s \in DOMAIN db
        PROVE  IsFiniteSet(FoundIn(db, s))
    <2>1. Len(db[s].dist) \in Nat /\ DOMAIN db[s].dist = 1 .. Len(db[s].dist)
      BY <1>1
    <2>2. IsFiniteSet(1 .. Len(db[s].dist))
      BY <2>1, FS_Interval
    <2>3. IsFiniteSet(db[s].found)
      BY <1>1, <2>1, <2>2, FS_Subset
    <2> DEFINE f == [o \in db[s].found |-> <<s, o>>]
    <2>4. f \in Surjection(db[s].found, FoundIn(db, s))
      BY DEF Surjection, FoundIn
    <2> HIDE DEF f
    <2> QED BY <2>3, <2>4, FS_Surjection
  <1>3. IsFiniteSet(AllFound(db))
    <2> DEFINE Rs == {FoundIn(db, s) : s \in DOMAIN db}
               f == [s \in DOMAIN db |-> FoundIn(db, s)]
    <2>1. IsFiniteSet(DOMAIN db)
      BY <1>1, FS_Interval
    <2>2. f \in Surjection(DOMAIN db, Rs)
      BY DEF Surjection
    <2>3. \A T \in Rs : IsFiniteSet(T)
      BY <1>2
    <2>4. AllFound(db) = UNION Rs
      BY DEF AllFound
    <2> HIDE DEF f, Rs
    <2>5. IsFiniteSet(Rs)
      BY <2>1, <2>2, FS_Surjection
    <2> QED BY <2>3, <2>4, <2>5, FS_UNION
  <1>4. \A hit \in AllFound(db) : HitDistance(db, hit) \in Int
    <2> SUFFICES ASSUME NEW s \in DOMAIN db, NEW o \in db[s].found
                 PROVE  HitDistance(db, <<s, o>>) \in Int
      BY DEF AllFound, FoundIn
    <2>1. o \in DOMAIN db[s].dist /\ db[s].dist \in Seq(Int)
      BY <1>1
    <2>2. db[s].dist[o] \in Int
      BY <2>1
    <2> QED BY <2>2 DEF HitDistance
  <1> QED BY <1>2, <1>3, <1>4

\* What segment s answers are the k nearest that its search finds; the active
\* segment that is skipped has none.
LEMMA AskedIsNearest ==
    ASSUME NEW db \in Databases, NEW k \in Nat, NEW s \in DOMAIN db, NEW hits \in Ask(db, k, s)
    PROVE  NearestHits(db, k, FoundIn(db, s), ToSet(hits))
  <1>1. CASE db[s].dist = <<>>
    <2>1. hits = <<>>
      BY <1>1 DEF Ask
    <2>2. ToSet(hits) = {}
      BY <2>1 DEF ToSet
    <2>3. FoundIn(db, s) = {}
      <3>1. db[s].found \subseteq DOMAIN db[s].dist
        BY DEF Databases
      <3>2. DOMAIN db[s].dist = {}
        BY <1>1
      <3> QED BY <3>1, <3>2 DEF FoundIn
    <2>4. Cardinality({}) = 0
      BY FS_EmptySet
    <2> QED BY <2>2, <2>3, <2>4 DEF NearestHits
  <1>2. CASE db[s].dist # <<>>
    <2>1. hits \in SegmentAnswers(db, k, s)
      BY <1>2 DEF Ask
    <2>2. PICK sorted \in SortedHits(db, FoundIn(db, s)) : hits = FirstHits(sorted, k)
      BY <2>1 DEF SegmentAnswers, FoundIn
    <2>3. IsFiniteSet(FoundIn(db, s))
      BY FoundFacts
    <2> QED BY <2>2, <2>3, FirstHitsAreNearest
  <1> QED BY <1>1, <1>2

\* Asking each segment for k, concatenating, sorting by distance and keeping k
\* gives the k nearest of all that the segments find, in order: wherever the
\* vectors are, however distances tie, and however many segments there are
\* (segment_manager.cpp:83-105).
THEOREM MergeIsEnough ==
    ASSUME NEW db \in Databases, NEW k \in Nat,
           NEW answers, \A s \in DOMAIN db : answers[s] \in Ask(db, k, s),
           NEW all, ToSet(all) = UNION {ToSet(answers[s]) : s \in DOMAIN db},
           NEW result \in Merge(db, k, all)
    PROVE  NearestHits(db, k, AllFound(db), ToSet(result)) /\ HitsInOrder(db, result)
  <1> DEFINE I == DOMAIN db
             R == [s \in I |-> FoundIn(db, s)]
             Q == [s \in I |-> ToSet(answers[s])]
  <1>1. \A s \in I : NearestHits(db, k, R[s], Q[s])
    BY AskedIsNearest
  <1>2. /\ UNION {R[s] : s \in I} = AllFound(db)
        /\ UNION {Q[s] : s \in I} = ToSet(all)
    BY DEF AllFound
  <1>3. PICK hits \in SortedHits(db, ToSet(all)) : result = FirstHits(hits, k)
    BY DEF Merge
  <1>4. IsFiniteSet(ToSet(all))
    <2>1. \A s \in I : Q[s] \subseteq R[s]
      BY <1>1 DEF NearestHits
    <2> HIDE DEF R, Q, I
    <2>2. ToSet(all) \subseteq AllFound(db)
      BY <1>2, <2>1
    <2> QED BY <2>2, FoundFacts, FS_Subset
  <1>5. NearestHits(db, k, UNION {Q[s] : s \in I}, ToSet(result)) /\ HitsInOrder(db, result)
    BY <1>2, <1>3, <1>4, FirstHitsAreNearest
  <1>6. /\ \A s \in I : R[s] \subseteq AllFound(db) /\ Q[s] \subseteq ToSet(all)
        /\ \A b \in AllFound(db) : \E s \in I : b \in R[s]
        /\ \A b \in ToSet(all) : \E s \in I : b \in Q[s]
    <2> HIDE DEF R, Q, I
    <2> QED BY <1>2
  <1>7. NearestHits(db, k, ToSet(all), ToSet(result))
    BY <1>2, <1>5
  <1> HIDE DEF R, Q, I
  <1>8. NearestHits(db, k, AllFound(db), ToSet(result))
    BY <1>1, <1>6, <1>7, FoundFacts, NearestOfAnswers
  <1> QED BY <1>5, <1>8

\* The hits of a segment are hits that it finds.
LEMMA AskedHits ==
    ASSUME NEW db \in Databases, NEW k \in Nat, NEW s \in DOMAIN db, NEW hits \in Ask(db, k, s)
    PROVE  hits \in Seq(AllFound(db))
  <1>1. CASE db[s].dist = <<>>
    BY <1>1 DEF Ask
  <1>2. CASE db[s].dist # <<>>
    <2>1. PICK sorted \in SortedHits(db, FoundIn(db, s)) : hits = FirstHits(sorted, k)
      BY <1>2 DEF Ask, SegmentAnswers, FoundIn
    <2>2. IsFiniteSet(FoundIn(db, s))
      BY FoundFacts
    <2>3. hits \in Seq(ToSet(hits)) /\ ToSet(hits) \subseteq FoundIn(db, s)
      BY <2>1, <2>2, FirstHitsAreNearest DEF HitsInOrder, NearestHits
    <2>4. ToSet(hits) \subseteq AllFound(db)
      BY <2>3 DEF AllFound
    <2> QED BY <2>3, <2>4
  <1> QED BY <1>1, <1>2

LEMMA ToSetOfBoth ==
    ASSUME NEW X, NEW s \in Seq(X), NEW t \in Seq(X)
    PROVE  s \o t \in Seq(X) /\ ToSet(s \o t) = ToSet(s) \cup ToSet(t)
  <1> DEFINE m == Len(s)
             n == Len(t)
             u == s \o t
  <1>1. /\ m \in Nat /\ n \in Nat
        /\ DOMAIN s = 1 .. m /\ DOMAIN t = 1 .. n
        /\ u \in Seq(X) /\ DOMAIN u = 1 .. m + n
        /\ \A i \in 1 .. m : i \in 1 .. m + n /\ u[i] = s[i]
        /\ \A i \in 1 .. n : m + i \in 1 .. m + n /\ u[m + i] = t[i]
    OBVIOUS
  <1>2. \A i \in 1 .. m + n : i \in 1 .. m \/ (i - m \in 1 .. n /\ i = m + (i - m))
    BY <1>1
  <1> HIDE DEF m, n, u
  <1>3. ToSet(u) \subseteq ToSet(s) \cup ToSet(t)
    <2> SUFFICES ASSUME NEW i \in 1 .. m + n PROVE u[i] \in ToSet(s) \cup ToSet(t)
      BY <1>1 DEF ToSet
    <2>1. CASE i \in 1 .. m
      BY <1>1, <2>1 DEF ToSet
    <2>2. CASE i \notin 1 .. m
      <3>1. i - m \in 1 .. n /\ u[i] = t[i - m]
        BY <1>1, <1>2, <2>2
      <3> QED BY <1>1, <3>1 DEF ToSet
    <2> QED BY <2>1, <2>2
  <1>4. ToSet(s) \cup ToSet(t) \subseteq ToSet(u)
    <2>1. \A i \in 1 .. m : s[i] \in ToSet(u)
      BY <1>1 DEF ToSet
    <2>2. \A i \in 1 .. n : t[i] \in ToSet(u)
      BY <1>1 DEF ToSet
    <2> QED BY <1>1, <2>1, <2>2 DEF ToSet
  <1> QED BY <1>1, <1>3, <1>4 DEF u

\* What all holds when every segment has answered.
LEMMA AnswersOfSegments ==
    ASSUME NEW db \in Databases, NEW k \in Nat, NEW all \in AllAnswers(db, k)
    PROVE  \E answers : /\ \A s \in DOMAIN db : answers[s] \in Ask(db, k, s)
                        /\ ToSet(all) = UNION {ToSet(answers[s]) : s \in DOMAIN db}
  <1> DEFINE N == Len(db)
             Hits == AllFound(db)
             Extended(n, A) == {before \o hits : before \in A, hits \in Ask(db, k, n)}
             IsRound(h) == h = [n \in 0 .. N |-> IF n = 0 THEN {<<>>} ELSE Extended(n, h[n - 1])]
             V == SUBSET Seq(Hits)
             G == [n \in 1 .. N |-> [A \in V |-> Extended(n, A)]]
             rounds == CHOOSE h : IsRound(h)
  <1>1. N \in Nat /\ DOMAIN db = 1 .. N
    BY DEF Databases
  <1>2. \A n \in 1 .. N : \A hits \in Ask(db, k, n) : hits \in Seq(Hits)
    BY <1>1, AskedHits
  <1>3. \E h : IsRound(h)
    <2>1. ASSUME NEW n \in 1 .. N, NEW A \in V PROVE Extended(n, A) \in V
      <3> HIDE DEF Hits
      <3> SUFFICES ASSUME NEW e \in Extended(n, A) PROVE e \in Seq(Hits)
        OBVIOUS
      <3>1. PICK before \in A, hits \in Ask(db, k, n) : e = before \o hits
        OBVIOUS
      <3>2. before \in Seq(Hits) /\ hits \in Seq(Hits)
        BY <1>2
      <3> QED BY <3>1, <3>2
    <2>2. \A n \in 1 .. N : \A A \in V : G[n][A] = Extended(n, A)
      OBVIOUS
    <2>3. G \in [1 .. N -> [V -> V]]
      <3> HIDE DEF N, V, Extended
      <3> QED BY <2>1
    <2> DEFINE v == {<<>>}
    <2>4. v \in V
      OBVIOUS
    <2> HIDE DEF N, V, G, Extended, v
    <2>5. Iterations(N, V, v, G) # {}
      BY <1>1, <2>3, <2>4, Iterates
    <2>6. PICK f \in [0 .. N -> V] : f[0] = {<<>>} /\ \A n \in 1 .. N : f[n] = G[n][f[n - 1]]
      BY <2>5 DEF v, Iterations
    <2>7. \A n \in 1 .. N : f[n] = Extended(n, f[n - 1])
      <3> SUFFICES ASSUME NEW n \in 1 .. N PROVE f[n] = Extended(n, f[n - 1])
        OBVIOUS
      <3>1. n - 1 \in 0 .. N
        BY <1>1
      <3> QED BY <2>2, <2>6, <3>1
    <2>8. \A n \in 0 .. N : n # 0 => n \in 1 .. N
      BY <1>1
    <2>9. IsRound(f)
      BY <1>1, <2>6, <2>7, <2>8
    <2> QED BY <2>9
  <1>4. IsRound(rounds)
    <2> HIDE DEF N, Extended
    <2> QED BY <1>3
  <1>5. all \in rounds[N]
    BY DEF AllAnswers
  <1> HIDE DEF N, rounds, Hits
  <1>6. rounds[0] = {<<>>} /\ \A n \in 1 .. N : rounds[n] = Extended(n, rounds[n - 1])
    <2> HIDE DEF Extended
    <2>1. rounds = [n \in 0 .. N |-> IF n = 0 THEN {<<>>} ELSE Extended(n, rounds[n - 1])]
      BY <1>4
    <2>2. 0 \in 0 .. N /\ \A n \in 1 .. N : n \in 0 .. N /\ n # 0
      BY <1>1
    <2> QED BY <2>1, <2>2
  <1> DEFINE From(n, a, answers) == /\ \A s \in 1 .. n : answers[s] \in Ask(db, k, s)
                                    /\ ToSet(a) = UNION {ToSet(answers[s]) : s \in 1 .. n}
             Good(n, a) == a \in Seq(Hits) /\ \E answers : From(n, a, answers)
             T == {n \in 0 .. N : \A a \in rounds[n] : Good(n, a)}
  <1>7. 0 \in T
    <2>1. <<>> \in Seq(Hits) /\ ToSet(<<>>) = {}
      BY DEF ToSet
    <2>2. From(0, <<>>, <<>>)
      BY <2>1
    <2> HIDE DEF From
    <2>3. Good(0, <<>>)
      BY <2>1, <2>2
    <2> HIDE DEF Good
    <2>4. \A a \in rounds[0] : Good(0, a)
      BY <1>6, <2>3
    <2> QED BY <1>1, <2>4
  <1>8. ASSUME NEW n \in 1 .. N, n - 1 \in T PROVE n \in T
    <2> SUFFICES ASSUME NEW before \in rounds[n - 1], NEW hits \in Ask(db, k, n)
                 PROVE  Good(n, before \o hits)
      <3> HIDE DEF Good
      <3>1. \A a \in Extended(n, rounds[n - 1]) :
               \E before \in rounds[n - 1], hits \in Ask(db, k, n) : a = before \o hits
        OBVIOUS
      <3> HIDE DEF Extended
      <3>2. rounds[n] = Extended(n, rounds[n - 1])
        BY <1>6
      <3>3. ASSUME NEW a \in rounds[n] PROVE Good(n, a)
        <4>1. PICK before \in rounds[n - 1], hits \in Ask(db, k, n) : a = before \o hits
          BY <3>1, <3>2
        <4> QED BY <4>1
      <3>4. n \in 0 .. N
        BY <1>1
      <3> QED BY <3>3, <3>4
    <2>1. before \in Seq(Hits)
      BY <1>8
    <2>2. PICK answers : From(n - 1, before, answers)
      BY <1>8
    <2>3. hits \in Seq(Hits)
      BY <1>2
    <2>4. before \o hits \in Seq(Hits) /\ ToSet(before \o hits) = ToSet(before) \cup ToSet(hits)
      BY <2>1, <2>3, ToSetOfBoth
    <2> DEFINE more == [s \in 1 .. n |-> IF s = n THEN hits ELSE answers[s]]
    <2>5. more[n] = hits /\ \A s \in 1 .. n - 1 : more[s] = answers[s] /\ s \in 1 .. n
      BY <1>1
    <2>6. 1 .. n = (1 .. n - 1) \cup {n}
      BY <1>1
    <2> HIDE DEF more
    <2>7. \A s \in 1 .. n : more[s] \in Ask(db, k, s)
      BY <2>2, <2>5, <2>6
    <2>8. UNION {ToSet(more[s]) : s \in 1 .. n}
             = (UNION {ToSet(answers[s]) : s \in 1 .. n - 1}) \cup ToSet(hits)
      <3>1. \A x : x \in UNION {ToSet(more[s]) : s \in 1 .. n}
                      <=> x \in ToSet(more[n]) \/ \E s \in 1 .. n - 1 : x \in ToSet(more[s])
        BY <2>6
      <3>2. \A x : (\E s \in 1 .. n - 1 : x \in ToSet(more[s]))
                      <=> x \in UNION {ToSet(answers[s]) : s \in 1 .. n - 1}
        BY <2>5
      <3> QED BY <2>5, <3>1, <3>2
    <2>9. From(n, before \o hits, more)
      BY <2>2, <2>4, <2>7, <2>8
    <2> HIDE DEF From
    <2> QED BY <2>4, <2>9
  <1> HIDE DEF T
  <1>9. N \in T
    <2>1. 0 .. N \subseteq T
      BY <1>1, <1>7, <1>8, UpTo
    <2> QED BY <1>1, <2>1
  <1> QED BY <1>1, <1>5, <1>9 DEF T

\* The search of a database finds the k nearest of all that the graphs of its
\* segments find, in order, however many segments there are
\* (segment_manager.cpp:83-105).
LEMMA DatabaseSearchIsNearest ==
    ASSUME NEW db \in Databases, NEW k \in Nat, NEW result \in DatabaseSearch(db, k)
    PROVE  IsNearest(result, k, [hit \in AllFound(db) |-> HitDistance(db, hit)])
  <1> DEFINE D == AllFound(db)
             dist == [hit \in D |-> HitDistance(db, hit)]
             A == ToSet(result)
  <1>1. PICK all \in AllAnswers(db, k) : result \in Merge(db, k, all)
    BY DEF DatabaseSearch
  <1>2. PICK answers : /\ \A s \in DOMAIN db : answers[s] \in Ask(db, k, s)
                       /\ ToSet(all) = UNION {ToSet(answers[s]) : s \in DOMAIN db}
    BY AnswersOfSegments
  <1>3. NearestHits(db, k, D, A) /\ HitsInOrder(db, result)
    BY <1>1, <1>2, MergeIsEnough
  <1>4. IsFiniteSet(D)
    BY FoundFacts
  <1>5. DOMAIN dist = D /\ \A hit \in D : dist[hit] = HitDistance(db, hit)
    OBVIOUS
  <1> HIDE DEF D, dist
  <1>6. /\ A \subseteq D
        /\ Cardinality(A) = IF Cardinality(D) < k THEN Cardinality(D) ELSE k
        /\ \A a \in A, b \in D \ A : dist[a] <= dist[b]
    <2> HIDE DEF A
    <2> QED BY <1>3, <1>5 DEF NearestHits
  <1>7. ListsInOrder(dist, A, result)
    <2>1. result \in Seq(A)
      BY <1>3 DEF HitsInOrder
    <2>2. \A i \in DOMAIN result : result[i] \in A
      BY <2>1
    <2>3. \A v \in A : \E i \in DOMAIN result : result[i] = v
      BY DEF ToSet
    <2> HIDE DEF A
    <2> QED BY <1>3, <1>5, <1>6, <2>1, <2>2, <2>3 DEF HitsInOrder, ListsInOrder
  <1> HIDE DEF A
  <1>8. IsNearest(result, k, dist)
    BY <1>4, <1>5, <1>6, <1>7, ListIsNearest
  <1> QED BY <1>8 DEF dist, D

-----------------------------------------------------------------------------
(* What holds of every behaviour.                                          *)

Calls == UNION {FlatCalls, SearchCalls, GraphCalls, RegistryCalls, ExtractCalls,
                KernelCalls, TrainingCalls}

Gives(op, answers) == call.op = op /\ answer # <<>> => \E a \in answers : answer = <<a>>

\* Each answer is one that the algorithm may give to the call.
IInv ==
    /\ call \in Calls
    /\ Gives("FlatIndex::search", FlatSearch(call.dist, call.k))
    /\ Gives("SegmentManager::search", DatabaseSearch(call.db, call.k))
    /\ Gives("load_hnsw", {LoadHnsw(FileLeft)})
    /\ Gives("load", {LoadRegistry(ContentLeft)})
    /\ Gives("extract_json_uint", {Extract(Edited, "dim")})
    /\ Gives("l2_distance", {L2Terms(call.dim)})
    /\ Gives("sq8_compute_params", {Sq8Params(call.vectors, call.dim)})

\* An algorithm is called with nothing but an input of its own.
LEMMA CallKinds ==
    ASSUME call \in Calls
    PROVE  /\ call.op = "FlatIndex::search" => call \in FlatCalls
           /\ call.op = "SegmentManager::search" => call \in SearchCalls
           /\ call.op = "load_hnsw" => call \in GraphCalls
           /\ call.op = "load" => call \in RegistryCalls
           /\ call.op = "extract_json_uint" => call \in ExtractCalls
           /\ call.op = "l2_distance" => call \in KernelCalls
           /\ call.op = "sq8_compute_params" => call \in TrainingCalls
  <1>1. \A c \in FlatCalls : c.op = "FlatIndex::search"
    BY FlatAssumption
  <1>2. \A c \in SearchCalls : c.op = "SegmentManager::search"
    BY SearchAssumption
  <1>3. \A c \in KernelCalls : c.op = "l2_distance"
    BY KernelAssumption
  <1>4. \A c \in TrainingCalls : c.op = "sq8_compute_params"
    BY TrainingAssumption
  <1>5. /\ \A c \in GraphCalls : c.op = "load_hnsw"
        /\ \A c \in RegistryCalls : c.op = "load"
        /\ \A c \in ExtractCalls : c.op = "extract_json_uint"
    BY ReadAssumption
  <1> QED BY <1>1, <1>2, <1>3, <1>4, <1>5 DEF Calls

LEMMA AnswersAreGiven == Spec => []IInv
  <1>1. Init => IInv
    BY DEF Init, IInv, Calls, Gives
  <1>2. ASSUME IInv, [Next]_<<call, answer>> PROVE IInv'
    <2>1. ASSUME NEW op, NEW answers, Returns(op, answers)
          PROVE  call' = call /\ call.op = op /\ \E a \in answers : answer' = <<a>>
      BY <2>1 DEF Returns
    <2>2. call' = call
      BY <1>2 DEF Next, FlatIndexReturns, SearchReturns, LoadHnswReturns, LoadReturns,
                  ExtractReturns, KernelReturns, ParamsReturn, Returns
    <2>3. CASE UNCHANGED <<call, answer>>
      BY <1>2, <2>3 DEF IInv, Gives, FileLeft, ContentLeft, Edited
    <2>4. CASE FlatIndexReturns
      BY <1>2, <2>2, <2>4 DEF IInv, Gives, FlatIndexReturns, Returns
    <2>5. CASE SearchReturns
      BY <1>2, <2>2, <2>5 DEF IInv, Gives, SearchReturns, Returns
    <2>6. CASE LoadHnswReturns
      BY <1>2, <2>2, <2>6 DEF IInv, Gives, LoadHnswReturns, Returns, FileLeft
    <2>7. CASE LoadReturns
      BY <1>2, <2>2, <2>7 DEF IInv, Gives, LoadReturns, Returns, ContentLeft
    <2>8. CASE ExtractReturns
      BY <1>2, <2>2, <2>8 DEF IInv, Gives, ExtractReturns, Returns, Edited
    <2>9. CASE KernelReturns
      BY <1>2, <2>2, <2>9 DEF IInv, Gives, KernelReturns, Returns
    <2>10. CASE ParamsReturn
      BY <1>2, <2>2, <2>10 DEF IInv, Gives, ParamsReturn, Returns
    <2> QED BY <1>2, <2>3, <2>4, <2>5, <2>6, <2>7, <2>8, <2>9, <2>10 DEF Next
  <1> QED BY <1>1, <1>2, PTL DEF Spec

\* Brute force finds the k nearest vectors of any store, in order, for any k and
\* however distances tie (flat_index.h:20-47).
THEOREM FlatSearchIsExact == Spec => []FlatIsExact
  <1>1. ASSUME IInv PROVE FlatIsExact
    <2> SUFFICES ASSUME Returned("FlatIndex::search")
                 PROVE  IsNearest(answer[1], call.k, call.dist)
      BY DEF FlatIsExact
    <2>1. call.op = "FlatIndex::search" /\ answer # <<>>
      BY DEF Returned
    <2>2. PICK a \in FlatSearch(call.dist, call.k) : answer = <<a>>
      BY <1>1, <2>1 DEF IInv, Gives
    <2>3. call \in FlatCalls
      BY <1>1, <2>1, CallKinds DEF IInv
    <2>4. call.dist \in Seq(Int) /\ call.k \in Nat
      BY <2>3, FlatAssumption
    <2>5. IsNearest(a, call.k, call.dist)
      BY <2>4, FlatSearchIsNearest
    <2>6. answer[1] = a
      BY <2>2
    <2> QED BY <2>5, <2>6
  <1> QED BY <1>1, AnswersAreGiven, PTL

\* Asking each segment for k and keeping k of all the answers gives the k
\* nearest of everything that the segments find, for any number of segments
\* and wherever the vectors are (segment_manager.cpp:83-105).
THEOREM DatabaseSearchIsExact == Spec => []MergeIsExact
  <1>1. ASSUME IInv PROVE MergeIsExact
    <2> SUFFICES ASSUME Returned("SegmentManager::search") PROVE MergeIsExact
      BY DEF MergeIsExact
    <2>1. call.op = "SegmentManager::search" /\ answer # <<>>
      BY DEF Returned
    <2>2. PICK a \in DatabaseSearch(call.db, call.k) : answer = <<a>>
      BY <1>1, <2>1 DEF IInv, Gives
    <2>3. call \in SearchCalls
      BY <1>1, <2>1, CallKinds DEF IInv
    <2>4. call.db \in Databases /\ call.k \in Nat
      BY <2>3, SearchAssumption
    <2>5. IsNearest(a, call.k, [hit \in AllFound(call.db) |-> HitDistance(call.db, hit)])
      BY <2>4, DatabaseSearchIsNearest
    <2>6. answer[1] = a
      BY <2>2
    <2> QED BY <2>5, <2>6 DEF MergeIsExact, AllFound, FoundIn
  <1> QED BY <1>1, AnswersAreGiven, PTL

-----------------------------------------------------------------------------
(* The scan of the training set.                                           *)

\* The limits of float are numbers.
LEMMA Limits == Highest \in Nat /\ Lowest \in Int
  BY SMT DEF Highest, Lowest

\* What the scan has seen of the numbers x[1] .. x[n].
HasSeen(x, n, seen) ==
    /\ seen.low \in Int /\ seen.high \in Int
    /\ n = 0 => seen.low = Highest /\ seen.high = Lowest
    /\ n > 0 => /\ \E i \in 1 .. n : seen.low = x[i]
                /\ \E i \in 1 .. n : seen.high = x[i]
    /\ \A i \in 1 .. n : seen.low <= x[i] /\ x[i] <= seen.high

LEMMA SeesOneMore ==
    ASSUME NEW n \in Nat \ {0}, NEW x, \A i \in 1 .. n : x[i] \in Lowest .. Highest,
           NEW seen, HasSeen(x, n - 1, seen),
           NEW next, next = [low |-> Min({seen.low, x[n]}), high |-> Max({seen.high, x[n]})]
    PROVE  HasSeen(x, n, next)
  <1>1. /\ x[n] \in Int /\ x[n] <= Highest /\ Lowest <= x[n]
        /\ seen.low \in Int /\ seen.high \in Int
    BY Limits DEF HasSeen
  <1>2. /\ next.low = IF seen.low <= x[n] THEN seen.low ELSE x[n]
        /\ next.high = IF seen.high >= x[n] THEN seen.high ELSE x[n]
    BY <1>1, SmallerGreater
  <1>3. next.low \in Int /\ next.high \in Int
    BY <1>1, <1>2
  <1>4. 1 .. n = (1 .. n - 1) \cup {n}
    OBVIOUS
  <1>5. /\ next.low <= seen.low /\ next.low <= x[n]
        /\ next.high >= seen.high /\ next.high >= x[n]
    BY <1>1, <1>2
  <1>6. \A i \in 1 .. n - 1 : /\ x[i] \in Int
                              /\ seen.low <= x[i] /\ x[i] <= seen.high
    BY Limits DEF HasSeen
  <1>7. \A i \in 1 .. n : next.low <= x[i] /\ x[i] <= next.high
    <2> SUFFICES ASSUME NEW i \in 1 .. n PROVE next.low <= x[i] /\ x[i] <= next.high
      OBVIOUS
    <2>1. CASE i = n
      BY <1>5, <2>1
    <2>2. CASE i \in 1 .. n - 1
      BY <1>1, <1>3, <1>5, <1>6, <2>2
    <2> QED BY <1>4, <2>1, <2>2
  <1>8. \E i \in 1 .. n : next.low = x[i]
    <2>1. CASE n = 1
      BY <1>1, <1>2, <2>1 DEF HasSeen
    <2>2. CASE n > 1
      <3>1. PICK i \in 1 .. n - 1 : seen.low = x[i]
        BY <2>2 DEF HasSeen
      <3> QED BY <1>2, <1>4, <3>1
    <2> QED BY <2>1, <2>2
  <1>9. \E i \in 1 .. n : next.high = x[i]
    <2>1. CASE n = 1
      BY <1>1, <1>2, <2>1 DEF HasSeen
    <2>2. CASE n > 1
      <3>1. PICK i \in 1 .. n - 1 : seen.high = x[i]
        BY <2>2 DEF HasSeen
      <3> QED BY <1>2, <1>4, <3>1
    <2> QED BY <2>1, <2>2
  <1> QED BY <1>3, <1>7, <1>8, <1>9 DEF HasSeen

\* The scan finds the least and the greatest component of a dimension
\* (sq8.cpp:22-37).
LEMMA SeenIs ==
    ASSUME NEW dim \in Nat, NEW d \in 1 .. dim,
           NEW vectors \in Seq([1 .. dim -> Lowest .. Highest])
    PROVE  HasSeen([i \in 1 .. Len(vectors) |-> vectors[i][d]], Len(vectors), Seen(vectors, d))
  <1> DEFINE N == Len(vectors)
             x == [i \in 1 .. N |-> vectors[i][d]]
             First == [low |-> Highest, high |-> Lowest]
             Wider(n, r) == [low  |-> Min({r.low, vectors[n][d]}),
                             high |-> Max({r.high, vectors[n][d]})]
             IsScan(h) == h = [n \in 0 .. N |-> IF n = 0 THEN First ELSE Wider(n, h[n - 1])]
             V == [low : Int, high : Int]
             G == [n \in 1 .. N |-> [r \in V |-> Wider(n, r)]]
             scan == CHOOSE h : IsScan(h)
  <1>1. N \in Nat
    OBVIOUS
  <1>2. \A n \in 1 .. N : /\ vectors[n][d] \in Lowest .. Highest
                          /\ vectors[n][d] \in Int
                          /\ x[n] = vectors[n][d]
    <2> SUFFICES ASSUME NEW n \in 1 .. N
                 PROVE  vectors[n][d] \in Lowest .. Highest /\ vectors[n][d] \in Int
      OBVIOUS
    <2>1. vectors[n] \in [1 .. dim -> Lowest .. Highest]
      OBVIOUS
    <2> HIDE DEF N
    <2> QED BY <2>1, Limits
  <1>3. \E h : IsScan(h)
    <2>1. ASSUME NEW n \in 1 .. N, NEW r \in V PROVE Wider(n, r) \in V
      <3>1. vectors[n][d] \in Int /\ r.low \in Int /\ r.high \in Int
        BY <1>2
      <3> DEFINE a == vectors[n][d]
      <3> HIDE DEF a
      <3>2. Min({r.low, a}) \in Int /\ Max({r.high, a}) \in Int
        BY <3>1, SmallerGreater DEF a
      <3> QED BY <3>2 DEF a
    <2>2. \A n \in 1 .. N : \A r \in V : G[n][r] = Wider(n, r)
      OBVIOUS
    <2>3. G \in [1 .. N -> [V -> V]]
      <3> HIDE DEF N, V, Wider
      <3> QED BY <2>1
    <2> DEFINE start == First
    <2>4. start \in V
      BY Limits
    <2> HIDE DEF N, V, G, Wider, start
    <2>5. Iterations(N, V, start, G) # {}
      BY <1>1, <2>3, <2>4, Iterates
    <2>6. PICK f \in [0 .. N -> V] : f[0] = start /\ \A n \in 1 .. N : f[n] = G[n][f[n - 1]]
      BY <2>5 DEF Iterations
    <2>7. \A n \in 1 .. N : f[n] = Wider(n, f[n - 1])
      <3> SUFFICES ASSUME NEW n \in 1 .. N PROVE f[n] = Wider(n, f[n - 1])
        OBVIOUS
      <3>1. n - 1 \in 0 .. N
        BY <1>1
      <3> QED BY <2>2, <2>6, <3>1
    <2>8. \A n \in 0 .. N : n # 0 => n \in 1 .. N
      BY <1>1
    <2>9. f[0] = First
      BY <2>6 DEF start
    <2> HIDE DEF First
    <2>10. IsScan(f)
      BY <1>1, <2>6, <2>7, <2>8, <2>9
    <2> QED BY <2>10
  <1>4. IsScan(scan)
    <2> HIDE DEF N, First, Wider
    <2> QED BY <1>3
  <1>5. Seen(vectors, d) = scan[N]
    BY DEF Seen
  <1> HIDE DEF N, x, scan
  <1>6. scan[0] = First /\ \A n \in 1 .. N : scan[n] = Wider(n, scan[n - 1])
    <2> HIDE DEF First, Wider
    <2>1. scan = [n \in 0 .. N |-> IF n = 0 THEN First ELSE Wider(n, scan[n - 1])]
      BY <1>4
    <2>2. 0 \in 0 .. N /\ \A n \in 1 .. N : n \in 0 .. N /\ n # 0
      BY <1>1
    <2> QED BY <2>1, <2>2
  <1> DEFINE T == {n \in 0 .. N : HasSeen(x, n, scan[n])}
  <1>7. 0 \in T
    <2>1. HasSeen(x, 0, scan[0])
      BY <1>6, Limits DEF HasSeen
    <2> QED BY <1>1, <2>1
  <1>8. ASSUME NEW n \in 1 .. N, n - 1 \in T PROVE n \in T
    <2>1. \A i \in 1 .. n : x[i] \in Lowest .. Highest
      BY <1>1, <1>2
    <2>2. scan[n] = [low |-> Min({scan[n - 1].low, x[n]}), high |-> Max({scan[n - 1].high, x[n]})]
      BY <1>2, <1>6
    <2>3. n \in Nat \ {0} /\ n \in 0 .. N
      BY <1>1
    <2>4. HasSeen(x, n - 1, scan[n - 1])
      BY <1>8
    <2>5. HasSeen(x, n, scan[n])
      BY <2>1, <2>2, <2>3, <2>4, SeesOneMore
    <2> QED BY <2>3, <2>5
  <1> HIDE DEF T
  <1>9. N \in T
    <2>1. 0 .. N \subseteq T
      BY <1>1, <1>7, <1>8, UpTo
    <2> QED BY <1>1, <2>1
  <1>10. HasSeen(x, N, scan[N])
    BY <1>9 DEF T
  <1> QED BY <1>5, <1>10 DEF x, N

LEMMA LeastAndGreatest ==
    ASSUME NEW S \in SUBSET Int, NEW low \in S, NEW high \in S,
           \A x \in S : low <= x /\ x <= high
    PROVE  Min(S) = low /\ Max(S) = high
  <1>1. \A x \in S : (\A y \in S : x <= y) => x = low
    OBVIOUS
  <1>2. \A x \in S : (\A y \in S : x >= y) => x = high
    OBVIOUS
  <1>3. (\A y \in S : low <= y) /\ (\A y \in S : high >= y)
    OBVIOUS
  <1> QED BY <1>1, <1>2, <1>3 DEF Min, Max

\* A scale covers all that it was computed from, and is that of its extent or so
\* large that the extent is less than half a step.
LEMMA ScaleCovers ==
    ASSUME NEW S \in SUBSET Int, NEW low \in S, NEW high \in S,
           \A x \in S : low <= x /\ x <= high,
           NEW c, c = IF high - low < Tiny THEN One ELSE high - low
    PROVE  /\ low \in Int /\ c \in Nat \ {0}
           /\ \A x \in S : x \in low .. low + c
           /\ IF high - low < Tiny
              THEN \A x \in S : 2 * ((x - low) * Steps) < c
              ELSE c = high - low
  <1>1. /\ low \in Int /\ high \in Int /\ low <= high
        /\ \A x \in S : x \in Int
        /\ One \in Nat \ {0} /\ Tiny \in Nat \ {0} /\ Steps \in Nat \ {0}
        /\ 2 * (Tiny * Steps) <= One /\ Tiny * Steps \in Nat
    BY Sq8Assumption
  <1>2. \A a, b \in Nat : a < b => a * Steps + Steps <= b * Steps /\ a * Steps \in Nat
    <2> SUFFICES ASSUME NEW a \in Nat, NEW b \in Nat, a < b
                 PROVE  a * Steps + Steps <= b * Steps /\ a * Steps \in Nat
      OBVIOUS
    <2>1. (a + 1) * Steps <= b * Steps
      BY <1>1
    <2>2. (a + 1) * Steps = a * Steps + Steps /\ a * Steps \in Nat
      BY <1>1
    <2> QED BY <2>1, <2>2
  <1>3. Tiny <= One
    <2>1. 1 * Tiny <= Steps * Tiny
      BY <1>1
    <2>2. Steps * Tiny = Tiny * Steps
      BY <1>1
    <2> QED BY <1>1, <2>1, <2>2
  <1>4. CASE high - low < Tiny
    <2>1. c = One /\ c \in Nat \ {0} /\ high <= low + c
      BY <1>1, <1>3, <1>4
    <2>2. \A x \in S : x \in low .. low + c
      BY <1>1, <2>1
    <2>3. ASSUME NEW x \in S PROVE 2 * ((x - low) * Steps) < c
      <3> DEFINE a == x - low
      <3>1. a \in Nat /\ a < Tiny
        BY <1>1, <1>4
      <3> HIDE DEF a
      <3>2. a * Steps + Steps <= Tiny * Steps /\ a * Steps \in Nat
        BY <1>1, <1>2, <3>1
      <3>3. 2 * (a * Steps) < c
        BY <1>1, <2>1, <3>2
      <3> QED BY <3>3 DEF a
    <2> QED BY <1>1, <1>4, <2>1, <2>2, <2>3
  <1>5. CASE ~(high - low < Tiny)
    <2>1. c = high - low /\ c \in Nat \ {0}
      BY <1>1, <1>5
    <2> QED BY <1>1, <1>5, <2>1
  <1> QED BY <1>4, <1>5

\* The components of dimension d.
Column(vectors, d) == {vectors[v][d] : v \in DOMAIN vectors}

\* Parameters of dimension d that suit the components they were trained on.
ScaledTo(d, params, trained) ==
    /\ Trained(d, params)
    /\ \A x \in trained : x \in params.min[d] .. params.min[d] + params.scale[d]
    /\ IF Max(trained) - Min(trained) < Tiny
       THEN \A x \in trained : 2 * ((x - params.min[d]) * Steps) < params.scale[d]
       ELSE params.scale[d] = Max(trained) - Min(trained)
    /\ params.min[d] = Min(trained)

\* What sq8_compute_params() returns, dimension by dimension.
LEMMA ParamsAre ==
    ASSUME NEW dim \in Nat, NEW d \in 1 .. dim,
           NEW vectors \in Seq([1 .. dim -> Lowest .. Highest]) \ {<<>>}
    PROVE  ScaledTo(d, Sq8Params(vectors, dim), Column(vectors, d))
  <1> DEFINE N == Len(vectors)
             x == [i \in 1 .. N |-> vectors[i][d]]
             seen == Seen(vectors, d)
             trained == Column(vectors, d)
             params == Sq8Params(vectors, dim)
  <1>1. N \in Nat \ {0} /\ DOMAIN vectors = 1 .. N
    OBVIOUS
  <1>2. HasSeen(x, N, seen)
    BY SeenIs
  <1>3. trained = {x[i] : i \in 1 .. N}
    BY <1>1 DEF Column
  <1>4. \A i \in 1 .. N : x[i] \in Int
    <2> SUFFICES ASSUME NEW i \in 1 .. N PROVE vectors[i][d] \in Int
      OBVIOUS
    <2>1. vectors[i] \in [1 .. dim -> Lowest .. Highest]
      OBVIOUS
    <2> QED BY <2>1, Limits
  <1>5. params.min[d] = seen.low /\ params.scale[d] = Scale(seen)
    BY DEF Sq8Params
  <1> HIDE DEF N, x, seen, trained, params
  <1>6. trained \in SUBSET Int /\ seen.low \in trained /\ seen.high \in trained
    <2>1. trained \in SUBSET Int
      BY <1>3, <1>4
    <2>2. PICK i \in 1 .. N : seen.low = x[i]
      BY <1>1, <1>2 DEF HasSeen
    <2>3. PICK j \in 1 .. N : seen.high = x[j]
      BY <1>1, <1>2 DEF HasSeen
    <2>4. x[i] \in trained /\ x[j] \in trained
      BY <1>3
    <2> QED BY <2>1, <2>2, <2>3, <2>4
  <1>7. \A t \in trained : seen.low <= t /\ t <= seen.high
    BY <1>2, <1>3 DEF HasSeen
  <1>8. Min(trained) = seen.low /\ Max(trained) = seen.high
    BY <1>6, <1>7, LeastAndGreatest
  <1> DEFINE low == seen.low
             high == seen.high
             c == Scale(seen)
  <1>9. c = IF high - low < Tiny THEN One ELSE high - low
    BY DEF Scale
  <1>10. /\ low \in trained /\ high \in trained
         /\ \A t \in trained : low <= t /\ t <= high
    BY <1>6, <1>7
  <1> HIDE DEF low, high, c
  <1>11. /\ low \in Int /\ c \in Nat \ {0}
         /\ \A t \in trained : t \in low .. low + c
         /\ IF high - low < Tiny
            THEN \A t \in trained : 2 * ((t - low) * Steps) < c
            ELSE c = high - low
    BY <1>6, <1>9, <1>10, ScaleCovers
  <1>12. /\ params.min[d] = low /\ params.scale[d] = c
         /\ Min(trained) = low /\ Max(trained) = high
    BY <1>5, <1>8 DEF low, high, c
  <1>13. ScaledTo(d, params, trained)
    BY <1>11, <1>12 DEF Trained, ScaledTo
  <1> QED BY <1>13 DEF params, trained

\* Training, encoding and decoding lose no more than half a step of a component
\* of the training set, or all that it is above the least where the extent is
\* less than Tiny, and every component gets the nearest code, for training sets
\* of any size and dimension (sq8.cpp:14-61).
THEOREM QuantisationIsTight == Spec => []WithinHalfStep
  <1>1. ASSUME IInv PROVE WithinHalfStep
    <2> DEFINE trained(d) == {call.vectors[v][d] : v \in DOMAIN call.vectors}
               params == answer[1]
    <2> SUFFICES ASSUME Returned("sq8_compute_params"), NEW d \in 1 .. call.dim
                 PROVE  /\ \A x \in trained(d) :
                              IF Max(trained(d)) - Min(trained(d)) < Tiny
                              THEN Decode(Encode(x, d, params), d, params)
                                      = Min(trained(d)) * Steps
                              ELSE 2 * Error(x, Encode(x, d, params), d)
                                      <= Max(trained(d)) - Min(trained(d))
                        /\ \A x \in Components, code \in 0 .. Steps :
                              Error(x, Encode(x, d, params), d) <= Error(x, code, d)
      BY DEF WithinHalfStep
    <2>1. call.op = "sq8_compute_params" /\ answer # <<>>
      BY DEF Returned
    <2>2. PICK a \in {Sq8Params(call.vectors, call.dim)} : answer = <<a>>
      BY <1>1, <2>1 DEF IInv, Gives
    <2>3. call \in TrainingCalls
      BY <1>1, <2>1, CallKinds DEF IInv
    <2>4. /\ call.dim \in Nat
          /\ call.vectors \in Seq([1 .. call.dim -> Lowest .. Highest]) \ {<<>>}
          /\ Components \subseteq Int
      BY <2>3, TrainingAssumption
    <2>5. params = Sq8Params(call.vectors, call.dim)
      BY <2>2
    <2> DEFINE t == trained(d)
    <2>6. t = {call.vectors[v][d] : v \in DOMAIN call.vectors}
      OBVIOUS
    <2> HIDE DEF params, t
    <2>7. ScaledTo(d, params, t)
      <3> DEFINE dim == call.dim
                 vectors == call.vectors
      <3>1. /\ dim \in Nat /\ d \in 1 .. dim
            /\ vectors \in Seq([1 .. dim -> Lowest .. Highest]) \ {<<>>}
            /\ t = Column(vectors, d)
            /\ params = Sq8Params(vectors, dim)
        BY <2>4, <2>5, <2>6 DEF Column
      <3> HIDE DEF dim, vectors
      <3>2. ScaledTo(d, Sq8Params(vectors, dim), Column(vectors, d))
        BY <3>1, ParamsAre
      <3> QED BY <3>1, <3>2
    <2>8. /\ Trained(d, params)
          /\ \A x \in t : x \in params.min[d] .. params.min[d] + params.scale[d]
          /\ IF Max(t) - Min(t) < Tiny
             THEN \A x \in t : 2 * ((x - params.min[d]) * Steps) < params.scale[d]
             ELSE params.scale[d] = Max(t) - Min(t)
          /\ params.min[d] = Min(t)
      BY <2>7 DEF ScaledTo
    <2>9. ASSUME NEW x \in Int, NEW code \in Nat
          PROVE  /\ Error(x, code, d) = CodeError(code, x, d, params)
                 /\ Error(x, code, d) \in Int
      <3> DEFINE b == Decode(code, d, params)
                 e == x * Steps
      <3>1. b \in Int /\ e \in Int
        <4>1. params.scale[d] \in Int /\ params.min[d] \in Int /\ Steps \in Int
          BY <2>8, Sq8Assumption DEF Trained
        <4>2. \A m, n \in Int : m * n \in Int /\ m + n \in Int
          OBVIOUS
        <4> QED BY <4>1, <4>2 DEF Decode
      <3>2. Error(x, code, d) = Abs(b - e)
        BY DEF Error, params
      <3>3. CodeError(code, x, d, params) = Apart(b, e)
        BY DEF CodeError
      <3> HIDE DEF b, e
      <3>4. Abs(b - e) = Apart(b, e) /\ Abs(b - e) \in Int
        BY <3>1 DEF Abs, Apart
      <3> QED BY <3>2, <3>3, <3>4
    <2>10. ASSUME NEW x \in t
           PROVE  IF Max(t) - Min(t) < Tiny
                  THEN Decode(Encode(x, d, params), d, params) = Min(t) * Steps
                  ELSE 2 * Error(x, Encode(x, d, params), d) <= Max(t) - Min(t)
      <3> DEFINE code == Encode(x, d, params)
      <3>1. params.min[d] \in Int /\ params.scale[d] \in Nat \ {0}
        BY <2>8 DEF Trained
      <3>2. x \in params.min[d] .. params.min[d] + params.scale[d]
        BY <2>8
      <3>3. x \in Int
        BY <3>1, <3>2
      <3>4. code \in 0 .. Steps /\ code \in Nat
        <4>1. 0 \in 0 .. Steps
          BY Sq8Assumption
        <4>2. code \in 0 .. Steps
          BY <2>8, <3>3, <4>1, CodeIsNearest
        <4> QED BY <4>2, Sq8Assumption
      <3>5. /\ 2 * CodeError(code, x, d, params) <= params.scale[d]
            /\ 2 * ((x - params.min[d]) * Steps) < params.scale[d] => code = 0
        BY <2>8, <3>2, TrainedWithinHalfStep
      <3> HIDE DEF code
      <3>6. /\ Error(x, code, d) = CodeError(code, x, d, params)
            /\ Error(x, code, d) \in Int
        BY <2>9, <3>3, <3>4
      <3>7. CASE Max(t) - Min(t) < Tiny
        <4>1. code = 0
          BY <2>8, <3>5, <3>7
        <4>2. Decode(0, d, params) = params.min[d] * Steps
          <5>1. 0 * params.scale[d] = 0 /\ params.min[d] * Steps \in Int
            BY <3>1, Sq8Assumption
          <5> QED BY <5>1 DEF Decode
        <4> QED BY <2>8, <3>7, <4>1, <4>2 DEF code
      <3>8. CASE ~(Max(t) - Min(t) < Tiny)
        <4>1. params.scale[d] = Max(t) - Min(t)
          BY <2>8, <3>8
        <4> QED BY <3>5, <3>6, <3>8, <4>1 DEF code
      <3> QED BY <3>7, <3>8
    <2>11. ASSUME NEW x \in Components, NEW code \in 0 .. Steps
           PROVE  Error(x, Encode(x, d, params), d) <= Error(x, code, d)
      <3>1. x \in Int /\ code \in Nat
        BY <2>4, Sq8Assumption
      <3>2. /\ Encode(x, d, params) \in 0 .. Steps
            /\ CodeError(Encode(x, d, params), x, d, params) <= CodeError(code, x, d, params)
        BY <2>8, <3>1, CodeIsNearest
      <3>3. Encode(x, d, params) \in Nat
        BY <3>2, Sq8Assumption
      <3> QED BY <2>9, <3>1, <3>2, <3>3
    <2> QED BY <2>10, <2>11 DEF t, params
  <1> QED BY <1>1, AnswersAreGiven, PTL

-----------------------------------------------------------------------------
(* The distance kernel.                                                    *)

\* s holds every member of S once.
HoldsOnce(s, S) == s \in Seq(Nat) /\ IsInjective(s) /\ ToSet(s) = S

LEMMA HoldsBoth ==
    ASSUME NEW S, NEW T, S \cap T = {}, NEW s, NEW t, HoldsOnce(s, S), HoldsOnce(t, T)
    PROVE  HoldsOnce(s \o t, S \cup T)
  <1>1. s \in Seq(Nat) /\ t \in Seq(Nat)
    BY DEF HoldsOnce
  <1> DEFINE u == s \o t
             m == Len(s)
             n == Len(t)
  <1>2. /\ u \in Seq(Nat) /\ m \in Nat /\ n \in Nat /\ DOMAIN u = 1 .. m + n
        /\ DOMAIN s = 1 .. m /\ DOMAIN t = 1 .. n
        /\ \A i \in 1 .. m : u[i] = s[i]
        /\ \A i \in m + 1 .. m + n : u[i] = t[i - m]
    BY <1>1
  <1>3. ToSet(u) = S \cup T
    BY <1>1, ToSetOfBoth DEF HoldsOnce
  <1>4. \A i \in 1 .. m : u[i] \in S
    BY <1>2 DEF HoldsOnce, ToSet
  <1>5. \A i \in m + 1 .. m + n : i - m \in 1 .. n /\ u[i] \in T
    <2>1. \A i \in m + 1 .. m + n : i - m \in 1 .. n
      BY <1>2
    <2> QED BY <1>2, <2>1 DEF HoldsOnce, ToSet
  <1> HIDE DEF u, m, n
  <1>6. ASSUME NEW a \in DOMAIN u, NEW b \in DOMAIN u, u[a] = u[b] PROVE a = b
    <2>1. /\ a \in 1 .. m \/ a \in m + 1 .. m + n
          /\ b \in 1 .. m \/ b \in m + 1 .. m + n
      BY <1>2, <1>6
    <2>2. CASE a \in 1 .. m /\ b \in 1 .. m
      BY <1>2, <1>6, <2>2 DEF HoldsOnce, IsInjective
    <2>3. CASE a \in m + 1 .. m + n /\ b \in m + 1 .. m + n
      <3>1. a - m \in DOMAIN t /\ b - m \in DOMAIN t /\ t[a - m] = t[b - m]
        BY <1>2, <1>5, <1>6, <2>3
      <3>2. a - m = b - m
        BY <3>1 DEF HoldsOnce, IsInjective
      <3> QED BY <1>2, <2>3, <3>2
    <2> QED BY <1>4, <1>5, <1>6, <2>1, <2>2, <2>3
  <1>7. IsInjective(u)
    BY <1>6 DEF IsInjective
  <1> QED BY <1>2, <1>3, <1>7 DEF HoldsOnce, u

\* The terms of m blocks that are added in the given lanes.
TermsOf(m, lanes) == {x \in 0 .. 8 * m - 1 : x % 8 \in lanes}

\* Adding two registers, or the halves or neighbours of one, loses no term.
LEMMA LanesTogether ==
    ASSUME NEW m \in Nat, NEW A, NEW B, A \cap B = {}, NEW s, NEW t,
           HoldsOnce(s, TermsOf(m, A)), HoldsOnce(t, TermsOf(m, B))
    PROVE  HoldsOnce(s \o t, TermsOf(m, A \cup B))
  <1>1. TermsOf(m, A) \cap TermsOf(m, B) = {}
    BY DEF TermsOf
  <1>2. TermsOf(m, A) \cup TermsOf(m, B) = TermsOf(m, A \cup B)
    BY DEF TermsOf
  <1> QED BY <1>1, <1>2, HoldsBoth

\* After m blocks every lane has its term of each, in order.
AfterBlocks(b, m) ==
    /\ b.i = 8 * m
    /\ \A lane \in 0 .. 7 :
          /\ b.sum[lane] \in Seq(Nat) /\ Len(b.sum[lane]) = m
          /\ \A j \in 1 .. m : b.sum[lane][j] = 8 * (j - 1) + lane

LEMMA LaneHolds ==
    ASSUME NEW m \in Nat, NEW b, AfterBlocks(b, m), NEW lane \in 0 .. 7
    PROVE  HoldsOnce(b.sum[lane], TermsOf(m, {lane}))
  <1> DEFINE s == b.sum[lane]
  <1>1. /\ s \in Seq(Nat) /\ DOMAIN s = 1 .. m
        /\ \A j \in 1 .. m : s[j] = 8 * (j - 1) + lane
    <2>1. /\ s \in Seq(Nat) /\ Len(s) = m
          /\ \A j \in 1 .. m : s[j] = 8 * (j - 1) + lane
      BY DEF AfterBlocks
    <2> HIDE DEF s
    <2> QED BY <2>1
  <1> HIDE DEF s
  <1>2. IsInjective(s)
    BY <1>1 DEF IsInjective
  <1>3. ASSUME NEW j \in 1 .. m PROVE s[j] \in TermsOf(m, {lane})
    <2>1. s[j] = 8 * (j - 1) + lane
      BY <1>1
    <2>2. 8 * (j - 1) + lane \in 0 .. 8 * m - 1
      OBVIOUS
    <2>3. (8 * (j - 1) + lane) % 8 = lane
      OBVIOUS
    <2> QED BY <2>1, <2>2, <2>3 DEF TermsOf
  <1>4. ASSUME NEW x \in TermsOf(m, {lane}) PROVE \E j \in 1 .. m : s[j] = x
    <2>1. x \in 0 .. 8 * m - 1 /\ x % 8 = lane
      BY <1>4 DEF TermsOf
    <2> DEFINE q == x \div 8
    <2>2. q \in Nat /\ x = 8 * q + lane
      <3>1. x \in Nat
        BY <2>1
      <3> QED BY <2>1, <3>1
    <2> HIDE DEF q
    <2>3. q + 1 \in 1 .. m /\ (q + 1) - 1 = q
      BY <2>1, <2>2
    <2> QED BY <1>1, <2>2, <2>3
  <1>5. ToSet(s) = TermsOf(m, {lane})
    BY <1>1, <1>3, <1>4 DEF ToSet
  <1> QED BY <1>1, <1>2, <1>5 DEF HoldsOnce, s

LEMMA NeighboursAdded ==
    ASSUME NEW a
    PROVE  HorizontalAdd(a, a)[0] = a[0] \o a[1] /\ HorizontalAdd(a, a)[1] = a[2] \o a[3]
  <1>1. /\ 0 \in 0 .. 3 /\ 1 \in 0 .. 3 /\ 0 < 2 /\ 1 < 2
        /\ 2 * 0 = 0 /\ 0 + 1 = 1 /\ 2 * 1 = 2 /\ 2 + 1 = 3
    OBVIOUS
  <1>2. \A lane \in 0 .. 3 : lane < 2 =>
           HorizontalAdd(a, a)[lane] = a[2 * lane] \o a[2 * lane + 1]
    BY DEF HorizontalAdd
  <1>3. HorizontalAdd(a, a)[0] = a[2 * 0] \o a[2 * 0 + 1]
    BY <1>1, <1>2
  <1>4. HorizontalAdd(a, a)[1] = a[2 * 1] \o a[2 * 1 + 1]
    BY <1>1, <1>2
  <1> QED BY <1>1, <1>3, <1>4

\* The horizontal sum has all terms of the blocks.
LEMMA SumHolds ==
    ASSUME NEW m \in Nat, NEW b, AfterBlocks(b, m)
    PROVE  LET half == AddHalves(b.sum)
               pairs == HorizontalAdd(half, half)
               quarters == HorizontalAdd(pairs, pairs)
           IN  HoldsOnce(quarters[0], 0 .. 8 * m - 1)
  <1> DEFINE half == AddHalves(b.sum)
             pairs == HorizontalAdd(half, half)
             quarters == HorizontalAdd(pairs, pairs)
  <1>1. ASSUME NEW l \in 0 .. 3 PROVE HoldsOnce(half[l], TermsOf(m, {l, l + 4}))
    <2>1. half[l] = b.sum[l] \o b.sum[l + 4]
      BY DEF AddHalves
    <2>2. HoldsOnce(b.sum[l], TermsOf(m, {l})) /\ HoldsOnce(b.sum[l + 4], TermsOf(m, {l + 4}))
      <3>1. l \in 0 .. 7 /\ l + 4 \in 0 .. 7
        OBVIOUS
      <3> QED BY <3>1, LaneHolds
    <2>3. {l} \cap {l + 4} = {} /\ {l} \cup {l + 4} = {l, l + 4}
      OBVIOUS
    <2> QED BY <2>1, <2>2, <2>3, LanesTogether
  <1> HIDE DEF half
  <1>2. pairs[0] = half[0] \o half[1] /\ pairs[1] = half[2] \o half[3]
    BY NeighboursAdded
  <1> HIDE DEF pairs
  <1>3. quarters[0] = pairs[0] \o pairs[1]
    BY NeighboursAdded
  <1> HIDE DEF quarters
  <1>4. HoldsOnce(pairs[0], TermsOf(m, {0, 4, 1, 5}))
    <2>1. HoldsOnce(half[0], TermsOf(m, {0, 4})) /\ HoldsOnce(half[1], TermsOf(m, {1, 5}))
      BY <1>1
    <2>2. {0, 4} \cap {1, 5} = {} /\ {0, 4} \cup {1, 5} = {0, 4, 1, 5}
      OBVIOUS
    <2> QED BY <1>2, <2>1, <2>2, LanesTogether
  <1>5. HoldsOnce(pairs[1], TermsOf(m, {2, 6, 3, 7}))
    <2>1. HoldsOnce(half[2], TermsOf(m, {2, 6})) /\ HoldsOnce(half[3], TermsOf(m, {3, 7}))
      BY <1>1
    <2>2. {2, 6} \cap {3, 7} = {} /\ {2, 6} \cup {3, 7} = {2, 6, 3, 7}
      OBVIOUS
    <2> QED BY <1>2, <2>1, <2>2, LanesTogether
  <1>6. HoldsOnce(quarters[0], TermsOf(m, {0, 4, 1, 5} \cup {2, 6, 3, 7}))
    <2>1. {0, 4, 1, 5} \cap {2, 6, 3, 7} = {}
      OBVIOUS
    <2> QED BY <1>3, <1>4, <1>5, <2>1, LanesTogether
  <1>7. TermsOf(m, {0, 4, 1, 5} \cup {2, 6, 3, 7}) = 0 .. 8 * m - 1
    BY DEF TermsOf
  <1>8. HoldsOnce(quarters[0], 0 .. 8 * m - 1)
    BY <1>6, <1>7
  <1> QED BY <1>8 DEF half, pairs, quarters

LEMMA TailHolds ==
    ASSUME NEW i \in Nat, NEW dim \in Nat, i <= dim, NEW s, HoldsOnce(s, 0 .. i - 1)
    PROVE  HoldsOnce(AddTail(i, dim, s), 0 .. dim - 1)
  <1> DEFINE t == [n \in 1 .. dim - i |-> i + n - 1]
  <1>1. t \in Seq(Nat)
    OBVIOUS
  <1>2. DOMAIN t = 1 .. dim - i /\ \A n \in 1 .. dim - i : t[n] = i + n - 1
    OBVIOUS
  <1>3. AddTail(i, dim, s) = s \o t
    BY DEF AddTail
  <1> HIDE DEF t
  <1>4. IsInjective(t)
    BY <1>2 DEF IsInjective
  <1>5. ToSet(t) = i .. dim - 1
    <2>1. \A n \in 1 .. dim - i : t[n] \in i .. dim - 1
      BY <1>2
    <2>2. \A x \in i .. dim - 1 : x - i + 1 \in 1 .. dim - i /\ t[x - i + 1] = x
      BY <1>2
    <2> QED BY <1>2, <2>1, <2>2 DEF ToSet
  <1>6. HoldsOnce(t, i .. dim - 1)
    BY <1>1, <1>4, <1>5 DEF HoldsOnce
  <1>7. (0 .. i - 1) \cap (i .. dim - 1) = {} /\ (0 .. i - 1) \cup (i .. dim - 1) = 0 .. dim - 1
    OBVIOUS
  <1> QED BY <1>3, <1>6, <1>7, HoldsBoth

\* What one round of the loop does.
Round8(b, dim) ==
    IF ~MoreBlocks(b.i, dim) THEN b
    ELSE [i   |-> (b.i + Block) % DimWidth,
          sum |-> [lane \in 0 .. Block - 1 |-> Append(b.sum[lane], b.i + lane)]]

\* A round goes no further than the vectors do: i + 8 does not wrap.
LEMMA RoundAddsBlock ==
    ASSUME NEW dim \in Dims, NEW m \in Nat, NEW b, AfterBlocks(b, m), 8 * m <= dim
    PROVE  \E n \in Nat : AfterBlocks(Round8(b, dim), n) /\ 8 * n <= dim
  <1>1. CASE ~MoreBlocks(b.i, dim)
    BY <1>1 DEF Round8
  <1>2. CASE MoreBlocks(b.i, dim)
    <2> DEFINE next == Round8(b, dim)
    <2>1. dim \in Nat /\ dim + 8 < DimWidth /\ DimWidth \in Nat \ {0}
      BY DimAssumption DEF Dims, Block
    <2>2. b.i = 8 * m /\ b.i + 8 \in 0 .. DimWidth - 1
      BY <2>1 DEF AfterBlocks
    <2>3. (b.i + 8) % DimWidth = b.i + 8
      BY <2>1, <2>2
    <2>4. b.i + 8 <= dim
      BY <1>2, <2>3 DEF MoreBlocks, Block
    <2>5. /\ next.i = (b.i + 8) % DimWidth
          /\ \A lane \in 0 .. 7 : next.sum[lane] = Append(b.sum[lane], b.i + lane)
      <3>1. next = [i   |-> (b.i + 8) % DimWidth,
                    sum |-> [lane \in 0 .. 8 - 1 |-> Append(b.sum[lane], b.i + lane)]]
        BY <1>2 DEF Round8, Block
      <3>2. 0 .. 8 - 1 = 0 .. 7
        OBVIOUS
      <3> HIDE DEF next
      <3> QED BY <3>1, <3>2
    <2> HIDE DEF next
    <2>6. next.i = 8 * (m + 1) /\ 8 * (m + 1) <= dim
      <3>1. b.i + 8 = 8 * (m + 1)
        BY <2>2
      <3> QED BY <2>3, <2>4, <2>5, <3>1
    <2>7. ASSUME NEW lane \in 0 .. 7
          PROVE  /\ next.sum[lane] \in Seq(Nat) /\ Len(next.sum[lane]) = m + 1
                 /\ \A j \in 1 .. m + 1 : next.sum[lane][j] = 8 * (j - 1) + lane
      <3> DEFINE before == b.sum[lane]
                 after == next.sum[lane]
                 x == b.i + lane
      <3>1. /\ before \in Seq(Nat) /\ Len(before) = m
            /\ \A j \in 1 .. m : before[j] = 8 * (j - 1) + lane
        BY DEF AfterBlocks
      <3>2. after = Append(before, x)
        BY <2>5
      <3>3. x \in Nat /\ x = 8 * ((m + 1) - 1) + lane
        BY <2>2
      <3> HIDE DEF before, after, x
      <3>4. /\ after \in Seq(Nat) /\ Len(after) = m + 1
            /\ after[m + 1] = x /\ \A j \in 1 .. m : after[j] = before[j]
        BY <3>1, <3>2, <3>3
      <3>5. 1 .. m + 1 = (1 .. m) \cup {m + 1}
        OBVIOUS
      <3>6. \A j \in 1 .. m + 1 : after[j] = 8 * (j - 1) + lane
        BY <3>1, <3>3, <3>4, <3>5
      <3> QED BY <3>4, <3>6 DEF after
    <2>8. AfterBlocks(next, m + 1)
      BY <2>6, <2>7 DEF AfterBlocks
    <2> QED BY <2>6, <2>8 DEF next
  <1> QED BY <1>1, <1>2

\* The loop over blocks adds the terms of all dimensions in front of i, and i
\* does not exceed dim (distance.cpp:19-27).
LEMMA BlocksAreAdded ==
    ASSUME NEW dim \in Dims
    PROVE  \E m \in Nat : AfterBlocks(AddBlocks(dim), m) /\ 8 * m <= dim
  <1> DEFINE First == [i |-> 0, sum |-> [lane \in 0 .. Block - 1 |-> <<>>]]
             IsLoop(h) == h = [n \in 0 .. dim |-> IF n = 0 THEN First ELSE Round8(h[n - 1], dim)]
             Good(b) == \E m \in Nat : AfterBlocks(b, m) /\ 8 * m <= dim
             V == [i : Nat, sum : [0 .. 7 -> Seq(Nat)]]
             G == [n \in 1 .. dim |-> [b \in V |-> Round8(b, dim)]]
             loop == CHOOSE h : IsLoop(h)
  <1>1. dim \in Nat /\ DimWidth \in Nat \ {0}
    BY DimAssumption DEF Dims
  <1>2. \E h : IsLoop(h)
    <2>1. ASSUME NEW b \in V PROVE Round8(b, dim) \in V
      <3>1. CASE ~MoreBlocks(b.i, dim)
        BY <3>1 DEF Round8
      <3>2. CASE MoreBlocks(b.i, dim)
        <4>1. (b.i + 8) % DimWidth \in Nat
          <5>1. \A i \in Nat : (i + 8) % DimWidth \in Nat
            <6> HIDE DEF First, IsLoop, Good, V, G, loop
            <6> QED BY <1>1
          <5>2. b.i \in Nat
            OBVIOUS
          <5> QED BY <5>1, <5>2
        <4>2. ASSUME NEW lane \in 0 .. 7 PROVE Append(b.sum[lane], b.i + lane) \in Seq(Nat)
          <5>1. b.sum \in [0 .. 7 -> Seq(Nat)] /\ b.i \in Nat
            OBVIOUS
          <5>2. b.sum[lane] \in Seq(Nat)
            BY <5>1
          <5>3. lane \in Nat
            OBVIOUS
          <5> DEFINE s == b.sum[lane]
                     i == b.i
          <5>4. s \in Seq(Nat) /\ i \in Nat
            BY <5>1, <5>2
          <5> HIDE DEF s, i
          <5>5. Append(s, i + lane) \in Seq(Nat)
            BY <5>3, <5>4
          <5> QED BY <5>5 DEF s, i
        <4> QED BY <3>2, <4>1, <4>2 DEF Round8, Block
      <3> QED BY <3>1, <3>2
    <2>2. \A n \in 1 .. dim : \A b \in V : G[n][b] = Round8(b, dim)
      OBVIOUS
    <2>3. G \in [1 .. dim -> [V -> V]]
      <3> HIDE DEF V
      <3> QED BY <2>1
    <2> DEFINE start == First
    <2>4. start \in V
      BY DEF Block
    <2> HIDE DEF V, G, start
    <2>5. Iterations(dim, V, start, G) # {}
      BY <1>1, <2>3, <2>4, Iterates
    <2>6. PICK f \in [0 .. dim -> V] : f[0] = start /\ \A n \in 1 .. dim : f[n] = G[n][f[n - 1]]
      BY <2>5 DEF Iterations
    <2>7. \A n \in 1 .. dim : f[n] = Round8(f[n - 1], dim)
      <3> SUFFICES ASSUME NEW n \in 1 .. dim PROVE f[n] = Round8(f[n - 1], dim)
        OBVIOUS
      <3>1. n - 1 \in 0 .. dim
        BY <1>1
      <3> QED BY <2>2, <2>6, <3>1
    <2>8. \A n \in 0 .. dim : n # 0 => n \in 1 .. dim
      BY <1>1
    <2>9. f[0] = First
      BY <2>6 DEF start
    <2> HIDE DEF First
    <2>10. IsLoop(f)
      BY <1>1, <2>6, <2>7, <2>8, <2>9
    <2> QED BY <2>10
  <1>3. IsLoop(loop)
    <2> HIDE DEF First
    <2> QED BY <1>2
  <1>4. AddBlocks(dim) = loop[dim]
    BY DEF AddBlocks, Round8
  <1> HIDE DEF loop
  <1>5. loop[0] = First /\ \A n \in 1 .. dim : loop[n] = Round8(loop[n - 1], dim)
    <2> HIDE DEF First
    <2>1. loop = [n \in 0 .. dim |-> IF n = 0 THEN First ELSE Round8(loop[n - 1], dim)]
      BY <1>3
    <2>2. 0 \in 0 .. dim /\ \A n \in 1 .. dim : n \in 0 .. dim /\ n # 0
      BY <1>1
    <2> QED BY <2>1, <2>2
  <1> DEFINE T == {n \in 0 .. dim : Good(loop[n])}
  <1>6. 0 \in T
    <2>1. AfterBlocks(First, 0) /\ 8 * 0 <= dim
      BY <1>1 DEF AfterBlocks, Block
    <2>2. Good(First)
      BY <2>1
    <2> HIDE DEF First, Good
    <2> QED BY <1>1, <1>5, <2>2
  <1>7. ASSUME NEW n \in 1 .. dim, n - 1 \in T PROVE n \in T
    <2>1. PICK m \in Nat : AfterBlocks(loop[n - 1], m) /\ 8 * m <= dim
      BY <1>7
    <2>2. Good(Round8(loop[n - 1], dim))
      BY <2>1, RoundAddsBlock
    <2> HIDE DEF Good, First
    <2> QED BY <1>1, <1>5, <2>2
  <1> HIDE DEF T
  <1>8. dim \in T
    <2>1. 0 .. dim \subseteq T
      BY <1>1, <1>6, <1>7, UpTo
    <2> QED BY <1>1, <2>1
  <1>9. Good(loop[dim])
    <2> HIDE DEF Good
    <2> QED BY <1>8 DEF T
  <1> QED BY <1>4, <1>9

\* The kernel adds every dimension once and reads nothing behind the vectors,
\* for all dimensions that leave room for one more block in the type Dim
\* (distance.cpp:19-41).
THEOREM KernelAddsAll == Spec => []EveryTermOnce
  <1>1. ASSUME IInv PROVE EveryTermOnce
    <2> SUFFICES ASSUME Returned("l2_distance")
                 PROVE  IsInjective(answer[1]) /\ ToSet(answer[1]) = 0 .. call.dim - 1
      BY DEF EveryTermOnce
    <2>1. call.op = "l2_distance" /\ answer # <<>>
      BY DEF Returned
    <2>2. PICK a \in {L2Terms(call.dim)} : answer = <<a>>
      BY <1>1, <2>1 DEF IInv, Gives
    <2>3. call \in KernelCalls
      BY <1>1, <2>1, CallKinds DEF IInv
    <2> DEFINE dim == call.dim
               b == AddBlocks(dim)
               half == AddHalves(b.sum)
               pairs == HorizontalAdd(half, half)
               quarters == HorizontalAdd(pairs, pairs)
    <2>4. dim \in Dims
      BY <2>3, KernelAssumption
    <2>5. dim \in Nat
      BY <2>4 DEF Dims
    <2>6. answer[1] = AddTail(b.i, dim, quarters[0])
      BY <2>2 DEF L2Terms
    <2> HIDE DEF dim
    <2>7. PICK m \in Nat : AfterBlocks(b, m) /\ 8 * m <= dim
      BY <2>4, BlocksAreAdded
    <2>8. HoldsOnce(quarters[0], 0 .. 8 * m - 1)
      <3> HIDE DEF b
      <3> QED BY <2>7, SumHolds
    <2>9. b.i = 8 * m
      BY <2>7 DEF AfterBlocks
    <2> DEFINE i == b.i
               s == quarters[0]
    <2>10. i \in Nat /\ i <= dim /\ HoldsOnce(s, 0 .. i - 1)
      <3>1. HoldsOnce(s, 0 .. i - 1)
        BY <2>8, <2>9
      <3> HIDE DEF quarters, b
      <3> QED BY <2>5, <2>7, <2>9, <3>1
    <2>11. answer[1] = AddTail(i, dim, s)
      BY <2>6
    <2> HIDE DEF i, s
    <2>12. HoldsOnce(answer[1], 0 .. dim - 1)
      BY <2>5, <2>10, <2>11, TailHolds
    <2> QED BY <2>12 DEF HoldsOnce, dim
  <1> QED BY <1>1, AnswersAreGiven, PTL

-----------------------------------------------------------------------------
(* Loops of reads.                                                         *)

Words32 == Nat \cup {"magic", "version", "max_level", "entry_point"}

\* What a read of a member of X may give.
Reads(X) == {Rejected} \cup [ok : {TRUE}, value : X, next : Nat]

OneMore(r, read) == IF ~r.ok THEN r ELSE Followed(r, read[r.next])

\* h[n] is what the first n reads of a loop give, R[n][q] what read n gives at q.
IsLoop(h, N, p, R) ==
    /\ h[0] = Accepted(<<>>, p)
    /\ \A n \in 1 .. N : h[n] = OneMore(h[n - 1], R[n])

LEMMA ReadsAre ==
    ASSUME NEW X, NEW r \in Reads(X)
    PROVE  /\ r.ok => r \in [ok : {TRUE}, value : X, next : Nat]
           /\ ~r.ok => r = Rejected
           /\ ~Rejected.ok
  <1>1. ~Rejected.ok
    BY DEF Rejected
  <1>2. r = Rejected \/ r \in [ok : {TRUE}, value : X, next : Nat]
    BY DEF Reads
  <1>3. \A s \in [ok : {TRUE}, value : X, next : Nat] : s.ok
    OBVIOUS
  <1> QED BY <1>1, <1>2, <1>3

LEMMA FollowedIsRead ==
    ASSUME NEW X, NEW r \in Reads(Seq(X)), r.ok, NEW s \in Reads(X)
    PROVE  /\ Followed(r, s) \in Reads(Seq(X))
           /\ Followed(r, s).ok <=> s.ok
           /\ s.ok => Followed(r, s).next = s.next
  <1>1. r.value \in Seq(X)
    <2>1. r \in [ok : {TRUE}, value : Seq(X), next : Nat]
      BY ReadsAre
    <2> QED BY <2>1
  <1>2. CASE s = Rejected
    BY <1>2 DEF Reads, Rejected, Followed
  <1>3. CASE s \in [ok : {TRUE}, value : X, next : Nat]
    <2>1. Append(r.value, s.value) \in Seq(X)
      BY <1>1, <1>3
    <2>2. Followed(r, s) = Accepted(Append(r.value, s.value), s.next) /\ s.next \in Nat /\ s.ok
      BY <1>3 DEF Followed
    <2> QED BY <2>1, <2>2 DEF Accepted, Reads
  <1> QED BY <1>2, <1>3 DEF Reads

\* There is such an h.
LEMMA LoopExists ==
    ASSUME NEW N \in Nat, NEW X, NEW p \in Nat, NEW R \in [1 .. N -> [Nat -> Reads(X)]]
    PROVE  \E h \in [0 .. N -> Reads(Seq(X))] : IsLoop(h, N, p, R)
  <1> DEFINE V == Reads(Seq(X))
             G == [n \in 1 .. N |-> [r \in V |-> OneMore(r, R[n])]]
             start == Accepted(<<>>, p)
  <1>1. ASSUME NEW n \in 1 .. N, NEW r \in V PROVE OneMore(r, R[n]) \in V
    <2>1. CASE ~r.ok
      BY <2>1 DEF OneMore
    <2>2. CASE r.ok
      <3>1. r.next \in Nat
        <4>1. r \in [ok : {TRUE}, value : Seq(X), next : Nat]
          BY <2>2, ReadsAre
        <4> QED BY <4>1
      <3>2. R[n][r.next] \in Reads(X)
        BY <3>1
      <3>3. OneMore(r, R[n]) = Followed(r, R[n][r.next])
        BY <2>2 DEF OneMore
      <3> QED BY <2>2, <3>2, <3>3, FollowedIsRead
    <2> QED BY <2>1, <2>2
  <1>2. start \in V
    BY DEF Accepted, Reads
  <1>3. \A n \in 1 .. N : \A r \in V : G[n][r] = OneMore(r, R[n])
    OBVIOUS
  <1>4. G \in [1 .. N -> [V -> V]]
    <2> HIDE DEF V
    <2> QED BY <1>1
  <1> HIDE DEF V, G, start
  <1>5. Iterations(N, V, start, G) # {}
    BY <1>2, <1>4, Iterates
  <1>6. PICK h \in [0 .. N -> V] : h[0] = start /\ \A n \in 1 .. N : h[n] = G[n][h[n - 1]]
    BY <1>5 DEF Iterations
  <1>7. ASSUME NEW n \in 1 .. N PROVE h[n] = OneMore(h[n - 1], R[n])
    <2>1. n - 1 \in 0 .. N
      OBVIOUS
    <2> QED BY <1>3, <1>6, <2>1
  <1> QED BY <1>6, <1>7 DEF IsLoop, V, start

\* The reads give the first N members of v one after the other.
GiveInTurn(R, v, N, Q) == \A n \in 1 .. N : R[n][Q[n - 1]] = Accepted(v[n], Q[n])

LEMMA LoopReadsAll ==
    ASSUME NEW N \in Nat, NEW X, NEW v \in Seq(X), N <= Len(v), NEW Q, NEW R, NEW h,
           IsLoop(h, N, Q[0], R), GiveInTurn(R, v, N, Q)
    PROVE  h[N] = Accepted(SubSeq(v, 1, N), Q[N])
  <1> DEFINE T == {n \in 0 .. N : h[n] = Accepted(SubSeq(v, 1, n), Q[n])}
  <1>1. 0 \in T
    <2>1. SubSeq(v, 1, 0) = <<>>
      OBVIOUS
    <2>2. h[0] = Accepted(<<>>, Q[0])
      BY DEF IsLoop
    <2>3. 0 \in 0 .. N
      OBVIOUS
    <2> QED BY <2>1, <2>2, <2>3
  <1>2. ASSUME NEW n \in 1 .. N, n - 1 \in T PROVE n \in T
    <2> DEFINE r == h[n - 1]
               s == R[n][Q[n - 1]]
               done == SubSeq(v, 1, n - 1)
    <2>1. r = Accepted(done, Q[n - 1]) /\ s = Accepted(v[n], Q[n])
      BY <1>2 DEF GiveInTurn
    <2>2. r.ok /\ r.next = Q[n - 1] /\ r.value = done
      BY <2>1 DEF Accepted
    <2>3. h[n] = Followed(r, s)
      BY <2>2 DEF IsLoop, OneMore
    <2>4. s.ok /\ s.value = v[n] /\ s.next = Q[n]
      BY <2>1 DEF Accepted
    <2> HIDE DEF s, r
    <2>5. h[n] = Accepted(Append(done, v[n]), Q[n])
      BY <2>2, <2>3, <2>4 DEF Followed
    <2>6. Append(done, v[n]) = SubSeq(v, 1, n)
      OBVIOUS
    <2> HIDE DEF done
    <2>7. h[n] = Accepted(SubSeq(v, 1, n), Q[n])
      BY <2>5, <2>6
    <2>8. n \in 0 .. N
      OBVIOUS
    <2> QED BY <2>7, <2>8
  <1> HIDE DEF T
  <1>3. N \in T
    <2>1. 0 .. N \subseteq T
      BY <1>1, <1>2, UpTo
    <2> QED BY <2>1
  <1> QED BY <1>3 DEF T

\* Once a read is rejected the loop is.
LEMMA LoopRejects ==
    ASSUME NEW N \in Nat, NEW p, NEW R, NEW h, IsLoop(h, N, p, R), NEW j \in 1 .. N,
           h[j - 1].ok, R[j][h[j - 1].next] = Rejected
    PROVE  ~h[N].ok
  <1> DEFINE T == {n \in 0 .. N : n >= j => h[n] = Rejected}
  <1>1. h[j] = Rejected /\ ~Rejected.ok
    BY DEF IsLoop, OneMore, Followed, Rejected
  <1>2. 0 \in T
    OBVIOUS
  <1>3. ASSUME NEW n \in 1 .. N, n - 1 \in T PROVE n \in T
    <2>1. CASE n < j
      BY <2>1
    <2>2. CASE n = j
      BY <1>1, <2>2
    <2>3. CASE n > j
      <3>1. h[n - 1] = Rejected
        BY <1>3, <2>3
      <3>2. h[n] = Rejected
        BY <1>1, <3>1 DEF IsLoop, OneMore
      <3> QED BY <3>2
    <2> QED BY <2>1, <2>2, <2>3
  <1> HIDE DEF T
  <1>4. N \in T
    <2>1. 0 .. N \subseteq T
      BY <1>2, <1>3, UpTo
    <2> QED BY <2>1
  <1> QED BY <1>1, <1>4 DEF T

\* A read that comes to its end within the first n words of a file, r, gives
\* what it gives in the whole file, s.
Agrees(r, s, n) == r.ok => r = s /\ r.next \in 0 .. n

\* A loop of such reads is one.
LEMMA LoopAgrees ==
    ASSUME NEW N \in Nat, NEW X, NEW L \in Nat, NEW p \in 0 .. L,
           NEW R \in [1 .. N -> [Nat -> Reads(X)]], NEW S \in [1 .. N -> [Nat -> Reads(X)]],
           \A n \in 1 .. N : \A q \in 0 .. L : Agrees(R[n][q], S[n][q], L),
           NEW h \in [0 .. N -> Reads(Seq(X))], IsLoop(h, N, p, R),
           NEW k \in [0 .. N -> Reads(Seq(X))], IsLoop(k, N, p, S)
    PROVE  Agrees(h[N], k[N], L)
  <1> DEFINE T == {n \in 0 .. N : Agrees(h[n], k[n], L)}
  <1>1. 0 \in T
    <2>1. h[0] = Accepted(<<>>, p) /\ k[0] = Accepted(<<>>, p)
      BY DEF IsLoop
    <2>2. Accepted(<<>>, p).next = p
      BY DEF Accepted
    <2>3. Agrees(h[0], k[0], L)
      BY <2>1, <2>2 DEF Agrees
    <2> QED BY <2>3
  <1>2. ASSUME NEW n \in 1 .. N, n - 1 \in T PROVE n \in T
    <2>1. n - 1 \in 0 .. N /\ n \in 0 .. N
      OBVIOUS
    <2> SUFFICES ASSUME h[n].ok PROVE h[n] = k[n] /\ h[n].next \in 0 .. L
      BY <2>1 DEF Agrees
    <2> DEFINE r == h[n - 1]
               q == r.next
               a == R[n][q]
               b == S[n][q]
    <2>2. h[n] = OneMore(r, R[n]) /\ k[n] = OneMore(k[n - 1], S[n])
      BY DEF IsLoop
    <2>3. r.ok
      BY <2>2 DEF OneMore
    <2>4. r = k[n - 1] /\ q \in 0 .. L
      BY <1>2, <2>3 DEF Agrees
    <2>5. h[n] = Followed(r, a) /\ k[n] = Followed(r, b)
      BY <2>2, <2>3, <2>4 DEF OneMore
    <2>6. r \in Reads(Seq(X)) /\ a \in Reads(X)
      BY <2>1, <2>4
    <2>7. Agrees(a, b, L)
      BY <2>4
    <2> HIDE DEF r, a, b
    <2>8. a.ok /\ h[n].next = a.next
      BY <2>3, <2>5, <2>6, FollowedIsRead
    <2>9. a = b /\ a.next \in 0 .. L
      BY <2>7, <2>8 DEF Agrees
    <2> QED BY <2>5, <2>8, <2>9
  <1> HIDE DEF T
  <1>3. N \in T
    <2>1. 0 .. N \subseteq T
      BY <1>1, <1>2, UpTo
    <2> QED BY <2>1
  <1> QED BY <1>3 DEF T

-----------------------------------------------------------------------------
(* hnsw.bin.                                                               *)

\* s stands behind position p of the file.
At(file, p, s) ==
    /\ p + Len(s) <= Len(file)
    /\ \A i \in 1 .. Len(s) : file[p + i] = s[i]

LEMMA AtBoth ==
    ASSUME NEW X, NEW s \in Seq(X), NEW t \in Seq(X), NEW Y, NEW file \in Seq(Y), NEW p \in Nat,
           At(file, p, s \o t)
    PROVE  At(file, p, s) /\ At(file, p + Len(s), t)
  <1> DEFINE m == Len(s)
             n == Len(t)
             u == s \o t
  <1>1. /\ m \in Nat /\ n \in Nat /\ Len(u) = m + n /\ Len(file) \in Nat
        /\ \A i \in 1 .. m : u[i] = s[i]
        /\ \A i \in 1 .. n : u[m + i] = t[i]
    OBVIOUS
  <1>2. p + Len(u) <= Len(file) /\ \A i \in 1 .. Len(u) : file[p + i] = u[i]
    BY DEF At
  <1> HIDE DEF m, n, u
  <1>3. p + m <= Len(file) /\ (p + m) + n <= Len(file)
    BY <1>1, <1>2
  <1>4. ASSUME NEW i \in 1 .. m PROVE file[p + i] = s[i]
    <2>1. i \in 1 .. Len(u)
      BY <1>1
    <2> QED BY <1>1, <1>2, <2>1
  <1>5. ASSUME NEW i \in 1 .. n PROVE file[(p + m) + i] = t[i]
    <2>1. m + i \in 1 .. Len(u) /\ p + (m + i) = (p + m) + i
      BY <1>1
    <2> QED BY <1>1, <1>2, <2>1
  <1> QED BY <1>3, <1>4, <1>5 DEF At, m, n

\* What is flattened grows by one sequence after the other.
LEMMA FlatGrows ==
    ASSUME NEW X, NEW ls \in Seq(Seq(X))
    PROVE  \E f \in [0 .. Len(ls) -> Seq(X)] :
              /\ f[0] = <<>> /\ f[Len(ls)] = FlattenSeq(ls)
              /\ \A n \in 1 .. Len(ls) : f[n] = f[n - 1] \o ls[n]
  <1> DEFINE N == Len(ls)
             V == Seq(X)
             G == [n \in 1 .. N |-> [s \in V |-> s \o ls[n]]]
             IsFlat(h) == h = [i \in 1 .. N |-> IF i = 1 THEN ls[i] ELSE h[i - 1] \o ls[i]]
             flat == CHOOSE h : IsFlat(h)
             start == <<>>
  <1>1. N \in Nat /\ \A n \in 1 .. N : ls[n] \in V
    OBVIOUS
  <1>2. CASE N = 0
    <2>1. FlattenSeq(ls) = ls /\ ls = <<>> /\ Len(ls) = 0
      BY <1>2 DEF FlattenSeq
    <2>2. [n \in {0} |-> ls] \in [0 .. 0 -> Seq(X)]
      BY <2>1
    <2>3. [n \in {0} |-> ls][0] = ls
      OBVIOUS
    <2>4. 1 .. 0 = {}
      OBVIOUS
    <2> QED BY <2>1, <2>2, <2>3, <2>4
  <1>3. CASE N # 0
    <2>1. start \in V
      OBVIOUS
    <2>2. G \in [1 .. N -> [V -> V]]
      <3>1. \A n \in 1 .. N : \A s \in V : s \o ls[n] \in V
        OBVIOUS
      <3> HIDE DEF N, V
      <3> QED BY <3>1
    <2>3. \A n \in 1 .. N : \A s \in V : G[n][s] = s \o ls[n]
      OBVIOUS
    <2> HIDE DEF N, V, G, start
    <2>4. Iterations(N, V, start, G) # {}
      BY <1>1, <2>1, <2>2, Iterates
    <2>5. PICK f \in [0 .. N -> V] : f[0] = start /\ \A n \in 1 .. N : f[n] = G[n][f[n - 1]]
      BY <2>4 DEF Iterations
    <2>6. ASSUME NEW n \in 1 .. N
          PROVE  f[n - 1] \in V /\ f[n] \in V /\ f[n] = f[n - 1] \o ls[n]
      <3>1. n - 1 \in 0 .. N /\ n \in 0 .. N
        BY <1>1
      <3> QED BY <2>3, <2>5, <3>1
    <2>7. f[1] = ls[1]
      <3>1. f[1] = <<>> \o ls[1] /\ ls[1] \in Seq(X)
        <4>1. 1 \in 1 .. N /\ 1 - 1 = 0
          BY <1>1, <1>3
        <4> QED BY <1>1, <2>5, <2>6, <4>1 DEF start, V
      <3> QED BY <3>1
    <2>8. \E h : IsFlat(h)
      <3> DEFINE h == [i \in 1 .. N |-> f[i]]
      <3>1. ASSUME NEW i \in 1 .. N
            PROVE  h[i] = IF i = 1 THEN ls[i] ELSE h[i - 1] \o ls[i]
        <4>1. CASE i = 1
          BY <2>7, <4>1
        <4>2. CASE i # 1
          <5>1. i - 1 \in 1 .. N
            BY <1>1, <4>2
          <5> QED BY <2>6, <4>2, <5>1
        <4> QED BY <4>1, <4>2
      <3>2. h = [i \in 1 .. N |-> h[i]]
        OBVIOUS
      <3> HIDE DEF h
      <3>3. IsFlat(h)
        BY <3>1, <3>2
      <3> QED BY <3>3
    <2>9. IsFlat(flat)
      BY <2>8
    <2>10. FlattenSeq(ls) = flat[N]
      BY <1>3 DEF FlattenSeq, N
    <2> HIDE DEF flat
    <2>11. ASSUME NEW i \in 1 .. N PROVE flat[i] = IF i = 1 THEN ls[i] ELSE flat[i - 1] \o ls[i]
      BY <2>9
    <2> DEFINE S == {i \in 0 .. N : i # 0 => flat[i] = f[i]}
    <2>12. 0 \in S
      BY <1>1
    <2>13. ASSUME NEW i \in 1 .. N, i - 1 \in S PROVE i \in S
      <3>1. i \in 0 .. N
        BY <1>1
      <3>2. CASE i = 1
        BY <2>7, <2>11, <3>1, <3>2
      <3>3. CASE i # 1
        <4>1. flat[i - 1] = f[i - 1]
          BY <2>13, <3>3
        <4> QED BY <2>6, <2>11, <3>1, <3>3, <4>1
      <3> QED BY <3>2, <3>3
    <2> HIDE DEF S
    <2>14. N \in S
      <3>1. 0 .. N \subseteq S
        BY <1>1, <2>12, <2>13, UpTo
      <3> QED BY <1>1, <3>1
    <2>15. FlattenSeq(ls) = f[N] /\ f[N] \in V
      <3>1. N \in 0 .. N
        BY <1>1
      <3> QED BY <1>3, <2>5, <2>10, <2>14, <3>1 DEF S
    <2>16. f \in [0 .. Len(ls) -> Seq(X)] /\ \A n \in 1 .. Len(ls) : f[n] = f[n - 1] \o ls[n]
      BY <2>5, <2>6 DEF N, V
    <2> QED BY <2>5, <2>15, <2>16 DEF N, start
  <1> QED BY <1>2, <1>3

LEMMA FlatIsSeq ==
    ASSUME NEW X, NEW ls \in Seq(Seq(X))
    PROVE  FlattenSeq(ls) \in Seq(X)
  <1>1. PICK f \in [0 .. Len(ls) -> Seq(X)] : f[Len(ls)] = FlattenSeq(ls)
    BY FlatGrows
  <1>2. Len(ls) \in 0 .. Len(ls)
    OBVIOUS
  <1> QED BY <1>1, <1>2

\* The sequences of ls stand one behind the other, from position Q[0] to Q[N].
InARow(file, ls, Q) ==
    \A n \in 1 .. Len(ls) : /\ Q[n - 1] \in Nat
                            /\ At(file, Q[n - 1], ls[n])
                            /\ Q[n] = Q[n - 1] + Len(ls[n])

LEMMA FlatInARow ==
    ASSUME NEW X, NEW ls \in Seq(Seq(X)), NEW Y, NEW file \in Seq(Y), NEW p \in Nat,
           At(file, p, FlattenSeq(ls))
    PROVE  \E Q : /\ Q[0] = p /\ Q[Len(ls)] = p + Len(FlattenSeq(ls))
                  /\ InARow(file, ls, Q)
  <1> DEFINE N == Len(ls)
             V == Seq(X)
  <1>1. N \in Nat /\ \A n \in 1 .. N : ls[n] \in V
    OBVIOUS
  <1>2. PICK f \in [0 .. N -> V] : /\ f[0] = <<>> /\ f[N] = FlattenSeq(ls)
                                  /\ \A n \in 1 .. N : f[n] = f[n - 1] \o ls[n]
    BY FlatGrows
  <1> HIDE DEF N, V
  <1>3. ASSUME NEW n \in 1 .. N PROVE f[n - 1] \in V /\ f[n] = f[n - 1] \o ls[n]
    <2>1. n - 1 \in 0 .. N
      BY <1>1
    <2> QED BY <1>2, <2>1
  \* Backwards: what is flattened stands at p, and so does every part of it.
  <1> DEFINE T == {i \in 0 .. N : At(file, p, f[N - i])}
  <1>4. 0 \in T
    <2>1. N - 0 = N /\ 0 \in 0 .. N
      BY <1>1
    <2> QED BY <1>2, <2>1
  <1>5. ASSUME NEW n \in 1 .. N, At(file, p, f[n])
         PROVE  At(file, p, f[n - 1]) /\ At(file, p + Len(f[n - 1]), ls[n])
    BY <1>1, <1>3, <1>5, AtBoth DEF V
  <1>6. ASSUME NEW i \in 1 .. N, i - 1 \in T PROVE i \in T
    <2>1. N - (i - 1) \in 1 .. N /\ (N - (i - 1)) - 1 = N - i /\ i \in 0 .. N
      BY <1>1
    <2> QED BY <1>5, <1>6, <2>1
  <1> HIDE DEF T
  <1>7. ASSUME NEW n \in 0 .. N PROVE At(file, p, f[n])
    <2>1. 0 .. N \subseteq T
      BY <1>1, <1>4, <1>6, UpTo
    <2>2. N - n \in 0 .. N /\ N - (N - n) = n
      BY <1>1
    <2> QED BY <2>1, <2>2 DEF T
  <1> DEFINE Q == [n \in 0 .. N |-> p + Len(f[n])]
  <1>8. Q[0] = p /\ Q[N] = p + Len(f[N])
    <2>1. 0 \in 0 .. N /\ N \in 0 .. N
      BY <1>1
    <2>2. Q[0] = p + Len(f[0]) /\ Q[N] = p + Len(f[N])
      BY <2>1
    <2> HIDE DEF Q
    <2>3. Len(f[0]) = 0
      BY <1>2
    <2> QED BY <2>2, <2>3
  <1>9. ASSUME NEW n \in 1 .. N
         PROVE  /\ Q[n - 1] \in Nat /\ At(file, Q[n - 1], ls[n])
                /\ Q[n] = Q[n - 1] + Len(ls[n])
    <2>1. n - 1 \in 0 .. N /\ n \in 0 .. N
      BY <1>1
    <2>2. Q[n - 1] = p + Len(f[n - 1]) /\ Q[n] = p + Len(f[n])
      BY <2>1
    <2>3. Len(f[n]) = Len(f[n - 1]) + Len(ls[n]) /\ Len(f[n - 1]) \in Nat /\ Len(ls[n]) \in Nat
      <3>1. f[n - 1] \in Seq(X) /\ ls[n] \in Seq(X)
        BY <1>1, <1>3 DEF V
      <3>2. \A a, b \in Seq(X) : /\ Len(a \o b) = Len(a) + Len(b)
                                 /\ Len(a) \in Nat /\ Len(b) \in Nat
        OBVIOUS
      <3>3. /\ Len(f[n - 1] \o ls[n]) = Len(f[n - 1]) + Len(ls[n])
            /\ Len(f[n - 1]) \in Nat /\ Len(ls[n]) \in Nat
        BY <3>1, <3>2
      <3> QED BY <1>3, <3>3
    <2>4. At(file, Q[n - 1], ls[n])
      BY <1>5, <1>7, <2>1, <2>2
    <2> HIDE DEF Q
    <2> DEFINE a == Len(f[n - 1])
               b == Len(ls[n])
    <2>5. /\ a \in Nat /\ b \in Nat /\ Len(f[n]) = a + b
          /\ Q[n - 1] = p + a /\ Q[n] = p + Len(f[n])
      BY <2>2, <2>3
    <2> HIDE DEF a, b
    <2>6. Q[n - 1] \in Nat /\ Q[n] = Q[n - 1] + b
      BY <2>5
    <2> QED BY <2>4, <2>6 DEF b
  <1> HIDE DEF Q
  <1>10. InARow(file, ls, Q)
    BY <1>9 DEF InARow, N
  <1> QED BY <1>2, <1>8, <1>10 DEF V, N

LEMMA WordsAre ==
    ASSUME NEW file \in Seq(Words32), NEW p \in Nat, NEW n \in Nat
    PROVE  /\ Words(file, p, n) \in Seq(Words32) /\ Len(Words(file, p, n)) = n
           /\ Holds(file, p, n) => \A i \in 1 .. n : Words(file, p, n)[i] = file[p + i]
  <1>1. ASSUME NEW i \in 1 .. n
        PROVE  (IF p + i <= Len(file) THEN file[p + i] ELSE 0) \in Words32
    BY DEF Words32
  <1>2. Words(file, p, n) \in [1 .. n -> Words32]
    BY <1>1 DEF Words
  <1>3. ASSUME Holds(file, p, n), NEW i \in 1 .. n PROVE Words(file, p, n)[i] = file[p + i]
    BY <1>3 DEF Words, Holds
  <1> QED BY <1>2, <1>3

\* What file has left is the first part of whole.
IsStart(file, whole) ==
    Len(file) <= Len(whole) /\ \A i \in 1 .. Len(file) : file[i] = whole[i]

LEMMA WordsAgree ==
    ASSUME NEW file \in Seq(Words32), NEW whole \in Seq(Words32), IsStart(file, whole),
           NEW p \in Nat, NEW n \in Nat, Holds(file, p, n)
    PROVE  Holds(whole, p, n) /\ Words(whole, p, n) = Words(file, p, n)
  <1>1. Holds(whole, p, n)
    BY DEF IsStart, Holds
  <1>2. ASSUME NEW i \in 1 .. n
        PROVE  (IF p + i <= Len(file) THEN file[p + i] ELSE 0)
                  = (IF p + i <= Len(whole) THEN whole[p + i] ELSE 0)
    <2>1. p + i \in 1 .. Len(file) /\ p + i <= Len(whole)
      BY <1>1 DEF Holds
    <2> QED BY <2>1 DEF IsStart
  <1> QED BY <1>1, <1>2 DEF Words

-----------------------------------------------------------------------------
(* One list.                                                               *)

\* What ReadList() does when the count is there.
CountAt(file, p) == Words(file, p, 1)[1]

ListBehind(file, p, limit) ==
    LET n == CountAt(file, p)
    IN  IF ~(n \in 0 .. limit) \/ ~Holds(file, p + 1, n) THEN Rejected
        ELSE Accepted(Words(file, p + 1, n), p + 1 + n)

LEMMA ReadListIs ==
    ASSUME NEW file, NEW p, NEW limit
    PROVE  ReadList(file, p, limit) =
              IF ~Holds(file, p, 1) THEN Rejected ELSE ListBehind(file, p, limit)
  BY DEF ReadList, ListBehind, CountAt

LEMMA ListIsTyped ==
    ASSUME NEW file \in Seq(Words32), NEW p \in Nat, NEW limit \in Nat
    PROVE  ReadList(file, p, limit) \in Reads(Seq(Words32))
  <1> DEFINE n == CountAt(file, p)
  <1>1. CASE ~Holds(file, p, 1) \/ ~(n \in 0 .. limit) \/ ~Holds(file, p + 1, n)
    <2>1. ReadList(file, p, limit) = Rejected
      BY <1>1, ReadListIs DEF ListBehind
    <2> QED BY <2>1 DEF Reads
  <1>2. CASE ~(~Holds(file, p, 1) \/ ~(n \in 0 .. limit) \/ ~Holds(file, p + 1, n))
    <2>1. ReadList(file, p, limit) = Accepted(Words(file, p + 1, n), p + 1 + n)
      BY <1>2, ReadListIs DEF ListBehind
    <2>2. n \in Nat /\ p + 1 \in Nat /\ p + 1 + n \in Nat
      <3> HIDE DEF n
      <3> QED BY <1>2
    <2> HIDE DEF n
    <2>3. Words(file, p + 1, n) \in Seq(Words32)
      BY <2>2, WordsAre
    <2> QED BY <2>1, <2>2, <2>3 DEF Accepted, Reads
  <1> QED BY <1>1, <1>2

LEMMA ListAgrees ==
    ASSUME NEW file \in Seq(Words32), NEW whole \in Seq(Words32), IsStart(file, whole),
           NEW p \in 0 .. Len(file), NEW limit \in Nat
    PROVE  Agrees(ReadList(file, p, limit), ReadList(whole, p, limit), Len(file))
  <1> DEFINE n == CountAt(file, p)
             r == ReadList(file, p, limit)
  <1> SUFFICES ASSUME r.ok PROVE r = ReadList(whole, p, limit) /\ r.next \in 0 .. Len(file)
    BY DEF Agrees
  <1>1. ~Rejected.ok
    BY DEF Rejected
  <1>2. Holds(file, p, 1) /\ n \in 0 .. limit /\ Holds(file, p + 1, n)
    <2>1. r = IF ~Holds(file, p, 1) THEN Rejected ELSE ListBehind(file, p, limit)
      BY ReadListIs
    <2> HIDE DEF r
    <2> QED BY <1>1, <2>1 DEF ListBehind
  <1>3. r = Accepted(Words(file, p + 1, n), p + 1 + n)
    BY <1>2, ReadListIs DEF ListBehind
  <1>4. Len(file) \in Nat /\ p \in Nat
    OBVIOUS
  <1>5. Holds(whole, p, 1) /\ CountAt(whole, p) = n
    BY <1>2, <1>4, WordsAgree DEF CountAt
  <1> HIDE DEF n, r
  <1>6. n \in Nat /\ p + 1 \in Nat
    BY <1>2, <1>4
  <1>7. Holds(whole, p + 1, n) /\ Words(whole, p + 1, n) = Words(file, p + 1, n)
    BY <1>2, <1>6, WordsAgree
  <1>8. ReadList(whole, p, limit) = Accepted(Words(whole, p + 1, n), p + 1 + n)
    BY <1>2, <1>5, <1>7, ReadListIs DEF ListBehind
  <1>9. r.next = p + 1 + n /\ p + 1 + n \in 0 .. Len(file)
    BY <1>2, <1>3, <1>4, <1>6 DEF Accepted, Holds
  <1> QED BY <1>3, <1>7, <1>8, <1>9 DEF r

\* A list that was written is read back.
LEMMA ListIsRead ==
    ASSUME NEW file \in Seq(Words32), NEW p \in Nat, NEW limit \in Nat,
           NEW s \in Seq(Nat), Len(s) <= limit, At(file, p, List(s))
    PROVE  ReadList(file, p, limit) = Accepted(s, p + 1 + Len(s))
  <1> DEFINE n == Len(s)
  <1>1. /\ n \in Nat /\ List(s) \in Seq(Nat) /\ Len(List(s)) = 1 + n
        /\ List(s)[1] = n /\ \A i \in 1 .. n : List(s)[1 + i] = s[i]
    BY DEF List
  <1> HIDE DEF n
  <1>2. p + (1 + n) <= Len(file) /\ \A i \in 1 .. 1 + n : file[p + i] = List(s)[i]
    BY <1>1 DEF At
  <1>3. Len(file) \in Nat
    OBVIOUS
  <1>4. Holds(file, p, 1) /\ Holds(file, p + 1, n)
    BY <1>1, <1>2, <1>3 DEF Holds
  <1>5. CountAt(file, p) = n
    <2>1. 1 \in 1 .. 1 /\ 1 \in 1 .. 1 + n
      BY <1>1
    <2>2. Words(file, p, 1)[1] = file[p + 1]
      BY <1>4, <2>1, WordsAre
    <2> QED BY <1>1, <1>2, <2>1, <2>2 DEF CountAt
  <1>6. Words(file, p + 1, n) = s
    <2>1. \A i \in 1 .. n : Words(file, p + 1, n)[i] = file[(p + 1) + i]
      <3>1. p + 1 \in Nat
        OBVIOUS
      <3> QED BY <1>1, <1>4, <3>1, WordsAre
    <2>2. ASSUME NEW i \in 1 .. n PROVE file[(p + 1) + i] = s[i]
      <3>1. 1 + i \in 1 .. 1 + n /\ p + (1 + i) = (p + 1) + i
        BY <1>1
      <3> QED BY <1>1, <1>2, <3>1
    <2>3. Words(file, p + 1, n) = [i \in 1 .. n |-> s[i]]
      BY <2>1, <2>2 DEF Words
    <2>4. s = [i \in 1 .. n |-> s[i]]
      BY DEF n
    <2> QED BY <2>3, <2>4
  <1>7. n \in 0 .. limit
    BY <1>1 DEF n
  <1> QED BY <1>4, <1>5, <1>6, <1>7, ReadListIs DEF ListBehind, n

-----------------------------------------------------------------------------
(* The lists of a node.                                                    *)

ListReads(file, limits) ==
    [n \in 1 .. Len(limits) |-> [q \in Nat |-> ReadList(file, q, limits[n])]]

LEMMA ListsLoop ==
    ASSUME NEW file \in Seq(Words32), NEW p \in Nat, NEW limits \in Seq(Nat)
    PROVE  /\ ListReads(file, limits) \in [1 .. Len(limits) -> [Nat -> Reads(Seq(Words32))]]
           /\ \E h \in [0 .. Len(limits) -> Reads(Seq(Seq(Words32)))] :
                 /\ IsLoop(h, Len(limits), p, ListReads(file, limits))
                 /\ ReadLists(file, p, limits) = h[Len(limits)]
  <1> DEFINE N == Len(limits)
             R == ListReads(file, limits)
             Step(r, n) == IF ~r.ok THEN r ELSE Followed(r, ReadList(file, r.next, limits[n]))
             IsReads(h) == h = [n \in 0 .. N |-> IF n = 0 THEN Accepted(<<>>, p)
                                                          ELSE Step(h[n - 1], n)]
             reads == CHOOSE h : IsReads(h)
             V == Reads(Seq(Seq(Words32)))
  <1>1. N \in Nat /\ \A n \in 1 .. N : limits[n] \in Nat
    OBVIOUS
  <1>2. R \in [1 .. N -> [Nat -> Reads(Seq(Words32))]]
    <2>1. \A n \in 1 .. N : \A q \in Nat : ReadList(file, q, limits[n]) \in Reads(Seq(Words32))
      BY <1>1, ListIsTyped
    <2> QED BY <2>1 DEF ListReads
  <1>3. \A n \in 1 .. N : \A q \in Nat : R[n][q] = ReadList(file, q, limits[n])
    BY DEF ListReads
  <1>4. ReadLists(file, p, limits) = reads[N]
    BY DEF ReadLists, ReadAll
  <1> HIDE DEF N, R, V, Step
  <1>5. ASSUME NEW r \in V, NEW n \in 1 .. N PROVE Step(r, n) = OneMore(r, R[n])
    <2>1. CASE ~r.ok
      BY <2>1 DEF Step, OneMore
    <2>2. CASE r.ok
      <3>1. r \in [ok : {TRUE}, value : Seq(Seq(Words32)), next : Nat]
        BY <2>2, ReadsAre DEF V
      <3> QED BY <1>3, <2>2, <3>1 DEF Step, OneMore
    <2> QED BY <2>1, <2>2
  <1>6. PICK h \in [0 .. N -> V] : IsLoop(h, N, p, R)
    BY <1>1, <1>2, LoopExists DEF V
  <1>7. ASSUME NEW n \in 0 .. N
        PROVE  h[n] = IF n = 0 THEN Accepted(<<>>, p) ELSE Step(h[n - 1], n)
    <2>1. n # 0 => n \in 1 .. N /\ n - 1 \in 0 .. N
      BY <1>1
    <2>2. n # 0 => h[n - 1] \in V
      BY <1>6, <2>1
    <2> QED BY <1>5, <1>6, <2>1, <2>2 DEF IsLoop
  <1>8. IsReads(h)
    BY <1>6, <1>7
  <1>9. IsReads(reads)
    BY <1>8
  <1> HIDE DEF reads
  <1>10. ASSUME NEW n \in 0 .. N
         PROVE  reads[n] = IF n = 0 THEN Accepted(<<>>, p) ELSE Step(reads[n - 1], n)
    BY <1>9
  <1> DEFINE T == {n \in 0 .. N : reads[n] = h[n]}
  <1>11. 0 \in T
    <2>1. 0 \in 0 .. N
      BY <1>1
    <2> QED BY <1>7, <1>10, <2>1
  <1>12. ASSUME NEW n \in 1 .. N, n - 1 \in T PROVE n \in T
    <2>1. n \in 0 .. N /\ n # 0 /\ reads[n - 1] = h[n - 1]
      BY <1>1, <1>12
    <2> QED BY <1>7, <1>10, <2>1
  <1> HIDE DEF T
  <1>13. N \in T
    <2>1. 0 .. N \subseteq T
      BY <1>1, <1>11, <1>12, UpTo
    <2> QED BY <1>1, <2>1
  <1>14. reads[N] = h[N]
    BY <1>13 DEF T
  <1> QED BY <1>2, <1>4, <1>6, <1>14 DEF N, R, V

LEMMA ListsAreTyped ==
    ASSUME NEW file \in Seq(Words32), NEW p \in Nat, NEW limits \in Seq(Nat)
    PROVE  ReadLists(file, p, limits) \in Reads(Seq(Seq(Words32)))
  <1>1. PICK h \in [0 .. Len(limits) -> Reads(Seq(Seq(Words32)))] :
           ReadLists(file, p, limits) = h[Len(limits)]
    BY ListsLoop
  <1>2. Len(limits) \in 0 .. Len(limits)
    OBVIOUS
  <1> QED BY <1>1, <1>2

LEMMA ListsAgree ==
    ASSUME NEW file \in Seq(Words32), NEW whole \in Seq(Words32), IsStart(file, whole),
           NEW p \in 0 .. Len(file), NEW limits \in Seq(Nat)
    PROVE  Agrees(ReadLists(file, p, limits), ReadLists(whole, p, limits), Len(file))
  <1> DEFINE N == Len(limits)
             L == Len(file)
             R == ListReads(file, limits)
             S == ListReads(whole, limits)
  <1>1. N \in Nat /\ L \in Nat /\ p \in Nat /\ p \in 0 .. L /\ \A n \in 1 .. N : limits[n] \in Nat
    OBVIOUS
  <1>2. /\ R \in [1 .. N -> [Nat -> Reads(Seq(Words32))]]
        /\ S \in [1 .. N -> [Nat -> Reads(Seq(Words32))]]
    BY <1>1, ListsLoop
  <1>3. PICK h \in [0 .. N -> Reads(Seq(Seq(Words32)))] :
           IsLoop(h, N, p, R) /\ ReadLists(file, p, limits) = h[N]
    BY <1>1, ListsLoop
  <1>4. PICK k \in [0 .. N -> Reads(Seq(Seq(Words32)))] :
           IsLoop(k, N, p, S) /\ ReadLists(whole, p, limits) = k[N]
    BY <1>1, ListsLoop
  <1>5. ASSUME NEW n \in 1 .. N, NEW q \in 0 .. L PROVE Agrees(R[n][q], S[n][q], L)
    <2>1. R[n][q] = ReadList(file, q, limits[n]) /\ S[n][q] = ReadList(whole, q, limits[n])
      <3>1. q \in Nat
        BY <1>1
      <3> QED BY <3>1 DEF ListReads
    <2> QED BY <1>1, <2>1, ListAgrees
  <1> HIDE DEF N, L, R, S
  <1>6. Agrees(h[N], k[N], L)
    BY <1>1, <1>2, <1>3, <1>4, <1>5, LoopAgrees
  <1> QED BY <1>3, <1>4, <1>6 DEF L

\* Lists that were written in a row are read back.
LEMMA ListsAreRead ==
    ASSUME NEW file \in Seq(Words32), NEW ls \in Seq(Seq(Nat)), NEW limits \in Seq(Nat),
           Len(limits) = Len(ls), \A n \in 1 .. Len(ls) : Len(ls[n]) <= limits[n],
           NEW Q, Q[0] \in Nat, InARow(file, [n \in 1 .. Len(ls) |-> List(ls[n])], Q)
    PROVE  ReadLists(file, Q[0], limits) = Accepted(ls, Q[Len(ls)])
  <1> DEFINE N == Len(ls)
             R == ListReads(file, limits)
             p == Q[0]
  <1>1. N \in Nat /\ Len(limits) = N
    OBVIOUS
  <1>2. PICK h : IsLoop(h, N, p, R) /\ ReadLists(file, p, limits) = h[N]
    BY <1>1, ListsLoop
  <1>3. ASSUME NEW n \in 1 .. N PROVE R[n][Q[n - 1]] = Accepted(ls[n], Q[n])
    <2> DEFINE row == [i \in 1 .. N |-> List(ls[i])]
               s == ls[n]
    <2>1. Len(row) = N /\ row[n] = List(s) /\ n \in 1 .. Len(row) /\ InARow(file, row, Q)
      BY <1>1
    <2> HIDE DEF row
    <2>2. Q[n - 1] \in Nat /\ At(file, Q[n - 1], List(s)) /\ Q[n] = Q[n - 1] + Len(List(s))
      BY <2>1 DEF InARow
    <2>3. s \in Seq(Nat) /\ limits[n] \in Nat /\ Len(s) <= limits[n]
      BY <1>1
    <2> HIDE DEF s
    <2>4. Len(List(s)) = 1 + Len(s) /\ Len(s) \in Nat
      BY <2>3 DEF List
    <2>5. Q[n - 1] + 1 + Len(s) = Q[n]
      <3> DEFINE a == Len(s)
                 b == Q[n - 1]
                 c == Q[n]
                 d == Len(List(s))
      <3>1. b \in Nat /\ c = b + d /\ d = 1 + a /\ a \in Nat
        BY <2>2, <2>4
      <3> HIDE DEF a, b, c, d
      <3>2. b + 1 + a = c
        BY <3>1
      <3> QED BY <3>2 DEF a, b, c
    <2>6. ReadList(file, Q[n - 1], limits[n]) = Accepted(s, Q[n])
      BY <2>2, <2>3, <2>5, ListIsRead
    <2>7. R[n][Q[n - 1]] = ReadList(file, Q[n - 1], limits[n])
      BY <1>1, <2>2 DEF ListReads
    <2> QED BY <2>6, <2>7 DEF s
  <1> HIDE DEF R, p, N
  <1>4. IsLoop(h, N, Q[0], R) /\ N <= Len(ls)
    BY <1>1, <1>2 DEF p, N
  <1>5. h[N] = Accepted(SubSeq(ls, 1, N), Q[N])
    <2>1. GiveInTurn(R, ls, N, Q)
      BY <1>3 DEF GiveInTurn
    <2>2. N \in Nat /\ N <= Len(ls) /\ ls \in Seq(Seq(Nat))
      BY <1>1, <1>4
    <2>3. IsLoop(h, N, Q[0], R)
      BY <1>4
    <2> QED BY <2>1, <2>2, <2>3, LoopReadsAll, ZenonT(60)
  <1>6. SubSeq(ls, 1, N) = ls
    BY DEF N
  <1> QED BY <1>2, <1>5, <1>6 DEF N, p

-----------------------------------------------------------------------------
(* One node.                                                               *)

NodeLimits(m, level) == <<Layer0Limit(m)>> \o [l \in 1 .. level |-> m]

\* The node of the lists that were read for it.
NodeOf(lists) ==
    IF ~lists.ok THEN Rejected
    ELSE Accepted([layer0 |-> Head(lists.value), upper |-> Tail(lists.value)], lists.next)

NodeBehind(file, p, m) == NodeOf(ReadLists(file, p + 1, NodeLimits(m, CountAt(file, p))))

LevelIsThere(file, p) == Holds(file, p, 1) /\ CountAt(file, p) \in 0 .. MaxLevelOnDisk

LEMMA ReadNodeIs ==
    ASSUME NEW file, NEW p, NEW m
    PROVE  ReadNode(file, p, m) =
              IF LevelIsThere(file, p) THEN NodeBehind(file, p, m) ELSE Rejected
  BY DEF ReadNode, LevelIsThere, NodeBehind, NodeOf, NodeLimits, CountAt

LEMMA LimitsAre ==
    ASSUME NEW m \in Nat, NEW level \in Nat
    PROVE  /\ NodeLimits(m, level) \in Seq(Nat)
           /\ Len(NodeLimits(m, level)) = 1 + level
           /\ NodeLimits(m, level)[1] = Layer0Limit(m)
           /\ \A l \in 1 .. level : NodeLimits(m, level)[1 + l] = m
  <1> DEFINE s == <<Layer0Limit(m)>>
             t == [l \in 1 .. level |-> m]
  <1>1. /\ s \in Seq(Nat) /\ Len(s) = 1 /\ s[1] = Layer0Limit(m)
        /\ t \in Seq(Nat) /\ Len(t) = level /\ \A l \in 1 .. level : t[l] = m
    BY DEF Layer0Limit
  <1> HIDE DEF s, t
  <1>2. /\ s \o t \in Seq(Nat) /\ Len(s \o t) = 1 + level /\ (s \o t)[1] = s[1]
        /\ \A l \in 1 .. level : (s \o t)[1 + l] = t[l]
    <2>1. \A x, y \in Seq(Nat) :
             /\ x \o y \in Seq(Nat) /\ Len(x \o y) = Len(x) + Len(y)
             /\ \A l \in 1 .. Len(x) : (x \o y)[l] = x[l]
             /\ \A l \in 1 .. Len(y) : (x \o y)[Len(x) + l] = y[l]
      OBVIOUS
    <2>2. 1 \in 1 .. Len(s)
      BY <1>1
    <2>3. /\ s \o t \in Seq(Nat) /\ Len(s \o t) = Len(s) + Len(t)
          /\ \A l \in 1 .. Len(s) : (s \o t)[l] = s[l]
          /\ \A l \in 1 .. Len(t) : (s \o t)[Len(s) + l] = t[l]
      BY <1>1, <2>1
    <2> DEFINE u == s \o t
    <2> HIDE DEF u
    <2> QED BY <1>1, <2>2, <2>3 DEF u
  <1> QED BY <1>1, <1>2 DEF NodeLimits, s, t

\* What a node may be read as, from whatever file.
NodeValues(m) == {ReadNode(file, p, m).value : file \in Seq(Words32), p \in Nat}

LEMMA NodeIsTyped ==
    ASSUME NEW file \in Seq(Words32), NEW p \in Nat, NEW m \in Nat
    PROVE  ReadNode(file, p, m) \in Reads(NodeValues(m))
  <1> DEFINE r == ReadNode(file, p, m)
             level == CountAt(file, p)
             lists == ReadLists(file, p + 1, NodeLimits(m, level))
             node == [layer0 |-> Head(lists.value), upper |-> Tail(lists.value)]
  <1>1. CASE r = Rejected
    BY <1>1 DEF Reads
  <1>2. CASE r # Rejected
    <2>1. LevelIsThere(file, p) /\ r = NodeOf(lists)
      BY <1>2, ReadNodeIs DEF NodeBehind
    <2>2. lists.ok /\ r = Accepted(node, lists.next)
      BY <1>2, <2>1 DEF NodeOf
    <2>3. level \in Nat /\ p + 1 \in Nat
      <3> HIDE DEF level
      <3>1. level \in 0 .. MaxLevelOnDisk
        BY <2>1 DEF LevelIsThere, level
      <3> QED BY <3>1
    <2>4. NodeLimits(m, level) \in Seq(Nat)
      <3> HIDE DEF level
      <3> QED BY <2>3, LimitsAre
    <2>5. lists \in Reads(Seq(Seq(Words32)))
      <3> HIDE DEF level
      <3> QED BY <2>3, <2>4, ListsAreTyped
    <2>6. lists.next \in Nat
      <3> HIDE DEF lists
      <3>1. lists \in [ok : {TRUE}, value : Seq(Seq(Words32)), next : Nat]
        BY <2>2, <2>5, ReadsAre
      <3> QED BY <3>1
    <2>7. r.value \in NodeValues(m)
      BY DEF NodeValues
    <2> DEFINE v == r.value
               next == lists.next
    <2> HIDE DEF r, lists, node
    <2>8. r = [ok |-> TRUE, value |-> v, next |-> next]
      BY <2>2 DEF Accepted
    <2>9. v \in NodeValues(m) /\ next \in Nat
      BY <2>6, <2>7
    <2> HIDE DEF v, next
    <2>10. r \in Reads(NodeValues(m))
      BY <2>8, <2>9 DEF Reads
    <2> QED BY <2>10 DEF r
  <1> QED BY <1>1, <1>2

LEMMA NodeAgrees ==
    ASSUME NEW file \in Seq(Words32), NEW whole \in Seq(Words32), IsStart(file, whole),
           NEW p \in 0 .. Len(file), NEW m \in Nat
    PROVE  Agrees(ReadNode(file, p, m), ReadNode(whole, p, m), Len(file))
  <1> DEFINE r == ReadNode(file, p, m)
             level == CountAt(file, p)
             limits == NodeLimits(m, level)
             a == ReadLists(file, p + 1, limits)
             b == ReadLists(whole, p + 1, limits)
  <1> SUFFICES ASSUME r.ok PROVE r = ReadNode(whole, p, m) /\ r.next \in 0 .. Len(file)
    BY DEF Agrees
  <1>1. ~Rejected.ok
    BY DEF Rejected
  <1>2. LevelIsThere(file, p) /\ r = NodeOf(a)
    BY <1>1, ReadNodeIs DEF NodeBehind
  <1>3. a.ok
    <2> HIDE DEF a, r
    <2> QED BY <1>1, <1>2 DEF NodeOf
  <1>4. Len(file) \in Nat /\ p \in Nat
    OBVIOUS
  <1>5. p + 1 \in 0 .. Len(file) /\ level \in Nat
    <2> HIDE DEF level
    <2>1. Holds(file, p, 1) /\ level \in 0 .. MaxLevelOnDisk
      BY <1>2 DEF LevelIsThere, level
    <2> QED BY <1>4, <2>1 DEF Holds
  <1>6. Holds(whole, p, 1) /\ CountAt(whole, p) = level
    BY <1>2, <1>4, WordsAgree DEF LevelIsThere, CountAt
  <1>7. limits \in Seq(Nat)
    <2> HIDE DEF level
    <2> QED BY <1>5, LimitsAre
  <1>8. Agrees(a, b, Len(file))
    <2> HIDE DEF limits
    <2> QED BY <1>5, <1>7, ListsAgree
  <1>9. a = b /\ a.next \in 0 .. Len(file)
    <2> HIDE DEF a, b
    <2> QED BY <1>3, <1>8 DEF Agrees
  <1>10. LevelIsThere(whole, p)
    BY <1>2, <1>6 DEF LevelIsThere
  <1>11. ReadNode(whole, p, m) = NodeOf(b)
    BY <1>6, <1>10, ReadNodeIs DEF NodeBehind
  <1>12. r.next = a.next
    <2> HIDE DEF a, r
    <2> QED BY <1>2, <1>3 DEF NodeOf, Accepted
  <1> QED BY <1>2, <1>9, <1>11, <1>12

Nodes == [layer0 : Seq(Nat), upper : Seq(Seq(Nat))]

Uppers(node) == [l \in DOMAIN node.upper |-> List(node.upper[l])]

LEMMA ListIsSeq ==
    ASSUME NEW s \in Seq(Nat)
    PROVE  List(s) \in Seq(Nat) /\ Len(List(s)) = 1 + Len(s)
  BY DEF List

LEMMA UppersAre ==
    ASSUME NEW node \in Nodes
    PROVE  /\ node.layer0 \in Seq(Nat) /\ node.upper \in Seq(Seq(Nat))
           /\ Uppers(node) \in Seq(Seq(Nat)) /\ Len(Uppers(node)) = Len(node.upper)
           /\ \A l \in 1 .. Len(node.upper) : Uppers(node)[l] = List(node.upper[l])
  <1>1. node.layer0 \in Seq(Nat) /\ node.upper \in Seq(Seq(Nat))
    BY DEF Nodes
  <1> DEFINE u == node.upper
             N == Len(u)
  <1>2. N \in Nat /\ DOMAIN u = 1 .. N /\ \A l \in 1 .. N : u[l] \in Seq(Nat)
    BY <1>1
  <1>3. Uppers(node) = [l \in 1 .. N |-> List(u[l])]
    BY <1>2 DEF Uppers
  <1> HIDE DEF u, N
  <1>4. \A l \in 1 .. N : List(u[l]) \in Seq(Nat)
    BY <1>2, ListIsSeq
  <1>5. Uppers(node) \in [1 .. N -> Seq(Nat)]
    BY <1>3, <1>4
  <1>6. Uppers(node) \in Seq(Seq(Nat)) /\ Len(Uppers(node)) = N
    BY <1>2, <1>5
  <1> QED BY <1>1, <1>3, <1>6 DEF N, u

LEMMA NodeWordsAre ==
    ASSUME NEW node \in Nodes
    PROVE  /\ NodeWords(node) \in Seq(Nat)
           /\ FlattenSeq(Uppers(node)) \in Seq(Nat)
           /\ Len(NodeWords(node)) = 2 + Len(node.layer0) + Len(FlattenSeq(Uppers(node)))
  <1> DEFINE a == <<Len(node.upper)>>
             b == List(node.layer0)
             c == FlattenSeq(Uppers(node))
  <1>1. a \in Seq(Nat) /\ Len(a) = 1
    <2>1. Len(node.upper) \in Nat
      BY UppersAre
    <2> QED BY <2>1
  <1>2. b \in Seq(Nat) /\ Len(b) = 1 + Len(node.layer0) /\ Len(node.layer0) \in Nat
    <2>1. node.layer0 \in Seq(Nat)
      BY UppersAre
    <2> QED BY <2>1, ListIsSeq
  <1>3. c \in Seq(Nat)
    <2>1. Uppers(node) \in Seq(Seq(Nat))
      BY UppersAre
    <2> QED BY <2>1, FlatIsSeq
  <1>4. NodeWords(node) = (a \o b) \o c
    BY DEF NodeWords, Uppers
  <1> DEFINE i == Len(node.layer0)
  <1> HIDE DEF a, b, c, i
  <1>5. \A x, y \in Seq(Nat) : x \o y \in Seq(Nat) /\ Len(x \o y) = Len(x) + Len(y)
                                 /\ Len(x) \in Nat /\ Len(y) \in Nat
    OBVIOUS
  <1>6. a \o b \in Seq(Nat) /\ Len(a \o b) = Len(a) + Len(b)
    BY <1>1, <1>2, <1>5
  <1>7. (a \o b) \o c \in Seq(Nat) /\ Len((a \o b) \o c) = Len(a \o b) + Len(c)
    BY <1>3, <1>5, <1>6
  <1>8. Len(b) = 1 + i /\ i \in Nat /\ Len(c) \in Nat
    BY <1>2, <1>3, <1>5 DEF i
  <1>9. Len(NodeWords(node)) = 2 + i + Len(c)
    <2> DEFINE lc == Len(c)
               lb == Len(b)
               la == Len(a)
               lab == Len(a \o b)
               all == Len((a \o b) \o c)
    <2>1. all = lab + lc /\ lab = la + lb /\ la = 1 /\ lb = 1 + i /\ i \in Nat /\ lc \in Nat
      BY <1>1, <1>6, <1>7, <1>8
    <2> HIDE DEF lc, lb, la, lab, all
    <2>2. all = 2 + i + lc
      BY <2>1
    <2> QED BY <1>4, <2>2 DEF all, lc
  <1> QED BY <1>3, <1>4, <1>7, <1>9 DEF c, i

\* A node that was written: its level, and behind it its lists.
LEMMA NodeIsThere ==
    ASSUME NEW file \in Seq(Words32), NEW p \in Nat, NEW node \in Nodes,
           At(file, p, NodeWords(node))
    PROVE  /\ Holds(file, p, 1) /\ CountAt(file, p) = Len(node.upper)
           /\ At(file, p + 1, List(node.layer0))
           /\ At(file, p + 2 + Len(node.layer0), FlattenSeq(Uppers(node)))
  <1> DEFINE a == <<Len(node.upper)>>
             b == List(node.layer0)
             c == FlattenSeq(Uppers(node))
             i == Len(node.layer0)
  <1>1. a \in Seq(Nat) /\ Len(a) = 1 /\ a[1] = Len(node.upper)
    <2>1. Len(node.upper) \in Nat
      BY UppersAre
    <2> QED BY <2>1
  <1>2. b \in Seq(Nat) /\ Len(b) = 1 + i /\ i \in Nat
    <2>1. node.layer0 \in Seq(Nat)
      BY UppersAre
    <2>2. b \in Seq(Nat) /\ Len(b) = 1 + i
      BY <2>1, ListIsSeq
    <2>3. i \in Nat
      BY <2>1
    <2> QED BY <2>2, <2>3
  <1>3. c \in Seq(Nat)
    BY NodeWordsAre
  <1>4. NodeWords(node) = (a \o b) \o c
    BY DEF NodeWords, Uppers
  <1> HIDE DEF a, b, c, i
  <1>5. a \o b \in Seq(Nat) /\ Len(a \o b) = 1 + Len(b)
    <2>1. \A x, y \in Seq(Nat) : x \o y \in Seq(Nat) /\ Len(x \o y) = Len(x) + Len(y)
      OBVIOUS
    <2>2. a \o b \in Seq(Nat) /\ Len(a \o b) = Len(a) + Len(b)
      BY <1>1, <1>2, <2>1
    <2> QED BY <1>1, <2>2
  <1>6. At(file, p, a \o b) /\ At(file, p + Len(a \o b), c)
    BY <1>3, <1>4, <1>5, AtBoth
  <1>7. At(file, p, a) /\ At(file, p + Len(a), b)
    BY <1>1, <1>2, <1>6, AtBoth
  <1>8. p + Len(a \o b) = p + 2 + i
    <2> DEFINE lb == Len(b)
               lab == Len(a \o b)
    <2>1. lab = 1 + lb /\ lb = 1 + i /\ i \in Nat
      BY <1>2, <1>5
    <2> HIDE DEF lb, lab
    <2>2. p + lab = p + 2 + i
      BY <2>1
    <2> QED BY <2>2 DEF lab
  <1>9. p + 1 <= Len(file) /\ file[p + 1] = a[1]
    <2>1. 1 \in 1 .. 1
      OBVIOUS
    <2> QED BY <1>1, <1>7, <2>1 DEF At
  <1>10. Holds(file, p, 1) /\ CountAt(file, p) = file[p + 1]
    <2>1. Holds(file, p, 1)
      BY <1>9 DEF Holds
    <2>2. 1 \in 1 .. 1 /\ 1 \in Nat
      OBVIOUS
    <2> QED BY <2>1, <2>2, WordsAre DEF CountAt
  <1>11. At(file, p + 1, b) /\ At(file, p + 2 + i, c)
    BY <1>1, <1>6, <1>7, <1>8
  <1> QED BY <1>1, <1>9, <1>10, <1>11 DEF b, c, i

\* A level beyond what load_hnsw() takes for plausible is refused.
LEMMA NodeIsRefused ==
    ASSUME NEW file \in Seq(Words32), NEW p \in Nat, NEW m, NEW node \in Nodes,
           At(file, p, NodeWords(node)), Len(node.upper) > MaxLevelOnDisk
    PROVE  ReadNode(file, p, m) = Rejected
  <1>1. CountAt(file, p) = Len(node.upper)
    BY NodeIsThere
  <1>2. Len(node.upper) \in Nat
    BY UppersAre
  <1> DEFINE n == Len(node.upper)
  <1>3. n \in Nat /\ n > MaxLevelOnDisk
    BY <1>2
  <1> HIDE DEF n
  <1>4. n \notin 0 .. MaxLevelOnDisk
    BY <1>3, LevelAssumption
  <1>5. ~LevelIsThere(file, p)
    BY <1>1, <1>4 DEF LevelIsThere, n
  <1> QED BY <1>5, ReadNodeIs

\* What insert() leaves of a node, of a level that load_hnsw() takes for plausible.
Loadable(node, m) ==
    /\ Len(node.layer0) <= Layer0Limit(m)
    /\ Len(node.upper) <= MaxLevelOnDisk
    /\ \A l \in 1 .. Len(node.upper) : Len(node.upper[l]) <= m

\* The lists of a node in the order in which they are written.
ListsOf(node) == <<node.layer0>> \o node.upper

LEMMA ListsOfNode ==
    ASSUME NEW node \in Nodes
    PROVE  /\ ListsOf(node) \in Seq(Seq(Nat)) /\ Len(ListsOf(node)) = 1 + Len(node.upper)
           /\ ListsOf(node)[1] = node.layer0
           /\ \A l \in 1 .. Len(node.upper) : ListsOf(node)[1 + l] = node.upper[l]
           /\ [layer0 |-> Head(ListsOf(node)), upper |-> Tail(ListsOf(node))] = node
  <1> DEFINE X == Seq(Nat)
             a == node.layer0
             u == node.upper
  <1>1. a \in X /\ u \in Seq(X)
    BY DEF Nodes
  <1>2. node = [layer0 |-> a, upper |-> u]
    BY DEF Nodes
  <1> HIDE DEF X, a, u
  <1>3. /\ <<a>> \o u \in Seq(X) /\ Len(<<a>> \o u) = 1 + Len(u)
        /\ (<<a>> \o u)[1] = a
        /\ \A l \in 1 .. Len(u) : (<<a>> \o u)[1 + l] = u[l]
    BY <1>1
  <1>4. Head(<<a>> \o u) = a
    BY <1>1
  <1>5. Tail(<<a>> \o u) = u
    BY <1>1
  <1> QED BY <1>2, <1>3, <1>4, <1>5 DEF ListsOf, X, a, u

\* The lists stand in a row, those of the upper layers behind that of layer 0.
LEMMA ListsInARow ==
    ASSUME NEW file \in Seq(Words32), NEW p \in Nat, NEW node \in Nodes,
           At(file, p, NodeWords(node))
    PROVE  \E Q : /\ Q[0] = p + 1 /\ Q[1 + Len(node.upper)] = p + Len(NodeWords(node))
                  /\ InARow(file, [n \in 1 .. Len(ListsOf(node)) |-> List(ListsOf(node)[n])], Q)
  <1> DEFINE ls == ListsOf(node)
             N == Len(node.upper)
             i == Len(node.layer0)
             us == Uppers(node)
             q == p + 2 + i
             row == [n \in 1 .. Len(ls) |-> List(ls[n])]
  <1>1. N \in Nat /\ i \in Nat /\ q \in Nat
    <2>1. node.layer0 \in Seq(Nat) /\ node.upper \in Seq(Seq(Nat))
      BY UppersAre
    <2>2. N \in Nat /\ i \in Nat
      BY <2>1
    <2> HIDE DEF N, i
    <2> QED BY <2>2
  <1>2. us \in Seq(Seq(Nat)) /\ Len(us) = N /\ \A l \in 1 .. N : us[l] = List(node.upper[l])
    BY UppersAre
  <1>3. /\ At(file, p + 1, List(node.layer0)) /\ At(file, q, FlattenSeq(us))
        /\ Len(List(node.layer0)) = 1 + i
    BY NodeIsThere, UppersAre, ListIsSeq
  <1>4. Len(ls) = 1 + N /\ ls[1] = node.layer0 /\ \A l \in 1 .. N : ls[1 + l] = node.upper[l]
    BY ListsOfNode
  <1>5. Len(NodeWords(node)) = 2 + i + Len(FlattenSeq(us)) /\ Len(FlattenSeq(us)) \in Nat
    BY NodeWordsAre
  <1> HIDE DEF ls, N, i, us, q
  <1>6. PICK U : U[0] = q /\ U[N] = q + Len(FlattenSeq(us)) /\ InARow(file, us, U)
    BY <1>1, <1>2, <1>3, FlatInARow
  <1> DEFINE Q == [n \in 0 .. 1 + N |-> IF n = 0 THEN p + 1 ELSE U[n - 1]]
  <1>7. \A n \in 1 .. 1 + N : Q[n] = U[n - 1]
    BY <1>1
  <1>8. Q[0] = p + 1
    BY <1>1
  <1>9. Q[1] = q /\ Q[1 + N] = U[N]
    <2>1. 1 \in 1 .. 1 + N /\ 1 + N \in 1 .. 1 + N /\ 1 - 1 = 0 /\ (1 + N) - 1 = N
      BY <1>1
    <2> HIDE DEF Q
    <2> QED BY <1>6, <1>7, <2>1
  <1>10. Len(row) = 1 + N /\ \A n \in 1 .. 1 + N : row[n] = List(ls[n])
    BY <1>1, <1>4
  <1> HIDE DEF Q, row
  <1>11. ASSUME NEW n \in 1 .. 1 + N
         PROVE  Q[n - 1] \in Nat /\ At(file, Q[n - 1], row[n]) /\ Q[n] = Q[n - 1] + Len(row[n])
    <2>1. CASE n = 1
      <3>1. row[1] = List(node.layer0) /\ 1 - 1 = 0
        BY <1>4, <1>10, <2>1
      <3>2. q = (p + 1) + (1 + i) /\ p + 1 \in Nat
        BY <1>1 DEF q
      <3> QED BY <1>3, <1>8, <1>9, <2>1, <3>1, <3>2
    <2>2. CASE n # 1
      <3> DEFINE l == n - 1
      <3>1. l \in 1 .. N /\ n = 1 + l /\ l \in 1 .. 1 + N /\ l - 1 = (n - 1) - 1
        BY <1>1, <2>2
      <3>2. Q[n] = U[l] /\ Q[n - 1] = U[l - 1]
        BY <1>7, <3>1
      <3> HIDE DEF l
      <3>3. row[n] = us[l]
        BY <1>2, <1>4, <1>10, <3>1
      <3>4. U[l - 1] \in Nat /\ At(file, U[l - 1], us[l]) /\ U[l] = U[l - 1] + Len(us[l])
        BY <1>2, <1>6, <3>1 DEF InARow
      <3> QED BY <3>2, <3>3, <3>4
    <2> QED BY <2>1, <2>2
  <1>12. InARow(file, row, Q)
    BY <1>10, <1>11 DEF InARow
  <1>13. Q[1 + N] = p + Len(NodeWords(node))
    <2> DEFINE f == Len(FlattenSeq(us))
               w == Len(NodeWords(node))
    <2>1. Q[1 + N] = q + f /\ w = 2 + i + f /\ f \in Nat
      BY <1>5, <1>6, <1>9
    <2> HIDE DEF f, w
    <2>2. Q[1 + N] = p + w
      BY <1>1, <2>1 DEF q
    <2> QED BY <2>2 DEF w
  <1> QED BY <1>8, <1>12, <1>13 DEF row, ls, N

\* A node that was written is read back.
LEMMA NodeIsRead ==
    ASSUME NEW file \in Seq(Words32), NEW p \in Nat, NEW m \in Nat, NEW node \in Nodes,
           At(file, p, NodeWords(node)), Loadable(node, m)
    PROVE  ReadNode(file, p, m) = Accepted(node, p + Len(NodeWords(node)))
  <1> DEFINE ls == ListsOf(node)
             N == Len(node.upper)
             limits == NodeLimits(m, N)
             next == p + Len(NodeWords(node))
  <1>1. N \in Nat /\ LevelIsThere(file, p) /\ CountAt(file, p) = N
    <2>1. N \in Nat /\ N <= MaxLevelOnDisk
      BY UppersAre DEF Loadable
    <2>2. Holds(file, p, 1) /\ CountAt(file, p) = N
      BY NodeIsThere
    <2> HIDE DEF N
    <2>3. N \in 0 .. MaxLevelOnDisk
      BY <2>1, LevelAssumption
    <2> QED BY <2>1, <2>2, <2>3 DEF LevelIsThere
  <1>2. /\ ls \in Seq(Seq(Nat)) /\ Len(ls) = 1 + N /\ ls[1] = node.layer0
        /\ \A l \in 1 .. N : ls[1 + l] = node.upper[l]
        /\ [layer0 |-> Head(ls), upper |-> Tail(ls)] = node
    BY ListsOfNode
  <1>3. PICK Q : /\ Q[0] = p + 1 /\ Q[1 + N] = next
                 /\ InARow(file, [n \in 1 .. Len(ls) |-> List(ls[n])], Q)
    BY ListsInARow
  <1>4. /\ Len(node.layer0) <= Layer0Limit(m)
        /\ \A l \in 1 .. N : Len(node.upper[l]) <= m
    BY DEF Loadable
  <1> HIDE DEF ls, N, next
  <1>5. /\ limits \in Seq(Nat) /\ Len(limits) = 1 + N /\ limits[1] = Layer0Limit(m)
        /\ \A l \in 1 .. N : limits[1 + l] = m
    BY <1>1, LimitsAre
  <1> HIDE DEF limits
  <1>6. ASSUME NEW n \in 1 .. 1 + N PROVE Len(ls[n]) <= limits[n]
    <2>1. CASE n = 1
      BY <1>2, <1>4, <1>5, <2>1
    <2>2. CASE n # 1
      <3> DEFINE l == n - 1
      <3>1. l \in 1 .. N /\ n = 1 + l
        BY <1>1, <2>2
      <3> HIDE DEF l
      <3> QED BY <1>2, <1>4, <1>5, <3>1
    <2> QED BY <2>1, <2>2
  <1>7. ReadLists(file, Q[0], limits) = Accepted(ls, Q[Len(ls)])
    <2>1. \A n \in 1 .. Len(ls) : Len(ls[n]) <= limits[n]
      BY <1>2, <1>6
    <2>2. Len(limits) = Len(ls) /\ Q[0] \in Nat
      BY <1>2, <1>3, <1>5
    <2> QED BY <1>2, <1>3, <1>5, <2>1, <2>2, ListsAreRead
  <1>8. ReadNode(file, p, m) = NodeOf(Accepted(ls, next))
    BY <1>1, <1>2, <1>3, <1>7, ReadNodeIs DEF NodeBehind, limits
  <1>9. NodeOf(Accepted(ls, next)) = Accepted([layer0 |-> Head(ls), upper |-> Tail(ls)], next)
    BY DEF NodeOf, Accepted
  <1> QED BY <1>2, <1>8, <1>9 DEF next

-----------------------------------------------------------------------------
(* All nodes.                                                              *)

NodesRead(file, m, N, p) == ReadAll(LAMBDA n, q : ReadNode(file, q, m), N, p)

NodeReads(file, m, N) == [n \in 1 .. N |-> [q \in Nat |-> ReadNode(file, q, m)]]

LEMMA NodesLoop ==
    ASSUME NEW file \in Seq(Words32), NEW p \in Nat, NEW m \in Nat, NEW N \in Nat
    PROVE  /\ NodeReads(file, m, N) \in [1 .. N -> [Nat -> Reads(NodeValues(m))]]
           /\ \E h \in [0 .. N -> Reads(Seq(NodeValues(m)))] :
                 /\ IsLoop(h, N, p, NodeReads(file, m, N))
                 /\ NodesRead(file, m, N, p) = h[N]
  <1> DEFINE R == NodeReads(file, m, N)
             Step(r) == IF ~r.ok THEN r ELSE Followed(r, ReadNode(file, r.next, m))
             IsReads(h) == h = [n \in 0 .. N |-> IF n = 0 THEN Accepted(<<>>, p)
                                                          ELSE Step(h[n - 1])]
             reads == CHOOSE h : IsReads(h)
             V == Reads(Seq(NodeValues(m)))
  <1>1. R \in [1 .. N -> [Nat -> Reads(NodeValues(m))]]
    <2>1. \A q \in Nat : ReadNode(file, q, m) \in Reads(NodeValues(m))
      BY NodeIsTyped
    <2> QED BY <2>1 DEF NodeReads
  <1>2. \A n \in 1 .. N : \A q \in Nat : R[n][q] = ReadNode(file, q, m)
    BY DEF NodeReads
  <1>3. NodesRead(file, m, N, p) = reads[N]
    BY DEF NodesRead, ReadAll
  <1> HIDE DEF R, V, Step
  <1>4. ASSUME NEW r \in V, NEW n \in 1 .. N PROVE Step(r) = OneMore(r, R[n])
    <2>1. CASE ~r.ok
      BY <2>1 DEF Step, OneMore
    <2>2. CASE r.ok
      <3>1. r \in [ok : {TRUE}, value : Seq(NodeValues(m)), next : Nat]
        BY <2>2, ReadsAre DEF V
      <3> QED BY <1>2, <2>2, <3>1 DEF Step, OneMore
    <2> QED BY <2>1, <2>2
  <1>5. PICK h \in [0 .. N -> V] : IsLoop(h, N, p, R)
    BY <1>1, LoopExists DEF V
  <1>6. ASSUME NEW n \in 0 .. N
        PROVE  h[n] = IF n = 0 THEN Accepted(<<>>, p) ELSE Step(h[n - 1])
    <2>1. n # 0 => n \in 1 .. N /\ n - 1 \in 0 .. N
      OBVIOUS
    <2>2. n # 0 => h[n - 1] \in V
      BY <1>5, <2>1
    <2> QED BY <1>4, <1>5, <2>1, <2>2 DEF IsLoop
  <1>7. IsReads(h)
    BY <1>5, <1>6
  <1>8. IsReads(reads)
    BY <1>7
  <1> HIDE DEF reads
  <1>9. ASSUME NEW n \in 0 .. N
        PROVE  reads[n] = IF n = 0 THEN Accepted(<<>>, p) ELSE Step(reads[n - 1])
    BY <1>8
  <1> DEFINE T == {n \in 0 .. N : reads[n] = h[n]}
  <1>10. 0 \in T
    <2>1. 0 \in 0 .. N
      OBVIOUS
    <2> QED BY <1>6, <1>9, <2>1
  <1>11. ASSUME NEW n \in 1 .. N, n - 1 \in T PROVE n \in T
    <2>1. n \in 0 .. N /\ n # 0 /\ reads[n - 1] = h[n - 1]
      BY <1>11
    <2> QED BY <1>6, <1>9, <2>1
  <1> HIDE DEF T
  <1>12. N \in T
    <2>1. 0 .. N \subseteq T
      BY <1>10, <1>11, UpTo
    <2> QED BY <2>1
  <1>13. reads[N] = h[N]
    BY <1>12 DEF T
  <1> QED BY <1>1, <1>3, <1>5, <1>13 DEF R, V

-----------------------------------------------------------------------------
(* The file.                                                               *)

Row(g) == [i \in 1 .. Len(g.nodes) |-> NodeWords(g.nodes[i])]

\* All levels are such that load_hnsw() takes them for plausible.
LevelsPlausible(g) == \A i \in 1 .. Len(g.nodes) : Len(g.nodes[i].upper) <= MaxLevelOnDisk

LEMMA GraphsAre ==
    ASSUME NEW g \in Graphs
    PROVE  /\ g = [m |-> g.m, max_level |-> g.max_level, entry_point |-> g.entry_point,
                   nodes |-> g.nodes]
           /\ {g.m, g.max_level, g.entry_point} \subseteq Nat /\ g.nodes \in Seq(Nodes)
           /\ Row(g) \in Seq(Seq(Nat)) /\ Len(Row(g)) = Len(g.nodes)
           /\ \A i \in 1 .. Len(g.nodes) :
                 /\ g.nodes[i] \in Nodes /\ Row(g)[i] = NodeWords(g.nodes[i])
                 /\ Len(g.nodes[i].upper) <= MaxLevelOnDisk => Loadable(g.nodes[i], g.m)
  <1>1. g \in [m : Nat, max_level : Nat, entry_point : Nat, nodes : Seq(Nodes)]
    BY DEF Graphs, Nodes
  <1> DEFINE ns == g.nodes
             N == Len(ns)
  <1>2. /\ g = [m |-> g.m, max_level |-> g.max_level, entry_point |-> g.entry_point,
                nodes |-> ns]
        /\ {g.m, g.max_level, g.entry_point} \subseteq Nat /\ ns \in Seq(Nodes)
    BY <1>1
  <1>3. /\ N \in Nat /\ DOMAIN ns = 1 .. N
        /\ \A i \in 1 .. N : ns[i] \in Nodes
    BY <1>2
  <1>4. \A i \in 1 .. N : /\ Len(ns[i].layer0) <= Layer0Limit(g.m)
                          /\ \A l \in DOMAIN ns[i].upper : Len(ns[i].upper[l]) <= g.m
    BY <1>3 DEF Graphs
  <1>5. Row(g) = [i \in 1 .. N |-> NodeWords(ns[i])]
    BY DEF Row
  <1> HIDE DEF N
  <1>6. \A i \in 1 .. N : NodeWords(ns[i]) \in Seq(Nat)
    BY <1>3, NodeWordsAre
  <1>7. Row(g) \in Seq(Seq(Nat)) /\ Len(Row(g)) = N
    <2>1. Row(g) \in [1 .. N -> Seq(Nat)]
      BY <1>5, <1>6
    <2> QED BY <1>3, <2>1
  <1>8. ASSUME NEW i \in 1 .. N, Len(ns[i].upper) <= MaxLevelOnDisk
        PROVE  Loadable(ns[i], g.m)
    <2>1. DOMAIN ns[i].upper = 1 .. Len(ns[i].upper)
      <3>1. ns[i].upper \in Seq(Seq(Nat))
        BY <1>3, UppersAre
      <3> QED BY <3>1
    <2> QED BY <1>4, <1>8, <2>1 DEF Loadable
  <1> QED BY <1>2, <1>3, <1>5, <1>7, <1>8 DEF N

\* The header, and the nodes behind it.
LEMMA FileIs ==
    ASSUME NEW g \in Graphs
    PROVE  /\ HnswWritten(g) \in Seq(Words32)
           /\ Len(HnswWritten(g)) = 6 + Len(FlattenSeq(Row(g)))
           /\ Len(FlattenSeq(Row(g))) \in Nat
           /\ HnswWritten(g)[3] = g.m /\ HnswWritten(g)[4] = g.max_level
           /\ HnswWritten(g)[5] = g.entry_point /\ HnswWritten(g)[6] = Len(g.nodes)
           /\ At(HnswWritten(g), 6, FlattenSeq(Row(g)))
  <1> DEFINE whole == HnswWritten(g)
             a == Header(g)
             b == FlattenSeq(Row(g))
  <1>1. /\ a \in Seq(Words32) /\ Len(a) = 6
        /\ a[3] = g.m /\ a[4] = g.max_level /\ a[5] = g.entry_point /\ a[6] = Len(g.nodes)
    <2>1. {g.m, g.max_level, g.entry_point} \subseteq Nat /\ Len(g.nodes) \in Nat
      BY GraphsAre
    <2> QED BY <2>1 DEF Header, Words32
  <1>2. b \in Seq(Words32)
    <2>1. b \in Seq(Nat)
      BY GraphsAre, FlatIsSeq
    <2> HIDE DEF b
    <2> QED BY <2>1 DEF Words32
  <1>3. whole = a \o b
    <2>1. DOMAIN g.nodes = 1 .. Len(g.nodes)
      BY GraphsAre
    <2> QED BY <2>1 DEF HnswWritten, Row
  <1> HIDE DEF a, b
  <1>4. /\ a \o b \in Seq(Words32) /\ Len(a \o b) = 6 + Len(b) /\ Len(b) \in Nat
        /\ (a \o b)[3] = a[3] /\ (a \o b)[6] = a[6]
    <2>1. \A x, y \in Seq(Words32) :
             /\ x \o y \in Seq(Words32) /\ Len(x \o y) = Len(x) + Len(y) /\ Len(y) \in Nat
             /\ Len(x) = 6 => (x \o y)[3] = x[3] /\ (x \o y)[6] = x[6]
      OBVIOUS
    <2>2. /\ a \o b \in Seq(Words32) /\ Len(a \o b) = Len(a) + Len(b) /\ Len(b) \in Nat
          /\ (a \o b)[3] = a[3] /\ (a \o b)[6] = a[6]
      BY <1>1, <1>2, <2>1
    <2> QED BY <1>1, <2>2
  <1> HIDE DEF whole
  <1>5. whole \in Seq(Words32)
    BY <1>3, <1>4
  <1>6. At(whole, 0, a \o b)
    <2>1. \A i \in 1 .. Len(whole) : whole[0 + i] = whole[i]
      OBVIOUS
    <2>2. 0 + Len(whole) <= Len(whole)
      BY <1>5
    <2> QED BY <1>3, <2>1, <2>2 DEF At
  <1>7. At(whole, 0 + Len(a), b)
    BY <1>1, <1>2, <1>5, <1>6, AtBoth
  <1>8. At(whole, 6, b)
    BY <1>1, <1>7
  <1> QED BY <1>1, <1>3, <1>4, <1>5, <1>8 DEF whole, b

\* The first n words of a file.
LEMMA CutIsStart ==
    ASSUME NEW Y, NEW whole \in Seq(Y), NEW n \in Nat
    PROVE  /\ Cut(whole, n) \in Seq(Y) /\ IsStart(Cut(whole, n), whole)
           /\ Cut(whole, n) = whole <=> Len(Cut(whole, n)) = Len(whole)
  <1> DEFINE c == IF n < Len(whole) THEN n ELSE Len(whole)
  <1>1. c \in 0 .. Len(whole) /\ Len(whole) \in Nat
    OBVIOUS
  <1>2. Cut(whole, n) = SubSeq(whole, 1, c)
    BY DEF Cut
  <1> HIDE DEF c
  <1>3. /\ SubSeq(whole, 1, c) \in Seq(Y) /\ Len(SubSeq(whole, 1, c)) = c
        /\ \A i \in 1 .. c : SubSeq(whole, 1, c)[i] = whole[i]
    BY <1>1
  <1>4. c = Len(whole) => SubSeq(whole, 1, c) = whole
    OBVIOUS
  <1> QED BY <1>1, <1>2, <1>3, <1>4 DEF IsStart

\* What LoadHnsw() makes of the nodes that it has read.
GraphOf(m, level, entry, nodes) ==
    IF ~nodes.ok THEN Rejected
    ELSE Accepted([m |-> m, max_level |-> level, entry_point |-> entry, nodes |-> nodes.value],
                  nodes.next)

LEMMA LoadHnswIs ==
    ASSUME NEW g \in Graphs, NEW file \in Seq(Words32), IsStart(file, HnswWritten(g))
    PROVE  LoadHnsw(file) =
              IF Holds(file, 0, 6)
              THEN GraphOf(g.m, g.max_level, g.entry_point,
                           NodesRead(file, g.m, Len(g.nodes), 6))
              ELSE Rejected
  <1> DEFINE header == Words(file, 0, HeaderWords)
  <1>1. LoadHnsw(file) =
           IF Holds(file, 0, HeaderWords)
           THEN GraphOf(header[3], header[4], header[5],
                        NodesRead(file, header[3], header[6], HeaderWords))
           ELSE Rejected
    BY DEF LoadHnsw, GraphOf, NodesRead
  <1>2. ASSUME Holds(file, 0, 6)
        PROVE  /\ header[3] = g.m /\ header[4] = g.max_level
               /\ header[5] = g.entry_point /\ header[6] = Len(g.nodes)
    <2>1. 6 \in Nat /\ 0 \in Nat
      OBVIOUS
    <2>2. \A i \in 1 .. 6 : header[i] = file[0 + i]
      BY <1>2, <2>1, WordsAre DEF HeaderWords
    <2> HIDE DEF header
    <2>3. /\ header[3] = file[3] /\ header[4] = file[4]
          /\ header[5] = file[5] /\ header[6] = file[6]
      BY <2>2
    <2>4. Len(file) \in Nat /\ 6 <= Len(file)
      BY <1>2 DEF Holds
    <2>5. /\ file[3] = HnswWritten(g)[3] /\ file[4] = HnswWritten(g)[4]
          /\ file[5] = HnswWritten(g)[5] /\ file[6] = HnswWritten(g)[6]
      BY <2>4 DEF IsStart
    <2> QED BY <2>3, <2>5, FileIs
  <1> HIDE DEF header
  <1> QED BY <1>1, <1>2 DEF HeaderWords

\* What reading the nodes of a whole file gives.
LEMMA NodesAreRead ==
    ASSUME NEW g \in Graphs
    PROVE  LET whole == HnswWritten(g)
               nodes == NodesRead(whole, g.m, Len(g.nodes), 6)
           IN  IF LevelsPlausible(g) THEN nodes = Accepted(g.nodes, Len(whole)) ELSE ~nodes.ok
  <1> DEFINE whole == HnswWritten(g)
             N == Len(g.nodes)
             ns == g.nodes
             m == g.m
             nodes == NodesRead(whole, m, N, 6)
             row == Row(g)
             R == NodeReads(whole, m, N)
  <1>1. /\ N \in Nat /\ m \in Nat /\ ns \in Seq(Nodes)
        /\ row \in Seq(Seq(Nat)) /\ Len(row) = N
        /\ \A i \in 1 .. N : ns[i] \in Nodes /\ row[i] = NodeWords(ns[i])
        /\ \A i \in 1 .. N : Len(ns[i].upper) <= MaxLevelOnDisk => Loadable(ns[i], m)
    BY GraphsAre
  <1>2. /\ whole \in Seq(Words32) /\ Len(whole) = 6 + Len(FlattenSeq(row))
        /\ At(whole, 6, FlattenSeq(row))
    BY FileIs
  <1>3. LevelsPlausible(g) <=> \A i \in 1 .. N : Len(ns[i].upper) <= MaxLevelOnDisk
    BY DEF LevelsPlausible
  <1> SUFFICES IF LevelsPlausible(g) THEN nodes = Accepted(ns, Len(whole)) ELSE ~nodes.ok
    OBVIOUS
  <1> HIDE DEF whole, N, ns, m, row
  <1>4. PICK h \in [0 .. N -> Reads(Seq(NodeValues(m)))] : IsLoop(h, N, 6, R) /\ nodes = h[N]
    <2>1. 6 \in Nat /\ whole \in Seq(Words32) /\ m \in Nat /\ N \in Nat
      BY <1>1, <1>2
    <2> HIDE DEF nodes, R
    <2> QED BY <2>1, NodesLoop DEF nodes, R
  <1>5. PICK Q : Q[0] = 6 /\ Q[N] = Len(whole) /\ InARow(whole, row, Q)
    BY <1>1, <1>2, FlatInARow
  <1>6. ASSUME NEW i \in 1 .. N
        PROVE  /\ Q[i - 1] \in Nat /\ At(whole, Q[i - 1], NodeWords(ns[i]))
               /\ Q[i] = Q[i - 1] + Len(NodeWords(ns[i]))
    BY <1>1, <1>5 DEF InARow
  <1>7. ASSUME NEW i \in 1 .. N PROVE R[i][Q[i - 1]] = ReadNode(whole, Q[i - 1], m)
    BY <1>6 DEF NodeReads
  <1>8. ASSUME NEW i \in 1 .. N, Len(ns[i].upper) <= MaxLevelOnDisk
        PROVE  R[i][Q[i - 1]] = Accepted(ns[i], Q[i])
    <2>1. ReadNode(whole, Q[i - 1], m) = Accepted(ns[i], Q[i - 1] + Len(NodeWords(ns[i])))
      BY <1>1, <1>2, <1>6, <1>8, NodeIsRead
    <2> QED BY <1>6, <1>7, <2>1
  <1>9. ASSUME NEW i \in 1 .. N, Len(ns[i].upper) > MaxLevelOnDisk
        PROVE  R[i][Q[i - 1]] = Rejected
    BY <1>1, <1>2, <1>6, <1>7, <1>9, NodeIsRefused
  <1> HIDE DEF R, nodes
  <1>10. ASSUME NEW n \in 0 .. N, \A i \in 1 .. n : Len(ns[i].upper) <= MaxLevelOnDisk
         PROVE  h[n] = Accepted(SubSeq(ns, 1, n), Q[n])
    <2>1. n \in Nat /\ n <= Len(ns) /\ \A i \in 1 .. n : i \in 1 .. N
      BY <1>1 DEF N, ns
    <2>2. IsLoop(h, n, Q[0], R)
      BY <1>4, <1>5, <2>1 DEF IsLoop
    <2>3. GiveInTurn(R, ns, n, Q)
      BY <1>8, <1>10, <2>1 DEF GiveInTurn
    <2> QED BY <1>1, <2>1, <2>2, <2>3, LoopReadsAll
  <1>11. CASE LevelsPlausible(g)
    <2>1. h[N] = Accepted(SubSeq(ns, 1, N), Q[N])
      BY <1>1, <1>3, <1>10, <1>11
    <2>2. SubSeq(ns, 1, N) = ns
      BY <1>1 DEF N, ns
    <2> QED BY <1>4, <1>5, <1>11, <2>1, <2>2
  <1>12. CASE ~LevelsPlausible(g)
    <2> DEFINE Over == {i \in 1 .. N : ~(Len(ns[i].upper) <= MaxLevelOnDisk)}
    <2>1. Over \in SUBSET Nat /\ Over # {}
      BY <1>3, <1>12
    <2>2. PICK j \in Over : \A i \in Over : ~(i < j)
      BY <2>1, LeastNat
    <2>3. j \in 1 .. N /\ j - 1 \in 0 .. N /\ \A i \in 1 .. j - 1 : i \in 1 .. N /\ i < j
      BY <1>1
    <2>4. \A i \in 1 .. j - 1 : Len(ns[i].upper) <= MaxLevelOnDisk
      BY <2>2, <2>3
    <2>5. h[j - 1] = Accepted(SubSeq(ns, 1, j - 1), Q[j - 1])
      BY <1>10, <2>3, <2>4
    <2>6. Len(ns[j].upper) > MaxLevelOnDisk
      <3>1. ns[j].upper \in Seq(Seq(Nat))
        BY <1>1, <2>3, UppersAre
      <3>2. Len(ns[j].upper) \in Nat
        BY <3>1
      <3> QED BY <3>2, LevelAssumption
    <2>7. h[j - 1].ok /\ R[j][h[j - 1].next] = Rejected
      BY <1>9, <2>3, <2>5, <2>6 DEF Accepted
    <2>8. ~h[N].ok
      BY <1>1, <1>4, <2>3, <2>7, LoopRejects
    <2> QED BY <1>4, <1>12, <2>8
  <1> QED BY <1>11, <1>12

\* A graph that was written is read back from the whole file, and from no part of it.
LEMMA GraphIsRead ==
    ASSUME NEW g \in Graphs, NEW n \in Nat
    PROVE  LET whole == HnswWritten(g)
               read == LoadHnsw(Cut(whole, n))
           IN  IF LevelsPlausible(g) /\ Cut(whole, n) = whole
               THEN read = Accepted(g, Len(whole)) ELSE ~read.ok
  <1> DEFINE whole == HnswWritten(g)
             file == Cut(whole, n)
             N == Len(g.nodes)
             m == g.m
             read == LoadHnsw(file)
             some == NodesRead(file, m, N, 6)
             all == NodesRead(whole, m, N, 6)
             R == NodeReads(file, m, N)
             S == NodeReads(whole, m, N)
  <1> SUFFICES IF LevelsPlausible(g) /\ file = whole THEN read = Accepted(g, Len(whole)) ELSE ~read.ok
    OBVIOUS
  <1>1. /\ N \in Nat /\ m \in Nat
        /\ g = [m |-> m, max_level |-> g.max_level, entry_point |-> g.entry_point,
                nodes |-> g.nodes]
    BY GraphsAre
  <1>2. whole \in Seq(Words32) /\ Len(whole) \in Nat /\ 6 <= Len(whole)
    BY FileIs
  <1>3. IF LevelsPlausible(g) THEN all = Accepted(g.nodes, Len(whole)) ELSE ~all.ok
    BY NodesAreRead
  <1>4. /\ file \in Seq(Words32) /\ IsStart(file, whole)
        /\ file = whole <=> Len(file) = Len(whole)
    <2> HIDE DEF whole
    <2> QED BY <1>2, CutIsStart
  <1>5. read = IF Holds(file, 0, 6) THEN GraphOf(m, g.max_level, g.entry_point, some)
               ELSE Rejected
    <2> HIDE DEF file
    <2> QED BY <1>4, LoadHnswIs
  <1>6. ~Rejected.ok
    BY DEF Rejected
  <1> HIDE DEF whole, file, N, m, read
  <1>7. Len(file) \in Nat /\ Len(file) <= Len(whole)
    BY <1>4 DEF IsStart
  <1>8. CASE ~Holds(file, 0, 6)
    <2>1. file # whole
      BY <1>2, <1>8 DEF Holds
    <2> QED BY <1>5, <1>6, <1>8, <2>1
  <1>9. CASE Holds(file, 0, 6)
    <2>1. 6 \in 0 .. Len(file) /\ 6 \in Nat
      BY <1>7, <1>9 DEF Holds
    <2>2. PICK h \in [0 .. N -> Reads(Seq(NodeValues(m)))] : IsLoop(h, N, 6, R) /\ some = h[N]
      BY <1>1, <1>4, <2>1, NodesLoop
    <2>3. PICK k \in [0 .. N -> Reads(Seq(NodeValues(m)))] : IsLoop(k, N, 6, S) /\ all = k[N]
      <3>1. m \in Nat /\ N \in Nat /\ whole \in Seq(Words32) /\ 6 \in Nat
        BY <1>1, <1>2
      <3> QED BY <3>1, NodesLoop
    <2>4. /\ R \in [1 .. N -> [Nat -> Reads(NodeValues(m))]]
          /\ S \in [1 .. N -> [Nat -> Reads(NodeValues(m))]]
      BY <1>1, <1>2, <1>4, NodesLoop
    <2>5. ASSUME NEW i \in 1 .. N, NEW q \in 0 .. Len(file)
          PROVE  Agrees(R[i][q], S[i][q], Len(file))
      <3>1. q \in Nat
        BY <1>7
      <3>2. R[i][q] = ReadNode(file, q, m) /\ S[i][q] = ReadNode(whole, q, m)
        BY <3>1 DEF NodeReads
      <3> QED BY <1>1, <1>2, <1>4, <3>2, NodeAgrees
    <2> HIDE DEF R, S
    <2>6. Agrees(h[N], k[N], Len(file))
      BY <1>1, <1>7, <2>1, <2>2, <2>3, <2>4, <2>5, LoopAgrees
    <2> HIDE DEF some, all
    <2>7. some.ok => some = all /\ some.next \in 0 .. Len(file)
      BY <2>2, <2>3, <2>6 DEF Agrees
    <2>8. read = GraphOf(m, g.max_level, g.entry_point, some)
      BY <1>5, <1>9
    <2>9. CASE LevelsPlausible(g) /\ file = whole
      <3>1. some = Accepted(g.nodes, Len(whole))
        BY <1>3, <2>9 DEF some, all
      <3>2. read = Accepted([m |-> m, max_level |-> g.max_level, entry_point |-> g.entry_point,
                             nodes |-> g.nodes],
                            Len(whole))
        BY <2>8, <3>1 DEF GraphOf, Accepted
      <3> QED BY <1>1, <2>9, <3>2
    <2>10. CASE ~(LevelsPlausible(g) /\ file = whole)
      <3>1. ~some.ok
        <4> SUFFICES ASSUME some.ok PROVE FALSE
          OBVIOUS
        <4>1. all.ok /\ all.next \in 0 .. Len(file)
          BY <2>7
        <4>2. LevelsPlausible(g) /\ all.next = Len(whole)
          BY <1>3, <4>1 DEF Accepted
        <4> QED BY <1>4, <1>7, <2>10, <4>1, <4>2
      <3> QED BY <1>6, <2>8, <2>10, <3>1 DEF GraphOf
    <2> QED BY <2>9, <2>10
  <1> QED BY <1>8, <1>9

\* A graph of any size is read back from its file as it was written, the lists
\* that hold their overflow included; a file that lost any words at its end, or
\* holds a node of an implausible level, is rejected (loader.cpp:17-79,
\* serializer.cpp:29-63).
THEOREM GraphFileReadsBack == Spec => []HnswReadBack
  <1>1. ASSUME IInv PROVE HnswReadBack
    <2> DEFINE g == call.graph
               plausible == \A i \in DOMAIN g.nodes : Len(g.nodes[i].upper) <= MaxLevelOnDisk
    <2> SUFFICES ASSUME Returned("load_hnsw")
                 PROVE  IF plausible /\ FileLeft = HnswWritten(g)
                        THEN answer[1].ok /\ answer[1].value = g ELSE ~answer[1].ok
      BY DEF HnswReadBack
    <2>1. call.op = "load_hnsw" /\ answer # <<>>
      BY DEF Returned
    <2>2. answer[1] = LoadHnsw(FileLeft)
      <3>1. answer = <<LoadHnsw(FileLeft)>>
        BY <1>1, <2>1 DEF IInv, Gives
      <3> HIDE DEF g
      <3> QED BY <3>1
    <2>3. call \in GraphCalls
      BY <1>1, <2>1, CallKinds DEF IInv
    <2>4. g \in Graphs /\ call.length \in Nat
      BY <2>3, ReadAssumption
    <2>5. FileLeft = Cut(HnswWritten(g), call.length)
      BY DEF FileLeft
    <2> HIDE DEF g
    <2>6. plausible <=> LevelsPlausible(g)
      <3>1. DOMAIN g.nodes = 1 .. Len(g.nodes)
        BY <2>4, GraphsAre
      <3> QED BY <3>1 DEF LevelsPlausible
    <2> HIDE DEF plausible
    <2>7. IF LevelsPlausible(g) /\ FileLeft = HnswWritten(g)
          THEN answer[1] = Accepted(g, Len(HnswWritten(g))) ELSE ~answer[1].ok
      BY <2>2, <2>4, <2>5, GraphIsRead
    <2> QED BY <2>6, <2>7 DEF Accepted
  <1> QED BY <1>1, AnswersAreGiven, PTL

-----------------------------------------------------------------------------
(* segments.json: positions in a text.                                     *)

\* q is the first position from p on that holds one of chars, or behind the end.
IsFirst(content, p, chars, q) ==
    /\ q \in p .. Len(content) + 1
    /\ \A i \in p .. q - 1 : content[i] \notin chars
    /\ q <= Len(content) => content[q] \in chars

\* There is one first position, and FirstOf() is it.
LEMMA FirstOfIs ==
    ASSUME NEW content, Len(content) \in Nat, NEW p \in 1 .. Len(content) + 1, NEW chars
    PROVE  /\ IsFirst(content, p, chars, FirstOf(content, p, chars))
           /\ \A q : IsFirst(content, p, chars, q) => FirstOf(content, p, chars) = q
  <1> DEFINE L == Len(content)
             Hits == {q \in p .. L : content[q] \in chars}
             first == FirstOf(content, p, chars)
  <1>1. \E q : IsFirst(content, p, chars, q)
    <2>1. CASE Hits = {}
      <3>1. IsFirst(content, p, chars, L + 1)
        BY <2>1 DEF IsFirst
      <3> QED BY <3>1
    <2>2. CASE Hits # {}
      <3>1. Hits \in SUBSET Nat
        OBVIOUS
      <3>2. PICK q \in Hits : \A i \in Hits : ~(i < q)
        <4> HIDE DEF Hits
        <4> QED BY <2>2, <3>1, LeastNat
      <3>3. IsFirst(content, p, chars, q)
        BY <3>2 DEF IsFirst
      <3> QED BY <3>3
    <2> QED BY <2>1, <2>2
  <1>2. first = CHOOSE q \in p .. L + 1 :
                    /\ \A i \in p .. q - 1 : content[i] \notin chars
                    /\ q <= L => content[q] \in chars
    BY DEF FirstOf
  <1> HIDE DEF first
  <1>3. IsFirst(content, p, chars, first)
    BY <1>1, <1>2 DEF IsFirst
  <1>4. ASSUME NEW q, IsFirst(content, p, chars, q) PROVE first = q
    <2>1. first \in p .. L + 1 /\ q \in p .. L + 1
      BY <1>3, <1>4 DEF IsFirst
    <2>2. ~(first < q)
      BY <1>3, <1>4, <2>1 DEF IsFirst
    <2>3. ~(q < first)
      BY <1>3, <1>4, <2>1 DEF IsFirst
    <2> QED BY <2>1, <2>2, <2>3
  <1> QED BY <1>3, <1>4 DEF first

\* From p to q there are only characters of chars, and no other one follows.
Run(content, p, q, chars) ==
    /\ q \in p .. Len(content) + 1
    /\ \A i \in p .. q - 1 : content[i] \in chars
    /\ q <= Len(content) => content[q] \notin chars

\* Where a value ends: behind the spaces and the digits from p on.
LEMMA EndsAre ==
    ASSUME NEW Y, NEW content \in Seq(Y), NEW p \in 1 .. Len(content) + 1
    PROVE  /\ Run(content, p, AfterSpaces(content, p), {Space})
           /\ Run(content, p, AfterDigits(content, p), ToSet(Digits))
           /\ \A q : Run(content, p, q, {Space}) => AfterSpaces(content, p) = q
           /\ \A q : Run(content, p, q, ToSet(Digits)) => AfterDigits(content, p) = q
  <1> DEFINE others == ToSet(content) \ {Space}
             nondigits == ToSet(content) \ ToSet(Digits)
  <1>1. Len(content) \in Nat /\ \A i \in 1 .. Len(content) : content[i] \in ToSet(content)
    BY DEF ToSet
  <1>2. \A i \in 1 .. Len(content) :
           /\ content[i] \in others <=> content[i] \notin {Space}
           /\ content[i] \in nondigits <=> content[i] \notin ToSet(Digits)
    BY <1>1
  <1>3. /\ AfterSpaces(content, p) = FirstOf(content, p, others)
        /\ AfterDigits(content, p) = FirstOf(content, p, nondigits)
    BY DEF AfterSpaces, AfterDigits
  <1> HIDE DEF others, nondigits
  <1>4. /\ IsFirst(content, p, others, AfterSpaces(content, p))
        /\ IsFirst(content, p, nondigits, AfterDigits(content, p))
        /\ \A q : IsFirst(content, p, others, q) => AfterSpaces(content, p) = q
        /\ \A q : IsFirst(content, p, nondigits, q) => AfterDigits(content, p) = q
    BY <1>1, <1>3, FirstOfIs
  <1>5. ASSUME NEW q
        PROVE  /\ IsFirst(content, p, others, q) <=> Run(content, p, q, {Space})
               /\ IsFirst(content, p, nondigits, q) <=> Run(content, p, q, ToSet(Digits))
    <2>1. q \in p .. Len(content) + 1 =>
             /\ \A i \in p .. q - 1 : i \in 1 .. Len(content)
             /\ q <= Len(content) => q \in 1 .. Len(content)
      BY <1>1
    <2> QED BY <1>2, <2>1 DEF IsFirst, Run
  <1> QED BY <1>4, <1>5

-----------------------------------------------------------------------------
(* Numerals.                                                               *)

\* The value of a digit is its place, and no digit is one of the marks.
LEMMA DigitIs ==
    /\ Base \in Nat /\ Base > 1
    /\ \A i \in 0 .. Base - 1 : Digits[i + 1] \in ToSet(Digits) /\ DigitValue(Digits[i + 1]) = i
    /\ \A c \in ToSet(Digits) : DigitValue(c) \in 0 .. Base - 1 /\ c \in STRING /\ c \notin Marks
  <1>1. Digits \in Seq(STRING) /\ Len(Digits) > 1 /\ Len(Digits) \in Nat /\ Base = Len(Digits)
    BY DigitsAssumption DEF Base
  <1>2. DOMAIN Digits = 1 .. Base /\ ToSet(Digits) = {Digits[i] : i \in 1 .. Base}
    BY <1>1 DEF ToSet
  <1>3. \A i, j \in 1 .. Base : Digits[i] = Digits[j] => i = j
    BY <1>2, DigitsAssumption DEF IsInjective
  <1>4. ASSUME NEW i \in 1 .. Base PROVE DigitValue(Digits[i]) = i - 1
    <2> DEFINE place == CHOOSE j \in DOMAIN Digits : Digits[j] = Digits[i]
    <2>1. place \in 1 .. Base /\ Digits[place] = Digits[i]
      BY <1>2
    <2>2. DigitValue(Digits[i]) = place - 1
      BY DEF DigitValue
    <2> HIDE DEF place
    <2> QED BY <1>3, <2>1, <2>2
  <1>5. \A i \in 0 .. Base - 1 : i + 1 \in 1 .. Base /\ (i + 1) - 1 = i
    BY <1>1
  <1>6. \A i \in 1 .. Base : Digits[i] \in STRING /\ i - 1 \in 0 .. Base - 1
    BY <1>1
  <1>7. \A c \in ToSet(Digits) : c \notin Marks
    BY DigitsAssumption
  <1> QED BY <1>1, <1>2, <1>4, <1>5, <1>6, <1>7

\* The number of a numeral, digit by digit.
LEMMA NumberIs ==
    ASSUME NEW s \in Seq(ToSet(Digits))
    PROVE  \E f \in [0 .. Len(s) -> Nat] :
              /\ f[0] = 0 /\ NumberOf(s) = f[Len(s)]
              /\ \A i \in 1 .. Len(s) : f[i] = f[i - 1] * Base + DigitValue(s[i])
  <1> DEFINE N == Len(s)
             Step(i, x) == x * Base + DigitValue(s[i])
             IsNumber(h) == h = [i \in 0 .. N |-> IF i = 0 THEN 0 ELSE Step(i, h[i - 1])]
             G == [i \in 1 .. N |-> [x \in Nat |-> Step(i, x)]]
             number == CHOOSE h : IsNumber(h)
  <1>1. N \in Nat /\ \A i \in 1 .. N : DigitValue(s[i]) \in Nat
    <2>1. \A i \in 1 .. Len(s) : s[i] \in ToSet(Digits)
      OBVIOUS
    <2>2. \A c \in ToSet(Digits) : DigitValue(c) \in Nat
      BY DigitIs
    <2> QED BY <2>1, <2>2
  <1>2. \A i \in 1 .. N : \A x \in Nat : Step(i, x) \in Nat /\ G[i][x] = Step(i, x)
    <2>1. Base \in Nat
      BY DigitIs
    <2>2. \A x, d \in Nat : x * Base + d \in Nat
      BY <2>1
    <2> QED BY <1>1, <2>2
  <1>3. G \in [1 .. N -> [Nat -> Nat]]
    <2> HIDE DEF Step, N
    <2> QED BY <1>2
  <1>4. PICK f \in [0 .. N -> Nat] : f[0] = 0 /\ \A i \in 1 .. N : f[i] = G[i][f[i - 1]]
    <2> DEFINE zero == 0
    <2>1. zero \in Nat
      OBVIOUS
    <2> HIDE DEF G, N, zero
    <2>2. Iterations(N, Nat, zero, G) # {}
      BY <1>1, <1>3, <2>1, Iterates
    <2> QED BY <2>2 DEF Iterations, zero
  <1>5. IsNumber(f)
    <2> HIDE DEF N, G, Step
    <2>1. \A i \in 1 .. N : f[i] = Step(i, f[i - 1])
      <3> TAKE i \in 1 .. N
      <3>1. i - 1 \in 0 .. N
        BY <1>1
      <3> QED BY <1>2, <1>4, <3>1
    <2>2. \A i \in 0 .. N : i # 0 => i \in 1 .. N
      BY <1>1
    <2> QED BY <1>4, <2>1, <2>2
  <1>6. IsNumber(number)
    <2> HIDE DEF N, Step
    <2> QED BY <1>5
  <1>7. NumberOf(s) = number[N]
    BY DEF NumberOf
  <1> HIDE DEF number, N, Step, G
  <1>8. number[0] = 0 /\ \A i \in 1 .. N : number[i] = Step(i, number[i - 1])
    <2>1. number = [i \in 0 .. N |-> IF i = 0 THEN 0 ELSE Step(i, number[i - 1])]
      BY <1>6
    <2>2. 0 \in 0 .. N /\ \A i \in 1 .. N : i \in 0 .. N /\ i # 0
      BY <1>1
    <2> QED BY <2>1, <2>2
  <1> DEFINE T == {i \in 0 .. N : number[i] \in Nat}
  <1>9. 0 \in T
    BY <1>1, <1>8
  <1>10. ASSUME NEW i \in 1 .. N, i - 1 \in T PROVE i \in T
    <2>1. number[i - 1] \in Nat /\ i \in 0 .. N
      BY <1>1, <1>10
    <2> QED BY <1>2, <1>8, <2>1
  <1> HIDE DEF T
  <1>11. \A i \in 0 .. N : number[i] \in Nat
    <2>1. 0 .. N \subseteq T
      BY <1>1, <1>9, <1>10, UpTo
    <2> QED BY <2>1 DEF T
  <1>12. number \in [0 .. N -> Nat]
    <2>1. number = [i \in 0 .. N |-> IF i = 0 THEN 0 ELSE Step(i, number[i - 1])]
      BY <1>6
    <2> QED BY <1>11, <2>1
  <1>13. \A i \in 1 .. N : number[i] = number[i - 1] * Base + DigitValue(s[i])
    BY <1>8 DEF Step
  <1> QED BY <1>7, <1>8, <1>12, <1>13 DEF N

\* One digit more makes the number Base times as large and adds the digit.
LEMMA NumberGrows ==
    /\ NumberOf(<<>>) = 0
    /\ \A s \in Seq(ToSet(Digits)) : NumberOf(s) \in Nat
    /\ \A s \in Seq(ToSet(Digits)), c \in ToSet(Digits) :
          NumberOf(Append(s, c)) = NumberOf(s) * Base + DigitValue(c)
  <1>1. ASSUME NEW s \in Seq(ToSet(Digits)) PROVE NumberOf(s) \in Nat
    <2>1. PICK f \in [0 .. Len(s) -> Nat] : NumberOf(s) = f[Len(s)]
      BY NumberIs
    <2>2. Len(s) \in 0 .. Len(s)
      OBVIOUS
    <2> QED BY <2>1, <2>2
  <1>2. NumberOf(<<>>) = 0
    <2> DEFINE s == <<>>
    <2>1. s \in Seq(ToSet(Digits)) /\ Len(s) = 0
      OBVIOUS
    <2> HIDE DEF s
    <2>2. PICK f \in [0 .. Len(s) -> Nat] : f[0] = 0 /\ NumberOf(s) = f[Len(s)]
      BY <2>1, NumberIs
    <2>3. NumberOf(s) = 0
      BY <2>1, <2>2
    <2> QED BY <2>3 DEF s
  <1>3. ASSUME NEW s \in Seq(ToSet(Digits)), NEW c \in ToSet(Digits)
        PROVE  NumberOf(Append(s, c)) = NumberOf(s) * Base + DigitValue(c)
    <2> DEFINE t == Append(s, c)
               N == Len(s)
    <2>1. /\ t \in Seq(ToSet(Digits)) /\ N \in Nat /\ Len(t) = N + 1 /\ t[N + 1] = c
          /\ \A i \in 1 .. N : t[i] = s[i]
      OBVIOUS
    <2>2. PICK f \in [0 .. Len(s) -> Nat] :
             /\ f[0] = 0 /\ NumberOf(s) = f[Len(s)]
             /\ \A i \in 1 .. Len(s) : f[i] = f[i - 1] * Base + DigitValue(s[i])
      BY NumberIs
    <2> HIDE DEF t
    <2>3. PICK g \in [0 .. Len(t) -> Nat] :
             /\ g[0] = 0 /\ NumberOf(t) = g[Len(t)]
             /\ \A i \in 1 .. Len(t) : g[i] = g[i - 1] * Base + DigitValue(t[i])
      BY <2>1, NumberIs
    <2> HIDE DEF N
    <2> DEFINE T == {i \in 0 .. N : f[i] = g[i]}
    <2>4. 0 \in T
      BY <2>1, <2>2, <2>3
    <2>5. ASSUME NEW i \in 1 .. N, i - 1 \in T PROVE i \in T
      <3>1. f[i - 1] = g[i - 1] /\ i \in 0 .. N /\ i \in 1 .. Len(t) /\ i \in 1 .. Len(s)
        BY <2>1, <2>5 DEF N
      <3>2. f[i] = f[i - 1] * Base + DigitValue(s[i]) /\ g[i] = g[i - 1] * Base + DigitValue(t[i])
        BY <2>2, <2>3, <3>1
      <3>3. t[i] = s[i]
        BY <2>1
      <3>4. f[i] = g[i]
        BY <3>1, <3>2, <3>3, Zenon
      <3> QED BY <3>1, <3>4
    <2> HIDE DEF T
    <2>6. f[N] = g[N]
      <3>1. 0 .. N \subseteq T
        BY <2>1, <2>4, <2>5, UpTo
      <3>2. N \in 0 .. N
        BY <2>1
      <3> QED BY <3>1, <3>2 DEF T
    <2>7. N + 1 \in 1 .. Len(t) /\ (N + 1) - 1 = N
      BY <2>1
    <2>8. g[N + 1] = g[N] * Base + DigitValue(c)
      BY <2>1, <2>3, <2>7
    <2>9. NumberOf(t) = g[N + 1] /\ NumberOf(s) = f[N]
      BY <2>1, <2>2, <2>3 DEF N
    <2> QED BY <2>6, <2>8, <2>9 DEF t
  <1> QED BY <1>1, <1>2, <1>3

\* The test for one more digit is exact: it refuses the digit if, and only if,
\* the value would not fit.
LEMMA FitsIs ==
    ASSUME NEW v \in Nat, NEW d \in 0 .. Base - 1
    PROVE  Fits(v, d) <=> v * Base + d <= MaxUint
  <1>1. /\ MaxUint \in Nat /\ Base \in Nat /\ Base > 1 /\ MaxUint - d \in Int
    BY DigitIs, WidthAssumption
  <1>2. \A a \in Int, b \in Nat \ {0} :
           a \div b \in Int /\ (a \div b) * b <= a /\ a < (a \div b) * b + b
    OBVIOUS
  <1> DEFINE q == (MaxUint - d) \div Base
             a == MaxUint - d
  <1>3. q \in Int /\ q * Base <= a /\ a < q * Base + Base
    BY <1>1, <1>2
  <1>4. Fits(v, d) <=> v <= q
    BY DEF Fits
  <1>5. v * Base + d <= MaxUint <=> v * Base <= a
    <2>1. v * Base \in Int
      BY <1>1
    <2> QED BY <1>1, <2>1
  <1> HIDE DEF q, a
  <1>6. a \in Int
    BY <1>1 DEF a
  <1>7. v <= q => v * Base <= q * Base
    BY <1>1, <1>3
  <1>8. ~(v <= q) => q * Base + Base <= v * Base
    <2> SUFFICES ASSUME ~(v <= q) PROVE q * Base + Base <= v * Base
      OBVIOUS
    <2>1. q + 1 <= v
      BY <1>3
    <2>2. (q + 1) * Base <= v * Base
      BY <1>1, <1>3, <2>1
    <2>3. (q + 1) * Base = q * Base + Base
      BY <1>1, <1>3
    <2> QED BY <2>2, <2>3
  <1>9. v * Base \in Int /\ q * Base \in Int
    BY <1>1, <1>3
  <1> QED BY <1>1, <1>3, <1>4, <1>5, <1>6, <1>7, <1>8, <1>9

\* The loop over the digits accepts those numbers that fit, and has their value.
LEMMA AccumulatedIs ==
    ASSUME NEW s \in Seq(ToSet(Digits))
    PROVE  /\ Accumulated(s) \in [ok : BOOLEAN, value : Nat]
           /\ Accumulated(s).ok <=> NumberOf(s) <= MaxUint
           /\ Accumulated(s).ok => Accumulated(s).value = NumberOf(s)
  <1> DEFINE N == Len(s)
             V == [ok : BOOLEAN, value : Nat]
             v == [ok |-> TRUE, value |-> 0]
             Step(i, x) == WithDigit(x, DigitValue(s[i]))
             IsRead(h) == h = [i \in 0 .. N |-> IF i = 0 THEN v ELSE Step(i, h[i - 1])]
             G == [i \in 1 .. N |-> [x \in V |-> Step(i, x)]]
             read == CHOOSE h : IsRead(h)
  <1>1. N \in Nat /\ v \in V /\ MaxUint \in Nat /\ Base \in Nat /\ Base > 1
    BY DigitIs, WidthAssumption
  <1>2. \A i \in 1 .. N : DigitValue(s[i]) \in 0 .. Base - 1
    <2>1. \A i \in 1 .. Len(s) : s[i] \in ToSet(Digits)
      OBVIOUS
    <2> QED BY <2>1, DigitIs
  <1>3. ASSUME NEW x \in V, NEW d \in 0 .. Base - 1
        PROVE  /\ WithDigit(x, d) \in V
               /\ WithDigit(x, d).ok <=> x.ok /\ x.value * Base + d <= MaxUint
               /\ WithDigit(x, d).ok => WithDigit(x, d).value = x.value * Base + d
    <2> DEFINE w == x.value * Base + d
    <2>1. x.value \in Nat /\ x.ok \in BOOLEAN /\ d \in Nat
      BY <1>1
    <2>2. w \in Nat
      BY <1>1, <2>1
    <2>3. Fits(x.value, d) <=> w <= MaxUint
      BY <2>1, FitsIs
    <2>4. WithDigit(x, d) = IF x.ok /\ Fits(x.value, d)
                            THEN [x EXCEPT !.value = w % (MaxUint + 1)]
                            ELSE [x EXCEPT !.ok = FALSE]
      BY DEF WithDigit
    <2> HIDE DEF w
    <2>5. w <= MaxUint => w % (MaxUint + 1) = w
      BY <1>1, <2>2
    <2>6. CASE x.ok /\ w <= MaxUint
      <3>1. WithDigit(x, d) = [x EXCEPT !.value = w]
        BY <2>3, <2>4, <2>5, <2>6
      <3> QED BY <2>2, <2>6, <3>1 DEF w
    <2>7. CASE ~(x.ok /\ w <= MaxUint)
      <3>1. WithDigit(x, d) = [x EXCEPT !.ok = FALSE]
        BY <2>3, <2>4, <2>7
      <3> QED BY <2>7, <3>1 DEF w
    <2> QED BY <2>6, <2>7
  <1>4. \A i \in 1 .. N : \A x \in V : Step(i, x) \in V /\ G[i][x] = Step(i, x)
    <2> HIDE DEF V, N
    <2> QED BY <1>2, <1>3
  <1>5. G \in [1 .. N -> [V -> V]]
    <2> HIDE DEF Step, N, V
    <2> QED BY <1>4
  <1>6. PICK f \in [0 .. N -> V] : f[0] = v /\ \A i \in 1 .. N : f[i] = G[i][f[i - 1]]
    <2> HIDE DEF G, N, V, v
    <2>2. Iterations(N, V, v, G) # {}
      BY <1>1, <1>5, Iterates
    <2> QED BY <2>2 DEF Iterations
  <1>7. IsRead(f)
    <2> HIDE DEF N, G, Step, V, v
    <2>1. \A i \in 1 .. N : f[i] = Step(i, f[i - 1])
      <3> TAKE i \in 1 .. N
      <3>1. i - 1 \in 0 .. N
        BY <1>1
      <3> QED BY <1>4, <1>6, <3>1
    <2>2. \A i \in 0 .. N : i # 0 => i \in 1 .. N
      BY <1>1
    <2> QED BY <1>6, <2>1, <2>2
  <1>8. IsRead(read)
    <2> HIDE DEF N, Step, v
    <2> QED BY <1>7
  <1>9. Accumulated(s) = read[N]
    BY DEF Accumulated
  <1> HIDE DEF read, N, Step, G, V
  <1>10. read[0] = v /\ \A i \in 1 .. N : read[i] = WithDigit(read[i - 1], DigitValue(s[i]))
    <2> HIDE DEF v
    <2>1. read = [i \in 0 .. N |-> IF i = 0 THEN v ELSE Step(i, read[i - 1])]
      BY <1>8
    <2>2. 0 \in 0 .. N /\ \A i \in 1 .. N : i \in 0 .. N /\ i # 0
      BY <1>1
    <2> QED BY <2>1, <2>2 DEF Step
  <1>11. PICK g \in [0 .. N -> Nat] :
           /\ g[0] = 0 /\ NumberOf(s) = g[N]
           /\ \A i \in 1 .. N : g[i] = g[i - 1] * Base + DigitValue(s[i])
    BY NumberIs DEF N
  <1> DEFINE Holds1(x, n) == x \in V /\ (x.ok <=> n <= MaxUint) /\ (x.ok => x.value = n)
             T == {i \in 0 .. N : Holds1(read[i], g[i])}
  <1>12. 0 \in T
    <2>1. v.ok /\ v.value = 0 /\ 0 <= MaxUint
      BY <1>1
    <2> QED BY <1>1, <1>10, <1>11, <2>1
  <1>13. ASSUME NEW i \in 1 .. N, i - 1 \in T PROVE i \in T
    <2> DEFINE x == read[i - 1]
               n == g[i - 1]
               d == DigitValue(s[i])
               y == read[i]
               k == g[i]
    <2>1. i - 1 \in 0 .. N /\ i \in 0 .. N
      BY <1>1
    <2>2. Holds1(x, n) /\ n \in Nat /\ d \in 0 .. Base - 1
      BY <1>2, <1>13, <2>1
    <2>3. y = WithDigit(x, d) /\ k = n * Base + d
      BY <1>10, <1>11
    <2> HIDE DEF x, n, d, y, k
    <2>4. /\ y \in V /\ (y.ok <=> x.ok /\ x.value * Base + d <= MaxUint)
          /\ y.ok => y.value = x.value * Base + d
      BY <1>3, <2>2, <2>3
    <2>5. ~(n <= MaxUint) => ~(k <= MaxUint)
      <3> DEFINE p == n * Base
      <3>1. p \in Nat /\ n <= p /\ d \in Nat
        BY <1>1, <2>2
      <3>2. k = p + d
        BY <2>3
      <3> HIDE DEF p
      <3> QED BY <1>1, <2>2, <3>1, <3>2
    <2>6. ASSUME x.ok PROVE Holds1(y, k)
      BY <2>2, <2>3, <2>4, <2>6
    <2>7. ASSUME ~x.ok PROVE Holds1(y, k)
      BY <2>2, <2>4, <2>5, <2>7
    <2>8. Holds1(y, k)
      BY <2>6, <2>7
    <2> QED BY <2>1, <2>8 DEF y, k
  <1> HIDE DEF T
  <1>14. N \in T
    <2>1. 0 .. N \subseteq T
      BY <1>1, <1>12, <1>13, UpTo
    <2> QED BY <1>1, <2>1
  <1>15. Holds1(read[N], g[N])
    BY <1>14 DEF T
  <1> QED BY <1>9, <1>11, <1>15 DEF V

-----------------------------------------------------------------------------
(* What operator<< writes.                                                 *)

\* h holds the numerals up to n.
IsNumeral(h, n) ==
    h = [i \in 0 .. n |->
            IF i < Base THEN <<Digits[i + 1]>>
                        ELSE Append(h[i \div Base], Digits[(i % Base) + 1])]

\* A number without its last digit is smaller.
LEMMA Shorter ==
    ASSUME NEW n \in Nat, ~(n < Base)
    PROVE  /\ n \div Base \in 0 .. n - 1 /\ n % Base \in 0 .. Base - 1
           /\ (n \div Base) * Base + (n % Base) = n
  <1>1. Base \in Nat /\ Base > 1
    BY DigitIs
  <1>2. \A a \in Nat, b \in Nat \ {0} :
           a \div b \in Nat /\ a % b \in 0 .. b - 1 /\ a = b * (a \div b) + (a % b)
    OBVIOUS
  <1> DEFINE q == n \div Base
             r == n % Base
  <1>3. q \in Nat /\ r \in 0 .. Base - 1 /\ n = Base * q + r
    <2>1. Base \in Nat \ {0}
      BY <1>1
    <2> QED BY <1>2, <2>1
  <1> HIDE DEF q, r
  <1>4. Base * q = q * Base /\ (q # 0 => q * Base > q)
    BY <1>1, <1>3
  <1>5. q < n
    <2>1. CASE q = 0
      BY <1>1, <1>3, <2>1
    <2>2. CASE q # 0
      <3> DEFINE p == q * Base
      <3>1. p \in Nat /\ p > q /\ n = p + r
        BY <1>1, <1>3, <1>4, <2>2
      <3> HIDE DEF p
      <3> QED BY <1>1, <1>3, <3>1
    <2> QED BY <2>1, <2>2
  <1> QED BY <1>3, <1>4, <1>5 DEF q, r

\* The recursion of Numeral() has a solution up to any n, and only one.
LEMMA NumeralExists ==
    ASSUME NEW n \in Nat
    PROVE  /\ \E h : IsNumeral(h, n)
           /\ \A m \in 0 .. n : \A g, h : IsNumeral(g, m) /\ IsNumeral(h, n) =>
                 \A i \in 0 .. m : g[i] = h[i]
  <1> DEFINE Of(h, i) == IF i < Base THEN <<Digits[i + 1]>>
                         ELSE Append(h[i \div Base], Digits[(i % Base) + 1])
             T == {m \in 0 .. n : \E h : IsNumeral(h, m)}
  <1>1. \A i \in Nat : i < Base \/ i \div Base \in 0 .. i - 1
    BY Shorter, DigitIs
  <1>2. \A h, m : IsNumeral(h, m) <=> h = [i \in 0 .. m |-> Of(h, i)]
    BY DEF IsNumeral
  <1>3. ASSUME NEW g, NEW h, NEW i \in Nat, \A j \in 0 .. i - 1 : g[j] = h[j]
        PROVE  Of(g, i) = Of(h, i)
    BY <1>1, <1>3
  <1> HIDE DEF Of
  <1>4. ASSUME NEW m \in Nat, NEW h, h = [i \in 0 .. m |-> Of(h, i)]
        PROVE  \A i \in 0 .. m : h[i] = Of(h, i)
    BY <1>4
  <1>5. 0 \in T
    <2> DEFINE h == [i \in 0 .. 0 |-> Of(0, i)]
    <2>1. h[0] = Of(0, 0)
      OBVIOUS
    <2>2. Of(0, 0) = Of(h, 0)
      BY <1>3
    <2>3. \A i \in 0 .. 0 : h[i] = Of(h, i)
      BY <2>1, <2>2
    <2>4. h = [i \in 0 .. 0 |-> h[i]]
      OBVIOUS
    <2> HIDE DEF h
    <2>5. h = [i \in 0 .. 0 |-> Of(h, i)]
      BY <2>3, <2>4
    <2>6. IsNumeral(h, 0)
      BY <1>2, <2>5
    <2> QED BY <2>6
  <1>6. ASSUME NEW m \in 1 .. n, m - 1 \in T PROVE m \in T
    <2>1. PICK f : f = [i \in 0 .. m - 1 |-> Of(f, i)]
      BY <1>2, <1>6
    <2> DEFINE h == [i \in 0 .. m |-> IF i < m THEN f[i] ELSE Of(f, m)]
    <2>2. /\ \A i \in 0 .. m - 1 : h[i] = f[i] /\ i \in 0 .. m
          /\ h[m] = Of(f, m)
      OBVIOUS
    <2>3. h = [i \in 0 .. m |-> h[i]]
      OBVIOUS
    <2> HIDE DEF h
    <2>4. ASSUME NEW i \in 0 .. m PROVE h[i] = Of(h, i)
      <3>1. \A j \in 0 .. i - 1 : f[j] = h[j]
        BY <2>2
      <3>2. Of(f, i) = Of(h, i)
        BY <1>3, <3>1
      <3>3. CASE i = m
        BY <2>2, <3>2, <3>3
      <3>4. CASE i # m
        <4>1. i \in 0 .. m - 1 /\ m - 1 \in Nat
          BY <3>4
        <4>2. f[i] = Of(f, i)
          BY <1>4, <2>1, <4>1
        <4> QED BY <2>2, <3>2, <4>1, <4>2
      <3> QED BY <3>3, <3>4
    <2>5. h = [i \in 0 .. m |-> Of(h, i)]
      BY <2>3, <2>4
    <2>6. IsNumeral(h, m)
      BY <1>2, <2>5
    <2> QED BY <2>6
  <1> HIDE DEF T
  <1>7. n \in T
    <2>1. 0 .. n \subseteq T
      BY <1>5, <1>6, UpTo
    <2> QED BY <2>1
  <1>8. ASSUME NEW m \in 0 .. n, NEW g, NEW h, IsNumeral(g, m), IsNumeral(h, n)
        PROVE  \A i \in 0 .. m : g[i] = h[i]
    <2>1. \A i \in 0 .. m : g[i] = Of(g, i) /\ h[i] = Of(h, i)
      <3>1. g = [i \in 0 .. m |-> Of(g, i)] /\ h = [i \in 0 .. n |-> Of(h, i)] /\ m \in Nat
        BY <1>2, <1>8
      <3>2. \A i \in 0 .. m : g[i] = Of(g, i)
        BY <1>4, <3>1
      <3>3. \A i \in 0 .. n : h[i] = Of(h, i)
        BY <1>4, <3>1
      <3> QED BY <3>2, <3>3
    <2> DEFINE Differ == {i \in 0 .. m : g[i] # h[i]}
    <2> SUFFICES ASSUME Differ # {} PROVE FALSE
      OBVIOUS
    <2>2. Differ \in SUBSET Nat
      OBVIOUS
    <2>3. PICK i \in Differ : \A j \in Differ : ~(j < i)
      <3> HIDE DEF Differ
      <3> QED BY <2>2, LeastNat
    <2>4. i \in Nat /\ \A j \in 0 .. i - 1 : g[j] = h[j]
      BY <2>3
    <2>5. Of(g, i) = Of(h, i)
      BY <1>3, <2>4
    <2> QED BY <2>1, <2>3, <2>5
  <1> QED BY <1>7, <1>8 DEF T

\* What operator<< writes: the digits of the number without its last one, and that.
LEMMA NumeralIs ==
    ASSUME NEW n \in Nat
    PROVE  Numeral(n) = IF n < Base THEN <<Digits[n + 1]>>
                        ELSE Append(Numeral(n \div Base), Digits[(n % Base) + 1])
  <1> DEFINE of(m) == CHOOSE h : IsNumeral(h, m)
  <1>1. \A m \in Nat : IsNumeral(of(m), m)
    BY NumeralExists
  <1>2. \A m \in Nat : Numeral(m) = of(m)[m]
    BY DEF Numeral, IsNumeral
  <1> HIDE DEF of
  <1>3. of(n)[n] = IF n < Base THEN <<Digits[n + 1]>>
                   ELSE Append(of(n)[n \div Base], Digits[(n % Base) + 1])
    <2>1. IsNumeral(of(n), n) /\ n \in 0 .. n
      BY <1>1
    <2> QED BY <2>1 DEF IsNumeral
  <1>4. CASE n < Base
    BY <1>2, <1>3, <1>4
  <1>5. CASE ~(n < Base)
    <2> DEFINE q == n \div Base
    <2>1. q \in 0 .. n - 1
      BY <1>5, Shorter, DigitIs
    <2> HIDE DEF q
    <2>2. of(q)[q] = of(n)[q]
      <3>1. q \in 0 .. n /\ q \in Nat /\ q \in 0 .. q
        BY <2>1
      <3>2. IsNumeral(of(q), q) /\ IsNumeral(of(n), n)
        BY <1>1, <3>1
      <3> QED BY <3>1, <3>2, NumeralExists
    <2>3. Numeral(q) = of(q)[q] /\ Numeral(n) = of(n)[n]
      BY <1>2, <2>1
    <2> QED BY <1>3, <1>5, <2>2, <2>3 DEF q
  <1> QED BY <1>4, <1>5

\* A numeral has digits only, it is read as the number it was written for, and
\* each first part of it is the numeral of a number that is not larger.
LEMMA NumeralsRead ==
    ASSUME NEW n \in Nat
    PROVE  /\ Numeral(n) \in Seq(ToSet(Digits)) /\ Len(Numeral(n)) > 0
           /\ NumberOf(Numeral(n)) = n
           /\ \A j \in 1 .. Len(Numeral(n)) :
                 \E m \in 0 .. n : SubSeq(Numeral(n), 1, j) = Numeral(m)
  <1> DEFINE Good(i) ==
                /\ Numeral(i) \in Seq(ToSet(Digits)) /\ Len(Numeral(i)) > 0
                /\ NumberOf(Numeral(i)) = i
                /\ \A j \in 1 .. Len(Numeral(i)) :
                      \E m \in 0 .. i : SubSeq(Numeral(i), 1, j) = Numeral(m)
             Bad == {i \in Nat : ~Good(i)}
  <1> SUFFICES ASSUME Bad # {} PROVE FALSE
    OBVIOUS
  <1>1. Bad \in SUBSET Nat
    OBVIOUS
  <1>2. PICK i \in Bad : \A j \in Bad : ~(j < i)
    <2> HIDE DEF Bad
    <2> QED BY <1>1, LeastNat
  <1>3. i \in Nat /\ ~Good(i) /\ \A j \in 0 .. i - 1 : Good(j)
    BY <1>2
  <1> HIDE DEF Bad
  <1>4. Base \in Nat /\ Base > 1
    BY DigitIs
  <1>5. CASE i < Base
    <2> DEFINE c == Digits[i + 1]
    <2>1. c \in ToSet(Digits) /\ DigitValue(c) = i /\ Numeral(i) = <<c>>
      BY <1>3, <1>4, <1>5, DigitIs, NumeralIs
    <2> HIDE DEF c
    <2>2. Numeral(i) \in Seq(ToSet(Digits)) /\ Len(Numeral(i)) = 1 /\ Numeral(i) = Append(<<>>, c)
      BY <2>1
    <2>3. NumberOf(Numeral(i)) = 0 * Base + i
      <3>1. <<>> \in Seq(ToSet(Digits))
        OBVIOUS
      <3>2. NumberOf(Append(<<>>, c)) = NumberOf(<<>>) * Base + DigitValue(c)
        BY <2>1, <3>1, NumberGrows
      <3> QED BY <2>1, <2>2, <3>2, NumberGrows
    <2>4. SubSeq(Numeral(i), 1, 1) = Numeral(i)
      <3>1. \A s \in Seq(ToSet(Digits)) : SubSeq(s, 1, Len(s)) = s
        OBVIOUS
      <3> QED BY <2>2, <3>1
    <2>5. i \in 0 .. i /\ 0 * Base + i = i
      BY <1>3, <1>4
    <2>6. Good(i)
      BY <2>2, <2>3, <2>4, <2>5
    <2> QED BY <1>3, <2>6
  <1>6. CASE ~(i < Base)
    <2> DEFINE q == i \div Base
               r == i % Base
               s == Numeral(q)
               c == Digits[r + 1]
    <2>1. q \in 0 .. i - 1 /\ r \in 0 .. Base - 1 /\ q * Base + r = i
      BY <1>3, <1>4, <1>6, Shorter
    <2>2. Numeral(i) = Append(s, c)
      BY <1>3, <1>6, NumeralIs
    <2> HIDE DEF q, r
    <2>3. Good(q) /\ q \in Nat
      BY <1>3, <2>1
    <2>4. c \in ToSet(Digits) /\ DigitValue(c) = r
      BY <2>1, DigitIs
    <2>5. s \in Seq(ToSet(Digits)) /\ Len(s) > 0 /\ NumberOf(s) = q
      BY <2>3
    <2>6. \A j \in 1 .. Len(s) : \E m \in 0 .. q : SubSeq(s, 1, j) = Numeral(m)
      BY <2>3
    <2> HIDE DEF s, c
    <2>7. NumberOf(Append(s, c)) = i
      BY <2>1, <2>4, <2>5, NumberGrows
    <2>8. /\ Append(s, c) \in Seq(ToSet(Digits)) /\ Len(Append(s, c)) = Len(s) + 1
          /\ Len(s) \in Nat
          /\ SubSeq(Append(s, c), 1, Len(s) + 1) = Append(s, c)
          /\ \A j \in 1 .. Len(s) : SubSeq(Append(s, c), 1, j) = SubSeq(s, 1, j)
      BY <2>4, <2>5
    <2>9. ASSUME NEW j \in 1 .. Len(s) + 1
          PROVE  \E m \in 0 .. i : SubSeq(Append(s, c), 1, j) = Numeral(m)
      <3>1. CASE j = Len(s) + 1
        <4>1. i \in 0 .. i
          BY <1>3
        <4> QED BY <2>2, <2>8, <3>1, <4>1
      <3>2. CASE j # Len(s) + 1
        <4>1. j \in 1 .. Len(s)
          BY <2>8, <3>2
        <4>2. PICK m \in 0 .. q : SubSeq(s, 1, j) = Numeral(m)
          BY <2>6, <4>1
        <4>3. m \in 0 .. i
          BY <1>3, <2>1
        <4> QED BY <2>8, <4>1, <4>2, <4>3
      <3> QED BY <3>1, <3>2
    <2>10. Good(i)
      BY <2>2, <2>5, <2>7, <2>8, <2>9
    <2> QED BY <1>3, <2>10
  <1> QED BY <1>5, <1>6

-----------------------------------------------------------------------------
(* extract_json_uint().                                                    *)

\* What is read from position p on, and when it is accepted.
LEMMA ExtractIs ==
    ASSUME NEW Y, NEW content \in Seq(Y), NEW key,
           ValueStart(content, key) \in 1 .. Len(content) + 1
    PROVE  LET p == ValueStart(content, key)
               q == AfterDigits(content, p)
               end == AfterSpaces(content, q)
               digits == SubSeq(content, p, q - 1)
               read == Extract(content, key)
           IN  /\ q \in p .. Len(content) + 1 /\ end \in q .. Len(content) + 1
               /\ digits \in Seq(ToSet(Digits)) /\ Len(digits) = q - p
               /\ \A i \in 1 .. q - p : digits[i] = content[p + i - 1]
               /\ read \in [ok : BOOLEAN, value : Nat]
               /\ read.ok <=> /\ NumberOf(digits) <= MaxUint /\ p < q
                              /\ end <= Len(content) => content[end] \in {Comma, Close}
               /\ read.ok => read.value = NumberOf(digits)
  <1> DEFINE p == ValueStart(content, key)
             q == AfterDigits(content, p)
             end == AfterSpaces(content, q)
             digits == SubSeq(content, p, q - 1)
             read == Extract(content, key)
             r == Accumulated(digits)
             ended == end <= Len(content) => content[end] \in {Comma, Close}
  <1>0. /\ p \in 1 .. Len(content) + 1 /\ q = AfterDigits(content, p)
        /\ end = AfterSpaces(content, q) /\ digits = SubSeq(content, p, q - 1)
        /\ read = [r EXCEPT !.ok = @ /\ p < q /\ ended]
    BY DEF Extract
  <1> HIDE DEF p, q, end, digits, read, r, ended
  <1>1. Len(content) \in Nat
    OBVIOUS
  <1>2. /\ q \in p .. Len(content) + 1
        /\ \A i \in p .. q - 1 : content[i] \in ToSet(Digits)
    BY <1>0, EndsAre DEF Run
  <1>3. end \in q .. Len(content) + 1
    <2>1. q \in 1 .. Len(content) + 1
      BY <1>0, <1>1, <1>2
    <2> QED BY <1>0, <2>1, EndsAre DEF Run
  <1>4. /\ Len(digits) = q - p /\ digits \in Seq(Y)
        /\ \A i \in 1 .. q - p : digits[i] = content[p + i - 1]
    BY <1>0, <1>1, <1>2
  <1>5. digits \in Seq(ToSet(Digits))
    <2>1. \A i \in 1 .. q - p : p + i - 1 \in p .. q - 1
      BY <1>0, <1>1, <1>2
    <2>2. \A i \in 1 .. Len(digits) : digits[i] \in ToSet(Digits)
      BY <1>2, <1>4, <2>1
    <2>3. \A s \in Seq(Y) :
             (\A i \in 1 .. Len(s) : s[i] \in ToSet(Digits)) => s \in Seq(ToSet(Digits))
      OBVIOUS
    <2> QED BY <1>4, <2>2, <2>3
  <1>6. /\ r \in [ok : BOOLEAN, value : Nat]
        /\ r.ok <=> NumberOf(digits) <= MaxUint
        /\ r.ok => r.value = NumberOf(digits)
    BY <1>5, AccumulatedIs DEF r
  <1>8. /\ read.value = r.value
        /\ read.ok <=> r.ok /\ p < q /\ ended
        /\ read \in [ok : BOOLEAN, value : Nat]
    <2>1. (r.ok /\ p < q /\ ended) \in BOOLEAN
      OBVIOUS
    <2> DEFINE ok == r.ok /\ p < q /\ ended
    <2>2. read = [r EXCEPT !.ok = ok] /\ ok \in BOOLEAN
      BY <1>0, <2>1
    <2> HIDE DEF ok
    <2>3. read.value = r.value /\ read.ok = ok /\ read \in [ok : BOOLEAN, value : Nat]
      BY <1>6, <2>2
    <2> QED BY <2>3 DEF ok
  <1> QED BY <1>2, <1>3, <1>4, <1>5, <1>6, <1>8 DEF p, q, end, digits, read, ended

\* The text that was edited by hand stands behind the key and the colon.
LEMMA EditedIs ==
    ASSUME NEW Chars, NEW text \in Seq(Chars), NEW content, content = <<"dim", Colon>> \o text
    PROVE  /\ content \in Seq(Chars \cup {"dim", Colon}) /\ Len(content) = Len(text) + 2
           /\ \A i \in 1 .. Len(text) : content[i + 2] = text[i]
           /\ ValueStart(content, "dim") = AfterSpaces(content, 3)
  <1> DEFINE dim == "dim"
             Y == Chars \cup {dim, Colon}
             head == <<dim, Colon>>
  <1>1. dim # Colon
    BY DEF Colon
  <1> HIDE DEF dim
  <1>2. head \in Seq(Y) /\ Len(head) = 2 /\ head[1] = dim /\ head[2] = Colon
    OBVIOUS
  <1>3. text \in Seq(Y) /\ Len(text) \in Nat
    <2>1. Chars \subseteq Y
      OBVIOUS
    <2> HIDE DEF Y
    <2> QED BY <2>1
  <1> HIDE DEF head, Y
  <1>4. /\ content \in Seq(Y) /\ Len(content) = Len(text) + 2
        /\ content[1] = dim /\ content[2] = Colon
        /\ \A i \in 1 .. Len(text) : content[i + 2] = text[i]
    <2>1. content = head \o text
      BY DEF head, dim
    <2> QED BY <1>2, <1>3, <2>1
  <1>5. FirstOf(content, 1, {dim}) = 1
    <2>1. IsFirst(content, 1, {dim}, 1)
      BY <1>3, <1>4 DEF IsFirst
    <2>2. Len(content) \in Nat /\ 1 \in 1 .. Len(content) + 1
      BY <1>3, <1>4
    <2> QED BY <2>1, <2>2, FirstOfIs
  <1>6. FirstOf(content, 1, {Colon}) = 2
    <2>1. IsFirst(content, 1, {Colon}, 2)
      <3>1. \A i \in 1 .. 2 - 1 : i = 1
        OBVIOUS
      <3>2. 2 \in 1 .. Len(content) + 1
        BY <1>3, <1>4
      <3> QED BY <1>1, <1>4, <3>1, <3>2 DEF IsFirst
    <2>2. Len(content) \in Nat /\ 1 \in 1 .. Len(content) + 1
      BY <1>3, <1>4
    <2> QED BY <2>1, <2>2, FirstOfIs
  <1>7. ValueStart(content, dim) = AfterSpaces(content, 3)
    <2>1. ~(2 > Len(content)) /\ 2 + 1 = 3
      BY <1>3, <1>4
    <2> QED BY <1>5, <1>6, <2>1 DEF ValueStart
  <1> QED BY <1>4, <1>7 DEF dim, Y

\* A text loses its spaces character by character.
LEMMA UnspacedGrows ==
    ASSUME NEW Chars, NEW text \in Seq(Chars)
    PROVE  \E u \in [0 .. Len(text) -> Seq(Chars)] :
              /\ u[0] = <<>> /\ Unspaced(text) = u[Len(text)]
              /\ \A i \in 1 .. Len(text) :
                    u[i] = IF text[i] = Space THEN u[i - 1] ELSE Append(u[i - 1], text[i])
  <1> DEFINE N == Len(text)
             V == Seq(Chars)
             v == <<>>
             Step(i, x) == IF text[i] = Space THEN x ELSE Append(x, text[i])
             IsLess(h) == h = [i \in 0 .. N |-> IF i = 0 THEN v
                                                ELSE IF text[i] = Space THEN h[i - 1]
                                                ELSE Append(h[i - 1], text[i])]
             G == [i \in 1 .. N |-> [x \in V |-> Step(i, x)]]
             less == CHOOSE h : IsLess(h)
  <1>1. N \in Nat /\ v \in V /\ \A i \in 1 .. N : text[i] \in Chars
    OBVIOUS
  <1>2. \A i \in 1 .. N : \A x \in V : Step(i, x) \in V /\ G[i][x] = Step(i, x)
    <2>1. \A x \in Seq(Chars), c \in Chars : Append(x, c) \in Seq(Chars)
      OBVIOUS
    <2> HIDE DEF V, N
    <2>2. ASSUME NEW i \in 1 .. N, NEW x \in V PROVE Step(i, x) \in V
      BY <1>1, <2>1, <2>2 DEF V
    <2> HIDE DEF Step
    <2> QED BY <2>2
  <1>3. G \in [1 .. N -> [V -> V]]
    <2> HIDE DEF Step, N, V
    <2> QED BY <1>2
  <1>4. PICK f \in [0 .. N -> V] : f[0] = v /\ \A i \in 1 .. N : f[i] = G[i][f[i - 1]]
    <2> HIDE DEF G, N, V, v
    <2>1. Iterations(N, V, v, G) # {}
      BY <1>1, <1>3, Iterates
    <2> QED BY <2>1 DEF Iterations
  <1>5. IsLess(f)
    <2> HIDE DEF N, G, V, v, Step
    <2>1. \A i \in 1 .. N : f[i] = Step(i, f[i - 1])
      <3> TAKE i \in 1 .. N
      <3>1. i - 1 \in 0 .. N
        BY <1>1
      <3> QED BY <1>2, <1>4, <3>1
    <2>2. \A i \in 0 .. N : i # 0 => i \in 1 .. N
      BY <1>1
    <2> QED BY <1>4, <2>1, <2>2 DEF Step
  <1>6. IsLess(less)
    <2> HIDE DEF N, v
    <2> QED BY <1>5
  <1>7. Unspaced(text) = less[N]
    BY DEF Unspaced
  <1> HIDE DEF less, N, G, V, v
  <1>8. less[0] = v /\ \A i \in 1 .. N : less[i] = Step(i, less[i - 1])
    <2>1. 0 \in 0 .. N /\ \A i \in 1 .. N : i \in 0 .. N /\ i # 0
      BY <1>1
    <2> QED BY <1>6, <2>1
  <1> HIDE DEF Step
  <1> DEFINE T == {i \in 0 .. N : less[i] \in V}
  <1>9. 0 \in T
    BY <1>1, <1>8
  <1>10. ASSUME NEW i \in 1 .. N, i - 1 \in T PROVE i \in T
    <2>1. less[i - 1] \in V /\ i \in 0 .. N
      BY <1>1, <1>10
    <2> QED BY <1>2, <1>8, <2>1
  <1> HIDE DEF T
  <1>11. \A i \in 0 .. N : less[i] \in V
    <2>1. 0 .. N \subseteq T
      BY <1>1, <1>9, <1>10, UpTo
    <2> QED BY <2>1 DEF T
  <1>12. less \in [0 .. N -> V]
    BY <1>6, <1>11
  <1> QED BY <1>7, <1>8, <1>12 DEF N, V, v, Step

\* Without its spaces a text starts with the characters behind the first ones,
\* up to the next ones, and with what comes behind those.
LEMMA UnspacedIs ==
    ASSUME NEW Chars, NEW text \in Seq(Chars), NEW a \in 0 .. Len(text), NEW b \in a .. Len(text),
           NEW e \in b + 1 .. Len(text) + 1,
           \A i \in 1 .. a : text[i] = Space, \A i \in a + 1 .. b : text[i] # Space,
           \A i \in b + 1 .. e - 1 : text[i] = Space, e <= Len(text) => text[e] # Space,
           NEW out, out = Unspaced(text)
    PROVE  /\ out \in Seq(Chars)
           /\ \A j \in 1 .. b - a : out[j] = text[a + j]
           /\ IF e > Len(text) THEN Len(out) = b - a
              ELSE Len(out) > b - a /\ out[b - a + 1] = text[e]
  <1> DEFINE N == Len(text)
             n(i) == IF i <= a THEN 0 ELSE IF i <= b THEN i - a ELSE b - a
             Good(i, w) == /\ w \in Seq(Chars)
                           /\ i < e => Len(w) = n(i)
                           /\ i >= e => Len(w) > b - a /\ w[b - a + 1] = text[e]
                           /\ \A j \in 1 .. b - a : a + j <= i => w[j] = text[a + j]
  <1>1. N \in Nat /\ a \in Nat /\ b \in Nat /\ e \in Nat /\ a <= b /\ b < e /\ e <= N + 1
        /\ \A i \in 1 .. N : text[i] \in Chars
    OBVIOUS
  <1>2. PICK u \in [0 .. Len(text) -> Seq(Chars)] :
           /\ u[0] = <<>> /\ Unspaced(text) = u[Len(text)]
           /\ \A i \in 1 .. Len(text) :
                 u[i] = IF text[i] = Space THEN u[i - 1] ELSE Append(u[i - 1], text[i])
    BY UnspacedGrows
  <1> DEFINE T == {i \in 0 .. N : Good(i, u[i])}
  <1>3. 0 \in T
    <2>1. u[0] \in Seq(Chars) /\ Len(u[0]) = 0
      BY <1>2
    <2>2. \A j \in 1 .. b - a : ~(a + j <= 0)
      BY <1>1
    <2>3. n(0) = 0
      BY <1>1
    <2> QED BY <1>1, <2>1, <2>2, <2>3
  <1>4. ASSUME NEW i \in 1 .. N, i - 1 \in T PROVE i \in T
    <2> DEFINE w == u[i - 1]
               x == u[i]
    <2>1. Good(i - 1, w) /\ i \in 0 .. N /\ i \in Nat
      BY <1>1, <1>4
    <2>2. x = IF text[i] = Space THEN w ELSE Append(w, text[i])
      BY <1>2
    <2> HIDE DEF w, x
    <2>3. CASE text[i] = Space
      <3>1. x = w /\ ~(i \in a + 1 .. b) /\ i # e
        BY <1>1, <2>2, <2>3
      <3>2. n(i) = n(i - 1)
        BY <1>1, <3>1
      <3>3. \A j \in 1 .. b - a : a + j <= i => a + j <= i - 1
        BY <1>1, <3>1
      <3>4. (i < e => i - 1 < e) /\ (i >= e => i - 1 >= e)
        BY <1>1, <3>1
      <3>5. Good(i, x)
        <4> HIDE DEF n
        <4> QED BY <2>1, <3>1, <3>2, <3>3, <3>4
      <3> QED BY <2>1, <3>5 DEF x
    <2>4. CASE text[i] # Space
      <3> DEFINE c == text[i]
      <3>1. x = Append(w, c) /\ c \in Chars /\ w \in Seq(Chars)
        BY <1>1, <2>1, <2>2, <2>4
      <3>2. i > a /\ (i <= b \/ i >= e)
        BY <1>1, <2>4
      <3> HIDE DEF c
      <3>3. /\ x \in Seq(Chars) /\ Len(x) = Len(w) + 1 /\ Len(w) \in Nat
            /\ x[Len(w) + 1] = c /\ \A j \in 1 .. Len(w) : x[j] = w[j]
        <4> HIDE DEF Good, n, T
        <4>1. \A y \in Seq(Chars), d \in Chars :
                 /\ Append(y, d) \in Seq(Chars) /\ Len(Append(y, d)) = Len(y) + 1
                 /\ Len(y) \in Nat
                 /\ Append(y, d)[Len(y) + 1] = d
                 /\ \A j \in 1 .. Len(y) : Append(y, d)[j] = y[j]
          OBVIOUS
        <4> QED BY <3>1, <4>1
      <3>4. CASE i <= b
        <4>1. Len(w) = i - 1 - a
          BY <1>1, <2>1, <3>2, <3>4
        <4>2. i < e /\ n(i) = i - a /\ Len(x) = n(i)
          BY <1>1, <3>2, <3>3, <3>4, <4>1
        <4>3. ASSUME NEW j \in 1 .. b - a, a + j <= i PROVE x[j] = text[a + j]
          <5>1. CASE a + j = i
            <6>1. j = Len(w) + 1
              BY <1>1, <4>1, <5>1
            <6> QED BY <3>3, <5>1, <6>1 DEF c
          <5>2. CASE a + j # i
            <6>1. a + j <= i - 1 /\ j \in 1 .. Len(w)
              BY <1>1, <4>1, <4>3, <5>2
            <6> QED BY <2>1, <3>3, <6>1
          <5> QED BY <5>1, <5>2
        <4>4. Good(i, x)
          <5>1. ~(i >= e)
            BY <1>1, <4>2
          <5> HIDE DEF n
          <5> QED BY <3>3, <4>2, <4>3, <5>1
        <4> QED BY <2>1, <4>4 DEF x
      <3>5. CASE i > b
        <4>1. i >= e
          BY <1>1, <3>2, <3>5
        <4>2. Len(w) >= b - a
          BY <1>1, <2>1, <3>5, <4>1
        <4>3. x[b - a + 1] = text[e]
          <5>1. CASE i = e
            <6>1. Len(w) = b - a
              <7>1. n(i - 1) = b - a /\ i - 1 < e
                BY <1>1, <5>1
              <7> HIDE DEF n
              <7> QED BY <2>1, <7>1
            <6> QED BY <3>3, <5>1, <6>1 DEF c
          <5>2. CASE i # e
            <6>1. Len(w) > b - a /\ w[b - a + 1] = text[e]
              BY <1>1, <2>1, <4>1, <5>2
            <6>2. b - a + 1 \in 1 .. Len(w)
              BY <1>1, <3>3, <6>1
            <6> QED BY <3>3, <6>1, <6>2
          <5> QED BY <5>1, <5>2
        <4>4. ASSUME NEW j \in 1 .. b - a PROVE x[j] = text[a + j]
          <5>1. a + j <= i - 1 /\ j \in 1 .. Len(w)
            BY <1>1, <3>3, <3>5, <4>2
          <5> QED BY <2>1, <3>3, <5>1
        <4>5. Len(x) > b - a
          BY <1>1, <3>3, <4>2
        <4>6. Good(i, x)
          <5> HIDE DEF n
          <5> QED BY <1>1, <3>3, <4>1, <4>3, <4>4, <4>5
        <4> QED BY <2>1, <4>6 DEF x
      <3> QED BY <1>1, <3>4, <3>5
    <2> QED BY <2>3, <2>4
  <1> HIDE DEF T
  <1>5. N \in T
    <2>1. 0 .. N \subseteq T
      BY <1>1, <1>3, <1>4, UpTo
    <2> QED BY <1>1, <2>1
  <1>6. Good(N, out)
    BY <1>2, <1>5 DEF T
  <1>7. N < e => n(N) = b - a
    BY <1>1
  <1>8. \A j \in 1 .. b - a : a + j <= N
    BY <1>1
  <1> HIDE DEF n
  <1>9. /\ N < e <=> e > Len(text)
        /\ N >= e <=> ~(e > Len(text))
    BY <1>1
  <1> HIDE DEF n, N
  <1> QED BY <1>6, <1>7, <1>8, <1>9 DEF Good

\* Equal sequences.
LEMMA SameSeq ==
    ASSUME NEW X, NEW Y, NEW s \in Seq(X), NEW t \in Seq(Y), Len(s) = Len(t),
           \A i \in 1 .. Len(s) : s[i] = t[i]
    PROVE  s = t
  OBVIOUS

\* Nothing else follows the digits, or what ends a value.
Ended(out, before) == before > Len(out) \/ out[before] \in {Comma, Close}

\* What stands behind a key and its colon.
Follows(text, content, key) ==
    /\ Len(content) = Len(text) + 2
    /\ \A i \in 1 .. Len(text) : content[i + 2] = text[i]
    /\ ValueStart(content, key) = AfterSpaces(content, 3)

\* An edited value is read as the number that the text without its spaces
\* starts with, or refused; in a text without spaces a number that fits is read.
LEMMA EditIsRead ==
    ASSUME NEW Chars, NEW text \in Seq(Chars), NEW Y, NEW content \in Seq(Y),
           NEW key, Follows(text, content, key)
    PROVE  LET read == Extract(content, key)
               out == Unspaced(text)
               before == AfterDigits(out, 1)
               number == NumberOf(SubSeq(out, 1, before - 1))
           IN  /\ read.ok => before > 1 /\ Ended(out, before) /\ read.value = number
               /\ before > 1 /\ Ended(out, before) /\ ~Contains(text, Space) =>
                     (read.ok <=> number <= MaxUint)
  <1> DEFINE N == Len(text)
             p == ValueStart(content, key)
             q == AfterDigits(content, p)
             end == AfterSpaces(content, q)
             digits == SubSeq(content, p, q - 1)
             a == p - 3
             b == q - 3
             e == end - 2
             read == Extract(content, key)
             out == Unspaced(text)
             before == AfterDigits(out, 1)
             number == NumberOf(SubSeq(out, 1, before - 1))
  <1>1. /\ content \in Seq(Y) /\ Len(content) = N + 2 /\ N \in Nat
        /\ \A i \in 1 .. N : content[i + 2] = text[i]
        /\ p = AfterSpaces(content, 3)
    <2>1. Len(text) \in Nat
      OBVIOUS
    <2> QED BY <2>1 DEF Follows
  <1> HIDE DEF N, p, read, out, before, number
  <1>2. /\ p \in 3 .. N + 3
        /\ \A i \in 3 .. p - 1 : content[i] = Space
    <2>1. 3 \in 1 .. Len(content) + 1 /\ Len(content) + 1 = N + 3
      BY <1>1
    <2> DEFINE start == 3
    <2> HIDE DEF start
    <2>2. start = 3 /\ start \in 1 .. Len(content) + 1
      BY <2>1 DEF start
    <2>3. Run(content, start, AfterSpaces(content, start), {Space})
      BY <1>1, <2>2, EndsAre
    <2>4. p = AfterSpaces(content, start)
      BY <1>1 DEF start
    <2>5. p \in start .. Len(content) + 1 /\ \A i \in start .. p - 1 : content[i] \in {Space}
      BY <2>3, <2>4 DEF Run
    <2> QED BY <2>1, <2>2, <2>5
  <1>3. p \in 1 .. Len(content) + 1 /\ Len(content) + 1 = N + 3
    BY <1>1, <1>2
  <1> HIDE DEF q, end, digits
  <1>4. /\ q \in p .. N + 3 /\ end \in q .. N + 3
        /\ digits \in Seq(ToSet(Digits)) /\ Len(digits) = q - p
        /\ \A i \in 1 .. q - p : digits[i] = content[p + i - 1]
        /\ read.ok <=> /\ NumberOf(digits) <= MaxUint /\ p < q
                       /\ end <= Len(content) => content[end] \in {Comma, Close}
        /\ read.ok => read.value = NumberOf(digits)
    BY <1>3, ExtractIs DEF p, q, end, digits, read
  <1>5. /\ \A i \in p .. q - 1 : content[i] \in ToSet(Digits)
        /\ q <= Len(content) => content[q] \notin ToSet(Digits)
    <2>1. Run(content, p, q, ToSet(Digits))
      BY <1>1, <1>3, EndsAre DEF q
    <2> QED BY <2>1 DEF Run
  <1>6. /\ \A i \in q .. end - 1 : content[i] = Space
        /\ end <= Len(content) => content[end] # Space
    <2>1. q \in 1 .. Len(content) + 1
      BY <1>2, <1>3, <1>4
    <2>2. Run(content, q, end, {Space})
      BY <1>1, <2>1, EndsAre DEF end
    <2> QED BY <2>2 DEF Run
  <1>7. /\ p \in Int /\ q \in Int /\ end \in Int /\ N \in Nat
        /\ p >= 3 /\ p <= q /\ q <= end /\ end <= N + 3 /\ Len(content) = N + 2
    BY <1>1, <1>2, <1>4
  <1>8. /\ a \in 0 .. N /\ b \in a .. N /\ e \in b + 1 .. N + 1
        /\ b - a = q - p
        /\ e <= N <=> end <= Len(content)
    BY <1>7
  <1>9. \A c \in ToSet(Digits) : c # Space /\ c # Comma /\ c # Close
    BY DigitIs DEF Marks
  <1>10. \A i \in 1 .. a : text[i] = Space
    <2> TAKE i \in 1 .. a
    <2>1. i + 2 \in 3 .. p - 1 /\ i \in 1 .. N
      BY <1>7
    <2> QED BY <1>1, <1>2, <2>1
  <1>11. \A i \in a + 1 .. b : text[i] \in ToSet(Digits)
    <2> TAKE i \in a + 1 .. b
    <2>1. i + 2 \in p .. q - 1 /\ i \in 1 .. N
      BY <1>7
    <2> QED BY <1>1, <1>5, <2>1
  <1>12. \A i \in b + 1 .. e - 1 : text[i] = Space
    <2> TAKE i \in b + 1 .. e - 1
    <2>1. i + 2 \in q .. end - 1 /\ i \in 1 .. N
      BY <1>7
    <2> QED BY <1>1, <1>6, <2>1
  <1>13. e <= N => text[e] = content[end] /\ text[e] # Space
    <2> SUFFICES ASSUME e <= N PROVE text[e] = content[end] /\ text[e] # Space
      OBVIOUS
    <2>1. e + 2 = end /\ e \in 1 .. N /\ end <= Len(content)
      BY <1>7
    <2>2. content[e + 2] = text[e]
      BY <1>1, <2>1
    <2> QED BY <1>6, <2>1, <2>2
  <1>14. \A j \in 1 .. b - a : digits[j] = text[a + j] /\ text[a + j] \in ToSet(Digits)
    <2> TAKE j \in 1 .. b - a
    <2>1. j \in 1 .. q - p /\ a + j \in a + 1 .. b /\ a + j \in 1 .. N /\ (a + j) + 2 = p + j - 1
      BY <1>7
    <2>2. content[(a + j) + 2] = text[a + j]
      BY <1>1, <2>1
    <2>3. digits[j] = content[p + j - 1]
      BY <1>4, <2>1
    <2> QED BY <1>11, <2>1, <2>2, <2>3
  <1> HIDE DEF a, b, e
  <1>15. /\ out \in Seq(Chars)
         /\ \A j \in 1 .. b - a : out[j] = text[a + j]
         /\ IF e > N THEN Len(out) = b - a
            ELSE Len(out) > b - a /\ out[b - a + 1] = text[e]
    <2>1. \A i \in a + 1 .. b : text[i] # Space
      BY <1>9, <1>11
    <2>2. /\ a \in 0 .. Len(text) /\ b \in a .. Len(text) /\ e \in b + 1 .. Len(text) + 1
          /\ e <= Len(text) => text[e] # Space
      BY <1>8, <1>13 DEF N
    <2> HIDE DEF N
    <2>3. /\ out \in Seq(Chars)
          /\ \A j \in 1 .. b - a : out[j] = text[a + j]
          /\ IF e > Len(text) THEN Len(out) = b - a
             ELSE Len(out) > b - a /\ out[b - a + 1] = text[e]
      BY <1>10, <1>12, <2>1, <2>2, UnspacedIs DEF out
    <2> QED BY <2>3 DEF N
  <1> DEFINE k == b - a
  <1>16. /\ k \in Nat /\ k = q - p /\ Len(out) \in Nat /\ e \in Int
         /\ e > N => Len(out) = k
         /\ ~(e > N) => Len(out) > k /\ out[k + 1] = text[e] /\ text[e] = content[end]
         /\ e <= N <=> ~(e > N)
         /\ end <= Len(content) <=> ~(e > N)
    BY <1>7, <1>8, <1>13, <1>15
  <1>17. /\ Len(digits) = k
         /\ \A j \in 1 .. k : out[j] = digits[j] /\ out[j] \in ToSet(Digits)
    BY <1>4, <1>14, <1>15, <1>16
  <1> HIDE DEF k
  <1>18. ASSUME ~(e > N) => text[e] \notin ToSet(Digits)
         PROVE  /\ before = k + 1 /\ number = NumberOf(digits)
                /\ Ended(out, before) <=> (end <= Len(content) => content[end] \in {Comma, Close})
    <2>1. before = k + 1
      <3>1. k + 1 \in 1 .. Len(out) + 1 /\ 1 \in 1 .. Len(out) + 1 /\ (k + 1) - 1 = k
        BY <1>16
      <3>2. \A i \in 1 .. (k + 1) - 1 : out[i] \in ToSet(Digits)
        BY <1>17, <3>1
      <3>3. k + 1 <= Len(out) => out[k + 1] \notin ToSet(Digits)
        BY <1>16, <1>18
      <3> DEFINE z == k + 1
      <3>4. z \in 1 .. Len(out) + 1 /\ 1 \in 1 .. Len(out) + 1
        BY <3>1
      <3>5. /\ \A i \in 1 .. z - 1 : out[i] \in ToSet(Digits)
            /\ z <= Len(out) => out[z] \notin ToSet(Digits)
        BY <3>2, <3>3
      <3> HIDE DEF z
      <3> DEFINE first == 1
      <3>6. first \in 1 .. Len(out) + 1
        BY <3>4
      <3>7. /\ z \in first .. Len(out) + 1
            /\ \A i \in first .. z - 1 : out[i] \in ToSet(Digits)
        BY <3>4, <3>5
      <3> HIDE DEF first
      <3>8. AfterDigits(out, first) = z
        <4>1. Run(out, first, z, ToSet(Digits))
          BY <3>5, <3>7 DEF Run
        <4> QED BY <1>15, <3>6, <4>1, EndsAre
      <3> QED BY <3>8 DEF z, first, before
    <2>2. SubSeq(out, 1, k) = digits
      <3>1. k <= Len(out) /\ k \in Nat
        BY <1>16
      <3> DEFINE s == SubSeq(out, 1, k)
      <3>2. s \in Seq(Chars) /\ Len(s) = k /\ \A i \in 1 .. k : s[i] = out[i]
        BY <1>15, <3>1
      <3> HIDE DEF s
      <3>3. s = digits
        <4>1. Len(s) = Len(digits) /\ \A i \in 1 .. Len(s) : s[i] = digits[i]
          BY <1>17, <3>2
        <4>2. s \in Seq(Chars) /\ digits \in Seq(ToSet(Digits))
          BY <1>4, <3>2
        <4> QED BY <4>1, <4>2, SameSeq
      <3> QED BY <3>3 DEF s
    <2>3. before - 1 = k
      BY <1>16, <2>1
    <2>4. before > Len(out) <=> e > N
      BY <1>16, <2>1
    <2>5. Ended(out, before) <=> (end <= Len(content) => content[end] \in {Comma, Close})
      BY <1>16, <2>1, <2>4 DEF Ended
    <2> QED BY <2>1, <2>2, <2>3, <2>5 DEF number
  <1>19. ASSUME read.ok PROVE before > 1 /\ Ended(out, before) /\ read.value = number
    <2>1. /\ p < q /\ read.value = NumberOf(digits)
          /\ end <= Len(content) => content[end] \in {Comma, Close}
      BY <1>4, <1>19
    <2>2. ~(e > N) => text[e] \notin ToSet(Digits)
      BY <1>9, <1>16, <2>1
    <2>3. k + 1 > 1
      BY <1>7, <1>16, <2>1
    <2> QED BY <1>18, <2>1, <2>2, <2>3
  <1>20. ASSUME before > 1, Ended(out, before), ~Contains(text, Space)
         PROVE  read.ok <=> number <= MaxUint
    <2>1. \A i \in 1 .. N : text[i] # Space
      BY <1>20 DEF Contains, N
    <2>2. e = b + 1
      <3> SUFFICES ASSUME e # b + 1 PROVE FALSE
        OBVIOUS
      <3>1. b + 1 \in b + 1 .. e - 1 /\ b + 1 \in 1 .. N
        BY <1>7, <1>8
      <3> QED BY <1>12, <2>1, <3>1
    <2>3. end = q
      BY <1>7, <2>2 DEF e, b
    <2>4. ~(e > N) => text[e] \notin ToSet(Digits)
      BY <1>5, <1>16, <2>3
    <2>5. /\ before = k + 1 /\ number = NumberOf(digits)
          /\ end <= Len(content) => content[end] \in {Comma, Close}
      BY <1>18, <1>20, <2>4
    <2>6. p < q
      BY <1>7, <1>16, <1>20, <2>5
    <2> QED BY <1>4, <2>5, <2>6
  <1> QED BY <1>19, <1>20 DEF read, out, before, number

\* Whatever text is put in place of a value, it is refused or read as the
\* number that its digits stand for, and every number that fits is accepted
\* (segment_manager.cpp:20-51).
THEOREM EditedValueIsExact == Spec => []HandEditedIsExact
  <1>1. ASSUME IInv PROVE HandEditedIsExact
    <2> DEFINE text == call.text
               dim == "dim"
               content == <<dim, Colon>> \o text
               read == Extract(content, dim)
               out == Unspaced(text)
               before == AfterDigits(out, 1)
               number == NumberOf(SubSeq(out, 1, before - 1))
    <2> SUFFICES ASSUME Returned("extract_json_uint")
                 PROVE  /\ answer[1].ok =>
                              before > 1 /\ Ended(out, before) /\ answer[1].value = number
                        /\ before > 1 /\ Ended(out, before) /\ ~Contains(text, Space) =>
                              (answer[1].ok <=> number <= MaxUint)
      BY DEF HandEditedIsExact, Ended
    <2>1. call.op = "extract_json_uint" /\ answer # <<>>
      BY DEF Returned
    <2>2. answer[1] = read
      <3>1. answer = <<Extract(Edited, "dim")>>
        BY <1>1, <2>1 DEF IInv, Gives
      <3> QED BY <3>1 DEF Edited
    <2>3. call \in ExtractCalls
      BY <1>1, <2>1, CallKinds DEF IInv
    <2>4. text \in Seq(STRING)
      BY <2>3, ReadAssumption
    <2> HIDE DEF text
    <2>5. content \in Seq(STRING \cup {dim, Colon}) /\ Follows(text, content, dim)
      <3>1. /\ content \in Seq(STRING \cup {dim, Colon}) /\ Len(content) = Len(text) + 2
            /\ \A i \in 1 .. Len(text) : content[i + 2] = text[i]
            /\ ValueStart(content, dim) = AfterSpaces(content, 3)
        BY <2>4, EditedIs
      <3> HIDE DEF content, dim
      <3> QED BY <3>1 DEF Follows
    <2> HIDE DEF content, dim
    <2> HIDE DEF read, out, before, number
    <2>7. /\ read.ok => before > 1 /\ Ended(out, before) /\ read.value = number
          /\ before > 1 /\ Ended(out, before) /\ ~Contains(text, Space) =>
                (read.ok <=> number <= MaxUint)
      BY <2>4, <2>5, EditIsRead DEF read, out, before, number
    <2> QED BY <2>2, <2>7
  <1> QED BY <1>1, AnswersAreGiven, PTL

-----------------------------------------------------------------------------
(* The registry.                                                           *)

\* What of a key at position s, of its value n and of what comes behind it is
\* there.
ValueAt(content, key, s, n) ==
    LET num == Numeral(n)
        z == s + 3 + Len(num)
    IN  /\ \A i \in 1 .. Len(content) : i < s => content[i] # key
        /\ s <= Len(content) => content[s] = key
        /\ s + 1 <= Len(content) => content[s + 1] = Colon
        /\ s + 2 <= Len(content) => content[s + 2] = Space
        /\ \A i \in 1 .. Len(num) : s + 2 + i <= Len(content) => content[s + 2 + i] = num[i]
        /\ z <= Len(content) => \/ content[z] = Comma
                                \/ /\ content[z] = Space
                                   /\ z + 1 <= Len(content) => content[z + 1] = Close

\* A value is read if its first digit is there: as a number whose numeral the
\* value starts with, and as the value itself if its last digit is there.
LEMMA KeyIsRead ==
    ASSUME NEW Y, NEW content \in Seq(Y), NEW key, key # Colon,
           NEW s \in Nat, s > 0, NEW n \in 0 .. MaxUint, ValueAt(content, key, s, n)
    PROVE  LET read == Extract(content, key)
           IN  /\ read.ok <=> s + 3 <= Len(content)
               /\ read.ok => read.value \in 0 .. n /\ IsPrefix(Numeral(read.value), Numeral(n))
               /\ s + 2 + Len(Numeral(n)) <= Len(content) => read.ok /\ read.value = n
  <1> DEFINE L == Len(content)
             num == Numeral(n)
             d == Len(num)
             found == FirstOf(content, 1, {key})
             colon == FirstOf(content, found, {Colon})
             p == ValueStart(content, key)
             q == AfterDigits(content, p)
             end == AfterSpaces(content, q)
             digits == SubSeq(content, p, q - 1)
             read == Extract(content, key)
  <1>1. L \in Nat /\ n \in Nat /\ n <= MaxUint /\ MaxUint \in Nat
    BY WidthAssumption
  <1>2. /\ num \in Seq(ToSet(Digits)) /\ d \in Nat /\ d > 0 /\ NumberOf(num) = n
        /\ \A i \in 1 .. d : num[i] \in ToSet(Digits)
        /\ \A j \in 1 .. d : \E m \in 0 .. n : SubSeq(num, 1, j) = Numeral(m)
    <2>1. /\ num \in Seq(ToSet(Digits)) /\ Len(num) > 0 /\ NumberOf(num) = n
          /\ \A j \in 1 .. Len(num) : \E m \in 0 .. n : SubSeq(num, 1, j) = Numeral(m)
      BY <1>1, NumeralsRead
    <2> HIDE DEF num
    <2>2. Len(num) \in Nat /\ \A i \in 1 .. Len(num) : num[i] \in ToSet(Digits)
      BY <2>1
    <2> QED BY <2>1, <2>2
  <1> DEFINE z == s + 3 + d
  <1>3. /\ \A i \in 1 .. L : i < s => content[i] # key
        /\ s <= L => content[s] = key
        /\ s + 1 <= L => content[s + 1] = Colon
        /\ s + 2 <= L => content[s + 2] = Space
        /\ z <= L => \/ content[z] = Comma
                     \/ content[z] = Space /\ (z + 1 <= L => content[z + 1] = Close)
    BY DEF ValueAt
  <1>5. \A i \in 1 .. d : s + 2 + i <= L => content[s + 2 + i] = num[i]
    BY DEF ValueAt
  <1>4. /\ Space # Comma /\ Space # Close
        /\ Comma \notin ToSet(Digits) /\ Space \notin ToSet(Digits)
        /\ \A c \in ToSet(Digits) : c # Space
    <2>1. Space # Comma /\ Space # Close
      BY DEF Space, Comma, Close
    <2> QED BY <2>1, DigitIs DEF Marks
  <1>6. p = IF colon > L THEN colon ELSE AfterSpaces(content, colon + 1)
    BY DEF ValueStart
  <1>14. z = s + 3 + d
    OBVIOUS
  <1> HIDE DEF L, num, d, z, found, colon, p, q, end, digits, read
  <1>7. found = IF s <= L THEN s ELSE L + 1
    <2>1. CASE s <= L
      <3>1. IsFirst(content, 1, {key}, s)
        <4>1. s \in 1 .. L + 1 /\ \A i \in 1 .. s - 1 : i \in 1 .. L /\ i < s
          BY <1>1, <2>1
        <4> QED BY <1>3, <2>1, <4>1 DEF IsFirst, L
      <3>2. Len(content) \in Nat /\ 1 \in 1 .. Len(content) + 1
        BY <1>1 DEF L
      <3> QED BY <2>1, <3>1, <3>2, FirstOfIs DEF found
    <2>2. CASE ~(s <= L)
      <3>1. IsFirst(content, 1, {key}, L + 1)
        <4>1. \A i \in 1 .. (L + 1) - 1 : i \in 1 .. L /\ i < s
          BY <1>1, <2>2
        <4>2. L + 1 \in 1 .. L + 1 /\ ~(L + 1 <= L)
          BY <1>1
        <4> QED BY <1>3, <4>1, <4>2 DEF IsFirst, L
      <3>2. Len(content) \in Nat /\ 1 \in 1 .. Len(content) + 1
        BY <1>1 DEF L
      <3> QED BY <2>2, <3>1, <3>2, FirstOfIs DEF found
    <2> QED BY <2>1, <2>2
  <1>8. colon = IF s + 1 <= L THEN s + 1 ELSE L + 1
    <2>1. found \in 1 .. L + 1
      BY <1>1, <1>7
    <2> DEFINE c == IF s + 1 <= L THEN s + 1 ELSE L + 1
    <2>2. c \in found .. L + 1 /\ (c <= L => c = s + 1)
      BY <1>1, <1>7
    <2>3. \A i \in found .. c - 1 : i = s /\ s <= L
      BY <1>1, <1>7
    <2> HIDE DEF c
    <2>4. IsFirst(content, found, {Colon}, c)
      <3>1. \A i \in found .. c - 1 : content[i] # Colon
        BY <1>3, <2>3
      <3>2. c <= L => content[c] = Colon
        BY <1>3, <2>2
      <3> QED BY <2>2, <3>1, <3>2 DEF IsFirst, L
    <2>5. colon = c
      BY <1>1, <2>1, <2>4, FirstOfIs DEF colon, L
    <2> QED BY <2>5 DEF c
  <1>9. p = IF s + 3 <= L THEN s + 3 ELSE L + 1
    <2>1. CASE s + 1 > L
      BY <1>1, <1>6, <1>8, <2>1
    <2>2. CASE ~(s + 1 > L)
      <3> DEFINE c == IF s + 3 <= L THEN s + 3 ELSE L + 1
      <3>1. p = AfterSpaces(content, s + 2) /\ s + 2 \in 1 .. L + 1
        BY <1>1, <1>6, <1>8, <2>2
      <3>2. c \in s + 2 .. L + 1 /\ (c <= L => c = (s + 2) + 1)
        BY <1>1, <2>2
      <3>3. \A i \in s + 2 .. c - 1 : i = s + 2 /\ s + 2 <= L
        BY <1>1, <2>2
      <3> HIDE DEF c
      <3>4. \A i \in s + 2 .. c - 1 : content[i] = Space
        BY <1>3, <3>3
      <3>5. c <= L => content[c] # Space
        <4>1. 1 \in 1 .. d
          BY <1>2
        <4> QED BY <1>2, <1>4, <1>5, <3>2, <4>1
      <3> DEFINE b == s + 2
      <3>6. /\ b \in 1 .. Len(content) + 1 /\ c \in b .. Len(content) + 1
            /\ \A i \in b .. c - 1 : content[i] = Space
            /\ c <= Len(content) => content[c] # Space
            /\ p = AfterSpaces(content, b)
        BY <3>1, <3>2, <3>4, <3>5 DEF L
      <3> HIDE DEF b
      <3>7. AfterSpaces(content, b) = c
        <4>1. Run(content, b, c, {Space})
          BY <3>6 DEF Run
        <4> QED BY <3>6, <4>1, EndsAre
      <3> QED BY <3>6, <3>7 DEF c
    <2> QED BY <2>1, <2>2
  <1>10. p \in 1 .. L + 1
    BY <1>1, <1>9
  <1>11. /\ digits \in Seq(ToSet(Digits)) /\ Len(digits) = q - p
         /\ \A i \in 1 .. q - p : digits[i] = content[p + i - 1]
         /\ read.ok <=> /\ NumberOf(digits) <= MaxUint /\ p < q
                        /\ end <= L => content[end] \in {Comma, Close}
         /\ read.ok => read.value = NumberOf(digits)
         /\ q \in p .. L + 1
    BY <1>10, ExtractIs DEF L, p, q, end, digits, read
  <1> DEFINE Goal == /\ read.ok <=> s + 3 <= L
                     /\ read.ok => read.value \in 0 .. n /\ IsPrefix(Numeral(read.value), num)
                     /\ z <= L + 1 => read.ok /\ read.value = n
  <1>12. ASSUME ~(s + 3 <= L) PROVE Goal
    <2>1. p = L + 1
      BY <1>9, <1>12
    <2>2. q = L + 1
      BY <1>1, <1>11, <2>1
    <2>3. ~(p < q)
      BY <1>1, <2>1, <2>2
    <2>4. ~(z <= L + 1)
      BY <1>1, <1>2, <1>14, <1>12
    <2> QED BY <1>11, <1>12, <2>3, <2>4
  <1>13. ASSUME s + 3 <= L PROVE Goal
    <2> DEFINE c == IF z <= L + 1 THEN z ELSE L + 1
               k == c - p
    <2>1. p = s + 3
      BY <1>9, <1>13
    <2>2. /\ c \in p .. L + 1 /\ k \in 1 .. d
          /\ (c <= L => c = z) /\ (z <= L + 1 => k = d)
          /\ c = p + k
      BY <1>1, <1>2, <1>14, <1>13, <2>1
    <2>3. z <= L => content[z] \in {Comma, Space}
      BY <1>3
    <2> HIDE DEF c
    <2>4. ASSUME NEW i \in 1 .. k PROVE content[p + i - 1] = num[i] /\ num[i] \in ToSet(Digits)
      <3>1. i \in 1 .. d /\ s + 2 + i = p + i - 1 /\ s + 2 + i <= L
        BY <1>1, <1>2, <2>1, <2>2
      <3> QED BY <1>2, <1>5, <3>1
    <2>5. \A i \in p .. c - 1 : content[i] \in ToSet(Digits)
      <3> TAKE i \in p .. c - 1
      <3>1. i - p + 1 \in 1 .. k /\ p + (i - p + 1) - 1 = i
        BY <1>1, <2>1, <2>2
      <3> QED BY <2>4, <3>1
    <2>6. q = c
      <3>1. /\ p \in 1 .. Len(content) + 1 /\ c \in p .. Len(content) + 1
            /\ c <= Len(content) => content[c] \notin ToSet(Digits)
        BY <1>4, <1>10, <2>2, <2>3 DEF L
      <3>2. AfterDigits(content, p) = c
        <4>1. Run(content, p, c, ToSet(Digits))
          BY <2>5, <3>1 DEF Run
        <4> QED BY <3>1, <4>1, EndsAre
      <3> QED BY <3>2 DEF q
    <2>7. digits = SubSeq(num, 1, k)
      <3>1. k \in 1 .. d /\ Len(digits) = k
        BY <1>11, <2>2, <2>6
      <3> HIDE DEF k
      <3> DEFINE t == SubSeq(num, 1, k)
      <3>2. t \in Seq(ToSet(Digits)) /\ Len(t) = k /\ \A i \in 1 .. k : t[i] = num[i]
        BY <1>2, <3>1 DEF d
      <3> HIDE DEF t
      <3>3. \A i \in 1 .. k : digits[i] = num[i]
        BY <1>11, <2>4, <2>6 DEF k
      <3>4. digits = t
        <4>1. Len(digits) = Len(t) /\ \A i \in 1 .. Len(digits) : digits[i] = t[i]
          BY <3>1, <3>2, <3>3
        <4>2. digits \in Seq(ToSet(Digits)) /\ t \in Seq(ToSet(Digits))
          BY <1>11, <3>2
        <4> HIDE DEF t
        <4> QED BY <4>1, <4>2, SameSeq
      <3> QED BY <3>4 DEF t
    <2>8. PICK m \in 0 .. n : digits = Numeral(m)
      BY <1>2, <2>2, <2>7
    <2>9. m \in Nat /\ NumberOf(digits) = m /\ m <= MaxUint /\ m <= n
      BY <1>1, <2>8, NumeralsRead
    <2>10. p < q
      BY <1>1, <2>1, <2>2, <2>6
    <2>11. end <= L => content[end] \in {Comma, Close}
      <3>1. q \in 1 .. Len(content) + 1
        BY <1>1, <2>1, <2>2, <2>6 DEF L
      <3>2. CASE c <= L /\ content[z] = Comma
        <4>1. /\ c \in c .. Len(content) + 1 /\ c = z
              /\ \A i \in c .. c - 1 : content[i] = Space
              /\ c <= Len(content) => content[c] # Space
          BY <1>1, <1>4, <2>2, <3>2 DEF L
        <4>2. end = c
          <5>1. Run(content, c, c, {Space})
            BY <4>1 DEF Run
          <5> QED BY <2>6, <3>1, <5>1, EndsAre DEF end
        <4> QED BY <3>2, <4>1, <4>2
      <3>3. CASE c <= L /\ content[z] = Space
        <4> DEFINE e == c + 1
        <4>1. c = z /\ (e <= Len(content) => content[e] = Close)
          <5>1. c = z /\ z <= L /\ content[z] # Comma
            BY <1>4, <2>2, <3>3
          <5> QED BY <1>3, <5>1 DEF L
        <4>2. e \in c .. Len(content) + 1 /\ \A i \in c .. e - 1 : i = c
          BY <1>1, <2>2, <3>3 DEF L
        <4> HIDE DEF e
        <4>3. end = e
          <5>1. Run(content, c, e, {Space})
            BY <1>4, <3>3, <4>1, <4>2 DEF Run
          <5> QED BY <2>6, <3>1, <5>1, EndsAre DEF end
        <4> QED BY <4>1, <4>3 DEF L
      <3>4. CASE ~(c <= L)
        <4>1. c = L + 1
          BY <1>1, <2>2, <3>4
        <4>2. end \in q .. Len(content) + 1
          <5>1. Run(content, q, end, {Space})
            BY <3>1, EndsAre DEF end
          <5> QED BY <5>1 DEF Run
        <4>3. end = L + 1
          BY <1>1, <2>6, <4>1, <4>2 DEF L
        <4> QED BY <1>1, <4>3
      <3> QED BY <2>2, <2>3, <3>2, <3>3, <3>4
    <2>12. read.ok /\ read.value = m
      BY <1>11, <2>9, <2>10, <2>11
    <2>13. IsPrefix(Numeral(m), num)
      <3>1. k \in 1 .. d /\ Len(digits) = k
        BY <1>11, <2>2, <2>6
      <3> HIDE DEF k
      <3>2. k <= d /\ SubSeq(digits, 1, k) = digits
        <4>1. \A x \in Seq(ToSet(Digits)) : SubSeq(x, 1, Len(x)) = x
          OBVIOUS
        <4> QED BY <1>2, <1>11, <3>1, <4>1
      <3> QED BY <2>7, <2>8, <3>1, <3>2 DEF IsPrefix, d
    <2>14. z <= L + 1 => m = n
      <3> SUFFICES ASSUME z <= L + 1 PROVE m = n
        OBVIOUS
      <3>1. k = d
        BY <2>2
      <3>2. SubSeq(num, 1, d) = num
        BY <1>2 DEF d
      <3> QED BY <1>2, <2>7, <2>9, <3>1, <3>2
    <2> QED BY <1>13, <2>12, <2>13, <2>14
  <1>15. s + 2 + d <= L <=> z <= L + 1
    BY <1>1, <1>2, <1>14
  <1>16. /\ read.ok <=> s + 3 <= L
         /\ read.ok => read.value \in 0 .. n /\ IsPrefix(Numeral(read.value), num)
         /\ s + 2 + d <= L => read.ok /\ read.value = n
    BY <1>12, <1>13, <1>15
  <1> QED BY <1>16 DEF read, L, d, num

\* What is written of one key, and what the text consists of.
Line(r, i) == <<Order[i], Colon, Space>> \o Numeral(r[Order[i]])
                  \o (IF i < Len(Order) THEN <<Comma>> ELSE <<>>) \o <<Space>>

Lines(r) == [i \in DOMAIN Order |-> Line(r, i)]

Tokens == ToSet(Keys) \cup (Marks \cup ToSet(Digits))

\* The keys differ from each other and from all that stands between them.
LEMMA KeysAre ==
    /\ Len(Keys) \in Nat /\ Len(Keys) > 0 /\ DOMAIN Keys = 1 .. Len(Keys) /\ Order = Keys
    /\ ToSet(Keys) = {Keys[k] : k \in 1 .. Len(Keys)}
    /\ \A k \in 1 .. Len(Keys) :
          /\ Keys[k] \in ToSet(Keys) /\ Keys[k] \notin Marks \cup ToSet(Digits)
          /\ Keys[k] = "segment_count" <=> k = Len(Keys)
          /\ Limit[Keys[k]] \in 0 .. MaxUint
    /\ \A j, k \in 1 .. Len(Keys) : Keys[j] = Keys[k] => j = k
    /\ {Open, Close, Colon, Comma, Space} = Marks
  <1>1. Keys \in Seq(STRING) /\ Keys # <<>> /\ IsInjective(Keys)
    BY KeysAssumption
  <1>2. Len(Keys) \in Nat /\ Len(Keys) > 0 /\ DOMAIN Keys = 1 .. Len(Keys)
    BY <1>1
  <1>3. \A j, k \in 1 .. Len(Keys) : Keys[j] = Keys[k] => j = k
    BY <1>1, <1>2 DEF IsInjective
  <1>4. ToSet(Keys) = {Keys[k] : k \in 1 .. Len(Keys)}
    BY <1>2 DEF ToSet
  <1>5. \A k \in 1 .. Len(Keys) : Keys[k] \in ToSet(Keys)
    BY <1>4
  <1>6. \A k \in 1 .. Len(Keys) : Keys[k] \notin Marks \cup ToSet(Digits)
    BY <1>5, KeysAssumption
  <1> DEFINE count == "segment_count"
  <1>7. \A k \in 1 .. Len(Keys) : Keys[k] = count <=> k = Len(Keys)
    <2>1. Keys[Len(Keys)] = count
      BY KeysAssumption DEF Last
    <2> HIDE DEF count
    <2>2. Len(Keys) \in 1 .. Len(Keys)
      BY <1>2
    <2> QED BY <1>3, <2>1, <2>2
  <1>8. \A k \in 1 .. Len(Keys) : Limit[Keys[k]] \in 0 .. MaxUint
    BY <1>2, WidthAssumption
  <1> QED BY <1>2, <1>3, <1>4, <1>5, <1>6, <1>7, <1>8 DEF Order, Marks

\* What is on a line.
LEMMA LineIs ==
    ASSUME NEW r \in [ToSet(Keys) -> Nat], NEW k \in 1 .. Len(Keys)
    PROVE  LET l == Line(r, k)
               num == Numeral(r[Keys[k]])
           IN  /\ l \in Seq(Tokens) /\ Len(num) \in Nat /\ Len(num) > 0
               /\ Len(l) = Len(num) + (IF k < Len(Keys) THEN 5 ELSE 4)
               /\ l[1] = Keys[k] /\ l[2] = Colon /\ l[3] = Space
               /\ \A i \in 1 .. Len(num) : l[3 + i] = num[i]
               /\ l[Len(num) + 4] = IF k < Len(Keys) THEN Comma ELSE Space
               /\ \A i \in 2 .. Len(l) : l[i] \in Marks \cup ToSet(Digits)
  <1> DEFINE l == Line(r, k)
             num == Numeral(r[Keys[k]])
             d == Len(num)
             others == Marks \cup ToSet(Digits)
             head == <<Keys[k], Colon, Space>>
             tail == IF k < Len(Keys) THEN <<Comma>> ELSE <<>>
             end == <<Space>>
  <1>1. /\ Colon \in others /\ Space \in others /\ Comma \in others
        /\ others \subseteq Tokens /\ ToSet(Digits) \subseteq others /\ Keys[k] \in Tokens
    BY KeysAre DEF Tokens
  <1>2. /\ num \in Seq(ToSet(Digits)) /\ d \in Nat /\ d > 0
        /\ \A i \in 1 .. d : num[i] \in others
    <2>1. r[Keys[k]] \in Nat
      BY KeysAre
    <2>2. num \in Seq(ToSet(Digits)) /\ Len(num) > 0
      BY <2>1, NumeralsRead
    <2> HIDE DEF num
    <2> QED BY <1>1, <2>2
  <1>3. l = ((head \o num) \o tail) \o end
    BY KeysAre DEF Line
  <1> HIDE DEF l, num, others
  <1>4. /\ head \in Seq(Tokens) /\ Len(head) = 3
        /\ head[1] = Keys[k] /\ head[2] = Colon /\ head[3] = Space
    BY <1>1
  <1>5. end \in Seq(Tokens) /\ Len(end) = 1 /\ end[1] = Space
    BY <1>1
  <1>6. /\ tail \in Seq(Tokens) /\ Len(tail) = IF k < Len(Keys) THEN 1 ELSE 0
        /\ k < Len(Keys) => tail[1] = Comma
    <2>1. CASE k < Len(Keys)
      BY <1>1, <2>1
    <2>2. CASE ~(k < Len(Keys))
      BY <1>1, <2>2
    <2> QED BY <2>1, <2>2
  <1> HIDE DEF head, tail, end
  <1>7. num \in Seq(Tokens)
    <2>1. \A i \in 1 .. Len(num) : num[i] \in Tokens
      BY <1>1, <1>2
    <2>2. \A s \in Seq(ToSet(Digits)) :
             (\A i \in 1 .. Len(s) : s[i] \in Tokens) => s \in Seq(Tokens)
      OBVIOUS
    <2> QED BY <1>2, <2>1, <2>2
  <1>0. \A x, y \in Seq(Tokens) :
           /\ x \o y \in Seq(Tokens) /\ Len(x \o y) = Len(x) + Len(y)
           /\ Len(x) \in Nat /\ Len(y) \in Nat
           /\ \A i \in 1 .. Len(x) : (x \o y)[i] = x[i]
           /\ \A i \in 1 .. Len(y) : (x \o y)[Len(x) + i] = y[i]
    OBVIOUS
  <1> DEFINE u == head \o num
             v == u \o tail
  <1>8. /\ u \in Seq(Tokens) /\ Len(u) = 3 + d
        /\ u[1] = Keys[k] /\ u[2] = Colon /\ u[3] = Space
        /\ \A i \in 1 .. d : u[3 + i] = num[i]
    <2>1. /\ u \in Seq(Tokens) /\ Len(u) = Len(head) + Len(num)
          /\ \A i \in 1 .. Len(head) : u[i] = head[i]
          /\ \A i \in 1 .. Len(num) : u[Len(head) + i] = num[i]
      BY <1>0, <1>4, <1>7
    <2> HIDE DEF u
    <2>2. 1 \in 1 .. 3 /\ 2 \in 1 .. 3 /\ 3 \in 1 .. 3
      OBVIOUS
    <2> QED BY <1>4, <2>1, <2>2
  <1> HIDE DEF u
  <1>9. /\ v \in Seq(Tokens) /\ Len(v) = 3 + d + Len(tail)
        /\ \A i \in 1 .. 3 + d : v[i] = u[i]
        /\ k < Len(Keys) => v[3 + d + 1] = Comma
    <2>1. /\ v \in Seq(Tokens) /\ Len(v) = Len(u) + Len(tail)
          /\ \A i \in 1 .. Len(u) : v[i] = u[i]
          /\ \A i \in 1 .. Len(tail) : v[Len(u) + i] = tail[i]
      BY <1>0, <1>6, <1>8
    <2> HIDE DEF v
    <2> QED BY <1>6, <1>8, <2>1
  <1> HIDE DEF v
  <1>10. /\ l \in Seq(Tokens) /\ Len(l) = Len(v) + 1
         /\ \A i \in 1 .. Len(v) : l[i] = v[i]
         /\ l[Len(v) + 1] = Space
    <2>1. /\ v \o end \in Seq(Tokens) /\ Len(v \o end) = Len(v) + Len(end)
          /\ \A i \in 1 .. Len(v) : (v \o end)[i] = v[i]
          /\ \A i \in 1 .. Len(end) : (v \o end)[Len(v) + i] = end[i]
      BY <1>0, <1>5, <1>9
    <2>2. l = v \o end
      BY <1>3 DEF u, v
    <2> QED BY <1>5, <2>1, <2>2
  <1>11. /\ Len(l) = d + (IF k < Len(Keys) THEN 5 ELSE 4)
         /\ Len(v) = d + (IF k < Len(Keys) THEN 4 ELSE 3)
    BY <1>2, <1>6, <1>9, <1>10
  <1>12. \A i \in 1 .. 3 + d : l[i] = u[i]
    <2>1. \A i \in 1 .. 3 + d : i \in 1 .. Len(v)
      BY <1>2, <1>11
    <2> QED BY <1>9, <1>10, <2>1
  <1>13. l[1] = Keys[k] /\ l[2] = Colon /\ l[3] = Space
    <2>1. 1 \in 1 .. 3 + d /\ 2 \in 1 .. 3 + d /\ 3 \in 1 .. 3 + d
      BY <1>2
    <2> QED BY <1>8, <1>12, <2>1
  <1>14. \A i \in 1 .. d : l[3 + i] = num[i]
    <2>1. \A i \in 1 .. d : 3 + i \in 1 .. 3 + d
      BY <1>2
    <2> QED BY <1>8, <1>12, <2>1
  <1>15. l[d + 4] = IF k < Len(Keys) THEN Comma ELSE Space
    <2>1. CASE k < Len(Keys)
      <3>1. d + 4 \in 1 .. Len(v) /\ 3 + d + 1 = d + 4
        BY <1>2, <1>11, <2>1
      <3> QED BY <1>9, <1>10, <2>1, <3>1
    <2>2. CASE ~(k < Len(Keys))
      <3>1. Len(v) + 1 = d + 4
        BY <1>2, <1>11, <2>2
      <3> QED BY <1>10, <2>2, <3>1
    <2> QED BY <2>1, <2>2
  <1>16. ASSUME NEW i \in 2 .. Len(l) PROVE l[i] \in others
    <2>1. i \in {2, 3} \/ (i - 3 \in 1 .. d /\ 3 + (i - 3) = i) \/ i = d + 4 \/ i = Len(v) + 1
      BY <1>2, <1>11
    <2>2. ASSUME i - 3 \in 1 .. d /\ 3 + (i - 3) = i PROVE l[i] \in others
      BY <1>2, <1>14, <2>2
    <2>3. ASSUME i = d + 4 PROVE l[i] \in others
      BY <1>1, <1>15, <2>3
    <2>4. ASSUME i = Len(v) + 1 PROVE l[i] \in others
      BY <1>1, <1>10, <2>4
    <2> QED BY <1>1, <1>13, <2>1, <2>2, <2>3, <2>4
  <1> QED BY <1>2, <1>10, <1>11, <1>13, <1>14, <1>15, <1>16 DEF l, num, others

\* The lines are sequences of tokens, one for each key.
LEMMA LinesAre ==
    ASSUME NEW r \in [ToSet(Keys) -> Nat]
    PROVE  /\ Lines(r) \in Seq(Seq(Tokens)) /\ Len(Lines(r)) = Len(Keys)
           /\ \A k \in 1 .. Len(Keys) : Lines(r)[k] = Line(r, k)
  <1> DEFINE M == Len(Keys)
             L(k) == Line(r, k)
  <1>1. M \in Nat /\ Lines(r) = [k \in 1 .. M |-> L(k)]
    BY KeysAre DEF Lines
  <1>2. \A k \in 1 .. M : L(k) \in Seq(Tokens)
    BY LineIs
  <1> HIDE DEF M, L
  <1>3. Lines(r) \in Seq(Seq(Tokens)) /\ Len(Lines(r)) = M /\ \A k \in 1 .. M : Lines(r)[k] = L(k)
    BY <1>1, <1>2
  <1> QED BY <1>3 DEF M, L

\* The text: the lines one behind the other, between the braces.
LEMMA TextIs ==
    ASSUME NEW r \in [ToSet(Keys) -> Nat]
    PROVE  LET text == RegistryWritten(r)
           IN  /\ text \in Seq(Tokens)
               /\ text[1] = Open /\ text[2] = Space /\ text[Len(text)] = Close
               /\ \E Q : Q[0] = 2 /\ Q[Len(Keys)] + 1 = Len(text) /\ InARow(text, Lines(r), Q)
  <1> DEFINE text == RegistryWritten(r)
             head == <<Open, Space>>
             flat == FlattenSeq(Lines(r))
             end == <<Close>>
             both == head \o flat
  <1>1. Open \in Tokens /\ Space \in Tokens /\ Close \in Tokens
    BY KeysAre DEF Tokens
  <1>2. head \in Seq(Tokens) /\ Len(head) = 2 /\ head[1] = Open /\ head[2] = Space
    BY <1>1
  <1>3. end \in Seq(Tokens) /\ Len(end) = 1 /\ end[1] = Close
    BY <1>1
  <1>4. Lines(r) \in Seq(Seq(Tokens)) /\ Len(Lines(r)) = Len(Keys)
    BY LinesAre
  <1>5. flat \in Seq(Tokens)
    BY <1>4, FlatIsSeq
  <1>6. text = both \o end
    BY DEF RegistryWritten, Lines, Line
  <1> HIDE DEF text, head, flat, end
  <1>7. \A x, y \in Seq(Tokens) :
           /\ x \o y \in Seq(Tokens) /\ Len(x \o y) = Len(x) + Len(y)
           /\ Len(x) \in Nat /\ Len(y) \in Nat
    OBVIOUS
  <1>8. both \in Seq(Tokens) /\ Len(both) = 2 + Len(flat) /\ Len(flat) \in Nat
    BY <1>2, <1>5, <1>7
  <1> HIDE DEF both
  <1>9. text \in Seq(Tokens) /\ Len(text) = Len(both) + 1
    BY <1>3, <1>6, <1>7, <1>8
  <1>10. At(text, 0, both \o end)
    <2>1. \A i \in 1 .. Len(text) : text[0 + i] = text[i]
      OBVIOUS
    <2>2. 0 + Len(text) <= Len(text)
      BY <1>9
    <2> QED BY <1>6, <2>1, <2>2 DEF At
  <1>11. At(text, 0, head \o flat) /\ At(text, 0 + Len(both), end)
    BY <1>3, <1>8, <1>9, <1>10, AtBoth DEF both
  <1>12. At(text, 0, head) /\ At(text, 0 + Len(head), flat)
    BY <1>2, <1>5, <1>9, <1>11, AtBoth
  <1>13. text[1] = Open /\ text[2] = Space
    <2>1. 1 \in 1 .. Len(head) /\ 2 \in 1 .. Len(head) /\ 0 + 1 = 1 /\ 0 + 2 = 2
      BY <1>2
    <2>2. \A i \in 1 .. Len(head) : text[0 + i] = head[i]
      BY <1>12 DEF At
    <2> QED BY <1>2, <2>1, <2>2
  <1>14. text[Len(text)] = Close
    <2>1. (0 + Len(both)) + 1 = Len(text) /\ 1 \in 1 .. Len(end)
      BY <1>3, <1>8, <1>9
    <2>2. \A i \in 1 .. Len(end) : text[(0 + Len(both)) + i] = end[i]
      BY <1>11 DEF At
    <2>3. text[(0 + Len(both)) + 1] = end[1]
      BY <2>1, <2>2
    <2> QED BY <1>3, <2>1, <2>3
  <1>15. At(text, 2, flat)
    BY <1>2, <1>12
  <1>16. PICK Q : Q[0] = 2 /\ Q[Len(Lines(r))] = 2 + Len(flat) /\ InARow(text, Lines(r), Q)
    BY <1>4, <1>9, <1>15, FlatInARow DEF flat
  <1>17. Q[Len(Keys)] + 1 = Len(text)
    BY <1>4, <1>8, <1>9, <1>16
  <1>18. \E P : P[0] = 2 /\ P[Len(Keys)] + 1 = Len(text) /\ InARow(text, Lines(r), P)
    BY <1>16, <1>17
  <1> QED BY <1>9, <1>13, <1>14, <1>18 DEF text

\* Line k begins behind position Q[k - 1]; its key is nowhere in front of it.
LEMMA KeysInARow ==
    ASSUME NEW r \in [ToSet(Keys) -> Nat], NEW text, text = RegistryWritten(r),
           NEW Q, Q[0] = 2, InARow(text, Lines(r), Q)
    PROVE  /\ \A k \in 0 .. Len(Keys) : Q[k] \in Nat
           /\ \A k \in 1 .. Len(Keys) :
                 /\ Q[k] = Q[k - 1] + Len(Line(r, k))
                 /\ Q[k] <= Len(text)
                 /\ \A i \in 1 .. Len(Line(r, k)) : text[Q[k - 1] + i] = Line(r, k)[i]
                 /\ \A i \in 1 .. Q[k - 1] : text[i] # Keys[k]
                 /\ k < Len(Keys) => Q[k] <= Q[Len(Keys) - 1]
  <1> DEFINE M == Len(Keys)
             others == Marks \cup ToSet(Digits)
             L(k) == Line(r, k)
  <1>1. M \in Nat /\ M > 0
    BY KeysAre
  <1>2. /\ \A j, k \in 1 .. M : Keys[j] = Keys[k] => j = k
        /\ \A k \in 1 .. M : Keys[k] \notin others
        /\ Open \in others /\ Space \in others
    BY KeysAre
  <1>3. \A k \in 1 .. M : /\ Len(L(k)) \in Nat /\ L(k)[1] = Keys[k]
                          /\ \A i \in 2 .. Len(L(k)) : L(k)[i] \in others
    <2> TAKE k \in 1 .. M
    <2>1. /\ L(k) \in Seq(Tokens) /\ L(k)[1] = Keys[k]
          /\ \A i \in 2 .. Len(L(k)) : L(k)[i] \in others
      BY LineIs
    <2> HIDE DEF L
    <2>2. Len(L(k)) \in Nat
      BY <2>1
    <2> QED BY <2>1, <2>2
  <1>4. \A k \in 1 .. M : /\ Q[k - 1] \in Nat /\ At(text, Q[k - 1], L(k))
                          /\ Q[k] = Q[k - 1] + Len(L(k))
    BY LinesAre DEF InARow
  <1>5. text[1] = Open /\ text[2] = Space
    BY TextIs
  <1> HIDE DEF M, others, L
  <1>6. \A k \in 1 .. M : /\ Q[k - 1] + Len(L(k)) <= Len(text)
                          /\ \A i \in 1 .. Len(L(k)) : text[Q[k - 1] + i] = L(k)[i]
    BY <1>4 DEF At
  <1>7. \A k \in 0 .. M : Q[k] \in Nat
    <2> TAKE k \in 0 .. M
    <2>1. CASE k = 0
      BY <2>1
    <2>2. CASE k # 0
      <3>1. k \in 1 .. M
        BY <1>1, <2>2
      <3> QED BY <1>3, <1>4, <3>1
    <2> QED BY <2>1, <2>2
  <1> DEFINE Before(j) == \A i \in 1 .. Q[j] : \A k \in j + 1 .. M : text[i] # Keys[k]
             T == {j \in 0 .. M : Before(j)}
  <1>8. 0 \in T
    <2>1. \A i \in 1 .. Q[0] : text[i] \in others
      <3>1. \A i \in 1 .. 2 : i = 1 \/ i = 2
        OBVIOUS
      <3> QED BY <1>2, <1>5, <3>1
    <2>2. 0 + 1 = 1 /\ 0 \in 0 .. M
      BY <1>1
    <2> QED BY <1>2, <2>1, <2>2
  <1>9. ASSUME NEW j \in 1 .. M, j - 1 \in T PROVE j \in T
    <2>1. /\ Before(j - 1) /\ j \in 0 .. M /\ j - 1 \in 0 .. M
          /\ \A k \in j + 1 .. M : k \in (j - 1) + 1 .. M /\ k \in 1 .. M /\ k # j
      BY <1>1, <1>9
    <2>2. ASSUME NEW i \in 1 .. Q[j], NEW k \in j + 1 .. M PROVE text[i] # Keys[k]
      <3> DEFINE p == Q[j - 1]
                 o == i - p
                 n == Len(L(j))
      <3>1. p \in Nat /\ n \in Nat /\ Q[j] = p + n
        BY <1>3, <1>4
      <3>2. CASE i <= p
        <4>1. i \in 1 .. p
          BY <3>1, <3>2
        <4> QED BY <2>1, <4>1
      <3>3. CASE ~(i <= p)
        <4>1. o \in 1 .. n /\ p + o = i /\ (o = 1 \/ o \in 2 .. n)
          BY <3>1, <3>3
        <4>2. text[p + o] = L(j)[o]
          BY <1>6, <4>1
        <4>3. L(j)[o] = Keys[j] \/ L(j)[o] \in others
          BY <1>3, <4>1
        <4> QED BY <1>2, <2>1, <4>1, <4>2, <4>3
      <3> QED BY <3>2, <3>3
    <2> QED BY <2>1, <2>2
  <1> HIDE DEF T
  <1>10. \A k \in 1 .. M : \A i \in 1 .. Q[k - 1] : text[i] # Keys[k]
    <2>1. 0 .. M \subseteq T
      BY <1>1, <1>8, <1>9, UpTo
    <2> TAKE k \in 1 .. M
    <2>2. k - 1 \in 0 .. M /\ k \in (k - 1) + 1 .. M
      BY <1>1
    <2> QED BY <2>1, <2>2 DEF T
  <1> DEFINE Up(j) == \A k \in 0 .. j : Q[k] <= Q[j]
             S == {j \in 0 .. M : Up(j)}
  <1>11. 0 \in S
    BY <1>1, <1>7
  <1>12. ASSUME NEW j \in 1 .. M, j - 1 \in S PROVE j \in S
    <2>1. Up(j - 1) /\ j \in 0 .. M /\ j - 1 \in 0 .. M
      BY <1>1, <1>12
    <2>2. Q[j - 1] \in Nat /\ Q[j] \in Nat /\ Q[j - 1] <= Q[j]
      <3>1. Len(L(j)) \in Nat /\ Q[j] = Q[j - 1] + Len(L(j)) /\ Q[j - 1] \in Nat
        BY <1>3, <1>4
      <3> QED BY <3>1
    <2>3. ASSUME NEW k \in 0 .. j PROVE Q[k] <= Q[j]
      <3>1. CASE k = j
        BY <2>2, <3>1
      <3>2. CASE k # j
        <4>1. k \in 0 .. j - 1 /\ k \in 0 .. M
          BY <1>1, <3>2
        <4>2. Q[k] <= Q[j - 1] /\ Q[k] \in Nat
          BY <1>7, <2>1, <4>1
        <4> QED BY <2>2, <4>2
      <3> QED BY <3>1, <3>2
    <2> QED BY <2>1, <2>3
  <1> HIDE DEF S
  <1>13. \A k \in 1 .. M : k < M => Q[k] <= Q[M - 1]
    <2>1. 0 .. M \subseteq S
      BY <1>1, <1>11, <1>12, UpTo
    <2>2. M - 1 \in 0 .. M /\ \A k \in 1 .. M : k < M => k \in 0 .. M - 1
      BY <1>1
    <2> QED BY <2>1, <2>2 DEF S
  <1>14. \A k \in 1 .. M : Q[k] <= Len(text) /\ Q[k] = Q[k - 1] + Len(L(k))
    BY <1>4, <1>6
  <1> QED BY <1>6, <1>7, <1>10, <1>13, <1>14 DEF M, L

\* In a part of the text a key and its value are there as far as it goes.
LEMMA ValueIsThere ==
    ASSUME NEW r \in [ToSet(Keys) -> Nat], NEW text, text = RegistryWritten(r),
           NEW Q, Q[0] = 2, Q[Len(Keys)] + 1 = Len(text), InARow(text, Lines(r), Q),
           NEW content \in Seq(Tokens), IsStart(content, text),
           NEW k \in 1 .. Len(Keys), NEW s, s = Q[k - 1] + 1
    PROVE  /\ ValueAt(content, Keys[k], s, r[Keys[k]])
           /\ s \in Nat /\ s > 0
           /\ s + 2 + Len(Numeral(r[Keys[k]])) <= Q[k]
  <1> DEFINE M == Len(Keys)
             C == Len(content)
             p == Q[k - 1]
             l == Line(r, k)
             key == Keys[k]
             num == Numeral(r[key])
             d == Len(num)
             z == s + 3 + d
  <1>1. M \in Nat /\ C \in Nat /\ k <= M
    <2>1. C \in Nat
      OBVIOUS
    <2>2. M \in Nat
      BY KeysAre
    <2> QED BY <2>1, <2>2
  <1>2. /\ p \in Nat /\ Q[k] = p + Len(l) /\ Q[k] <= Len(text)
        /\ \A i \in 1 .. Len(l) : text[p + i] = l[i]
        /\ \A i \in 1 .. p : text[i] # key
    <2>1. k - 1 \in 0 .. Len(Keys) /\ k \in 1 .. Len(Keys)
      BY <1>1
    <2> HIDE DEF M, C, p, l, key, num, d
    <2>2. \A j \in 0 .. Len(Keys) : Q[j] \in Nat
      BY KeysInARow
    <2>3. \A j \in 1 .. Len(Keys) :
             /\ Q[j] = Q[j - 1] + Len(Line(r, j))
             /\ Q[j] <= Len(text)
             /\ \A i \in 1 .. Len(Line(r, j)) : text[Q[j - 1] + i] = Line(r, j)[i]
             /\ \A i \in 1 .. Q[j - 1] : text[i] # Keys[j]
      BY KeysInARow
    <2> QED BY <2>1, <2>2, <2>3 DEF p, l, key
  <1>3. /\ d \in Nat /\ d > 0 /\ Len(l) = d + (IF k < M THEN 5 ELSE 4)
        /\ l[1] = key /\ l[2] = Colon /\ l[3] = Space
        /\ \A i \in 1 .. d : l[3 + i] = num[i]
        /\ l[d + 4] = IF k < M THEN Comma ELSE Space
    BY LineIs
  <1>4. text[Len(text)] = Close
    BY TextIs
  <1>5. C <= Len(text) /\ \A i \in 1 .. C : content[i] = text[i]
    BY DEF IsStart
  <1>6. Q[M] + 1 = Len(text) /\ s = p + 1
    OBVIOUS
  <1> HIDE DEF M, C, p, l, key, num, d
  <1>14. Len(l) \in Nat /\ d + 4 <= Len(l) /\ (~(k < M) => Len(l) = d + 4)
    BY <1>3
  <1>15. s \in Nat /\ s > 0 /\ s - 1 = p
    BY <1>2, <1>6
  <1>16. p \in Nat /\ d \in Nat /\ d > 0 /\ s \in Nat /\ s = p + 1
    BY <1>2, <1>3, <1>6, <1>15
  <1>7. \A i \in 1 .. Len(l) : p + i <= C => content[p + i] = l[i]
    <2> TAKE i \in 1 .. Len(l)
    <2> SUFFICES ASSUME p + i <= C PROVE content[p + i] = l[i]
      OBVIOUS
    <2>1. p + i \in 1 .. C
      BY <1>1, <1>2
    <2> QED BY <1>2, <1>5, <2>1
  <1>8. \A i \in 1 .. C : i < s => content[i] # key
    <2>1. \A i \in 1 .. C : i < s => i \in 1 .. p
      BY <1>1, <1>2, <1>6
    <2> QED BY <1>2, <1>5, <2>1
  <1>9. /\ s <= C => content[s] = key
        /\ s + 1 <= C => content[s + 1] = Colon
        /\ s + 2 <= C => content[s + 2] = Space
    <2>1. 1 \in 1 .. Len(l) /\ 2 \in 1 .. Len(l) /\ 3 \in 1 .. Len(l)
      BY <1>3, <1>14
    <2>2. s = p + 1 /\ s + 1 = p + 2 /\ s + 2 = p + 3
      BY <1>2, <1>6
    <2> QED BY <1>3, <1>7, <2>1, <2>2
  <1>10. \A i \in 1 .. d : s + 2 + i <= C => content[s + 2 + i] = num[i]
    <2> TAKE i \in 1 .. d
    <2>1. i \in Nat /\ 1 <= i /\ i <= d
      BY <1>16
    <2>2. 3 + i \in 1 .. Len(l)
      BY <1>14, <1>16, <2>1
    <2>3. s + 2 + i = p + (3 + i)
      BY <1>16, <2>1
    <2> QED BY <1>3, <1>7, <2>2, <2>3
  <1>11. z <= C => \/ content[z] = Comma
                   \/ content[z] = Space /\ (z + 1 <= C => content[z + 1] = Close)
    <2>1. d + 4 \in 1 .. Len(l) /\ z = p + (d + 4)
      BY <1>14, <1>16
    <2>2. z <= C => content[z] = l[d + 4]
      BY <1>7, <2>1
    <2>3. CASE k < M
      BY <1>3, <2>2, <2>3
    <2>4. CASE ~(k < M)
      <3>1. k = M /\ Len(l) = d + 4
        BY <1>1, <1>3, <2>4 DEF M
      <3>2. z + 1 = Len(text)
        BY <1>2, <1>6, <2>1, <3>1
      <3>3. z + 1 <= C => z + 1 \in 1 .. C
        BY <1>1, <1>16
      <3>4. z + 1 <= C => content[z + 1] = Close
        BY <1>4, <1>5, <3>2, <3>3
      <3> QED BY <1>3, <2>2, <2>4, <3>4
    <2> QED BY <2>3, <2>4
  <1>12. ValueAt(content, key, s, r[key])
    <2>1. /\ \A i \in 1 .. Len(content) : i < s => content[i] # key
          /\ s <= Len(content) => content[s] = key
          /\ s + 1 <= Len(content) => content[s + 1] = Colon
          /\ s + 2 <= Len(content) => content[s + 2] = Space
      BY <1>8, <1>9 DEF C
    <2>2. /\ \A i \in 1 .. d : s + 2 + i <= Len(content) => content[s + 2 + i] = num[i]
          /\ z <= Len(content) =>
                \/ content[z] = Comma
                \/ content[z] = Space /\ (z + 1 <= Len(content) => content[z + 1] = Close)
      BY <1>10, <1>11 DEF C
    <2> QED BY <2>1, <2>2 DEF ValueAt, num, d
  <1>13. s \in Nat /\ s > 0 /\ s + 2 + d <= Q[k]
    BY <1>2, <1>14, <1>16
  <1> QED BY <1>12, <1>13 DEF key, num, d

\* What load() makes of a part of the text.
LEMMA RegistryIsRead ==
    ASSUME NEW r \in [ToSet(Keys) -> Nat], \A key \in ToSet(Keys) : Plausible(key, r[key]),
           NEW text, text = RegistryWritten(r),
           NEW content \in Seq(Tokens), IsStart(content, text),
           NEW read, read = LoadRegistry(content)
    PROVE  /\ Len(content) = Len(text) => read = [ok |-> TRUE, value |-> r]
           /\ DOMAIN read.value = ToSet(Keys)
           /\ read.ok =>
                 /\ \A key \in ToSet(Keys) \ {"segment_count"} : read.value[key] = r[key]
                 /\ IsPrefix(Numeral(read.value["segment_count"]), Numeral(r["segment_count"]))
  <1> DEFINE M == Len(Keys)
             C == Len(content)
             of(key) == Extract(content, key)
             value == [key \in ToSet(Keys) |-> of(key).value]
             ok == \A key \in ToSet(Keys) : of(key).ok /\ Plausible(key, of(key).value)
             d(k) == Len(Numeral(r[Keys[k]]))
             count == "segment_count"
  <1>1. PICK Q : Q[0] = 2 /\ Q[Len(Keys)] + 1 = Len(text) /\ InARow(text, Lines(r), Q)
    BY TextIs
  <1>2. /\ M \in Nat /\ M > 0 /\ Keys[M] = count /\ count \in ToSet(Keys)
        /\ ToSet(Keys) = {Keys[k] : k \in 1 .. M}
        /\ \A k \in 1 .. M : Keys[k] = count <=> k = M
    <2>1. Len(Keys) \in Nat /\ Len(Keys) > 0
      BY KeysAre
    <2>2. Len(Keys) \in 1 .. Len(Keys)
      BY <2>1
    <2> QED BY <2>2, KeysAre
  <1>3. \A k \in 1 .. M : /\ r[Keys[k]] \in 0 .. MaxUint /\ Keys[k] # Colon
                          /\ \A n \in 0 .. r[Keys[k]] : n <= Limit[Keys[k]]
    <2> TAKE k \in 1 .. M
    <2>1. /\ Keys[k] \in ToSet(Keys) /\ Keys[k] \notin Marks \cup ToSet(Digits)
          /\ Limit[Keys[k]] \in 0 .. MaxUint /\ Colon \in Marks
      BY KeysAre
    <2>2. r[Keys[k]] \in Nat /\ r[Keys[k]] <= Limit[Keys[k]]
      BY <2>1 DEF Plausible
    <2>3. MaxUint \in Nat
      BY WidthAssumption
    <2> QED BY <2>1, <2>2, <2>3
  <1>4. C \in Nat /\ C <= Len(text)
    BY DEF IsStart
  <1>5. read = [ok |-> ok, value |-> value]
    BY DEF LoadRegistry
  <1> DEFINE s(k) == Q[k - 1] + 1
  <1>6. \A k \in 1 .. M : /\ ValueAt(content, Keys[k], s(k), r[Keys[k]])
                          /\ s(k) \in Nat /\ s(k) > 0
                          /\ s(k) + 2 + d(k) <= Q[k]
    BY <1>1, ValueIsThere
  <1>7. \A k \in 1 .. M : /\ Q[k] \in Nat /\ Q[k] <= Len(text) /\ Q[k - 1] \in Nat
                          /\ k < M => Q[k] <= Q[M - 1]
    <2>1. \A k \in 0 .. Len(Keys) : Q[k] \in Nat
      BY <1>1, KeysInARow
    <2>2. \A k \in 1 .. Len(Keys) : Q[k] <= Len(text) /\ (k < Len(Keys) => Q[k] <= Q[Len(Keys) - 1])
      BY <1>1, KeysInARow
    <2>3. \A k \in 1 .. M : k \in 0 .. Len(Keys) /\ k - 1 \in 0 .. Len(Keys)
      BY <1>2
    <2> QED BY <2>1, <2>2, <2>3
  <1> HIDE DEF M, C, of, d, count
  <1>8. ASSUME NEW k \in 1 .. M
        PROVE  /\ of(Keys[k]).ok <=> s(k) + 3 <= C
               /\ of(Keys[k]).ok => /\ of(Keys[k]).value \in 0 .. r[Keys[k]]
                                    /\ IsPrefix(Numeral(of(Keys[k]).value), Numeral(r[Keys[k]]))
               /\ s(k) + 2 + d(k) <= C => of(Keys[k]).ok /\ of(Keys[k]).value = r[Keys[k]]
    <2> DEFINE key == Keys[k]
               n == r[key]
               t == s(k)
    <2>1. /\ ValueAt(content, key, t, n) /\ t \in Nat /\ t > 0 /\ n \in 0 .. MaxUint /\ key # Colon
      BY <1>3, <1>6
    <2> HIDE DEF key, n, t
    <2>2. /\ Extract(content, key).ok <=> t + 3 <= Len(content)
          /\ Extract(content, key).ok =>
                /\ Extract(content, key).value \in 0 .. n
                /\ IsPrefix(Numeral(Extract(content, key).value), Numeral(n))
          /\ t + 2 + Len(Numeral(n)) <= Len(content) =>
                Extract(content, key).ok /\ Extract(content, key).value = n
      BY <2>1, KeyIsRead
    <2> QED BY <2>2 DEF key, n, t, of, C, d
  <1>9. ASSUME NEW k \in 1 .. M, Q[k] <= C
        PROVE  of(Keys[k]).ok /\ of(Keys[k]).value = r[Keys[k]]
    <2>1. d(k) \in Nat
      <3>1. r[Keys[k]] \in Nat
        BY <1>3
      <3>2. Numeral(r[Keys[k]]) \in Seq(ToSet(Digits))
        BY <3>1, NumeralsRead
      <3> DEFINE num == Numeral(r[Keys[k]])
      <3>3. num \in Seq(ToSet(Digits))
        BY <3>2
      <3> HIDE DEF num
      <3>4. Len(num) \in Nat
        BY <3>3
      <3> QED BY <3>4 DEF d, num
    <2>2. s(k) + 2 + d(k) <= C
      BY <1>4, <1>6, <1>7, <1>9, <2>1
    <2> QED BY <1>8, <2>2
  <1>10. ASSUME C = Len(text) PROVE read = [ok |-> TRUE, value |-> r]
    <2>1. \A k \in 1 .. M : of(Keys[k]).ok /\ of(Keys[k]).value = r[Keys[k]]
      BY <1>7, <1>9, <1>10
    <2>2. \A key \in ToSet(Keys) : of(key).ok /\ of(key).value = r[key]
      BY <1>2, <2>1
    <2>3. ok
      BY <2>2
    <2>4. value = r
      BY <2>2
    <2> HIDE DEF ok, value
    <2> QED BY <1>5, <2>3, <2>4
  <1>11. DOMAIN read.value = ToSet(Keys)
    BY <1>5
  <1>12. ASSUME read.ok
         PROVE  /\ \A key \in ToSet(Keys) \ {count} : read.value[key] = r[key]
                /\ IsPrefix(Numeral(read.value[count]), Numeral(r[count]))
    <2>1. \A key \in ToSet(Keys) : of(key).ok /\ read.value[key] = of(key).value
      BY <1>5, <1>12
    <2>2. M \in 1 .. M /\ of(Keys[M]).ok
      BY <1>2, <2>1
    <2>3. IsPrefix(Numeral(read.value[count]), Numeral(r[count]))
      BY <1>2, <1>8, <2>1, <2>2
    <2>4. Q[M - 1] < C
      <3>1. s(M) + 3 <= C /\ Q[M - 1] \in Nat
        BY <1>7, <1>8, <2>2
      <3> QED BY <1>4, <3>1
    <2>5. ASSUME NEW key \in ToSet(Keys) \ {count} PROVE read.value[key] = r[key]
      <3>1. PICK k \in 1 .. M : key = Keys[k]
        BY <1>2
      <3>2. k < M
        BY <1>2, <3>1
      <3>3. Q[k] <= C
        <4>1. Q[k] <= Q[M - 1] /\ Q[k] \in Nat /\ Q[M - 1] \in Nat
          BY <1>7, <2>2, <3>2
        <4> QED BY <1>4, <2>4, <4>1
      <3> QED BY <1>9, <2>1, <3>1, <3>3
    <2> QED BY <2>3, <2>5
  <1> QED BY <1>10, <1>11, <1>12 DEF C, count

\* What load() accepts of a registry that is not whole is what was written,
\* but for the number of segments, of which the last digits may be missing; of
\* a whole one it reads back everything (segment_manager.cpp:36-51, 157-219).
THEOREM RegistryReadsBack == Spec => []RegistryReadBack
  <1>1. ASSUME IInv PROVE RegistryReadBack
    <2> DEFINE r == call.registry
               text == RegistryWritten(r)
               read == LoadRegistry(ContentLeft)
               count == "segment_count"
    <2> SUFFICES ASSUME Returned("load")
                 PROVE  /\ ContentLeft = text => answer[1] = [ok |-> TRUE, value |-> r]
                        /\ answer[1].ok =>
                              /\ \A key \in DOMAIN answer[1].value \ {count} :
                                    answer[1].value[key] = r[key]
                              /\ IsPrefix(Numeral(answer[1].value[count]), Numeral(r[count]))
      BY DEF RegistryReadBack
    <2>1. call.op = "load" /\ answer # <<>>
      BY DEF Returned
    <2>2. answer[1] = read
      <3>1. answer = <<LoadRegistry(ContentLeft)>>
        BY <1>1, <2>1 DEF IInv, Gives
      <3> QED BY <3>1
    <2>3. call \in RegistryCalls
      BY <1>1, <2>1, CallKinds DEF IInv
    <2>4. /\ call.length \in Nat /\ r \in [ToSet(Keys) -> Nat]
          /\ \A key \in ToSet(Keys) : Plausible(key, r[key])
      BY <2>3, ReadAssumption
    <2>5. ContentLeft = Cut(text, call.length)
      BY DEF ContentLeft
    <2> HIDE DEF r
    <2>6. text \in Seq(Tokens)
      BY <2>4, TextIs
    <2>7. /\ ContentLeft \in Seq(Tokens) /\ IsStart(ContentLeft, text)
          /\ ContentLeft = text <=> Len(ContentLeft) = Len(text)
      <3> HIDE DEF text
      <3> QED BY <2>4, <2>5, <2>6, CutIsStart
    <2>8. /\ Len(ContentLeft) = Len(text) => read = [ok |-> TRUE, value |-> r]
          /\ DOMAIN read.value = ToSet(Keys)
          /\ read.ok =>
                /\ \A key \in ToSet(Keys) \ {"segment_count"} : read.value[key] = r[key]
                /\ IsPrefix(Numeral(read.value["segment_count"]), Numeral(r["segment_count"]))
      BY <2>4, <2>7, RegistryIsRead
    <2> HIDE DEF read, text
    <2> QED BY <2>2, <2>7, <2>8
  <1> QED BY <1>1, AnswersAreGiven, PTL

=============================================================================
