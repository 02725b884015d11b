----------------------------- MODULE FlatIndex ------------------------------
(***************************************************************************)
(* FlatIndex::search() (index/flat_index.h): one pass over the store that  *)
(* keeps the k nearest vectors seen so far in a heap, then drains the heap *)
(* into the answer.  A SearchResult is compared by distance alone, so the  *)
(* top of the heap is any of the farthest ones in it: each operator gives  *)
(* the set of what its step may leave behind.                              *)
(*                                                                         *)
(* dist[i] is the distance from the query to vector i - 1 of the store; pq *)
(* is the set of vectors in the heap.                                      *)
(***************************************************************************)
EXTENDS Integers, Sequences, FiniteSets

\* What pq.top() may be.
Tops(dist, pq) == {t \in pq : \A v \in pq : dist[v] <= dist[t]}

\* Mutant of Offer: the top goes whether the new vector is closer or not.
OfferAlways(dist, k, pq, i) ==
    IF Cardinality(pq) < k THEN {pq \cup {i}}
    ELSE {(pq \ {t}) \cup {i} : t \in Tops(dist, pq)}

\* The next vector is pushed, takes the place of the top, or is left out.
Offer(dist, k, pq, i) ==
    IF Cardinality(pq) < k THEN {pq \cup {i}}
    ELSE {IF dist[i] < dist[t] THEN (pq \ {t}) \cup {i} ELSE pq : t \in Tops(dist, pq)}

\* The heap after the loop over the store.
Scanned(dist, k) ==
    LET heaps[n \in 0 .. Len(dist)] ==
            IF n = 0 THEN {{}} ELSE UNION {Offer(dist, k, pq, n) : pq \in heaps[n - 1]}
    IN  heaps[Len(dist)]

\* The farthest comes out first and, after the reversal, last.
TakeOut(dist, d) ==
    {[left |-> d.left \ {t}, out |-> <<t>> \o d.out] : t \in Tops(dist, d.left)}

\* The answers after the loop that empties the heap.
Drained(dist, pq) ==
    LET drains[n \in 0 .. Cardinality(pq)] ==
            IF n = 0 THEN {[left |-> pq, out |-> <<>>]}
            ELSE UNION {TakeOut(dist, d) : d \in drains[n - 1]}
    IN  {d.out : d \in drains[Cardinality(pq)]}

FlatSearch(dist, k) ==
    IF k = 0 \/ dist = <<>> THEN {<<>>}
    ELSE UNION {Drained(dist, pq) : pq \in Scanned(dist, k)}

=============================================================================
