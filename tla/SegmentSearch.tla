--------------------------- MODULE SegmentSearch ----------------------------
(***************************************************************************)
(* SegmentManager::search() (segment/segment_manager.cpp): the query goes  *)
(* to the active segment unless it is empty, then to every sealed one;     *)
(* each answers with up to k of its vectors; the answers are concatenated, *)
(* sorted by distance alone and cut to k.                                  *)
(*                                                                         *)
(* HnswIndex::search() is approximate when ef is below the number of nodes *)
(* (HnswIndex models it): which vectors a segment finds is left open here, *)
(* as any set of them.  It answers with these, distinct, in order of       *)
(* distance and cut to k.                                                  *)
(*                                                                         *)
(* A segment is a record of dist, the distance of the query to each of its *)
(* vectors, and found, the vectors that the search of its graph finds; db  *)
(* is the sequence of them, the active one first.  A hit <<s, o>> is       *)
(* vector o of segment s, which QueryResult names by its user id.          *)
(***************************************************************************)
EXTENDS Integers, Sequences, FiniteSets, SequencesExt

HitDistance(db, hit) == db[hit[1]].dist[hit[2]]

\* The hits of S in an order that sorting by distance may give them.
SortedHits(db, S) ==
    {hits \in SetToSeqs(S) :
        IsSorted(hits, LAMBDA g, h : HitDistance(db, g) <= HitDistance(db, h))}

FirstHits(hits, k) == SubSeq(hits, 1, IF Len(hits) > k THEN k ELSE Len(hits))

\* The search of segment s: the best of what it finds.
SegmentAnswers(db, k, s) ==
    {FirstHits(hits, k) : hits \in SortedHits(db, {<<s, o>> : o \in db[s].found})}

\* Mutant of Ask: every segment is asked for its share of k only.
AskForShare(db, k, s) ==
    IF db[s].dist = <<>> THEN {<<>>} ELSE SegmentAnswers(db, (k + 1) \div 2, s)

\* The active segment is skipped while it is empty; a sealed one never is.
Ask(db, k, s) == IF db[s].dist = <<>> THEN {<<>>} ELSE SegmentAnswers(db, k, s)

\* What all may hold when every segment has answered.
AllAnswers(db, k) ==
    LET all[n \in 0 .. Len(db)] ==
            IF n = 0 THEN {<<>>}
            ELSE {before \o hits : before \in all[n - 1], hits \in Ask(db, k, n)}
    IN  all[Len(db)]

\* std::sort, and resize() when there are more than k.
Merge(db, k, all) == {FirstHits(hits, k) : hits \in SortedHits(db, ToSet(all))}

DatabaseSearch(db, k) == UNION {Merge(db, k, all) : all \in AllAnswers(db, k)}

=============================================================================
