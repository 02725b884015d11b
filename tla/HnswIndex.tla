----------------------------- MODULE HnswIndex ------------------------------
(***************************************************************************)
(* HnswIndex (index/hnsw_index.h) over concrete vectors: the same steps of *)
(* insert() as HnswGraph, with the distances, the search and the selection *)
(* of neighbours that HnswGraph leaves open, the neighbour lists in their  *)
(* order, and search() as an operator on the graph.                        *)
(*                                                                         *)
(* A vector is a tuple of integers.  std::pair<float, Offset> is a pair    *)
(* compared the same way; a priority queue is a set of pairs, of which the *)
(* nearest or the farthest is taken: the offsets in it are distinct.       *)
(*                                                                         *)
(* A loop is a recursive function of the number of its rounds.  The main   *)
(* loop of greedy_search() has at most one for every node: a node is put   *)
(* into the queue once, and after the break nothing changes any more.      *)
(***************************************************************************)
EXTENDS Integers, Sequences, FiniteSets, SequencesExt

CONSTANTS
    Dimensions, \* store_.dimensions()
    Point,      \* the vectors that are inserted and searched for
    M,          \* build_params_.m
    Ef,         \* build_params_.ef_construction
    MaxNodes,   \* bound: vectors in a segment
    MaxLayered, \* bound: vectors in a segment, when some are above layer 0
    TopLevel,   \* bound: the highest level that insert() draws
    IntValues,  \* how many values an int has, which search() casts k to
    K,          \* the values of k that are asked for
    EfSearch    \* the values of ef_search that are asked for

ASSUME PointAssumption == Dimensions \in Nat /\ Point \subseteq [1 .. Dimensions -> Int]
ASSUME MAssumption == M \in Nat /\ M > 1
ASSUME EfAssumption == Ef \in Nat \ {0}
ASSUME MaxNodesAssumption == MaxNodes \in Nat
ASSUME MaxLayeredAssumption == MaxLayered \in 0 .. MaxNodes
ASSUME TopLevelAssumption == TopLevel \in Nat
ASSUME SearchAssumption ==
    IntValues \in Nat \ {0} /\ K \subseteq Nat /\ EfSearch \subseteq Nat \ {0}

Node  == 0 .. MaxNodes - 1
Layer == 0 .. TopLevel
None  == -1     \* no insert() in progress

VARIABLES
    store,      \* the vectors, in offset order
    levels,     \* levels[n]: the top layer of node n
    nbrs,       \* nbrs[l][n]: the neighbour list of node n on layer l
    entry,      \* graph_.entry_point
    maxLevel,   \* graph_.max_level
    cur,        \* vector_id of the insert() in progress, or None
    layer,      \* the layer it is working on
    start,      \* where its next greedy_search() starts
    todo        \* what is left of selected, in order

graph == <<store, levels, nbrs, entry, maxLevel>>
vars  == <<graph, cur, layer, start, todo>>

\* Mutant of MaxConnections: layer 0 has no more slots than the others.
MaxConnectionsFlat(l) == IF l \in Layer THEN M ELSE 0

MaxConnections(l) == IF l = 0 THEN 2 * M ELSE M

Vector(n) == store[n + 1]

\* l2_distance()
Dist(v, w) ==
    LET sum[i \in 0 .. Dimensions] ==
            IF i = 0 THEN 0 ELSE sum[i - 1] + (v[i] - w[i]) * (v[i] - w[i])
    IN  sum[Dimensions]

-----------------------------------------------------------------------------
(* std::pair<float, Offset>                                                *)

Pair(q, n) == <<Dist(q, Vector(n)), n>>

Closer(a, b) == a[1] < b[1] \/ (a[1] = b[1] /\ a[2] < b[2])

Nearest(S)  == CHOOSE a \in S : \A b \in S \ {a} : Closer(a, b)
Farthest(S) == CHOOSE a \in S : \A b \in S \ {a} : Closer(b, a)

\* The offsets of a set of pairs, nearest first.
Before(S, a) == {b \in S : Closer(b, a)}
Offsets(S) ==
    LET at(i) == CHOOSE a \in S : Cardinality(Before(S, a)) = i - 1
    IN  [i \in 1 .. Cardinality(S) |-> at(i)[2]]

-----------------------------------------------------------------------------
(* greedy_search()                                                         *)

\* A node joins the results when there is room or it is closer than the worst.
Improves(found, c, ef) == Cardinality(found) < ef \/ c[1] < Farthest(found)[1]

\* Mutant of Pushed: the heap has its nearest element on top.
PushedNearestOnTop(found, c, ef) ==
    IF Cardinality(found) < ef THEN found \cup {c}
                               ELSE (found \cup {c}) \ {Nearest(found \cup {c})}

\* The results after a push, and a pop if that was one too many.
Pushed(found, c, ef) ==
    IF Cardinality(found) < ef THEN found \cup {c}
                               ELSE (found \cup {c}) \ {Farthest(found \cup {c})}

\* One neighbour of the node being expanded.
Visit(q, ef, s, nb) ==
    LET c == Pair(q, nb)
        seen == s.visited \cup {nb}
    IN  IF nb \in s.visited THEN s
        ELSE IF Improves(s.found, c, ef)
             THEN [open |-> s.open \cup {c}, found |-> Pushed(s.found, c, ef), visited |-> seen]
             ELSE [s EXCEPT !.visited = seen]

\* All neighbours of the node being expanded, in order.
Expanded(q, ef, s, neighbors) ==
    LET after[i \in 0 .. Len(neighbors)] ==
            IF i = 0 THEN s ELSE Visit(q, ef, after[i - 1], neighbors[i])
    IN  after[Len(neighbors)]

\* The queue is empty, or its nearest element farther than the worst result.
Done(s) == s.open = {} \/ Nearest(s.open)[1] > Farthest(s.found)[1]

\* One round of the main loop.
Round(q, l, ef, s) ==
    LET c == Nearest(s.open)
    IN  IF Done(s) THEN s
        ELSE Expanded(q, ef, [s EXCEPT !.open = s.open \ {c}], nbrs[l][c[2]])

\* The results when the main loop has ended.
Found(q, l, from, ef) ==
    LET c == Pair(q, from)
        rounds[n \in 0 .. Len(store)] ==
            IF n = 0 THEN [open |-> {c}, found |-> {c}, visited |-> {from}]
                     ELSE Round(q, l, ef, rounds[n - 1])
    IN  rounds[Len(store)].found

GreedySearch(q, l, from, ef) == Offsets(Found(q, l, from, ef))

-----------------------------------------------------------------------------
(* select_neighbors_heuristic()                                            *)

\* Accepted only if closer to base than to any selected neighbour.
IfDiverse(base, sel, c, m) ==
    IF /\ Len(sel) < m
       /\ \A n \in ToSet(sel) : Dist(Vector(c), Vector(n)) >= Dist(base, Vector(c))
    THEN Append(sel, c) ELSE sel

Diverse(base, candidates, m) ==
    LET sel[i \in 0 .. Len(candidates)] ==
            IF i = 0 THEN <<>> ELSE IfDiverse(base, sel[i - 1], candidates[i], m)
    IN  sel[Len(candidates)]

\* Mutant of Selected: the remaining slots stay empty.
SelectedDiverseOnly(base, candidates, m) == Diverse(base, candidates, m)

\* The remaining slots go to the closest of the others.
IfRoom(sel, c, m) == IF Len(sel) < m /\ c \notin ToSet(sel) THEN Append(sel, c) ELSE sel

Selected(base, candidates, m) ==
    LET sel[i \in 0 .. Len(candidates)] ==
            IF i = 0 THEN Diverse(base, candidates, m)
                     ELSE IfRoom(sel[i - 1], candidates[i], m)
    IN  sel[Len(candidates)]

-----------------------------------------------------------------------------
(* insert()                                                                *)

Init ==
    /\ store = <<>>
    /\ levels = [n \in Node |-> 0]
    /\ nbrs = [l \in Layer |-> [n \in Node |-> <<>>]]
    /\ entry = 0
    /\ maxLevel = 0
    /\ cur = None
    /\ layer = 0
    /\ start = 0
    /\ todo = <<>>

\* The vector is stored, a level drawn, and the node added.
AddNode(v, l) ==
    /\ cur = None
    /\ Len(store) < IF maxLevel = 0 /\ l = 0 THEN MaxNodes ELSE MaxLayered
    /\ store' = Append(store, v)
    /\ levels' = [levels EXCEPT ![Len(store)] = l]
    /\ IF store = <<>>
       THEN /\ entry' = 0
            /\ maxLevel' = l
            /\ UNCHANGED <<cur, layer, start>>
       ELSE /\ cur' = Len(store)
            /\ layer' = maxLevel
            /\ start' = entry
            /\ UNCHANGED <<entry, maxLevel>>
    /\ UNCHANGED <<nbrs, todo>>

Descend ==
    /\ cur # None
    /\ layer > levels[cur]
    /\ start' = Head(GreedySearch(Vector(cur), layer, start, 1))
    /\ layer' = layer - 1
    /\ UNCHANGED <<graph, cur, todo>>

SelectNeighbors ==
    /\ cur # None
    /\ layer \in 0 .. levels[cur]
    /\ todo = <<>>
    /\ LET candidates == GreedySearch(Vector(cur), layer, start, Ef)
           selected == Selected(Vector(cur), candidates, MaxConnections(layer))
       IN  /\ start' = Head(candidates)
           /\ nbrs' = [nbrs EXCEPT ![layer][cur] = selected]
           /\ todo' = selected
    /\ UNCHANGED <<store, levels, entry, maxLevel, cur, layer>>

\* Mutant of Without: on layer 0 the last neighbour goes in the place of n, but
\* the count stays.
WithoutCount(s, n, l) ==
    IF l = 0 THEN ReplaceAll(s, n, Last(s)) ELSE RemoveFirst(s, n)

\* remove_neighbor(): on layer 0 the last neighbour takes the place of n.
Without(s, n, l) ==
    IF ~Contains(s, n) THEN s
    ELSE IF l = 0 THEN Front(ReplaceAll(s, n, Last(s)))
    ELSE RemoveFirst(s, n)

\* The lists of the layer when nb keeps only some of the neighbours in linked.
Pruned(nb, linked) ==
    LET scored == Offsets({Pair(Vector(nb), n) : n \in ToSet(linked)})
        kept == Selected(Vector(nb), scored, MaxConnections(layer))
    IN  [n \in Node |->
            IF n = nb THEN kept
            ELSE IF n \in ToSet(linked) \ ToSet(kept)
                 THEN Without(nbrs[layer][n], nb, layer)
            ELSE nbrs[layer][n]]

\* has_neighbor(), add_neighbor() and the pruning.
LinkedBack(nb) ==
    LET linked == Append(nbrs[layer][nb], cur)
    IN  IF Contains(nbrs[layer][nb], cur) THEN nbrs[layer]
        ELSE IF Len(linked) > MaxConnections(layer) THEN Pruned(nb, linked)
        ELSE [nbrs[layer] EXCEPT ![nb] = linked]

Finish ==
    /\ cur' = None
    /\ layer' = 0
    /\ start' = 0
    /\ IF levels[cur] > maxLevel
       THEN entry' = cur /\ maxLevel' = levels[cur]
       ELSE UNCHANGED <<entry, maxLevel>>

NextLayer ==
    /\ layer' = layer - 1
    /\ UNCHANGED <<entry, maxLevel, cur, start>>

\* The next selected neighbour links back; after the last one the insert()
\* goes on to the next layer, or ends.
LinkBack ==
    /\ cur # None
    /\ todo # <<>>
    /\ nbrs' = [nbrs EXCEPT ![layer] = LinkedBack(Head(todo))]
    /\ todo' = Tail(todo)
    /\ IF Len(todo) > 1 THEN UNCHANGED <<entry, maxLevel, cur, layer, start>>
                        ELSE IF layer = 0 THEN Finish ELSE NextLayer
    /\ UNCHANGED <<store, levels>>

Next ==
    \/ \E v \in Point, l \in Layer : AddNode(v, l)
    \/ Descend
    \/ SelectNeighbors
    \/ LinkBack

Spec == Init /\ [][Next]_vars

-----------------------------------------------------------------------------
(* search()                                                                *)

\* static_cast<int>(k)
ToInt(k) ==
    LET w == k % IntValues
    IN  IF 2 * w < IntValues THEN w ELSE w - IntValues

EfUsed(k, efSearch) == IF ToInt(k) > efSearch THEN ToInt(k) ELSE efSearch

\* Where the descent through the upper layers leaves the search for q.
BaseStart(q) ==
    LET at[i \in 0 .. maxLevel] ==
            IF i = 0 THEN entry
                     ELSE Head(GreedySearch(q, maxLevel + 1 - i, at[i - 1], 1))
    IN  at[maxLevel]

\* Mutant of Search: the answer is cut to k as an int.
SearchCutToInt(q, k, efSearch) ==
    IF store = <<>> \/ k = 0 THEN <<>>
    ELSE LET found == GreedySearch(q, 0, BaseStart(q), EfUsed(k, efSearch))
         IN  SubSeq(found, 1, IF Len(found) > ToInt(k) THEN ToInt(k) ELSE Len(found))

\* The answer, nearest first.  std::sort compares distances alone and may
\* order equal ones differently.
Search(q, k, efSearch) ==
    IF store = <<>> \/ k = 0 THEN <<>>
    ELSE LET found == GreedySearch(q, 0, BaseStart(q), EfUsed(k, efSearch))
         IN  SubSeq(found, 1, IF Len(found) > k THEN k ELSE Len(found))

-----------------------------------------------------------------------------
(* Properties.                                                             *)

Inserted == 0 .. Len(store) - 1

\* A neighbour list without its order.
Links == [l \in Layer |-> [n \in Node |-> ToSet(nbrs[l][n])]]

Graph == INSTANCE HnswGraph WITH
             size <- Len(store), links <- Links, todo <- ToSet(todo)

\* Insertion with its concrete searches and selections is what HnswGraph says
\* of it: a search finds all it can reach or ef of it, a selection fills its
\* slots, the closest candidate is always selected and starts the next layer
\* (hnsw_index.h:68-146, 274-374).
ImplementsHnswGraph == Graph!Init /\ [][Graph!Next]_(Graph!vars)

\* A neighbour list on layer 0 is an array with a count: no list holds a
\* neighbour twice, so the model's lists and the sets of HnswGraph count alike
\* (hnsw_index.h:252-270).
ListsDistinct ==
    \A l \in Layer : \A n \in Node : Cardinality(Links[l][n]) = Len(nbrs[l][n])

Distances(q, offsets) == [i \in DOMAIN offsets |-> Dist(q, Vector(offsets[i]))]

\* The k smallest distances from q to the nodes of S, in order.
BestDistances(q, S, k) ==
    LET best == Distances(q, Offsets({Pair(q, n) : n \in S}))
    IN  SubSeq(best, 1, IF Len(best) > k THEN k ELSE Len(best))

\* The nodes that a search for q can reach on the base layer.
Reached(q) == IF store = <<>> THEN {} ELSE Graph!Reachable(0, BaseStart(q))

\* When the search may keep as many nodes as there are, the answer is exact for
\* what the base layer reaches, for every k: one that becomes negative as an
\* int leaves ef_search in force and still cuts the answer
\* (hnsw_index.h:150-175, 274-336).
SearchExactOnReachable ==
    cur = None =>
        \A q \in Point : LET reached == Reached(q) IN
            \A k \in K, e \in EfSearch :
                EfUsed(k, e) >= Len(store) =>
                    LET answer == Search(q, k, e)
                    IN  /\ Cardinality(ToSet(answer)) = Len(answer)
                        /\ Distances(q, answer) = BestDistances(q, reached, k)

\* However small ef is, the answer has min(k, ef, nodes reached) distinct nodes
\* in order of distance, the first of them not farther than where the base
\* layer was entered (hnsw_index.h:287-334).
SearchWellFormed ==
    cur = None /\ store # <<>> =>
        \A q \in Point : LET reached == Cardinality(Reached(q)) IN
            \A k \in K \ {0}, e \in EfSearch :
                LET answer == Search(q, k, e)
                    d == Distances(q, answer)
                IN  /\ Cardinality(ToSet(answer)) = Len(answer)
                    /\ \A i \in 2 .. Len(answer) : d[i - 1] <= d[i]
                    /\ Len(answer) <= k /\ Len(answer) <= reached
                    /\ k <= EfUsed(k, e) => Len(answer) = IF k < reached THEN k ELSE reached
                    /\ d[1] <= Dist(q, Vector(BaseStart(q)))

\* Until a list of layer 0 can overflow, with 2m + 1 nodes at most, a search
\* that may keep as many nodes as there are is exact for everything inserted
\* (hnsw_index.h:106, 193-195).
SearchExactWhileSmall ==
    cur = None /\ Len(store) <= 2 * M + 1 =>
        \A q \in Point, k \in K, e \in EfSearch :
            EfUsed(k, e) >= Len(store) =>
                Distances(q, Search(q, k, e)) = BestDistances(q, Inserted, k)

=============================================================================
