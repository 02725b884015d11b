----------------------------- MODULE HnswGraph ------------------------------
(***************************************************************************)
(* How HnswIndex::insert() (index/hnsw_index.h) keeps the links of the     *)
(* layered graph that every segment carries: a new node is linked to       *)
(* neighbours on each layer it is on, every neighbour links back, and a    *)
(* neighbour that then has too many links is pruned, with the links back   *)
(* to it removed on the other side.                                        *)
(*                                                                         *)
(* Distances are abstracted.  What greedy_search() and                     *)
(* select_neighbors_heuristic() return depends on them; the model lets     *)
(* them return any result they could return for some distances: a search   *)
(* finds everything reachable when that is at most ef nodes, and otherwise *)
(* some ef of them; a selection has as many nodes as there are candidates, *)
(* up to the limit, because it fills the remaining slots.                  *)
(*                                                                         *)
(* A neighbour list is a set.  The code keeps lists, but every list is a   *)
(* selection among distinct candidates, or grows by a node that            *)
(* has_neighbor() has just missed in it.                                   *)
(***************************************************************************)
EXTENDS Integers, FiniteSets, FiniteSetsExt

CONSTANTS
    M,          \* build_params_.m, more than 1
    Ef,         \* build_params_.ef_construction
    MaxNodes,   \* bound: vectors in a segment, its capacity
    MaxLayered, \* bound: vectors in a segment, when some are above layer 0
    TopLevel    \* bound: the highest level that insert() draws

ASSUME MAssumption == M \in Nat /\ M > 1
ASSUME EfAssumption == Ef \in Nat \ {0}
ASSUME MaxNodesAssumption == MaxNodes \in Nat
ASSUME MaxLayeredAssumption == MaxLayered \in 0 .. MaxNodes
ASSUME TopLevelAssumption == TopLevel \in Nat

Node  == 0 .. MaxNodes - 1
Layer == 0 .. TopLevel
None  == -1     \* no insert() in progress

VARIABLES
    size,       \* graph_.size()
    levels,     \* levels[n]: the top layer of node n, for n < size
    links,      \* links[l][n]: the neighbours of node n on layer l
    entry,      \* graph_.entry_point
    maxLevel,   \* graph_.max_level
    cur,        \* vector_id of the insert() in progress, or None
    layer,      \* the layer it is working on
    start,      \* where its next greedy_search() starts
    todo        \* selected neighbours that still have to link back

graph == <<size, levels, links, entry, maxLevel>>
vars  == <<graph, cur, layer, start, todo>>

\* max_connections(layer)
MaxConnections(l) == IF l = 0 THEN 2 * M ELSE M

\* The nodes that have a neighbour list on layer l.
OnLayer(l) == {n \in 0 .. size - 1 : levels[n] >= l}

\* Sets of nodes that no link of layer l leaves.
ClosedOn(l) ==
    LET next == links[l]
    IN  {S \in SUBSET Node : \A n \in S : next[n] \subseteq S}

Reachable(l, s) ==
    LET closed == {S \in ClosedOn(l) : s \in S}
    IN  {n \in Node : \A S \in closed : n \in S}

\* What greedy_search(query, l, s, ef) may return, order aside.
SearchResults(l, s, ef) ==
    LET reached == Reachable(l, s)
    IN  IF Cardinality(reached) <= ef THEN {reached} ELSE kSubset(ef, reached)

\* What select_neighbors_heuristic(base, candidates, m) may return.
Selections(candidates, m) ==
    IF Cardinality(candidates) <= m THEN {candidates} ELSE kSubset(m, candidates)

-----------------------------------------------------------------------------

Init ==
    /\ size = 0
    /\ levels = [n \in Node |-> 0]
    /\ links = [l \in Layer |-> [n \in Node |-> {}]]
    /\ entry = 0
    /\ maxLevel = 0
    /\ cur = None
    /\ layer = 0
    /\ start = 0
    /\ todo = {}

\* A level is drawn and the node added; it has no neighbours yet.  The first
\* node becomes the entry point and that is all.
AddNode(l) ==
    /\ cur = None
    /\ size < IF maxLevel = 0 /\ l = 0 THEN MaxNodes ELSE MaxLayered
    /\ size' = size + 1
    /\ levels' = [levels EXCEPT ![size] = l]
    /\ IF size = 0
       THEN /\ entry' = size
            /\ maxLevel' = l
            /\ UNCHANGED <<cur, layer, start>>
       ELSE /\ cur' = size
            /\ layer' = maxLevel
            /\ start' = entry
            /\ UNCHANGED <<entry, maxLevel>>
    /\ UNCHANGED <<links, todo>>

\* Mutant of Descend: one layer too few.
DescendTooShort ==
    /\ cur # None
    /\ layer > levels[cur] + 1
    /\ \E s \in Reachable(layer, start) : start' = s
    /\ layer' = layer - 1
    /\ UNCHANGED <<graph, cur, todo>>

\* Above the node's own level the search only moves closer: ef is 1.
Descend ==
    /\ cur # None
    /\ layer > levels[cur]
    /\ \E s \in Reachable(layer, start) : start' = s
    /\ layer' = layer - 1
    /\ UNCHANGED <<graph, cur, todo>>

\* Mutant of SelectNeighbors: a layer above the node's own is linked too.
SelectNeighborsTooHigh ==
    /\ cur # None
    /\ layer \in 0 .. levels[cur] + 1
    /\ todo = {}
    /\ \E candidates \in SearchResults(layer, start, Ef) :
         \E selected \in Selections(candidates, MaxConnections(layer)) :
           /\ links' = [links EXCEPT ![layer][cur] = selected]
           /\ todo' = selected
           /\ start' \in selected
    /\ UNCHANGED <<size, levels, entry, maxLevel, cur, layer>>

\* Search the layer and take the best candidates as neighbours.  The closest
\* one is always selected, and starts the search of the next layer.
SelectNeighbors ==
    /\ cur # None
    /\ layer \in 0 .. levels[cur]
    /\ todo = {}
    /\ \E candidates \in SearchResults(layer, start, Ef) :
         \E selected \in Selections(candidates, MaxConnections(layer)) :
           /\ links' = [links EXCEPT ![layer][cur] = selected]
           /\ todo' = selected
           /\ start' \in selected
    /\ UNCHANGED <<size, levels, entry, maxLevel, cur, layer>>

\* The neighbours of nb once the new node is one of them.
LinkedBack(nb) == links[layer][nb] \cup {cur}

\* Mutant of Pruned: only the new node's own link is removed again.
PrunedForwardOnly(nb, kept) ==
    [n \in Node |->
        IF n = nb THEN kept
        ELSE IF n = cur /\ cur \notin kept THEN links[layer][n] \ {nb}
        ELSE links[layer][n]]

\* The layer's links when nb keeps only some of those: the ones it drops drop
\* nb in turn, the new node included.
Pruned(nb, kept) ==
    [n \in Node |->
        IF n = nb THEN kept
        ELSE IF n \in LinkedBack(nb) \ kept THEN links[layer][n] \ {nb}
        ELSE links[layer][n]]

\* Mutant of Finish: the entry point stays on the old top layer.
FinishWithoutEntry ==
    /\ cur' = None
    /\ layer' = 0
    /\ start' = 0
    /\ maxLevel' = IF levels[cur] > maxLevel THEN levels[cur] ELSE maxLevel
    /\ UNCHANGED entry

\* A new node whose level is above all others becomes the entry point.
Finish ==
    /\ cur' = None
    /\ layer' = 0
    /\ start' = 0
    /\ IF levels[cur] > maxLevel
       THEN entry' = cur /\ maxLevel' = levels[cur]
       ELSE UNCHANGED <<entry, maxLevel>>

NextLayer ==
    /\ layer' = layer - 1
    /\ UNCHANGED <<entry, maxLevel, cur, start>>

\* Mutant of LinkBack: the overflow slot counts as a neighbour slot.
LinkBackOneTooMany(nb) ==
    /\ cur # None
    /\ nb \in todo
    /\ \E kept \in Selections(LinkedBack(nb), MaxConnections(layer) + 1) :
         links' = [links EXCEPT ![layer] = Pruned(nb, kept)]
    /\ todo' = todo \ {nb}
    /\ IF todo # {nb} THEN UNCHANGED <<entry, maxLevel, cur, layer, start>>
                      ELSE IF layer = 0 THEN Finish ELSE NextLayer
    /\ UNCHANGED <<size, levels>>

\* Mutant of LinkBack: a list that is just full is pruned already.
LinkBackPrunesFull(nb) ==
    /\ cur # None
    /\ nb \in todo
    /\ \E kept \in Selections(LinkedBack(nb), MaxConnections(layer) - 1) :
         links' = [links EXCEPT ![layer] = Pruned(nb, kept)]
    /\ todo' = todo \ {nb}
    /\ IF todo # {nb} THEN UNCHANGED <<entry, maxLevel, cur, layer, start>>
                      ELSE IF layer = 0 THEN Finish ELSE NextLayer
    /\ UNCHANGED <<size, levels>>

\* Mutant of LinkBack: the loop over layers runs past layer 0.
LinkBackPastBottom(nb) ==
    /\ cur # None
    /\ nb \in todo
    /\ \E kept \in Selections(LinkedBack(nb), MaxConnections(layer)) :
         links' = [links EXCEPT ![layer] = Pruned(nb, kept)]
    /\ todo' = todo \ {nb}
    /\ IF todo # {nb} THEN UNCHANGED <<entry, maxLevel, cur, layer, start>>
                      ELSE NextLayer
    /\ UNCHANGED <<size, levels>>

\* A selected neighbour links back, is pruned if that is one link too many,
\* and the insert() goes on.  When has_neighbor() finds the link there
\* already, LinkedBack(nb) is what nb has and nothing changes.
LinkBack(nb) ==
    /\ cur # None
    /\ nb \in todo
    /\ \E kept \in Selections(LinkedBack(nb), MaxConnections(layer)) :
         links' = [links EXCEPT ![layer] = Pruned(nb, kept)]
    /\ todo' = todo \ {nb}
    /\ IF todo # {nb} THEN UNCHANGED <<entry, maxLevel, cur, layer, start>>
                      ELSE IF layer = 0 THEN Finish ELSE NextLayer
    /\ UNCHANGED <<size, levels>>

Next ==
    \/ \E l \in Layer : AddNode(l)
    \/ Descend
    \/ SelectNeighbors
    \/ \E nb \in Node : LinkBack(nb)

\* insert() is a loop of one thread: once started it is run to its end.
Spec == Init /\ [][Next]_vars /\ WF_vars(Descend \/ SelectNeighbors \/ \E nb \in Node : LinkBack(nb))

-----------------------------------------------------------------------------
(* Properties.                                                             *)

TypeOK ==
    /\ size \in 0 .. MaxNodes
    /\ levels \in [Node -> Layer]
    /\ links \in [Layer -> [Node -> SUBSET Node]]
    /\ entry \in Nat
    /\ maxLevel \in Layer
    /\ cur \in Node \cup {None}
    /\ layer \in Layer
    /\ start \in Nat
    /\ todo \subseteq Node

\* Every link has its link back, whatever pruning removed, except that the
\* neighbours just selected on the current layer have yet to link to the new
\* node (hnsw_index.h:102-139, tests/index_hnsw_index_test.cpp:122).
Bidirectional ==
    \A l \in Layer : \A a, b \in Node :
        b \in links[l][a] =>
            \/ a \in links[l][b]
            \/ a = cur /\ l = layer /\ b \in todo

\* No node has more neighbours than its layer allows between two links back,
\* so the one slot of overflow that layer0_stride() reserves is never exceeded
\* while a link back is made (hnsw_index.h:39,106,230-238), and the counts
\* pass the limits of load_hnsw() (loader.cpp:49,66).
DegreeBounded ==
    \A l \in Layer : \A n \in Node : Cardinality(links[l][n]) <= MaxConnections(l)

\* Links only join distinct nodes that are both on the layer: upper[n][layer-1]
\* is never read for a node that has no such list (hnsw_index.h:211-217).
LinksOnLayer ==
    \A l \in Layer : \A n \in Node :
        /\ n \notin links[l][n]
        /\ links[l][n] # {} => n \in OnLayer(l) /\ links[l][n] \subseteq OnLayer(l)

\* A search enters the graph on its top layer and at each layer starts from a
\* node of that layer other than the one being inserted
\* (hnsw_index.h:88-97, 142-145, 157-160).
EntryOnTop ==
    /\ size > 0 => /\ entry \in OnLayer(maxLevel)
                   /\ \A n \in 0 .. size - 1 : n # cur => levels[n] <= maxLevel
    /\ cur # None /\ todo = {} => start \in OnLayer(layer) \ {cur}

\* Until a list of a layer can overflow, no node of the layer is lost to the
\* search, although each insert() links to what a bounded search found only
\* (hnsw_index.h:93-106, 193-195).  One more node, and pruning may cut nodes off.
NoneLost ==
    cur = None /\ size > 0 =>
        \A l \in 0 .. maxLevel :
            Cardinality(OnLayer(l)) <= MaxConnections(l) + 1 =>
                OnLayer(l) \subseteq Reachable(l, entry)

\* Every insert() ends: the descent and the loop over layers run out.
InsertReturns == cur # None ~> cur = None

-----------------------------------------------------------------------------
(* The inductive invariant behind the safety properties.                   *)

\* The node being inserted is the last one, and never the first one.  While
\* selected neighbours have yet to link back, it has the links to them.
InsertInOrder ==
    /\ cur # None => cur = size - 1 /\ size > 1
    /\ todo # {} =>
          /\ cur # None
          /\ layer <= levels[cur]
          /\ todo \subseteq links[layer][cur]

\* The new node has no link on a layer that insert() has not come to.
FreshBelow ==
    cur # None =>
        \A l \in 0 .. layer : l < layer \/ todo = {} => links[l][cur] = {}

\* The search always starts from an older node of the layer.
StartsOnLayer == cur # None => start \in OnLayer(layer) \ {cur}

\* The nodes of layer l that insert() has linked on it.
Settled(l) == IF cur # None /\ l <= layer THEN OnLayer(l) \ {cur} ELSE OnLayer(l)

\* The nodes of T hang together on layer l: a set that no link leaves has all
\* of them or none.
AllOrNone(l, T) == \A S \in ClosedOn(l) : S \cap T # {} => T \subseteq S

\* Until a list of layer l can overflow, its settled nodes hang together.
Joined ==
    \A l \in Layer :
        Cardinality(OnLayer(l)) <= MaxConnections(l) + 1 => AllOrNone(l, Settled(l))

LinksInv ==
    /\ TypeOK
    /\ LinksOnLayer
    /\ EntryOnTop
    /\ Bidirectional
    /\ InsertInOrder
    /\ FreshBelow
    /\ StartsOnLayer

GraphInv == LinksInv /\ DegreeBounded /\ Joined

=============================================================================
