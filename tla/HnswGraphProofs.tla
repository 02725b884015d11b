-------------------------- MODULE HnswGraphProofs ---------------------------
(***************************************************************************)
(* Proofs about HnswGraph, for any M, ef, number of nodes and of layers.   *)
(*                                                                         *)
(* The links are shown first: where they lead, that they go both ways, and *)
(* that a search starts on its layer and never meets the node being        *)
(* inserted.  On top of that come the limits on neighbours and, while no   *)
(* list can overflow, that a search loses no node.                         *)
(***************************************************************************)
EXTENDS HnswGraph, FiniteSetTheorems, TLAPS

LEMMA NodeFacts ==
    /\ IsFiniteSet(Node)
    /\ \A S \in SUBSET Node : IsFiniteSet(S) /\ Cardinality(S) \in Nat
    /\ \A n \in Node : n \in Nat
    /\ None \notin Nat
  <1>1. IsFiniteSet(Node)
    BY FS_Interval, MaxNodesAssumption DEF Node
  <1>2. \A S \in SUBSET Node : IsFiniteSet(S) /\ Cardinality(S) \in Nat
    BY <1>1, FS_Subset, FS_CardinalityType
  <1>3. (\A n \in Node : n \in Nat) /\ None \notin Nat
    BY MaxNodesAssumption DEF Node, None
  <1> QED BY <1>1, <1>2, <1>3

LEMMA MaxConnectionsType == \A l \in Layer : MaxConnections(l) \in Nat \ {0}
  BY MAssumption DEF MaxConnections

\* What a selection is: some of the candidates, no more than the limit, and
\* all of them when that is no more than the limit.
LEMMA SelectionsAre ==
    ASSUME NEW candidates \in SUBSET Node, NEW m \in Nat,
           NEW selected \in Selections(candidates, m)
    PROVE  /\ selected \subseteq candidates
           /\ Cardinality(selected) <= m
           /\ Cardinality(candidates) <= m => selected = candidates
  BY DEF Selections, kSubset

\* A search returns nodes that it can reach.
LEMMA SearchResultsAre ==
    ASSUME NEW l \in Layer, NEW s \in Nat, NEW candidates \in SearchResults(l, s, Ef)
    PROVE  candidates \subseteq Reachable(l, s)
  BY DEF SearchResults, kSubset

LEMMA OnLayerIs ==
    ASSUME TypeOK
    PROVE  /\ \A l \in Layer : OnLayer(l) \subseteq Node
           /\ \A l, k \in Layer : k <= l => OnLayer(l) \subseteq OnLayer(k)
           /\ \A l \in Layer : \A n : n \in OnLayer(l) <=>
                 n \in 0 .. size - 1 /\ levels[n] >= l
  BY MaxNodesAssumption, TopLevelAssumption DEF TypeOK, OnLayer, Node, Layer

\* Nothing links to the new node where it has no links itself.
LEMMA NothingLinksToFresh ==
    ASSUME LinksInv, cur # None, NEW l \in Layer, links[l][cur] = {}
    PROVE  \A n \in Node : cur \notin links[l][n]
  BY NodeFacts DEF LinksInv, TypeOK, Bidirectional

\* A search on a layer that the new node is not linked on yet finds older
\* nodes of that layer only.
LEMMA SearchMeetsOld ==
    ASSUME LinksInv, cur # None, links[layer][cur] = {}
    PROVE  Reachable(layer, start) \subseteq OnLayer(layer) \ {cur}
  <1> DEFINE old == OnLayer(layer) \ {cur}
  <1>1. layer \in Layer /\ old \subseteq Node
    BY OnLayerIs DEF LinksInv, TypeOK
  <1>2. \A n \in Node : cur \notin links[layer][n]
    BY <1>1, NothingLinksToFresh
  <1>3. \A n \in old : links[layer][n] \subseteq old
    BY <1>1, <1>2 DEF LinksInv, LinksOnLayer
  <1>4. old \in ClosedOn(layer)
    BY <1>1, <1>3 DEF ClosedOn
  <1>5. start \in old
    BY DEF LinksInv, StartsOnLayer
  <1> QED BY <1>4, <1>5 DEF Reachable

-----------------------------------------------------------------------------
(* The links.                                                              *)

LEMMA LinksInit == Init => LinksInv
  <1> SUFFICES ASSUME Init PROVE LinksInv
    OBVIOUS
  <1>1. TypeOK
    BY MaxNodesAssumption, TopLevelAssumption DEF Init, TypeOK, Node, Layer, None
  <1>2. \A l \in Layer : \A n \in Node : links[l][n] = {}
    BY DEF Init
  <1>3. LinksOnLayer /\ Bidirectional
    BY <1>2 DEF LinksOnLayer, Bidirectional
  <1>4. EntryOnTop /\ InsertInOrder /\ FreshBelow /\ StartsOnLayer
    BY DEF Init, EntryOnTop, InsertInOrder, FreshBelow, StartsOnLayer
  <1> QED BY <1>1, <1>3, <1>4 DEF LinksInv

\* A new node has no links, and is on the layers up to its level.
LEMMA AddedOnLayer ==
    ASSUME TypeOK, NEW k \in Layer, AddNode(k)
    PROVE  /\ size < MaxNodes /\ size \in Node
           /\ \A l \in Layer : size \notin OnLayer(l)
           /\ \A l \in Layer :
                 OnLayer(l)' = IF l <= k THEN OnLayer(l) \cup {size} ELSE OnLayer(l)
  <1>1. size < MaxNodes /\ size \in Node
    BY MaxNodesAssumption, MaxLayeredAssumption DEF AddNode, TypeOK, Node
  <1>2. /\ size' = size + 1 /\ levels'[size] = k
        /\ \A n \in 0 .. size - 1 : levels'[n] = levels[n]
    BY <1>1 DEF AddNode, TypeOK, Node
  <1>3. size \in Nat /\ 0 .. size' - 1 = (0 .. size - 1) \cup {size}
    <2>1. size \in Nat
      BY <1>1, NodeFacts
    <2>2. \A s \in Nat : 0 .. (s + 1) - 1 = (0 .. s - 1) \cup {s}
      OBVIOUS
    <2> QED BY <1>2, <2>1, <2>2
  <1>4. \A l \in Layer : OnLayer(l)' = {n \in 0 .. size' - 1 : levels'[n] >= l}
    BY DEF OnLayer
  <1>5. \A l \in Layer : k >= l <=> l <= k
    BY TopLevelAssumption DEF Layer
  <1> QED BY <1>1, <1>2, <1>3, <1>4, <1>5 DEF OnLayer

LEMMA AddLinks ==
    ASSUME LinksInv, NEW k \in Layer, AddNode(k)
    PROVE  LinksInv'
  <1> TypeOK /\ LinksOnLayer /\ EntryOnTop /\ Bidirectional /\ InsertInOrder
    BY DEF LinksInv
  <1>1. /\ size < MaxNodes /\ size \in Node /\ size \in Nat /\ size' = size + 1
        /\ \A l \in Layer : size \notin OnLayer(l)
        /\ \A l \in Layer :
              OnLayer(l)' = IF l <= k THEN OnLayer(l) \cup {size} ELSE OnLayer(l)
    <2>1. size' = size + 1
      BY DEF AddNode
    <2> QED BY <2>1, AddedOnLayer, NodeFacts
  <1>2. /\ cur = None /\ todo = {} /\ todo' = {} /\ links' = links
        /\ levels' = [levels EXCEPT ![size] = k]
    BY DEF AddNode, InsertInOrder
  <1>3. \A l \in Layer : links[l][size] = {}
    BY <1>1 DEF LinksOnLayer
  <1>4. LinksOnLayer'
    <2> SUFFICES ASSUME NEW l \in Layer, NEW n \in Node
                 PROVE  /\ n \notin links[l][n]
                        /\ links[l][n] # {} =>
                              n \in OnLayer(l)' /\ links[l][n] \subseteq OnLayer(l)'
      BY <1>2 DEF LinksOnLayer
    <2> QED BY <1>1 DEF LinksOnLayer
  <1>5. Bidirectional'
    BY <1>2 DEF Bidirectional
  <1>6. TypeOK' /\ EntryOnTop' /\ InsertInOrder' /\ FreshBelow' /\ StartsOnLayer'
    <2>1. CASE size = 0
      <3>1. /\ entry' = 0 /\ maxLevel' = k
            /\ cur' = None /\ layer' = layer /\ start' = start
        BY <1>2, <2>1 DEF AddNode
      <3>2. TypeOK'
        BY <1>1, <1>2, <3>1, MaxNodesAssumption DEF TypeOK
      <3>3. EntryOnTop'
        <4>1. k <= k /\ 0 \in OnLayer(k)'
          BY <1>1, <2>1, TopLevelAssumption DEF Layer
        <4>2. entry' \in OnLayer(maxLevel)'
          BY <3>1, <4>1 DEF OnLayer
        <4>3. \A n \in 0 .. size' - 1 : levels'[n] <= maxLevel'
          BY <1>1, <1>2, <2>1, <3>1, TopLevelAssumption DEF TypeOK, Layer
        <4> QED BY <3>1, <4>2, <4>3 DEF EntryOnTop
      <3> QED BY <1>2, <3>1, <3>2, <3>3 DEF InsertInOrder, FreshBelow, StartsOnLayer
    <2>2. CASE size > 0
      <3>1. /\ entry' = entry /\ maxLevel' = maxLevel
            /\ cur' = size /\ layer' = maxLevel /\ start' = entry
        BY <2>2 DEF AddNode
      <3>2. TypeOK'
        BY <1>1, <1>2, <3>1, MaxNodesAssumption DEF TypeOK
      <3>3. /\ maxLevel \in Layer /\ entry \in OnLayer(maxLevel) /\ entry # size
            /\ entry \in OnLayer(maxLevel)'
        <4>1. maxLevel \in Layer /\ entry \in OnLayer(maxLevel)
          BY <2>2 DEF EntryOnTop, TypeOK
        <4>2. OnLayer(maxLevel) \subseteq {n \in Node : n # size}
          BY <1>1, <4>1, OnLayerIs
        <4>3. \A n \in OnLayer(maxLevel) : n \in 0 .. size' - 1 /\ levels'[n] >= maxLevel'
          <5> TAKE n \in OnLayer(maxLevel)
          <5>1. n \in 0 .. size - 1 /\ levels[n] >= maxLevel /\ n # size
            BY <1>1, <4>1, OnLayerIs
          <5>2. levels'[n] = levels[n]
            BY <1>2, <5>1, <3>2 DEF TypeOK
          <5>3. n \in 0 .. size' - 1
            BY <1>1, <5>1
          <5> QED BY <3>1, <5>1, <5>2, <5>3
        <4> QED BY <3>1, <4>1, <4>2, <4>3 DEF OnLayer
      <3>4. StartsOnLayer'
        BY <3>1, <3>3 DEF StartsOnLayer, OnLayer
      <3>5. EntryOnTop'
        <4>1. \A n \in 0 .. size' - 1 : n # size => n \in 0 .. size - 1
          BY <1>1
        <4>2. \A n \in 0 .. size' - 1 : n # cur' => levels'[n] <= maxLevel'
          <5> TAKE n \in 0 .. size' - 1
          <5> HAVE n # cur'
          <5>1. n \in 0 .. size - 1 /\ n # size
            BY <3>1, <4>1
          <5>2. levels'[n] = levels[n]
            BY <1>2, <5>1
          <5>3. levels[n] <= maxLevel
            BY <1>2, <2>2, <5>1, NodeFacts, <1>1 DEF EntryOnTop, None
          <5> QED BY <3>1, <5>2, <5>3
        <4>3. entry' \in OnLayer(maxLevel)'
          BY <3>1, <3>3 DEF OnLayer
        <4>4. start' \in OnLayer(layer)' \ {cur'}
          BY <3>1, <3>3 DEF OnLayer
        <4> QED BY <4>2, <4>3, <4>4 DEF EntryOnTop
      <3>6. InsertInOrder' /\ FreshBelow'
        <4>1. cur' = size' - 1 /\ size' > 1
          BY <1>1, <2>2, <3>1
        <4>2. 0 .. maxLevel \subseteq Layer
          BY <3>3, TopLevelAssumption DEF Layer
        <4> QED BY <1>2, <1>3, <3>1, <4>1, <4>2 DEF InsertInOrder, FreshBelow
      <3> QED BY <3>2, <3>4, <3>5, <3>6
    <2> QED BY <1>1, <2>1, <2>2
  <1> QED BY <1>4, <1>5, <1>6 DEF LinksInv

LEMMA DescendLinks ==
    ASSUME LinksInv, Descend
    PROVE  LinksInv'
  <1> TypeOK /\ LinksOnLayer /\ EntryOnTop /\ Bidirectional /\ InsertInOrder /\ FreshBelow
      /\ StartsOnLayer
    BY DEF LinksInv
  <1>1. /\ cur # None /\ layer > levels[cur] /\ layer' = layer - 1
        /\ start' \in Reachable(layer, start)
        /\ size' = size /\ levels' = levels /\ links' = links /\ entry' = entry
        /\ maxLevel' = maxLevel /\ cur' = cur /\ todo' = todo
    BY DEF Descend, graph
  <1>2. layer \in Layer /\ layer \in Nat /\ cur \in Node /\ levels[cur] \in Nat
    BY <1>1, TopLevelAssumption DEF TypeOK, Layer
  <1>3. layer' \in Layer /\ layer' < layer /\ layer' \in Nat /\ 0 .. layer' \subseteq 0 .. layer
    BY <1>1, <1>2, TopLevelAssumption DEF Layer
  <1>4. todo = {}
    BY <1>1, <1>2 DEF InsertInOrder
  <1>5. links[layer][cur] = {}
    BY <1>1, <1>2, <1>4 DEF FreshBelow
  <1>6. start' \in OnLayer(layer) \ {cur}
    BY <1>1, <1>5, SearchMeetsOld
  <1>7. start' \in OnLayer(layer') \ {cur} /\ start' \in Nat
    BY <1>2, <1>3, <1>6, OnLayerIs, NodeFacts
  <1>8. \A l : OnLayer(l)' = OnLayer(l)
    BY <1>1 DEF OnLayer
  <1>9. TypeOK'
    BY <1>1, <1>3, <1>7 DEF TypeOK
  <1>10. LinksOnLayer'
    BY <1>1, <1>8 DEF LinksOnLayer
  <1>11. Bidirectional'
    BY <1>1, <1>4 DEF Bidirectional
  <1>12. EntryOnTop' /\ StartsOnLayer'
    <2>1. start' \in OnLayer(layer)' \ {cur'}
      BY <1>1, <1>7 DEF OnLayer
    <2>2. OnLayer(maxLevel)' = OnLayer(maxLevel)
      BY <1>1 DEF OnLayer
    <2> QED BY <1>1, <2>1, <2>2 DEF EntryOnTop, StartsOnLayer
  <1>13. InsertInOrder' /\ FreshBelow'
    BY <1>1, <1>3, <1>4 DEF InsertInOrder, FreshBelow
  <1> QED BY <1>9, <1>10, <1>11, <1>12, <1>13 DEF LinksInv

\* What SelectNeighbors does, with what the search and the selection return
\* spelt out.
LEMMA SelectedIs ==
    ASSUME LinksInv, SelectNeighbors
    PROVE  /\ cur # None /\ cur \in Node /\ layer \in Layer /\ layer <= levels[cur]
           /\ links[layer][cur] = {} /\ todo = {}
           /\ todo' \subseteq OnLayer(layer) \ {cur}
           /\ Cardinality(todo') <= MaxConnections(layer)
           /\ links' = [links EXCEPT ![layer][cur] = todo']
           /\ start' \in todo'
           /\ UNCHANGED <<size, levels, entry, maxLevel, cur, layer>>
  <1> USE DEF LinksInv
  <1>1. /\ cur # None /\ layer <= levels[cur] /\ todo = {}
        /\ UNCHANGED <<size, levels, entry, maxLevel, cur, layer>>
    BY TopLevelAssumption DEF SelectNeighbors, TypeOK, Layer
  <1>2. cur \in Node /\ layer \in Layer /\ layer \in Nat
    BY <1>1, TopLevelAssumption DEF TypeOK, Layer
  <1>3. links[layer][cur] = {}
    BY <1>1, <1>2 DEF FreshBelow
  <1>4. PICK candidates \in SearchResults(layer, start, Ef) :
           \E selected \in Selections(candidates, MaxConnections(layer)) :
              /\ links' = [links EXCEPT ![layer][cur] = selected]
              /\ todo' = selected
              /\ start' \in selected
    BY DEF SelectNeighbors
  <1>5. candidates \subseteq OnLayer(layer) \ {cur}
    BY <1>1, <1>2, <1>3, SearchMeetsOld, SearchResultsAre DEF TypeOK
  <1>6. candidates \in SUBSET Node /\ MaxConnections(layer) \in Nat
    BY <1>2, <1>5, OnLayerIs, MaxConnectionsType
  <1>7. /\ todo' \in Selections(candidates, MaxConnections(layer))
        /\ links' = [links EXCEPT ![layer][cur] = todo'] /\ start' \in todo'
    BY <1>4
  <1>8. todo' \subseteq candidates /\ Cardinality(todo') <= MaxConnections(layer)
    BY <1>6, <1>7, SelectionsAre
  <1> QED BY <1>1, <1>2, <1>3, <1>5, <1>7, <1>8

LEMMA SelectLinks ==
    ASSUME LinksInv, SelectNeighbors
    PROVE  LinksInv'
  <1> TypeOK /\ LinksOnLayer /\ EntryOnTop /\ Bidirectional /\ InsertInOrder /\ FreshBelow
      /\ StartsOnLayer
    BY DEF LinksInv
  <1>1. /\ cur # None /\ cur \in Node /\ layer \in Layer /\ layer <= levels[cur]
        /\ links[layer][cur] = {} /\ todo = {}
        /\ todo' \subseteq OnLayer(layer) \ {cur}
        /\ links' = [links EXCEPT ![layer][cur] = todo']
        /\ start' \in todo'
        /\ size' = size /\ levels' = levels /\ entry' = entry /\ maxLevel' = maxLevel
        /\ cur' = cur /\ layer' = layer
    BY SelectedIs
  <1>2. todo' \subseteq Node /\ OnLayer(layer) \subseteq Node /\ start' \in Nat
    BY <1>1, OnLayerIs, NodeFacts
  <1>3. /\ links'[layer][cur] = todo'
        /\ \A n \in Node : n # cur => links'[layer][n] = links[layer][n]
        /\ \A l \in Layer : l # layer => links'[l] = links[l]
    BY <1>1 DEF TypeOK
  <1>4. \A n \in Node : cur \notin links[layer][n]
    BY <1>1, NothingLinksToFresh DEF LinksInv
  <1>5. TypeOK'
    <2>1. links' \in [Layer -> [Node -> SUBSET Node]]
      BY <1>1, <1>2 DEF TypeOK
    <2> QED BY <1>1, <1>2, <2>1 DEF TypeOK
  <1>6. \A l : OnLayer(l)' = OnLayer(l)
    BY <1>1 DEF OnLayer
  <1>7. cur \in OnLayer(layer)
    <2>1. cur \in 0 .. size - 1
      BY <1>1, NodeFacts DEF InsertInOrder
    <2>2. levels[cur] >= layer
      BY <1>1, TopLevelAssumption DEF TypeOK, Layer
    <2> QED BY <2>1, <2>2 DEF OnLayer
  <1>8. LinksOnLayer'
    <2> SUFFICES ASSUME NEW l \in Layer, NEW n \in Node
                 PROVE  /\ n \notin links'[l][n]
                        /\ links'[l][n] # {} =>
                              n \in OnLayer(l) /\ links'[l][n] \subseteq OnLayer(l)
      BY <1>6 DEF LinksOnLayer
    <2>1. CASE l = layer /\ n = cur
      BY <1>1, <1>3, <1>7, <2>1
    <2>2. CASE ~(l = layer /\ n = cur)
      <3>1. links'[l][n] = links[l][n]
        BY <1>3, <2>2
      <3> QED BY <3>1 DEF LinksOnLayer
    <2> QED BY <2>1, <2>2
  <1>9. Bidirectional'
    <2> SUFFICES ASSUME NEW l \in Layer, NEW a \in Node, NEW b \in Node, b \in links'[l][a]
                 PROVE  a \in links'[l][b] \/ (a = cur /\ l = layer /\ b \in todo')
      BY <1>1 DEF Bidirectional
    <2>1. CASE l = layer /\ a = cur
      BY <1>3, <2>1
    <2>2. CASE l = layer /\ a # cur
      <3>1. b \in links[l][a] /\ b # cur
        BY <1>3, <1>4, <2>2
      <3>2. a \in links[l][b]
        BY <2>2, <3>1 DEF Bidirectional
      <3> QED BY <1>3, <2>2, <3>1, <3>2
    <2>3. CASE l # layer
      BY <1>3, <2>3 DEF Bidirectional
    <2> QED BY <2>1, <2>2, <2>3
  <1>10. EntryOnTop' /\ StartsOnLayer'
    <2>1. start' \in OnLayer(layer)' \ {cur'}
      BY <1>1, <1>6
    <2>2. OnLayer(maxLevel)' = OnLayer(maxLevel)
      BY <1>1 DEF OnLayer
    <2>3. StartsOnLayer'
      BY <1>1, <2>1 DEF StartsOnLayer, OnLayer
    <2> QED BY <1>1, <2>1, <2>2, <2>3 DEF EntryOnTop
  <1>11. InsertInOrder'
    BY <1>1, <1>3 DEF InsertInOrder
  <1>12. FreshBelow'
    <2> SUFFICES ASSUME NEW l \in 0 .. layer, l < layer PROVE links'[l][cur] = {}
      BY <1>1 DEF FreshBelow
    <2>1. l \in Layer /\ l # layer
      BY <1>1, TopLevelAssumption DEF Layer
    <2>2. links[l][cur] = {}
      BY <1>1 DEF FreshBelow
    <2> QED BY <1>3, <2>1, <2>2
  <1> QED BY <1>5, <1>8, <1>9, <1>10, <1>11, <1>12 DEF LinksInv

\* What LinkBack does: the list that nb keeps is kept, and nobody but nb gains
\* a link.
LEMMA LinkedBackIs ==
    ASSUME LinksInv, NEW nb \in Node, LinkBack(nb)
    PROVE  /\ cur # None /\ cur \in Node /\ layer \in Layer /\ layer <= levels[cur]
           /\ nb \in todo /\ todo' = todo \ {nb}
           /\ cur \in OnLayer(layer) /\ nb \in OnLayer(layer) /\ nb # cur
           /\ nb \in links[layer][cur]
           /\ LinkedBack(nb) \subseteq OnLayer(layer) \ {nb}
           /\ size' = size /\ levels' = levels
           /\ \A l \in Layer : l # layer => links'[l] = links[l]
           /\ \E kept \in Selections(LinkedBack(nb), MaxConnections(layer)) :
                 links'[layer] = Pruned(nb, kept)
  <1> TypeOK /\ LinksOnLayer /\ InsertInOrder
    BY DEF LinksInv
  <1>1. /\ cur # None /\ nb \in todo /\ todo' = todo \ {nb}
        /\ size' = size /\ levels' = levels
    BY DEF LinkBack
  <1>2. cur \in Node /\ layer \in Layer
    BY <1>1 DEF TypeOK
  <1>3. layer <= levels[cur] /\ nb \in links[layer][cur]
    BY <1>1 DEF InsertInOrder
  <1>4. nb # cur /\ nb \in OnLayer(layer) /\ cur \in OnLayer(layer)
    BY <1>2, <1>3 DEF LinksOnLayer
  <1>5. LinkedBack(nb) \subseteq OnLayer(layer) \ {nb}
    BY <1>2, <1>4 DEF LinksOnLayer, LinkedBack
  <1>6. PICK kept \in Selections(LinkedBack(nb), MaxConnections(layer)) :
           links' = [links EXCEPT ![layer] = Pruned(nb, kept)]
    BY DEF LinkBack
  <1>7. /\ links'[layer] = Pruned(nb, kept)
        /\ \A l \in Layer : l # layer => links'[l] = links[l]
    BY <1>2, <1>6 DEF TypeOK
  <1> QED BY <1>1, <1>2, <1>3, <1>4, <1>5, <1>6, <1>7

\* The lists of the layer after a link back, one by one.
LEMMA PrunedIs ==
    ASSUME NEW nb \in Node, NEW kept
    PROVE  /\ Pruned(nb, kept)[nb] = kept
           /\ \A n \in Node : n # nb =>
                 Pruned(nb, kept)[n] = IF n \in LinkedBack(nb) \ kept
                                       THEN links[layer][n] \ {nb} ELSE links[layer][n]
  BY DEF Pruned

\* Where insert() goes after a link back.
LEMMA GoesOn ==
    ASSUME NEW nb \in Node, LinkBack(nb)
    PROVE  \/ /\ todo' # {}
              /\ UNCHANGED <<entry, maxLevel, cur, layer, start>>
           \/ todo' = {} /\ layer = 0 /\ Finish
           \/ todo' = {} /\ layer # 0 /\ NextLayer
  BY DEF LinkBack

\* Links stay on the layer and go both ways while neighbours link back.
LEMMA LinkBackGoesBothWays ==
    ASSUME LinksInv, NEW nb \in Node, LinkBack(nb)
    PROVE  /\ links' \in [Layer -> [Node -> SUBSET Node]]
           /\ LinksOnLayer'
           /\ \A n \in Node : n # nb => links'[layer][n] \subseteq links[layer][n]
           /\ todo' \subseteq links'[layer][cur]
           /\ \A l \in Layer : \A a, b \in Node :
                 b \in links'[l][a] =>
                    a \in links'[l][b] \/ (a = cur /\ l = layer /\ b \in todo')
  <1> TypeOK /\ LinksOnLayer /\ Bidirectional /\ InsertInOrder
    BY DEF LinksInv
  <1>1. /\ cur # None /\ cur \in Node /\ layer \in Layer
        /\ nb \in todo /\ todo' = todo \ {nb}
        /\ cur \in OnLayer(layer) /\ nb \in OnLayer(layer) /\ nb # cur
        /\ nb \in links[layer][cur]
        /\ LinkedBack(nb) \subseteq OnLayer(layer) \ {nb}
        /\ size' = size /\ levels' = levels
        /\ \A l \in Layer : l # layer => links'[l] = links[l]
    BY LinkedBackIs
  <1>2. PICK kept \in Selections(LinkedBack(nb), MaxConnections(layer)) :
           links'[layer] = Pruned(nb, kept)
    BY LinkedBackIs
  <1>3. kept \subseteq LinkedBack(nb)
    <2>1. LinkedBack(nb) \in SUBSET Node /\ MaxConnections(layer) \in Nat
      BY <1>1, OnLayerIs, MaxConnectionsType
    <2> QED BY <1>2, <2>1, SelectionsAre
  <1> DEFINE old == links[layer]
             new == links'[layer]
  <1>4. /\ new[nb] = kept
        /\ \A n \in Node : n # nb =>
              new[n] = IF n \in LinkedBack(nb) \ kept THEN old[n] \ {nb} ELSE old[n]
    BY <1>2, PrunedIs
  <1>5. LinkedBack(nb) = old[nb] \cup {cur}
    BY DEF LinkedBack
  <1>6. links' \in [Layer -> [Node -> SUBSET Node]]
    <2>1. kept \subseteq Node
      BY <1>1, <1>3, OnLayerIs
    <2>2. Pruned(nb, kept) \in [Node -> SUBSET Node]
      BY <1>1, <2>1 DEF Pruned, TypeOK
    <2>3. links' = [links EXCEPT ![layer] = links'[layer]]
      BY DEF LinkBack, TypeOK
    <2> QED BY <1>1, <1>2, <2>2, <2>3 DEF TypeOK
  <1>7. \A n \in Node : n # nb => new[n] \subseteq old[n]
    BY <1>4
  <1>8. LinksOnLayer'
    <2> SUFFICES ASSUME NEW l \in Layer, NEW n \in Node
                 PROVE  /\ n \notin links'[l][n]
                        /\ links'[l][n] # {} =>
                              n \in OnLayer(l) /\ links'[l][n] \subseteq OnLayer(l)
      BY <1>1 DEF LinksOnLayer, OnLayer
    <2>1. CASE l # layer
      BY <1>1, <2>1 DEF LinksOnLayer
    <2>2. CASE l = layer /\ n = nb
      BY <1>1, <1>3, <1>4, <2>2
    <2>3. CASE l = layer /\ n # nb
      BY <1>7, <2>3 DEF LinksOnLayer
    <2> QED BY <2>1, <2>2, <2>3
  <1>9. todo' \subseteq new[cur]
    <2>1. todo \subseteq old[cur]
      BY <1>1 DEF InsertInOrder
    <2> QED BY <1>1, <1>4, <2>1
  <1>10. ASSUME NEW l \in Layer, NEW a \in Node, NEW b \in Node, b \in links'[l][a]
         PROVE  a \in links'[l][b] \/ (a = cur /\ l = layer /\ b \in todo')
    <2>1. CASE l # layer
      BY <1>1, <1>10, <2>1 DEF Bidirectional
    <2>2. CASE l = layer
      <3>1. b \in new[a]
        BY <1>10, <2>2
      <3>2. CASE a = nb
        <4>1. b \in kept /\ b # nb /\ b \in LinkedBack(nb)
          BY <1>1, <1>3, <1>4, <3>1, <3>2
        <4>2. new[b] = old[b]
          BY <1>4, <4>1
        <4>3. nb \in old[b]
          <5>1. CASE b = cur
            BY <1>1, <5>1
          <5>2. CASE b # cur
            BY <1>1, <1>5, <4>1, <5>2 DEF Bidirectional
          <5> QED BY <5>1, <5>2
        <4> QED BY <2>2, <3>2, <4>2, <4>3
      <3>3. CASE a # nb /\ b = nb
        <4>1. b \in old[a] /\ a \notin LinkedBack(nb) \ kept
          BY <1>4, <3>1, <3>3
        <4>2. a \in LinkedBack(nb)
          BY <1>1, <1>5, <3>3, <4>1 DEF Bidirectional
        <4> QED BY <1>4, <2>2, <3>3, <4>1, <4>2
      <3>4. CASE a # nb /\ b # nb
        <4>1. b \in old[a]
          BY <1>7, <3>1, <3>4
        <4>2. a \in old[b] \/ (a = cur /\ b \in todo)
          BY <1>1, <4>1 DEF Bidirectional
        <4>3. a \in old[b] => a \in new[b]
          BY <1>4, <3>4
        <4> QED BY <1>1, <2>2, <3>4, <4>2, <4>3
      <3> QED BY <3>2, <3>3, <3>4
    <2> QED BY <2>1, <2>2
  <1> QED BY <1>6, <1>7, <1>8, <1>9, <1>10

\* The rest of the insert() after a link back: the next neighbour, the next
\* layer, or the end.
LEMMA LinkBackLinks ==
    ASSUME LinksInv, NEW nb \in Node, LinkBack(nb)
    PROVE  LinksInv'
  <1> TypeOK /\ EntryOnTop /\ InsertInOrder /\ FreshBelow /\ StartsOnLayer
    BY DEF LinksInv
  <1>1. /\ cur # None /\ cur \in Node /\ layer \in Layer /\ layer <= levels[cur]
        /\ nb \in todo /\ todo' = todo \ {nb}
        /\ cur \in OnLayer(layer) /\ nb \in OnLayer(layer) /\ nb # cur
        /\ size' = size /\ levels' = levels
        /\ \A l \in Layer : l # layer => links'[l] = links[l]
    BY LinkedBackIs
  <1>2. /\ links' \in [Layer -> [Node -> SUBSET Node]]
        /\ LinksOnLayer'
        /\ todo' \subseteq links'[layer][cur]
        /\ \A l \in Layer : \A a, b \in Node :
              b \in links'[l][a] =>
                 a \in links'[l][b] \/ (a = cur /\ l = layer /\ b \in todo')
    BY LinkBackGoesBothWays
  <1>3. \A l : OnLayer(l)' = OnLayer(l)
    BY <1>1 DEF OnLayer
  <1>4. /\ layer \in Nat /\ maxLevel \in Nat /\ \A n \in Node : levels[n] \in Layer /\ levels[n] \in Nat
        /\ \A l \in Layer : l \in Nat
        /\ start \in OnLayer(layer) \ {cur} /\ cur = size - 1 /\ size > 1
        /\ entry \in OnLayer(maxLevel)
        /\ \A n \in 0 .. size - 1 : n # cur => levels[n] <= maxLevel
    <2>1. \A l \in Layer : l \in Nat
      BY TopLevelAssumption DEF Layer
    <2>2. cur = size - 1 /\ size > 1
      BY <1>1 DEF InsertInOrder
    <2>3. size \in Nat
      BY MaxNodesAssumption DEF TypeOK
    <2> QED BY <1>1, <2>1, <2>2, <2>3 DEF TypeOK, StartsOnLayer, EntryOnTop
  <1>5. 0 .. size - 1 \subseteq Node /\ size \in Nat
    BY MaxNodesAssumption DEF TypeOK, Node
  <1>6. CASE todo' # {} /\ UNCHANGED <<entry, maxLevel, cur, layer, start>>
    <2>1. TypeOK'
      BY <1>1, <1>2, <1>6 DEF TypeOK
    <2>2. Bidirectional'
      BY <1>2, <1>6 DEF Bidirectional
    <2>3. EntryOnTop' /\ StartsOnLayer'
      <3>1. OnLayer(maxLevel)' = OnLayer(maxLevel) /\ OnLayer(layer)' = OnLayer(layer)
        BY <1>1, <1>6 DEF OnLayer
      <3> QED BY <1>1, <1>4, <1>6, <3>1 DEF EntryOnTop, StartsOnLayer
    <2>4. InsertInOrder'
      BY <1>1, <1>2, <1>4, <1>6 DEF InsertInOrder
    <2>5. FreshBelow'
      <3> SUFFICES ASSUME NEW l \in 0 .. layer, l < layer PROVE links'[l][cur] = {}
        BY <1>6 DEF FreshBelow
      <3>1. l \in Layer /\ l # layer
        BY <1>1, TopLevelAssumption DEF Layer
      <3>2. links[l][cur] = {}
        BY <1>1 DEF FreshBelow
      <3> QED BY <1>1, <3>1, <3>2
    <2> QED BY <1>2, <2>1, <2>2, <2>3, <2>4, <2>5 DEF LinksInv
  <1>7. CASE todo' = {} /\ layer = 0 /\ Finish
    <2>1. cur' = None /\ layer' = 0 /\ start' = 0
      BY <1>7 DEF Finish
    <2>2. \/ levels[cur] > maxLevel /\ entry' = cur /\ maxLevel' = levels[cur]
          \/ levels[cur] <= maxLevel /\ entry' = entry /\ maxLevel' = maxLevel
      BY <1>1, <1>4, <1>7 DEF Finish
    <2>3. TypeOK'
      BY <1>1, <1>2, <1>4, <1>7, <2>1, <2>2, NodeFacts, TopLevelAssumption DEF TypeOK, Layer
    <2>4. Bidirectional'
      BY <1>2, <1>7 DEF Bidirectional
    <2>5. EntryOnTop'
      <3>1. cur \in OnLayer(levels[cur])
        <4>1. cur \in 0 .. size - 1
          BY <1>4, <1>5
        <4> QED BY <1>1, <1>4, <4>1 DEF OnLayer
      <3>2. entry' \in OnLayer(maxLevel')
        BY <1>4, <2>2, <3>1
      <3>3. OnLayer(maxLevel)' = OnLayer(maxLevel')
        BY <1>1 DEF OnLayer
      <3>4. \A n \in 0 .. size - 1 : levels[n] <= maxLevel'
        <4> TAKE n \in 0 .. size - 1
        <4>1. n \in Node /\ levels[n] \in Nat /\ levels[cur] \in Nat
          BY <1>1, <1>4, <1>5
        <4>2. CASE n = cur
          BY <1>4, <2>2, <4>1, <4>2
        <4>3. CASE n # cur
          <5>1. levels[n] <= maxLevel
            BY <1>4, <4>3
          <5> QED BY <1>4, <2>2, <4>1, <5>1
        <4> QED BY <4>2, <4>3
      <3> QED BY <1>1, <2>1, <3>2, <3>3, <3>4 DEF EntryOnTop
    <2>6. InsertInOrder' /\ FreshBelow' /\ StartsOnLayer'
      BY <1>7, <2>1 DEF InsertInOrder, FreshBelow, StartsOnLayer
    <2> QED BY <1>2, <2>3, <2>4, <2>5, <2>6 DEF LinksInv
  <1>8. CASE todo' = {} /\ layer # 0 /\ NextLayer
    <2>1. layer' = layer - 1 /\ UNCHANGED <<entry, maxLevel, cur, start>>
      BY <1>8 DEF NextLayer
    <2>2. layer' \in Layer /\ layer' \in Nat /\ layer' < layer
      BY <1>1, <1>4, <1>8, <2>1, TopLevelAssumption DEF Layer
    <2>3. TypeOK'
      BY <1>1, <1>2, <1>8, <2>1, <2>2 DEF TypeOK
    <2>4. Bidirectional'
      BY <1>2, <1>8 DEF Bidirectional
    <2>5. EntryOnTop' /\ StartsOnLayer'
      <3>1. start \in OnLayer(layer') \ {cur}
        BY <1>1, <1>4, <2>2, OnLayerIs
      <3>2. OnLayer(maxLevel)' = OnLayer(maxLevel) /\ OnLayer(layer)' = OnLayer(layer')
        BY <1>1, <2>1 DEF OnLayer
      <3> QED BY <1>1, <1>4, <2>1, <3>1, <3>2 DEF EntryOnTop, StartsOnLayer
    <2>6. InsertInOrder'
      BY <1>1, <1>4, <1>8, <2>1 DEF InsertInOrder
    <2>7. FreshBelow'
      <3> SUFFICES ASSUME NEW l \in 0 .. layer' PROVE links'[l][cur] = {}
        BY <2>1 DEF FreshBelow
      <3>1. l \in 0 .. layer /\ l < layer
        BY <1>4, <2>2
      <3>2. l \in Layer /\ l # layer
        BY <1>1, <3>1, TopLevelAssumption DEF Layer
      <3>3. links[l][cur] = {}
        BY <1>1, <3>1 DEF FreshBelow
      <3> QED BY <1>1, <3>2, <3>3
    <2> QED BY <1>2, <2>3, <2>4, <2>5, <2>6, <2>7 DEF LinksInv
  <1> QED BY <1>6, <1>7, <1>8, GoesOn

LEMMA LinksUnchanged ==
    ASSUME LinksInv, UNCHANGED vars
    PROVE  LinksInv'
  <1> USE DEF vars, graph
  <1>1. \A l : OnLayer(l)' = OnLayer(l)
    BY DEF OnLayer
  <1>2. OnLayer(maxLevel)' = OnLayer(maxLevel) /\ OnLayer(layer)' = OnLayer(layer)
    BY DEF OnLayer
  <1>3. LinksOnLayer' /\ EntryOnTop' /\ StartsOnLayer'
    BY <1>1, <1>2 DEF LinksInv, LinksOnLayer, EntryOnTop, StartsOnLayer
  <1>4. TypeOK' /\ Bidirectional' /\ InsertInOrder' /\ FreshBelow'
    BY DEF LinksInv, TypeOK, Bidirectional, InsertInOrder, FreshBelow
  <1> QED BY <1>3, <1>4 DEF LinksInv

\* The invariant of the links: with the properties below it says where an
\* insert() stands, which they need to be inductive.
THEOREM LinksInvariance == Spec => []LinksInv
  <1>1. LinksInv /\ [Next]_vars => LinksInv'
    BY AddLinks, DescendLinks, SelectLinks, LinkBackLinks, LinksUnchanged DEF Next
  <1> QED BY <1>1, LinksInit, PTL DEF Spec

\* The variables keep their types: no level, layer or node number of an
\* insert() leaves its range (hnsw_index.h:62-147).
THEOREM GraphTypeCorrect == Spec => []TypeOK
  BY LinksInvariance, PTL DEF LinksInv

\* No link leads off its layer or back to its own node, so the lists of a
\* layer are only read for nodes that have one (hnsw_index.h:211-217).
THEOREM LinksStayOnLayer == Spec => []LinksOnLayer
  BY LinksInvariance, PTL DEF LinksInv

\* The entry point is always on the top layer, and every search of an insert()
\* starts from an older node of its layer (hnsw_index.h:88-97, 142-145).
THEOREM EntryStaysOnTop == Spec => []EntryOnTop
  BY LinksInvariance, PTL DEF LinksInv

\* Every link has its link back once an insert() has ended, whatever pruning
\* removed (hnsw_index.h:102-139).
THEOREM LinksGoBothWays == Spec => []Bidirectional
  BY LinksInvariance, PTL DEF LinksInv

-----------------------------------------------------------------------------
(* The limits on neighbours.                                               *)

LEMMA SmallerSet ==
    ASSUME NEW S \in SUBSET Node, NEW T \in SUBSET S
    PROVE  Cardinality(T) <= Cardinality(S) /\ Cardinality(T) \in Nat /\ Cardinality(S) \in Nat
  BY NodeFacts, FS_Subset

LEMMA DegreeStep ==
    ASSUME LinksInv, DegreeBounded, [Next]_vars
    PROVE  DegreeBounded'
  <1> SUFFICES ASSUME NEW l \in Layer, NEW n \in Node
               PROVE  Cardinality(links'[l][n]) <= MaxConnections(l)
    BY DEF DegreeBounded, MaxConnections
  <1>1. Cardinality(links[l][n]) <= MaxConnections(l)
    BY DEF DegreeBounded
  <1>2. links \in [Layer -> [Node -> SUBSET Node]] /\ MaxConnections(l) \in Nat
    BY MaxConnectionsType DEF LinksInv, TypeOK
  <1>3. ASSUME NEW k \in Layer, AddNode(k) PROVE links' = links
    BY <1>3 DEF AddNode
  <1>4. CASE Descend
    BY <1>1, <1>4 DEF Descend, graph
  <1>5. CASE SelectNeighbors
    <2>1. /\ cur \in Node /\ layer \in Layer
          /\ Cardinality(todo') <= MaxConnections(layer)
          /\ links' = [links EXCEPT ![layer][cur] = todo']
      BY <1>5, SelectedIs
    <2>2. CASE l = layer /\ n = cur
      <3>1. links'[l][n] = todo'
        BY <1>2, <2>1, <2>2
      <3> QED BY <2>1, <2>2, <3>1
    <2>3. CASE ~(l = layer /\ n = cur)
      <3>1. links'[l][n] = links[l][n]
        BY <1>2, <2>1, <2>3
      <3> QED BY <1>1, <3>1
    <2> QED BY <2>2, <2>3
  <1>6. ASSUME NEW nb \in Node, LinkBack(nb)
        PROVE  Cardinality(links'[l][n]) <= MaxConnections(l)
    <2>1. CASE l # layer
      BY <1>1, <1>6, <2>1, LinkedBackIs
    <2>2. CASE l = layer /\ n # nb
      <3>1. links'[l][n] \subseteq links[l][n] /\ links[l][n] \subseteq Node
        BY <1>2, <1>6, <2>2, LinkBackGoesBothWays
      <3>2. /\ Cardinality(links'[l][n]) <= Cardinality(links[l][n])
            /\ Cardinality(links'[l][n]) \in Nat /\ Cardinality(links[l][n]) \in Nat
        BY <3>1, SmallerSet
      <3> QED BY <1>1, <1>2, <3>2
    <2>3. CASE l = layer /\ n = nb
      <3>1. PICK kept \in Selections(LinkedBack(nb), MaxConnections(layer)) :
               links'[layer] = Pruned(nb, kept)
        BY <1>6, LinkedBackIs
      <3>2. LinkedBack(nb) \in SUBSET Node
        BY <1>6, LinkedBackIs, OnLayerIs DEF LinksInv
      <3>3. Cardinality(kept) <= MaxConnections(layer)
        BY <1>2, <2>3, <3>1, <3>2, SelectionsAre
      <3> QED BY <2>3, <3>1, <3>3, PrunedIs
    <2> QED BY <2>1, <2>2, <2>3
  <1> QED BY <1>1, <1>3, <1>4, <1>5, <1>6 DEF Next, vars, graph

\* Between two links back no node has more neighbours than its layer allows,
\* so one slot of overflow is enough and the counts pass the limits of
\* load_hnsw() (hnsw_index.h:39,106,230-238, loader.cpp:49,66).
THEOREM DegreesStayBounded == Spec => []DegreeBounded
  <1>1. Init => DegreeBounded
    <2> SUFFICES ASSUME Init PROVE DegreeBounded
      OBVIOUS
    <2>1. \A l \in Layer : \A n \in Node : links[l][n] = {}
      BY DEF Init
    <2> QED BY <2>1, FS_EmptySet, MaxConnectionsType DEF DegreeBounded
  <1>2. LinksInv /\ DegreeBounded /\ [Next]_vars => DegreeBounded'
    BY DegreeStep
  <1> QED BY <1>1, <1>2, LinksInvariance, PTL DEF Spec

-----------------------------------------------------------------------------
(* No node is lost while no list can overflow.  Nothing here counts paths: *)
(* a set of nodes that no link leaves has all the settled nodes of a layer *)
(* or none, and that is kept by every link that is made.                   *)

\* On a layer where no list can overflow nothing is pruned: the links only
\* grow.
LEMMA NothingPruned ==
    ASSUME LinksInv, NEW nb \in Node, LinkBack(nb),
           Cardinality(OnLayer(layer)) <= MaxConnections(layer) + 1
    PROVE  \A n \in Node : links[layer][n] \subseteq links'[layer][n]
  <1>1. /\ layer \in Layer /\ nb \in OnLayer(layer)
        /\ LinkedBack(nb) \subseteq OnLayer(layer) \ {nb}
    BY LinkedBackIs
  <1>2. PICK kept \in Selections(LinkedBack(nb), MaxConnections(layer)) :
           links'[layer] = Pruned(nb, kept)
    BY LinkedBackIs
  <1>3. OnLayer(layer) \in SUBSET Node /\ MaxConnections(layer) \in Nat
    BY <1>1, OnLayerIs, MaxConnectionsType DEF LinksInv
  <1>4. Cardinality(OnLayer(layer) \ {nb}) = Cardinality(OnLayer(layer)) - 1
    BY <1>1, <1>3, NodeFacts, FS_RemoveElement
  <1>5. Cardinality(LinkedBack(nb)) <= MaxConnections(layer)
    <2>1. Cardinality(LinkedBack(nb)) <= Cardinality(OnLayer(layer) \ {nb})
      BY <1>1, <1>3, SmallerSet
    <2>2. Cardinality(LinkedBack(nb)) \in Nat /\ Cardinality(OnLayer(layer)) \in Nat
      BY <1>1, <1>3, NodeFacts
    <2> QED BY <1>3, <1>4, <2>1, <2>2
  <1>6. kept = LinkedBack(nb)
    BY <1>1, <1>2, <1>3, <1>5, SelectionsAre
  <1>7. /\ links'[layer][nb] = kept
        /\ \A n \in Node : n # nb =>
              links'[layer][n] = IF n \in LinkedBack(nb) \ kept
                                 THEN links[layer][n] \ {nb} ELSE links[layer][n]
    BY <1>2, PrunedIs
  <1>8. \A n \in Node : n # nb => links'[layer][n] = links[layer][n]
    BY <1>6, <1>7
  <1>9. links'[layer][nb] = links[layer][nb] \cup {cur}
    BY <1>6, <1>7 DEF LinkedBack
  <1> QED BY <1>8, <1>9

\* More links leave fewer sets closed.
LEMMA MoreLinksClose ==
    ASSUME NEW l \in Layer, \A n \in Node : links[l][n] \subseteq links'[l][n]
    PROVE  ClosedOn(l)' \subseteq ClosedOn(l)
  BY DEF ClosedOn

\* The layers that a step leaves alone stay joined.
LEMMA SameLinksJoined ==
    ASSUME NEW l \in Layer, NEW T, links'[l] = links[l], AllOrNone(l, T)
    PROVE  AllOrNone(l, T)'
  BY DEF AllOrNone, ClosedOn

LEMMA AddJoined ==
    ASSUME LinksInv, Joined, NEW k \in Layer, AddNode(k)
    PROVE  Joined'
  <1> SUFFICES ASSUME NEW l \in Layer, Cardinality(OnLayer(l)') <= MaxConnections(l) + 1
               PROVE  AllOrNone(l, Settled(l))'
    BY DEF Joined, MaxConnections
  <1>1. /\ size \in Node /\ size \in Nat /\ cur = None /\ links' = links
        /\ \A i \in Layer : size \notin OnLayer(i)
        /\ \A i \in Layer :
              OnLayer(i)' = IF i <= k THEN OnLayer(i) \cup {size} ELSE OnLayer(i)
    <2>1. cur = None /\ links' = links
      BY DEF AddNode
    <2> QED BY <2>1, AddedOnLayer, NodeFacts DEF LinksInv
  <1>2. Settled(l) = OnLayer(l) /\ OnLayer(l) \subseteq OnLayer(l)'
    BY <1>1 DEF Settled
  <1>3. AllOrNone(l, OnLayer(l))
    <2>1. OnLayer(l)' \in SUBSET Node
      BY <1>1, OnLayerIs DEF LinksInv
    <2>2. /\ Cardinality(OnLayer(l)) <= Cardinality(OnLayer(l)')
          /\ Cardinality(OnLayer(l)) \in Nat /\ Cardinality(OnLayer(l)') \in Nat
      BY <1>2, <2>1, SmallerSet
    <2>3. Cardinality(OnLayer(l)) <= MaxConnections(l) + 1
      BY <2>2, MaxConnectionsType
    <2> QED BY <1>2, <2>3 DEF Joined
  <1>4. CASE cur' # None /\ l <= layer'
    <2>1. cur' = size
      BY <1>1, <1>4 DEF AddNode
    <2>2. Settled(l)' = OnLayer(l)' \ {size}
      BY <1>4, <2>1 DEF Settled
    <2>3. Settled(l)' = OnLayer(l)
      BY <1>1, <2>2
    <2> QED BY <1>1, <1>3, <2>3 DEF AllOrNone, ClosedOn
  <1>5. CASE ~(cur' # None /\ l <= layer')
    <2>1. Settled(l)' = OnLayer(l)'
      BY <1>5 DEF Settled
    <2>2. OnLayer(l) = {}
      <3>1. CASE size = 0
        BY <3>1 DEF OnLayer
      <3>2. CASE size > 0
        <4>1. cur' = size /\ layer' = maxLevel
          BY <3>2 DEF AddNode
        <4>2. l > maxLevel /\ size # None /\ maxLevel \in Nat /\ l \in Nat
          BY <1>1, <1>5, <4>1, NodeFacts, TopLevelAssumption DEF LinksInv, TypeOK, Layer
        <4>3. \A n \in 0 .. size - 1 : levels[n] <= maxLevel /\ levels[n] \in Nat
          <5>1. \A n \in 0 .. size - 1 : n \in Node /\ n # cur
            BY <1>1, MaxNodesAssumption DEF Node, None
          <5>2. levels \in [Node -> Layer]
            BY DEF LinksInv, TypeOK
          <5> QED BY <3>2, <5>1, <5>2, TopLevelAssumption DEF LinksInv, EntryOnTop, Layer
        <4> QED BY <4>2, <4>3 DEF OnLayer
      <3> QED BY <1>1, <3>1, <3>2
    <2>3. OnLayer(l)' \subseteq {size}
      BY <1>1, <2>2
    <2> QED BY <2>1, <2>3 DEF AllOrNone
  <1> QED BY <1>4, <1>5

LEMMA DescendJoined ==
    ASSUME LinksInv, Joined, Descend
    PROVE  Joined'
  <1> SUFFICES ASSUME NEW l \in Layer, Cardinality(OnLayer(l)') <= MaxConnections(l) + 1
               PROVE  AllOrNone(l, Settled(l))'
    BY DEF Joined, MaxConnections
  <1>1. /\ cur # None /\ layer > levels[cur] /\ layer' = layer - 1
        /\ size' = size /\ levels' = levels /\ links' = links /\ cur' = cur
    BY DEF Descend, graph
  <1>2. OnLayer(l)' = OnLayer(l)
    BY <1>1 DEF OnLayer
  <1>3. AllOrNone(l, Settled(l))
    BY <1>2 DEF Joined
  <1>4. layer \in Nat /\ l \in Nat /\ levels[cur] \in Nat
    BY <1>1, TopLevelAssumption DEF LinksInv, TypeOK, Layer
  <1>5. cur \notin OnLayer(layer)
    BY <1>1, <1>4 DEF OnLayer
  <1>6. Settled(l)' = Settled(l)
    <2>1. CASE l <= layer'
      BY <1>1, <1>2, <1>4, <2>1 DEF Settled
    <2>2. CASE l = layer
      BY <1>1, <1>2, <1>4, <1>5, <2>2 DEF Settled
    <2>3. CASE l > layer
      BY <1>1, <1>2, <1>4, <2>3 DEF Settled
    <2> QED BY <1>1, <1>4, <2>1, <2>2, <2>3
  <1> QED BY <1>1, <1>3, <1>6 DEF AllOrNone, ClosedOn

LEMMA SelectJoined ==
    ASSUME LinksInv, Joined, SelectNeighbors
    PROVE  Joined'
  <1> SUFFICES ASSUME NEW l \in Layer, Cardinality(OnLayer(l)') <= MaxConnections(l) + 1
               PROVE  AllOrNone(l, Settled(l))'
    BY DEF Joined, MaxConnections
  <1>1. /\ cur # None /\ cur \in Node /\ layer \in Layer
        /\ links[layer][cur] = {}
        /\ links' = [links EXCEPT ![layer][cur] = todo']
        /\ size' = size /\ levels' = levels /\ cur' = cur /\ layer' = layer
    BY SelectedIs
  <1>2. OnLayer(l)' = OnLayer(l) /\ Settled(l)' = Settled(l)
    BY <1>1 DEF OnLayer, Settled
  <1>3. AllOrNone(l, Settled(l))
    BY <1>2 DEF Joined
  <1>4. CASE l # layer
    <2>1. links'[l] = links[l]
      BY <1>1, <1>4 DEF LinksInv, TypeOK
    <2> QED BY <1>2, <1>3, <2>1 DEF AllOrNone, ClosedOn
  <1>5. CASE l = layer
    <2>1. links'[l][cur] = todo' /\ \A n \in Node : n # cur => links'[l][n] = links[l][n]
      BY <1>1, <1>5 DEF LinksInv, TypeOK
    <2>2. \A n \in Node : links[l][n] \subseteq links'[l][n]
      BY <1>1, <1>5, <2>1
    <2>3. ClosedOn(l)' \subseteq ClosedOn(l)
      BY <2>2, MoreLinksClose
    <2> QED BY <1>2, <1>3, <2>3 DEF AllOrNone
  <1> QED BY <1>4, <1>5

LEMMA LinkBackJoined ==
    ASSUME LinksInv, LinksInv', Joined, NEW nb \in Node, LinkBack(nb)
    PROVE  Joined'
  <1> SUFFICES ASSUME NEW l \in Layer, Cardinality(OnLayer(l)') <= MaxConnections(l) + 1
               PROVE  AllOrNone(l, Settled(l))'
    BY DEF Joined, MaxConnections
  <1>1. /\ cur # None /\ cur \in Node /\ layer \in Layer /\ layer \in Nat /\ l \in Nat
        /\ cur \in OnLayer(layer) /\ nb \in OnLayer(layer) /\ nb # cur
        /\ nb \in links[layer][cur] /\ todo' = todo \ {nb}
        /\ size' = size /\ levels' = levels
        /\ \A i \in Layer : i # layer => links'[i] = links[i]
    BY LinkedBackIs, TopLevelAssumption DEF Layer
  <1>2. OnLayer(l)' = OnLayer(l)
    BY <1>1 DEF OnLayer
  <1>3. AllOrNone(l, Settled(l))
    BY <1>2 DEF Joined
  <1>4. \/ todo' # {} /\ cur' = cur /\ layer' = layer
        \/ todo' = {} /\ layer = 0 /\ cur' = None
        \/ todo' = {} /\ layer # 0 /\ cur' = cur /\ layer' = layer - 1
    BY GoesOn DEF Finish, NextLayer
  <1>5. CASE l # layer
    <2>1. Settled(l)' = Settled(l)
      BY <1>1, <1>2, <1>4, <1>5 DEF Settled
    <2>2. ClosedOn(l)' = ClosedOn(l)
      BY <1>1, <1>5 DEF ClosedOn
    <2> QED BY <1>3, <2>1, <2>2 DEF AllOrNone
  <1>6. CASE l = layer
    <2> DEFINE old == OnLayer(l) \ {cur}
    <2>1. Settled(l) = old
      BY <1>1, <1>6 DEF Settled
    <2>2. \A n \in Node : links[l][n] \subseteq links'[l][n]
      BY <1>2, <1>6, NothingPruned
    <2>3. ClosedOn(l)' \subseteq ClosedOn(l)
      BY <2>2, MoreLinksClose
    <2>4. \A S \in ClosedOn(l)' : S \cap old # {} => old \subseteq S
      BY <1>3, <2>1, <2>3 DEF AllOrNone
    <2>5. CASE todo' # {}
      <3>1. Settled(l)' = old
        BY <1>1, <1>2, <1>4, <1>6, <2>5 DEF Settled
      <3> QED BY <2>4, <3>1 DEF AllOrNone
    <2>6. CASE todo' = {}
      <3>1. Settled(l)' = OnLayer(l)
        BY <1>1, <1>2, <1>4, <1>6, <2>6 DEF Settled
      <3>2. nb \in links'[l][cur] /\ nb \in old
        BY <1>1, <1>6, <2>2
      <3>3. cur \in links'[l][nb]
        BY <1>1, <1>6, <2>6, <3>2 DEF LinksInv, Bidirectional
      <3>4. ASSUME NEW S \in ClosedOn(l)', S \cap OnLayer(l) # {}
            PROVE  OnLayer(l) \subseteq S
        <4>1. \A n \in S : links'[l][n] \subseteq S
          BY DEF ClosedOn
        <4>2. S \cap old # {}
          BY <3>2, <3>4, <4>1
        <4>3. old \subseteq S
          BY <2>4, <4>2
        <4>4. cur \in S
          BY <3>2, <3>3, <4>1, <4>3
        <4> QED BY <4>3, <4>4
      <3> QED BY <3>1, <3>4 DEF AllOrNone
    <2> QED BY <2>5, <2>6
  <1> QED BY <1>5, <1>6

\* The whole inductive invariant: the links, the limits, and that the settled
\* nodes of a layer hang together while none of its lists can overflow.
THEOREM GraphInvariance == Spec => []GraphInv
  <1>1. Init => Joined
    <2> SUFFICES ASSUME Init, NEW l \in Layer PROVE AllOrNone(l, Settled(l))
      BY DEF Joined
    <2>1. OnLayer(l) = {}
      BY DEF Init, OnLayer
    <2> QED BY <2>1 DEF AllOrNone, Settled
  <1>2. LinksInv /\ LinksInv' /\ Joined /\ [Next]_vars => Joined'
    <2> SUFFICES ASSUME LinksInv, LinksInv', Joined, [Next]_vars PROVE Joined'
      OBVIOUS
    <2>1. CASE UNCHANGED vars
      <3>1. \A l : /\ OnLayer(l)' = OnLayer(l) /\ Settled(l)' = Settled(l)
                   /\ ClosedOn(l)' = ClosedOn(l)
        BY <2>1 DEF vars, graph, OnLayer, Settled, ClosedOn
      <3> QED BY <3>1 DEF Joined, AllOrNone, MaxConnections
    <2> QED BY <2>1, AddJoined, DescendJoined, SelectJoined, LinkBackJoined DEF Next
  <1> QED BY <1>1, <1>2, LinksInvariance, DegreesStayBounded, PTL DEF Spec, GraphInv

\* Until a list of a layer can overflow, a search that starts at the entry
\* point can reach every node of the layer, although each insert() links the
\* new node only to what a bounded search found (hnsw_index.h:93-106, 193-195).
THEOREM NoNodeIsLost == Spec => []NoneLost
  <1>1. GraphInv => NoneLost
    <2> SUFFICES ASSUME GraphInv, cur = None, size > 0, NEW l \in 0 .. maxLevel,
                        Cardinality(OnLayer(l)) <= MaxConnections(l) + 1
                 PROVE  OnLayer(l) \subseteq Reachable(l, entry)
      BY DEF NoneLost
    <2>1. l \in Layer /\ maxLevel \in Layer /\ l <= maxLevel
      BY TopLevelAssumption DEF GraphInv, LinksInv, TypeOK, Layer
    <2>2. OnLayer(l) \subseteq Node
      BY <2>1, OnLayerIs DEF GraphInv, LinksInv
    <2>3. entry \in OnLayer(l)
      <3>1. entry \in OnLayer(maxLevel)
        BY DEF GraphInv, LinksInv, EntryOnTop
      <3> QED BY <2>1, <3>1, OnLayerIs DEF GraphInv, LinksInv
    <2>4. \A S \in ClosedOn(l) : entry \in S => OnLayer(l) \subseteq S
      BY <2>1, <2>3 DEF GraphInv, Joined, AllOrNone, Settled
    <2> QED BY <2>2, <2>4 DEF Reachable
  <1> QED BY <1>1, GraphInvariance, PTL

=============================================================================
