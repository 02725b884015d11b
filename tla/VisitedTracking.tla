-------------------------- MODULE VisitedTracking ---------------------------
(***************************************************************************)
(* The visited marks of HnswIndex (index/hnsw_index.h).  greedy_search()   *)
(* does not clear them: a node is visited when its mark is the number of   *)
(* the current search, a counter of fixed width that wraps.  The marks     *)
(* grow with the graph, and an index over a loaded graph starts afresh.    *)
(*                                                                         *)
(* Which neighbours a search meets is left open.  What matters is that it  *)
(* looks at each of them exactly once, whatever the searches before it     *)
(* left behind.                                                            *)
(***************************************************************************)
EXTENDS Integers, Sequences

CONSTANTS
    Generations,  \* the number of values of current_gen_: 2 ^ 32
    MaxNodes      \* bound: nodes of the graph

ASSUME GenerationsAssumption == Generations \in Nat \ {0, 1}
ASSUME MaxNodesAssumption == MaxNodes \in Nat

VARIABLES
    marks,      \* visited_gen_, one entry for each node of the graph
    gen,        \* current_gen_
    searching,  \* a greedy_search() is in progress
    met,        \* the nodes that it has met, among the neighbours it scans
    looks       \* looks[n]: how often it has computed the distance of node n

marksVars == <<marks, gen, searching, met, looks>>

Node == 1 .. MaxNodes

Zeros(n) == [i \in 1 .. n |-> 0]

MarksInit ==
    /\ marks = <<>>
    /\ gen = 0
    /\ searching = FALSE
    /\ met = {}
    /\ looks = [n \in Node |-> 0]

\* add_node() lets the marks grow with the graph.
AddNode ==
    /\ ~searching
    /\ Len(marks) < MaxNodes
    /\ marks' = Append(marks, 0)
    /\ UNCHANGED <<gen, searching, met, looks>>

\* An index is constructed over a graph of n nodes that was loaded or moved in.
NewIndex(n) ==
    /\ ~searching
    /\ marks' = Zeros(n)
    /\ gen' = 0
    /\ UNCHANGED <<searching, met, looks>>

\* Mutant of NextGeneration: the old marks stay when the counter wraps.
NextGenerationNoFill ==
    IF gen + 1 = Generations
    THEN gen' = 1 /\ UNCHANGED marks
    ELSE gen' = gen + 1 /\ UNCHANGED marks

\* ++current_gen_, and the marks are cleared when it wraps.
NextGeneration ==
    IF gen + 1 = Generations
    THEN gen' = 1 /\ marks' = Zeros(Len(marks))
    ELSE gen' = gen + 1 /\ UNCHANGED marks

BeginSearch ==
    /\ ~searching
    /\ marks # <<>>
    /\ NextGeneration
    /\ searching' = TRUE
    /\ met' = {}
    /\ looks' = [n \in Node |-> 0]

\* The search starts at n, or meets n in a list of neighbours: unless n is
\* visited already, it is marked and looked at.
Meet(n) ==
    /\ searching
    /\ n \in DOMAIN marks
    /\ met' = met \cup {n}
    /\ IF marks[n] = gen
       THEN UNCHANGED <<marks, looks>>
       ELSE marks' = [marks EXCEPT ![n] = gen] /\ looks' = [looks EXCEPT ![n] = @ + 1]
    /\ UNCHANGED <<gen, searching>>

EndSearch ==
    /\ searching
    /\ searching' = FALSE
    /\ UNCHANGED <<marks, gen, met, looks>>

MarksNext ==
    \/ AddNode
    \/ \E n \in 0 .. MaxNodes : NewIndex(n)
    \/ BeginSearch
    \/ \E n \in Node : Meet(n)
    \/ EndSearch

MarksSpec == MarksInit /\ [][MarksNext]_marksVars

-----------------------------------------------------------------------------
(* Properties.                                                             *)

MarksTypeOK ==
    /\ marks \in Seq(0 .. Generations - 1)
    /\ Len(marks) <= MaxNodes
    /\ gen \in 0 .. Generations - 1
    /\ searching \in BOOLEAN
    /\ met \subseteq Node
    /\ looks \in [Node -> Nat]

\* A search looks exactly once at each node it meets: it neither takes the mark
\* of an earlier search, from before the counter wrapped or the graph grew, for
\* its own, nor looks twice (hnsw_index.h:279-283, 306-308, 378-385).
LooksOnce == \A n \in Node : looks[n] = IF n \in met THEN 1 ELSE 0

\* No mark is ahead of the counter: the next search finds no node visited.
MarksBehind ==
    /\ \A n \in DOMAIN marks : marks[n] <= gen
    /\ searching => gen > 0 /\ \A n \in DOMAIN marks : marks[n] = gen <=> n \in met
    /\ searching => met \subseteq DOMAIN marks

\* The inductive invariant of the proofs.
MarksInv == MarksTypeOK /\ LooksOnce /\ MarksBehind

=============================================================================
