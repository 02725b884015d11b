---------------------------- MODULE MCAlgorithms -----------------------------
(***************************************************************************)
(* Model checking of the algorithms: every call with every input of a      *)
(* small set.                                                              *)
(*                                                                         *)
(* Numbers are scaled down.  segments.json has radix 3 and integers up to  *)
(* 22, so that numbers of three digits just fit or just do not; int is     *)
(* smaller than unsigned long long, as in the code.  Dim counts to 64: the *)
(* dimensions are below 64 - 8, as those of vectors that fit into memory   *)
(* are below 2^32 - 8.  Codes go from 0 to 5.                              *)
(***************************************************************************)
EXTENDS Algorithms

\* Distances from the query to the vectors of a store, with ties.
MCFlatCalls == [op : {"FlatIndex::search"}, dist : SeqOf(0 .. 2, 5), k : 0 .. 6]

\* Every placement of two distances in a segment of up to two vectors, and
\* every set of vectors that its search finds.
Segments ==
    {s \in [dist : SeqOf(0 .. 1, 2), found : SUBSET (1 .. 2)] : s.found \subseteq DOMAIN s.dist}

MCDatabases ==
    {db \in SeqOf(Segments, 3) : db # <<>> /\ \A s \in 2 .. Len(db) : db[s].dist # <<>>}

MCSearchCalls == [op : {"SegmentManager::search"}, db : MCDatabases, k : 0 .. 3]

\* Nodes of a graph with m = 2.  Which neighbours a list holds is of no concern
\* to the format: it is determined by its node and length.
Neighbours(n, count) == [i \in 1 .. count |-> 10 * n + i]

NodesNamed(n) ==
    UNION {[layer0 : {Neighbours(n, c) : c \in {0, 1, 5}},
            upper  : [1 .. l -> {Neighbours(n, c) : c \in {0, 2}}]] : l \in {0, 1, 3}}

WrittenGraphs ==
    {[m |-> 2, max_level |-> 3, entry_point |-> Len(nodes), nodes |-> nodes] :
        nodes \in {<<>>} \cup {<<a>> : a \in NodesNamed(1)}
                         \cup {<<a, b>> : a \in NodesNamed(1), b \in NodesNamed(2)}}

MCDigits == <<"0", "1", "2">>
MCKeys == <<"format_version", "dim", "m", "segment_count">>
MCLimit == [format_version |-> 22, dim |-> 15, m |-> 7, segment_count |-> 22]

Registries ==
    [format_version : {1}, dim : {1, 15}, m : {2, 7}, segment_count : {0, 2, 3, 11, 22}]

\* What a registry that was edited by hand has behind a key.
Texts == SeqOf({"0", "1", "2", " ", ",", "}", "-", "x"}, 5)

MCComponents == {-9, -4, -1, 0, 3}

MCTrainingCalls ==
    [op : {"sq8_compute_params"}, dim : {2},
     vectors : SeqOf([1 .. 2 -> MCComponents], 3) \ {<<>>}]

\* Files that were cut anywhere, and whole ones.
MCGraphCalls == [op : {"load_hnsw"}, graph : WrittenGraphs, length : 0 .. 38]

MCRegistryCalls == [op : {"load"}, registry : Registries, length : 0 .. 31]

MCExtractCalls == [op : {"extract_json_uint"}, text : Texts]

MCKernelCalls == [op : {"l2_distance"}, dim : 0 .. 40]

=============================================================================
