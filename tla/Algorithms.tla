------------------------------ MODULE Algorithms ------------------------------
(***************************************************************************)
(* The algorithms that keep no state of their own.  Each behaviour is one  *)
(* call: the step is its return with any answer that it may give, and the  *)
(* properties compare the answer with a reference.  Which calls are made   *)
(* is a parameter.                                                         *)
(***************************************************************************)
EXTENDS FlatIndex, SegmentSearch, HnswFile, Registry, Kernel, Sq8

CONSTANTS
    FlatCalls,      \* of FlatIndex::search(): dist, k
    SearchCalls,    \* of SegmentManager::search(): db, k
    GraphCalls,     \* of load_hnsw(): graph, as written, and length of the file
    RegistryCalls,  \* of load(): registry, as written, and length of the file
    ExtractCalls,   \* of extract_json_uint(): text, as edited behind a key
    KernelCalls,    \* of l2_distance(): dim
    TrainingCalls,  \* of sq8_compute_params(): vectors, dim
    Components      \* the components that are encoded afterwards

\* Databases of segments whose searches find some of their vectors.
Databases ==
    Seq({s \in [dist : Seq(Int), found : SUBSET Nat] : s.found \subseteq DOMAIN s.dist})

\* Dimensions whose vectors fit into memory leave room for one more block.
Dims == {dim \in Nat : dim + Block < DimWidth}

ASSUME FlatAssumption ==
    FlatCalls \subseteq [op : {"FlatIndex::search"}, dist : Seq(Int), k : Nat]

ASSUME SearchAssumption ==
    SearchCalls \subseteq [op : {"SegmentManager::search"}, db : Databases, k : Nat]

ASSUME KernelAssumption ==
    KernelCalls \subseteq [op : {"l2_distance"}, dim : Dims]

ASSUME TrainingAssumption ==
    /\ \A c \in TrainingCalls :
          /\ c.op = "sq8_compute_params"
          /\ c.dim \in Nat
          /\ c.vectors \in Seq([1 .. c.dim -> Lowest .. Highest]) \ {<<>>}
    /\ Components \subseteq Int

ASSUME ReadAssumption ==
    /\ \A c \in GraphCalls : c.op = "load_hnsw" /\ c.graph \in Graphs /\ c.length \in Nat
    /\ \A c \in RegistryCalls :
          /\ c.op = "load" /\ c.length \in Nat
          /\ c.registry \in [ToSet(Keys) -> Nat]
          /\ \A key \in ToSet(Keys) : Plausible(key, c.registry[key])
    /\ \A c \in ExtractCalls : c.op = "extract_json_uint" /\ c.text \in Seq(STRING)

VARIABLES
    call,     \* the algorithm, as op, and its input
    answer    \* <<>>, and then the sequence of what it returned

Init ==
    /\ \/ call \in FlatCalls
       \/ call \in SearchCalls
       \/ call \in GraphCalls
       \/ call \in RegistryCalls
       \/ call \in ExtractCalls
       \/ call \in KernelCalls
       \/ call \in TrainingCalls
    /\ answer = <<>>

-----------------------------------------------------------------------------

\* A file of which no more than n words are left.
Cut(file, n) == SubSeq(file, 1, IF n < Len(file) THEN n ELSE Len(file))

FileLeft    == Cut(HnswWritten(call.graph), call.length)
ContentLeft == Cut(RegistryWritten(call.registry), call.length)
Edited      == <<"dim", Colon>> \o call.text

Returns(op, answers) ==
    /\ call.op = op
    /\ answer = <<>>
    /\ \E a \in answers : answer' = <<a>>
    /\ UNCHANGED call

FlatIndexReturns == Returns("FlatIndex::search", FlatSearch(call.dist, call.k))
SearchReturns    == Returns("SegmentManager::search", DatabaseSearch(call.db, call.k))
LoadHnswReturns  == Returns("load_hnsw", {LoadHnsw(FileLeft)})
LoadReturns      == Returns("load", {LoadRegistry(ContentLeft)})
ExtractReturns   == Returns("extract_json_uint", {Extract(Edited, "dim")})
KernelReturns    == Returns("l2_distance", {L2Terms(call.dim)})
ParamsReturn     == Returns("sq8_compute_params", {Sq8Params(call.vectors, call.dim)})

Next ==
    \/ FlatIndexReturns
    \/ SearchReturns
    \/ LoadHnswReturns
    \/ LoadReturns
    \/ ExtractReturns
    \/ KernelReturns
    \/ ParamsReturn

Spec == Init /\ [][Next]_<<call, answer>>

Returned(op) == call.op = op /\ answer # <<>>

-----------------------------------------------------------------------------
(* Properties.                                                             *)

\* What a search for the k nearest may answer, given the distances of all.
IsNearest(found, k, dist) ==
    /\ IsInjective(found)
    /\ ToSet(found) \subseteq DOMAIN dist
    /\ Len(found) = Min({k, Cardinality(DOMAIN dist)})
    /\ IsSorted(found, LAMBDA a, b : dist[a] <= dist[b])
    /\ \A a \in ToSet(found), b \in DOMAIN dist \ ToSet(found) : dist[a] <= dist[b]

\* The scan and the drain of the heap give the k nearest vectors of the store,
\* for k from 0 to beyond their number and however distances tie
\* (flat_index.h:20-47).
FlatIsExact ==
    Returned("FlatIndex::search") =>
        IsNearest(answer[1], call.k, call.dist)

\* Asking each segment for k and keeping k of all the answers is enough: the
\* result is the k nearest of everything that the segments find together,
\* wherever the vectors are and however distances tie
\* (segment_manager.cpp:83-105).
MergeIsExact ==
    Returned("SegmentManager::search") =>
        LET hits == UNION {{<<s, o>> : o \in call.db[s].found} : s \in DOMAIN call.db}
        IN  IsNearest(answer[1], call.k, [hit \in hits |-> HitDistance(call.db, hit)])

\* What is loaded is the graph that was written and nothing less: a file that
\* lost even its last word is rejected, although nothing marks its end.  A
\* complete file of plausible levels is not, the lists that still hold their
\* overflow included (loader.cpp:17-79, serializer.cpp:29-63, docs/PRD.md:148).
HnswReadBack ==
    Returned("load_hnsw") =>
        LET g == call.graph
            plausible == \A i \in DOMAIN g.nodes : Len(g.nodes[i].upper) <= MaxLevelOnDisk
        IN  IF plausible /\ FileLeft = HnswWritten(g)
            THEN answer[1].ok /\ answer[1].value = g
            ELSE ~answer[1].ok

\* The registry reads back up to the largest values of its types.  load() has
\* no way to see that the file is not whole; since the number of segments is
\* written last, a part of it is refused or names fewer segments, and no other
\* value is misread (segment_manager.cpp:36-51, 157-164, 179-219).
RegistryReadBack ==
    Returned("load") =>
        LET read == answer[1]
        IN  /\ ContentLeft = RegistryWritten(call.registry) =>
                   read = [ok |-> TRUE, value |-> call.registry]
            /\ read.ok =>
                   /\ \A key \in DOMAIN read.value \ {"segment_count"} :
                          read.value[key] = call.registry[key]
                   /\ IsPrefix(Numeral(read.value.segment_count),
                               Numeral(call.registry.segment_count))

\* The sum of the digits' weights.
NumberOf(digits) ==
    LET number[i \in 0 .. Len(digits)] ==
            IF i = 0 THEN 0 ELSE number[i - 1] * Base + DigitValue(digits[i])
    IN  number[Len(digits)]

\* The text without its spaces.
Unspaced(text) ==
    LET unspaced[i \in 0 .. Len(text)] ==
            IF i = 0 THEN <<>>
            ELSE IF text[i] = Space THEN unspaced[i - 1] ELSE Append(unspaced[i - 1], text[i])
    IN  unspaced[Len(text)]

\* Of a value edited by hand the digits are read as the number they stand for,
\* or the file is refused: no number wraps around, and the largest that fits is
\* accepted (segment_manager.cpp:20-51).
HandEditedIsExact ==
    Returned("extract_json_uint") =>
        LET text == Unspaced(call.text)
            before == AfterDigits(text, 1)
            number == NumberOf(SubSeq(text, 1, before - 1))
            ended == before > Len(text) \/ text[before] \in {Comma, Close}
            spaced == Contains(call.text, Space)
        IN  /\ answer[1].ok => before > 1 /\ ended /\ answer[1].value = number
            /\ before > 1 /\ ended /\ ~spaced => (answer[1].ok <=> number <= MaxUint)

\* Blocks, horizontal sum and tail add every dimension once and read nothing
\* behind the vectors, which end without padding, for dimensions below, at and
\* above multiples of eight (distance.cpp:19-41, sq8.cpp:87-110).
EveryTermOnce ==
    Returned("l2_distance") =>
        IsInjective(answer[1]) /\ ToSet(answer[1]) = 0 .. call.dim - 1

Abs(x) == IF x < 0 THEN -x ELSE x

Error(x, code, d) == Abs(Decode(code, d, answer[1]) - x * Steps)

\* A component of the training set comes back with an error of at most half a
\* step of what its dimension extends over; where that is less than Tiny, all of
\* them come back as the least one, so that a constant dimension loses nothing.
\* And any component, one far outside included, gets the code that is nearest to
\* it: no code wraps around (sq8.cpp:14-61).
WithinHalfStep ==
    Returned("sq8_compute_params") =>
        \A d \in 1 .. call.dim :
            LET trained == {call.vectors[v][d] : v \in DOMAIN call.vectors}
                extent == Max(trained) - Min(trained)
                code(x) == Encode(x, d, answer[1])
            IN  /\ \A x \in trained :
                       IF extent < Tiny
                       THEN Decode(code(x), d, answer[1]) = Min(trained) * Steps
                       ELSE 2 * Error(x, code(x), d) <= extent
                /\ \A x \in Components, other \in 0 .. Steps :
                       Error(x, code(x), d) <= Error(x, other, d)

=============================================================================
