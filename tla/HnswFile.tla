------------------------------ MODULE HnswFile -------------------------------
(***************************************************************************)
(* hnsw.bin: write_hnsw() (persistence/serializer.cpp) and load_hnsw()     *)
(* (persistence/loader.cpp).  The file has no lengths but the counts in    *)
(* front of the lists, no checksum and no mark at its end; it is written   *)
(* without looking at the stream, so what load_hnsw() finds may be any     *)
(* first part of it.                                                       *)
(*                                                                         *)
(* The file is a sequence of 32-bit words.  Magic and version are right: a *)
(* header is there or it is not.  A graph is a record of m, max_level,     *)
(* entry_point and nodes; a node has a list for layer 0 and one for each   *)
(* layer up to its level.                                                  *)
(***************************************************************************)
EXTENDS Integers, Sequences, SequencesExt

CONSTANT MaxLevelOnDisk    \* k_max_plausible_hnsw_node_level

ASSUME LevelAssumption == MaxLevelOnDisk \in Nat

\* max_m0() + 1: layer 0 may hold its one neighbour of overflow.
Layer0Limit(m) == 2 * m + 1

\* What insert() leaves behind: no list is longer than its layer allows.
Graphs ==
    {g \in [m : Nat, max_level : Nat, entry_point : Nat,
            nodes : Seq([layer0 : Seq(Nat), upper : Seq(Seq(Nat))])] :
        \A i \in DOMAIN g.nodes :
            /\ Len(g.nodes[i].layer0) <= Layer0Limit(g.m)
            /\ \A l \in DOMAIN g.nodes[i].upper : Len(g.nodes[i].upper[l]) <= g.m}

-----------------------------------------------------------------------------
(* write_hnsw()                                                            *)

HeaderWords == 6

Header(g) == <<"magic", "version", g.m, g.max_level, g.entry_point, Len(g.nodes)>>

List(s) == <<Len(s)>> \o s

\* The level, then each list with its count.
NodeWords(node) ==
    <<Len(node.upper)>> \o List(node.layer0)
        \o FlattenSeq([l \in DOMAIN node.upper |-> List(node.upper[l])])

HnswWritten(g) == Header(g) \o FlattenSeq([i \in DOMAIN g.nodes |-> NodeWords(g.nodes[i])])

-----------------------------------------------------------------------------
(* load_hnsw().  A read gives [ok, value, next], next being the position   *)
(* behind what it read, or Rejected when load_hnsw() throws.               *)

Rejected == [ok |-> FALSE]
Accepted(v, p) == [ok |-> TRUE, value |-> v, next |-> p]

\* Mutant of Holds: a read that gets a part of what it asks for passes.
HoldsSome(file, p, n) == n = 0 \/ p < Len(file)

\* in.read() gets all of the n words behind position p.
Holds(file, p, n) == p + n <= Len(file)

\* The n words behind position p, in memory that was zero before.
Words(file, p, n) == [i \in 1 .. n |-> IF p + i <= Len(file) THEN file[p + i] ELSE 0]

\* One more read, s, after those of r.
Followed(r, s) == IF s.ok THEN Accepted(Append(r.value, s.value), s.next) ELSE s

\* A loop of reads, each from where the one before has ended.
ReadAll(Read(_, _), count, p) ==
    LET reads[n \in 0 .. count] ==
            IF n = 0 THEN Accepted(<<>>, p)
            ELSE LET before == reads[n - 1]
                 IN  IF ~before.ok THEN before ELSE Followed(before, Read(n, before.next))
    IN  reads[count]

\* A count, and as many neighbours.
ReadList(file, p, limit) ==
    IF ~Holds(file, p, 1) THEN Rejected
    ELSE LET n == Words(file, p, 1)[1]
         IN  IF ~(n \in 0 .. limit) \/ ~Holds(file, p + 1, n) THEN Rejected
             ELSE Accepted(Words(file, p + 1, n), p + 1 + n)

\* A list for each of the limits.
ReadLists(file, p, limits) ==
    ReadAll(LAMBDA n, q : ReadList(file, q, limits[n]), Len(limits), p)

ReadNode(file, p, m) ==
    IF ~Holds(file, p, 1) \/ ~(Words(file, p, 1)[1] \in 0 .. MaxLevelOnDisk) THEN Rejected
    ELSE LET level == Words(file, p, 1)[1]
             lists == ReadLists(file, p + 1, <<Layer0Limit(m)>> \o [l \in 1 .. level |-> m])
         IN  IF ~lists.ok THEN Rejected
             ELSE Accepted([layer0 |-> Head(lists.value), upper |-> Tail(lists.value)],
                           lists.next)

LoadHnsw(file) ==
    IF ~Holds(file, 0, HeaderWords) THEN Rejected
    ELSE LET header == Words(file, 0, HeaderWords)
             nodes == ReadAll(LAMBDA n, q : ReadNode(file, q, header[3]), header[6], HeaderWords)
         IN  IF ~nodes.ok THEN Rejected
             ELSE Accepted([m |-> header[3], max_level |-> header[4], entry_point |-> header[5],
                            nodes |-> nodes.value],
                           nodes.next)

=============================================================================
