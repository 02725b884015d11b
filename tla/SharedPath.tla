----------------------------- MODULE SharedPath -----------------------------
(***************************************************************************)
(* Two handles on one path, as README.md opens them: one database inserts  *)
(* and saves (SegmentManager, one file operation per step), and a second   *)
(* one, in the same process or in another, load()s the path and searches.  *)
(* Nothing locks the directory.  The second handle's load() is made of     *)
(* steps as well: it reads the registry, then the three files of each      *)
(* segment, while the first one goes on writing.                           *)
(*                                                                         *)
(* vectors.bin is mapped by one call: the reader's vectors are whatever    *)
(* the file holds when they are read.  hnsw.bin and ids.bin are copied     *)
(* through a buffered stream, in as many reads as the file is long, and    *)
(* the file may be truncated and written again between any two of them:    *)
(* the first read decides how much is read, each later one brings a part   *)
(* of what the file holds at that moment.  Ids from two writes make a list *)
(* again.  A graph made of two writes is neither of them (mixed): a node's *)
(* links change as nodes are added after it.                               *)
(***************************************************************************)
EXTENDS SegmentManager

VARIABLES
    reader,   \* "closed", "loading" (a load() in progress) or "open"
    count,    \* the segment_count it has read
    got,      \* its directories: what it has read of each, else Unreadable
    mixed     \* the segments whose graph it has put together from two writes

copies == <<reader, count, got>>
handle == <<copies, mixed>>

SharedInit ==
    /\ Init
    /\ reader = "closed"
    /\ count = 0
    /\ got = <<>>
    /\ mixed = {}

NothingRead == [p \in Parts |-> Unreadable]

\* The files of a segment that load_segment_mmap() has read are these first
\* ones of its three.
ReadOrder == <<"vectors", "hnsw", "ids">>

FilesRead(d) == {p \in Parts : d[p] # Unreadable}

NextFile(d) == ReadOrder[Cardinality(FilesRead(d)) + 1]

\* Of the two that it copies, the one that it has opened last.
Streamed(d) == IF d["ids"] # Unreadable THEN "ids" ELSE "hnsw"

\* The bytes that can be read of file p of directory n: what was written to
\* it, or, while the first handle writes it, a part of what will be.
Content(n, p) == IF opened /\ n = Target /\ p = stage THEN active ELSE disk[n][p]

\* The list s, with what t holds at the offsets where.
Spliced(s, t, where) == [i \in DOMAIN s |-> IF i \in where THEN t[i] ELSE s[i]]

Close ==
    /\ reader' = "closed"
    /\ count' = 0
    /\ got' = <<>>
    /\ mixed' = {}

-----------------------------------------------------------------------------

\* load() reads segments.json; with no registry it throws and nothing changes.
\* The bound keeps empty databases out.
ReaderLoads ==
    /\ reader = "closed"
    /\ registry \notin {Unreadable, 0}
    /\ reader' = "loading"
    /\ count' = registry
    /\ got' = <<NothingRead>>
    /\ UNCHANGED <<vars, mixed>>

\* load_segment_mmap() opens the next of the three files: it maps vectors.bin,
\* of the others it reads the header and what follows in the first buffer.  A
\* load() that opens a file in the middle of its being written reads on as one
\* that opens it once it is written.
ReaderOpensFile ==
    /\ reader = "loading"
    /\ FilesRead(got[Len(got)]) # Parts
    /\ LET n == Len(got)
           p == NextFile(got[n])
       IN  /\ disk[n][p] # Unreadable
           /\ got' = [got EXCEPT ![n] = [@ EXCEPT ![p] = disk[n][p]]]
    /\ UNCHANGED <<vars, reader, count, mixed>>

\* A later read of the stream, when the file no longer holds what the first
\* one found: of hnsw.bin it takes other links, of ids.bin the ids that are
\* now at the offsets where.  It is at its end before the next step.
ReaderReadsOn ==
    /\ reader = "loading"
    /\ LET n == Len(got)
           p == Streamed(got[n])
           c == Content(n, p)
       IN  /\ got[n][p] # Unreadable
           /\ c \notin {Unreadable, got[n][p]}
           /\ \/ /\ p = "hnsw"
                 /\ mixed' = mixed \cup {n}
                 /\ UNCHANGED got
              \/ /\ p = "ids"
                 /\ \E where \in SUBSET (DOMAIN got[n][p] \cap DOMAIN c) :
                       got' = [got EXCEPT ![n][p] = Spliced(@, c, where)]
                 /\ UNCHANGED mixed
    /\ UNCHANGED <<vars, reader, count>>

\* The three files are read and validated: on to the next segment.
ReaderAddsSegment ==
    /\ reader = "loading"
    /\ Loadable(got[Len(got)])
    /\ IF Len(got) = count
       THEN reader' = "open" /\ UNCHANGED got
       ELSE got' = Append(got, NothingRead) /\ UNCHANGED reader
    /\ UNCHANGED <<vars, count, mixed>>

\* A file is missing or torn, it was rewritten under the stream and a read
\* finds its end or an impossible number, or the three do not fit together.
ReaderThrows ==
    /\ reader = "loading"
    /\ LET n == Len(got)
           d == got[n]
       IN  \/ FilesRead(d) # Parts /\ disk[n][NextFile(d)] = Unreadable
           \/ d[Streamed(d)] \notin {Unreadable, disk[n][Streamed(d)]}
           \/ FilesRead(d) = Parts /\ ~Loadable(d)
    /\ Close
    /\ UNCHANGED vars

ReaderCloses ==
    /\ reader = "open"
    /\ Close
    /\ UNCHANGED vars

ReaderNext ==
    \/ ReaderLoads
    \/ ReaderOpensFile
    \/ ReaderReadsOn
    \/ ReaderAddsSegment
    \/ ReaderThrows
    \/ ReaderCloses

WriterNext == Next /\ UNCHANGED handle

SharedNext == WriterNext \/ ReaderNext

SharedSpec == SharedInit /\ [][SharedNext]_<<vars, handle>>

-----------------------------------------------------------------------------
(* Properties.                                                             *)

\* The segments that load() has taken in.
Taken == {n \in DOMAIN got : Loadable(got[n])}

\* A load() that races with inserts and saves never takes in a segment whose
\* vectors, graph and ids are of different sizes or belong to different ids,
\* although each file may be rewritten before, between and in the middle of
\* its reads and nothing but sizes is compared (loader.cpp:17-127,
\* segment_manager.cpp:214-223).  What it may take in is a graph made of two
\* writes, and only in the last segment it has counted.
ReaderCoherent ==
    \A n \in Taken : Coherent(got[n]) /\ (n \in mixed => n = count)

\* Persistence is "atomic at the segment level from the loader's perspective"
\* and "no partial state is loaded" (docs/PRD.md:148): every graph that load()
\* takes in was written by one write_hnsw().
ReaderGraphWhole == Taken \cap mixed = {}

\* The files the other handle rewrites under a reader are those of the last
\* segment it has loaded: every earlier mapping keeps its contents
\* (segment_manager.cpp:110, 138).
ReaderDamageConfined ==
    \A n \in Taken : n # count => disk[n]["vectors"] = got[n]["vectors"]

\* The mapped vectors of a loaded segment never change: "SealedSegment
\* (immutable, read-only)" (docs/PRD.md:40, segment_manager.cpp:138).
ReaderMapsIntact == \A n \in Taken : disk[n]["vectors"] = got[n]["vectors"]

\* A load() that has read the registry finds every segment it counts complete,
\* whatever the other handle does meanwhile (segment_manager.cpp:113-116).
ReaderNotRefused ==
    reader # "closed" => \A n \in 1..count : Loadable(disk[n]) /\ Coherent(disk[n])

-----------------------------------------------------------------------------
(* The inductive invariants: IInv /\ ReaderInv for every client of the     *)
(* first handle (~Recreate), and IInv /\ SavedInv /\ CopiesInv for clients *)
(* that stop at save().                                                    *)

\* Each file of d that can be read holds a first part of the entries w.
HoldsPrefixesOf(d, w) ==
    \A p \in Parts : d[p] = Unreadable \/ IsPrefixOf(d[p], w)

ReaderTypeOK ==
    /\ reader \in {"closed", "loading", "open"}
    /\ got \in Seq(Directory)
    /\ mixed \subseteq DOMAIN got
    /\ IF reader = "closed"
       THEN got = <<>> /\ count = 0
       ELSE registry # Unreadable /\ count \in 1..registry /\ Len(got) \in 1..count

\* The segment that may be in the middle of a rewrite.
LastRead == {n \in DOMAIN got : n = count}

\* Only its graph can be of two writes.
MixedIsLast == mixed \subseteq LastRead

\* The earlier ones never change: the reader's copies are what the files hold.
CopiesMatch ==
    \A n \in DOMAIN got \ LastRead : \A p \in Parts : got[n][p] \in {Unreadable, disk[n][p]}

\* The last one only grows, and the reader is never ahead of the file.
LastGrows ==
    \A n \in LastRead : \A p \in Parts :
        \/ got[n][p] = Unreadable
        \/ disk[n][p] = Unreadable
        \/ IsPrefixOf(got[n][p], disk[n][p])

\* While the database is open, the segment that save() has written and that a
\* later save() or seal writes again is a first part of the active segment.
LastIsActive ==
    registry = Target =>
        /\ active # <<>>
        /\ \A n \in LastRead : n = Target => HoldsPrefixesOf(got[n], active)

\* When no process has it open, the files of the last directory, torn or not,
\* and the reader's copies of them, still come from one list of entries.
LastHadOneSource ==
    registry \notin {Unreadable, 0} =>
        \E w \in Seq(Entry) :
            /\ HoldsPrefixesOf(disk[registry], w)
            /\ \A n \in LastRead : n = registry => HoldsPrefixesOf(got[n], w)

ReaderInv ==
    /\ ReaderTypeOK
    /\ MixedIsLast
    /\ CopiesMatch
    /\ LastGrows
    /\ IF up THEN LastIsActive ELSE LastHadOneSource

\* With a first handle that stops at save(), no directory is ever rewritten:
\* the reader's copies are what the files hold, the last segment's as well,
\* and each graph is of one write.
CopiesInv ==
    /\ ReaderTypeOK
    /\ mixed = {}
    /\ \A n \in DOMAIN got : \A p \in Parts : got[n][p] \in {Unreadable, disk[n][p]}

=============================================================================
