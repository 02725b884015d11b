----------------------------- MODULE MCBackend ------------------------------
(***************************************************************************)
(* Model checking of MmapStore and VisitedTracking, the two stateful parts *)
(* of a TypedBackend (segment/sealed_segment.h).  They share no variable,  *)
(* and each property speaks of one of them, so it is enough to let one run *)
(* while the other stands still in its initial state.                      *)
(*                                                                         *)
(* The sizes of the format are scaled down with the words: as with 32 and  *)
(* 64 bits, the largest product of two words and FloatSize is more than a  *)
(* size_t holds.                                                           *)
(***************************************************************************)
EXTENDS MmapStore, VisitedTracking, TLC

\* Objects and addresses are only compared for equality, and the properties are
\* invariants.
StoreSymmetry == Permutations(Object) \cup Permutations(Address)

\* Every header, with lengths on both sides of each bound.  Behind the wrong
\* magic or version nothing is looked at.
AnyFile ==
    [length : {3, 4, 8, 20, 60, 61, 62, 63}, good : {TRUE}, dim : Word, count : Word]
        \cup {[length |-> 16, good |-> FALSE, dim |-> 1, count |-> 2]}
        \cup {[length |-> 16, good |-> TRUE, dim |-> 1, count |-> 2],
              [length |-> 12, good |-> TRUE, dim |-> 2, count |-> 1]}

\* The lengths of two ordinary files.
SavedLength == {12, 16}

\* Bound: several mappings at once are those of ordinary files.
Explored == Cardinality(Live) < 2 \/ \A a \in Live : length[a] \in SavedLength

BackendInit == Init /\ MarksInit

StoreStep == MarksInit /\ Next /\ Explored' /\ UNCHANGED marksVars
MarksStep == Init /\ MarksNext /\ UNCHANGED vars

BackendNext == StoreStep \/ MarksStep

BackendSpec == BackendInit /\ [][BackendNext]_<<vars, marksVars>>

=============================================================================
