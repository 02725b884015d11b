--------------------------- MODULE MCActiveSegment ---------------------------
(***************************************************************************)
(* Model checking of ActiveSegment.  User ids are only compared for        *)
(* equality and every property is an invariant, so permuting them is sound.*)
(***************************************************************************)
EXTENDS ActiveSegment, TLC

IdSymmetry == Permutations(Id)

=============================================================================
