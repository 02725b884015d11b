-------------------------- MODULE MCSegmentManager --------------------------
(***************************************************************************)
(* Model checking of SegmentManager.  The .cfg files give every constant   *)
(* its value.  User ids are only compared for equality and every property  *)
(* is a safety property, so permuting them is sound.                       *)
(***************************************************************************)
EXTENDS SegmentManager, TLC

IdSymmetry == Permutations(Id)

=============================================================================
