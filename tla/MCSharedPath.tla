---------------------------- MODULE MCSharedPath ----------------------------
(***************************************************************************)
(* Model checking of SharedPath.  As in MCSegmentManager, user ids are     *)
(* interchangeable.                                                        *)
(***************************************************************************)
EXTENDS SharedPath, TLC

IdSymmetry == Permutations(Id)

=============================================================================
