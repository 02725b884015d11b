---------------------------- MODULE MCHnswGraph -----------------------------
(***************************************************************************)
(* Model checking of HnswGraph.  Nodes are numbered in insertion order and *)
(* one of them is the entry point, so they are not symmetric.              *)
(***************************************************************************)
EXTENDS HnswGraph

=============================================================================
