---------------------------- MODULE MCHnswIndex -----------------------------
(***************************************************************************)
(* Model checking of HnswIndex: vectors for the .cfg file, which holds no  *)
(* tuples.                                                                 *)
(***************************************************************************)
EXTENDS HnswIndex

\* Three in a line, at distances that differ.
Line == {<<0>>, <<1>>, <<3>>}

=============================================================================
