------------------------- MODULE MCConcurrentInsert -------------------------
(* A small instance of ConcurrentInsert for TLC. *)
EXTENDS ConcurrentInsert, TLC

\* Connections are interchangeable, and so are values of the unique column.
Symmetry == Permutations(Sessions) \cup Permutations(UVals)
=============================================================================
