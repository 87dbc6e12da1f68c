---------------------------- MODULE MCTableStore ----------------------------
(* Small instances of TableStore for TLC. *)
EXTENDS TableStore, TLC

\* Values of the unique column are interchangeable, and so are payloads but NULL.
Symmetry == Permutations(UVals) \cup Permutations(Payloads \ {NULL})
=============================================================================
