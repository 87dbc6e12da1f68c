---------------------------- MODULE MCForeignKeys ----------------------------
EXTENDS ForeignKeys
CONSTANTS A, B, C, D

\* B and D reference A, C references B.
TreeTables == {A, B, C, D}
TreeParent == [t \in TreeTables |-> CASE t = A -> NoTable [] t = C -> B [] OTHER -> A]
TreeIds == [t \in TreeTables |-> IF t \in {A, B} THEN {1, 2} ELSE {1}]
TreeOnDeletes == [t \in TreeTables |-> IF t = D THEN {"RESTRICT"} ELSE Actions]

\* The tree is an instance of what the theorems assume of the foreign keys.
TreeRank == [t \in TreeTables |-> CASE t = A -> 0 [] t = C -> 2 [] OTHER -> 1]
ASSUME TreeAssumption == Tables = TreeTables => Acyclic(TreeRank)

\* One table that references itself.
SelfTables == {A}
SelfParent == [t \in SelfTables |-> A]
SelfOnDeletes == [t \in SelfTables |-> {"CASCADE"}]
SelfIds == [t \in SelfTables |-> {1, 2}]
=============================================================================
