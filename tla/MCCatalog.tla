----------------------------- MODULE MCCatalog -----------------------------
(* A parent and a child table over three columns, and every ALTER operation. *)
EXTENDS CatalogViews

CONSTANTS t1, t2, a, b, c, ix

MCSorted == <<a, b, c>>
Make(t, cols, constraints) == [table |-> t, cols |-> cols, constraints |-> constraints]
PK(cols) == [op |-> "primary", cols |-> cols]
UQ(name, cols) == [op |-> "unique", name |-> name, cols |-> cols]
IX(name, cols) == [op |-> "index", name |-> name, cols |-> cols]
FK(name, col, t, ref) ==
  [op |-> "foreign", fk |-> [name |-> name, cols |-> <<col>>, table |-> t, refcols |-> <<ref>>]]

\* Few statements, with every kind of constraint and of operation among them.
MCCreates ==
  { Make(t1, <<a, b>>, <<PK(<<b, a>>), UQ(ix, <<b>>)>>),
    Make(t2, <<a, b>>, <<UQ(None, <<a, b>>), IX(ix, <<b>>), FK(ix, a, t1, a)>>) }

Added(col, pos, key) == [op |-> "add", col |-> col, pos |-> pos, key |-> key]
Gone(col) == [op |-> "drop", col |-> col]
Moves(old, new) == [op |-> "rename", old |-> old, new |-> new]

MCAlters ==
  { <<Added(b, "first", FALSE), PK(<<a>>)>>, <<Added(c, a, TRUE)>>, <<Gone(a)>>, <<Gone(b), Moves(a, b)>>,
    <<Moves(a, c), [op |-> "unsupported"]>>,
    <<[op |-> "change", old |-> a, new |-> c, pos |-> b], [op |-> "modify", col |-> c, pos |-> "end"], UQ(None, <<b>>)>>,
    <<[op |-> "dropPrimary"], PK(<<b>>), IX(ix, <<a, b>>), [op |-> "dropForeign", name |-> ix]>>,
    <<[op |-> "dropConstraint", name |-> ix], FK(b, b, t1, a)>> }

\* The hypotheses of theorems in Catalog_proofs hold of these statements.
ASSUME MCHypotheses == PlainKeys /\ OneMove /\ PrimaryIsReserved
=============================================================================
