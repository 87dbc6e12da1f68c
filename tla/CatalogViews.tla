---------------------------- MODULE CatalogViews ----------------------------
(***************************************************************************)
(* What clients are told of the catalogue: the views of information_schema *)
(* and the SHOW statements, computed from the schemas in memory.  Tools    *)
(* that compare a database with what it should be put the keys together    *)
(* again from these rows, or run the output of SHOW CREATE TABLE.          *)
(*                                                                         *)
(* A schema says twice that a list is unique: in unique, which INSERT      *)
(* enforces, and as an index.  Some views read the one, some the other.    *)
(*                                                                         *)
(* Left out, as in Catalog: types, defaults, nullability, prefix lengths;  *)
(* columns of a view that are constants; names of the forms that the       *)
(* parser and one client library generate; the fixed answer of SHOW CREATE *)
(* TABLE for a table t1 of two INT columns a and b.                        *)
(***************************************************************************)
EXTENDS Catalog

\* unique_index_name: an index over the list, whichever comes first (a reopen puts
\* them in another order); without one, its first column.
UniqueName(s, list) ==
  LET named == {x \in s.indexes : x.unique /\ x.cols = list}
  IN IF named = {} THEN list[1] ELSE (CHOOSE x \in named : TRUE).name

\* mysql_column_key
ColumnKey(s, c) ==
  IF c \in Range(s.pk) THEN "PRI"
  ELSE IF <<c>> \in s.unique \cup {x.cols : x \in {x \in s.indexes : x.unique}} THEN "UNI"
  ELSE IF \E x \in s.indexes : x.cols[1] = c THEN "MUL"
  ELSE ""

\* information_schema.columns
ColumnRows(s) == {[col |-> s.order[i], pos |-> i, key |-> ColumnKey(s, s.order[i])] : i \in DOMAIN s.order}

\* SHOW COLUMNS, SHOW FULL COLUMNS and DESCRIBE: a list.
ShowColumns(s) == [i \in DOMAIN s.order |-> [field |-> s.order[i], key |-> ColumnKey(s, s.order[i])]]

\* key_column_usage_row
Usage(name, list, table, refcols) ==
  {[name |-> name, col |-> list[i], pos |-> i, table |-> table,
    ref |-> IF i \in DOMAIN refcols THEN refcols[i] ELSE None] : i \in DOMAIN list}

\* information_schema.key_column_usage
KeyColumnUsage(s) ==
  Usage(Primary, s.pk, None, <<>>)
  \cup (UNION {Usage(UniqueName(s, u), u, None, <<>>) : u \in s.unique})
  \cup UNION {Usage(f.name, f.cols, f.table, f.refcols) : f \in s.fks}

\* information_schema.table_constraints
TableConstraints(s) ==
  {[name |-> Primary, type |-> "primary"] : c \in Range(s.pk)}
  \cup {[name |-> UniqueName(s, u), type |-> "unique"] : u \in s.unique}
  \cup {[name |-> f.name, type |-> "foreign"] : f \in s.fks}

\* information_schema.referential_constraints
ReferentialConstraints(s, t) == {[name |-> f.name, table |-> t, parent |-> f.table] : f \in s.fks}

\* The answer to a join of the two: each row of the usage with its type.
ConstraintUsage(s) ==
  {[type |-> "primary", row |-> r] : r \in Usage(Primary, s.pk, None, <<>>)}
  \cup (UNION {{[type |-> "unique", row |-> r] : r \in Usage(UniqueName(s, u), u, None, <<>>)} : u \in s.unique})
  \cup UNION {{[type |-> "foreign", row |-> r] : r \in Usage(f.name, f.cols, f.table, f.refcols)} : f \in s.fks}

\* information_schema.statistics, a row for each column of an index
Statistics(s) ==
  UNION {{[name |-> IF x.unique /\ x.name # Primary THEN UniqueName(s, x.cols) ELSE x.name,
           col |-> x.cols[i], pos |-> i, unique |-> x.unique] : i \in DOMAIN x.cols} : x \in s.indexes}

\* SHOW INDEX: the same under the index's own name.
ShowIndex(s) ==
  UNION {{[name |-> x.name, col |-> x.cols[i], pos |-> i, unique |-> x.unique] : i \in DOMAIN x.cols} :
           x \in s.indexes}

\* Mutant: the unique keys are taken from the indexes.
ShowCreateIndexes(s) ==
  (IF s.pk = <<>> THEN <<>> ELSE <<[op |-> "primary", cols |-> s.pk]>>)
  \o SetToSeq({[op |-> IF x.unique THEN "unique" ELSE "index", name |-> x.name, cols |-> x.cols] :
                 x \in {x \in s.indexes : x.name # Primary}})
  \o SetToSeq({[op |-> "foreign", fk |-> f] : f \in s.fks})

\* SHOW CREATE TABLE: the constraints in the order they are printed.
ShowCreate(s) ==
  (IF s.pk = <<>> THEN <<>> ELSE <<[op |-> "primary", cols |-> s.pk]>>)
  \o SetToSeq({[op |-> "unique", name |-> UniqueName(s, u), cols |-> u] : u \in s.unique})
  \o SetToSeq({[op |-> "index", name |-> x.name, cols |-> x.cols] :
                 x \in {x \in s.indexes : ~x.unique /\ x.name # Primary}})
  \o SetToSeq({[op |-> "foreign", fk |-> f] : f \in s.fks})

\* unique_duplicate_report, in the drift report: for each unique list the rows that
\* share their values, as sets of keys.
Duplicates(s, rows) ==
  UNION {{[cols |-> u, keys |-> {k \in DOMAIN rows : Agree(rows[j], rows[k], u)}] :
            j \in {j \in DOMAIN rows : \E k \in DOMAIN rows \ {j} : Agree(rows[j], rows[k], u)}} : u \in s.unique}

-----------------------------------------------------------------------------
(* Properties                                                              *)

\* The columns a client finds for a constraint, in the order of their positions.
ColumnsOf(s, k) ==
  LET rows == {u.row : u \in {u \in ConstraintUsage(s) : u.row.name = k.name /\ u.type = k.type}}
  IN [i \in {r.pos : r \in rows} |-> {r.col : r \in {r \in rows : r.pos = i}}]
OneEach(list) == [i \in DOMAIN list |-> {list[i]}]

\* Two keys under one name: a list that lost its index is shown under its first
\* column, which may be the name of another.
Homonyms(s) ==
  LET keys == {<<UniqueName(s, u), u, TRUE>> : u \in s.unique}
              \cup {<<x.name, x.cols, FALSE>> : x \in {x \in s.indexes : ~x.unique}}
  IN \E k, l \in keys : k # l /\ k[1] = l[1]

\* Unique indexes over lists that are not (or no longer) unique: dropping an
\* index drops the lists over its columns and those that begin with its name,
\* and not the other indexes over them.
Unlisted(s) == {x \in s.indexes : x.unique /\ x.name # Primary /\ x.cols \notin s.unique}

\* A unique index whose columns have become those of the primary key: the views may
\* show its list under the name PRIMARY, under which nothing else is made again.
Eclipsed(s) ==
  \E x, y \in s.indexes : x.unique /\ y.unique /\ x.cols = y.cols /\ x.name # Primary /\ y.name = Primary

\* Foreign keys over the same columns, which an ALTER makes of longer ones.
Rivals(s) == \E f, g \in s.fks : f # g /\ f.cols = g.cols

\* The lists that have an index.
Lists(s) == {<<x.cols, x.unique>> : x \in {x \in s.indexes : x.name # Primary}}

\* What a client reads is what statements enforce, after any sequence of them.
\* It finds every key by joining table_constraints and key_column_usage, unless
\* two have one name; it finds the pairs of columns of every foreign key, and its
\* parent; the drift report finds the lists that rows agree on; a column shows the
\* single-column keys it has; a key that is dropped by the name it is shown under is
\* gone; and SHOW CREATE TABLE makes the table again.  A schema that a crash tore is
\* excepted: it may have keys over columns that are not there.
ViewsDescribe ==
  \A t \in Tables \ torn : mem[t] # None =>
    LET s == mem[t].schema
        again == SchemaFromCreate(s.order, ShowCreate(s))
    IN /\ Homonyms(s) \/ {ColumnsOf(s, k) : k \in TableConstraints(s)} =
            {OneEach(list) : list \in ({s.pk} \ {<<>>}) \cup s.unique \cup {f.cols : f \in s.fks}}
       /\ {<<r.col, r.table, r.ref>> : r \in {r \in KeyColumnUsage(s) : r.table # None}} =
            UNION {{<<f.cols[i], f.table, f.refcols[i]>> : i \in DOMAIN f.cols} : f \in s.fks}
       /\ {k.name : k \in {k \in TableConstraints(s) : k.type = "foreign"}} = {r.name : r \in ReferentialConstraints(s, t)}
       /\ \A r \in ReferentialConstraints(s, t) :
            \A u \in KeyColumnUsage(s) : u.name = r.name => u.table \in {r.parent, None}
       /\ {d.cols : d \in Duplicates(s, mem[t].rows)} = {u \in s.unique : ~Distinct(mem[t].rows, u)}
       /\ \A r \in ColumnRows(s) :
            /\ ShowColumns(s)[r.pos].field = r.col
            /\ <<r.col>> \in s.unique \cup {s.pk} => r.key \in {"PRI", "UNI"}
            /\ r.key = "UNI" => <<r.col>> \in s.unique \cup {x.cols : x \in Unlisted(s)}
       /\ \A u \in s.unique : u \notin DropUnique(s, UniqueName(s, u)).unique
       /\ \A r \in Statistics(s) \cup ShowIndex(s) : r \notin ShowIndex(DropUnique(s, r.name))
       /\ again.order = s.order /\ again.pk = s.pk /\ again.unique = s.unique
       /\ Rivals(s) \/ again.fks = s.fks
       /\ Unlisted(s) # {} \/ Homonyms(s) \/ Eclipsed(s) \/ Lists(s) \subseteq Lists(again)
=============================================================================
