------------------------------- MODULE Catalog -------------------------------
(***************************************************************************)
(* The engine's catalogue in the strict profile: the schema of each table, *)
(* the statements that change it, and its form in the embedded store.      *)
(*                                                                         *)
(* A DDL statement changes the schemas and rows in memory and then sends   *)
(* the store its commands (todo), alone or in pipelines, which the store   *)
(* runs one after the other.  Nothing else looks at the store meanwhile,   *)
(* so they are done in one step; or the process ends between any two, and  *)
(* a reopen loads what the first of them left.  The store keeps the        *)
(* columns of the primary key, the unique lists, the indexes and the       *)
(* foreign keys as sets, and the order of the columns as a list.           *)
(*                                                                         *)
(* Left out: types, defaults, nullability and generated columns; prefix    *)
(* lengths; counters (TableStore has them); several connections; the drift *)
(* profile; and the commands about these.  Referential actions are in      *)
(* ForeignKeys.                                                            *)
(***************************************************************************)
EXTENDS Naturals, Sequences, FiniteSets, SequencesExt

CONSTANTS
  Tables, Cols,
  Vals,          \* values of a column
  Absent,        \* no value: NULL, or a column the row has no entry for
  Primary,       \* the index name PRIMARY
  Sorted,        \* the columns in the order a BTreeSet gives them
  Names,         \* names of indexes and constraints
  Creates,       \* CREATE TABLE statements: [table, cols, constraints]
  Alters,        \* ALTER TABLE operation lists
  IndexNames,    \* names that DROP INDEX and CREATE INDEX are given
  MaxStatements, \* bound: statements in a behaviour
  MaxRows,       \* bound: rows of one table
  MaxCrashes     \* bound: crashes

ASSUME SortedAssumption == Sorted \in Seq(Cols) /\ IsInjective(Sorted) /\ Range(Sorted) = Cols
None == [none |-> TRUE]  \* no table, no name, no schema

ASSUME BoundsAssumption ==
  /\ MaxStatements \in Nat /\ MaxRows \in Nat /\ MaxCrashes \in Nat
  /\ IsFiniteSet(Tables) /\ None \notin Tables \cup Names /\ Vals \subseteq Nat /\ Absent \notin Vals
  /\ IndexNames \cup Cols \cup {Primary} \subseteq Names

\* What statements say.
ColumnLists == Seq(Cols) \ {<<>>}
Foreign == [name : Names, cols : ColumnLists, table : Tables, refcols : ColumnLists]
Constraint ==
  [op : {"primary"}, cols : ColumnLists] \cup [op : {"unique"}, name : Names \cup {None}, cols : ColumnLists]
  \cup [op : {"index"}, name : Names, cols : ColumnLists] \cup [op : {"foreign"}, fk : Foreign]
Operation ==
  Constraint \cup [op : {"add"}, col : Cols, pos : {"end", "first"} \cup Cols, key : BOOLEAN]
  \cup [op : {"drop"}, col : Cols] \cup [op : {"rename"}, old : Cols, new : Cols]
  \cup [op : {"change"}, old : Cols, new : Cols, pos : {"end", "first"} \cup Cols]
  \cup [op : {"modify"}, col : Cols, pos : {"end", "first"} \cup Cols]
  \cup [op : {"dropConstraint", "dropForeign"}, name : Names] \cup [op : {"dropPrimary", "unsupported"}]

ASSUME StatementsAssumption ==
  /\ \A c \in Creates : c \in [table : Tables, cols : ColumnLists, constraints : Seq(Constraint)]
  /\ Alters \subseteq Seq(Operation)

\* What some of the properties need, since no code asks for it: the primary key of
\* a CREATE TABLE names a column once, and within an ALTER TABLE no column takes a
\* name that an earlier ADD PRIMARY KEY lists.
PlainKeys ==
  /\ \A c \in Creates : \A k \in Range(c.constraints) : k.op = "primary" => IsInjective(k.cols)
  /\ \A ops \in Alters : \A i, j \in DOMAIN ops :
       i < j /\ ops[i].op = "primary" /\ ops[j].op \in {"rename", "change"} =>
         ops[j].new = ops[j].old \/ ops[j].new \notin Range(ops[i].cols)

\* No statement gives an index the name of the primary key's.
PrimaryIsReserved ==
  LET Reserves(o) == o.op \in {"unique", "index"} => o.name # Primary IN
  /\ Primary \notin IndexNames \cup Cols
  /\ \A c \in Creates : \A k \in Range(c.constraints) : Reserves(k)
  /\ \A ops \in Alters : \A o \in Range(ops) : Reserves(o)

\* An ALTER TABLE renames, and so moves the values of, one column at most.
OneMove ==
  \A ops \in Alters : \A i, j \in DOMAIN ops :
    ops[i].op \in {"rename", "change"} /\ ops[j].op \in {"rename", "change"} => i = j

VARIABLES
  mem,       \* Engine.schemas and Engine.rows: None, or [schema, rows]
  store,     \* the store's keys of each table: [known, parts, keys, rows]
  todo,      \* the commands of the running statement, of which none is done
  before,    \* history: mem when the statement began, without the rows of tables it deletes
  orphaned,  \* history: tables whose rows were in the store when it was opened without them
  unproven,  \* history: tables a CREATE UNIQUE INDEX made a list unique on, without a look
  overlooked,  \* history: tables that got a row while another was filed under a key of another form
  torn,      \* history: tables whose schema a crash left neither as it was nor as it was to be
  statements, crashes

vars == <<mem, store, todo, before, orphaned, unproven, overlooked, torn, statements, crashes>>

-----------------------------------------------------------------------------
(* Schemas                                                                 *)

EmptySchema == [order |-> <<>>, pk |-> <<>>, unique |-> {}, indexes |-> {}, fks |-> {}]
Columns(s) == Range(s.order)

\* The columns of a list that are in S, in their order.
Only(list, S) ==
  LET F[i \in 0..Len(list)] ==
        IF i = 0 THEN <<>> ELSE IF list[i] \in S THEN Append(F[i - 1], list[i]) ELSE F[i - 1]
  IN F[Len(list)]

SortedList(list) == Only(Sorted, Range(list))
Less(list, c) == Only(list, Range(list) \ {c})
Renamed(list, old, new) == [i \in DOMAIN list |-> IF list[i] = old THEN new ELSE list[i]]

\* The text a column list is joined into: a single column's name.
Joined(cols) == IF Len(cols) = 1 THEN cols[1] ELSE cols

AddIndex(s, x) ==
  IF \E e \in s.indexes : e.name = x.name \/ (e.cols = x.cols /\ e.unique = x.unique)
  THEN s ELSE [s EXCEPT !.indexes = @ \cup {x}]

\* add_unique_metadata_with_name; without a name, the first column's.
AddUnique(s, name, cols) ==
  AddIndex([s EXCEPT !.unique = @ \cup {cols}],
           [name |-> IF name = None THEN cols[1] ELSE name, cols |-> cols, unique |-> TRUE])

\* A list with those of cols it does not have after it, each once.
Extended(list, cols) ==
  LET F[i \in 0..Len(cols)] ==
        IF i = 0 THEN list ELSE LET l == F[i - 1] IN IF cols[i] \in Range(l) THEN l ELSE Append(l, cols[i])
  IN F[Len(cols)]

\* add_primary_key_metadata adds to the key a table has.
AddPrimary(s, cols) ==
  LET pk == Extended(s.pk, cols)
      t == [s EXCEPT !.pk = pk, !.indexes = {x \in @ : x.name # Primary}]
  IN IF pk = <<>> THEN t ELSE AddIndex(t, [name |-> Primary, cols |-> pk, unique |-> TRUE])

DropPrimary(s) == [s EXCEPT !.pk = <<>>, !.indexes = {x \in @ : x.name # Primary}]

\* drop_unique_metadata: the indexes of that name, or of columns of that name,
\* and every unique list over the columns of such an index.
DropUnique(s, name) ==
  LET hit == {x \in s.indexes : x.name = name \/ Joined(x.cols) = name}
  IN [s EXCEPT !.indexes = @ \ hit,
               !.unique = {u \in @ : u[1] # name /\ Joined(u) # name /\ \A x \in hit : x.cols # u}]

AddForeign(s, f) ==
  IF \E e \in s.fks : e.name = f.name \/ e.cols = f.cols THEN s
  ELSE [s EXCEPT !.fks = @ \cup {f}]
DropForeign(s, name) == [s EXCEPT !.fks = {f \in @ : f.name # name /\ Joined(f.cols) # name}]

\* remove_column_metadata: a list the column was in goes on without it.
DropColumn(s, c) ==
  [order |-> Less(s.order, c), pk |-> Less(s.pk, c),
   unique |-> {Less(u, c) : u \in s.unique} \ {<<>>},
   indexes |-> {x \in {[x EXCEPT !.cols = Less(@, c)] : x \in s.indexes} : x.cols # <<>>},
   fks |-> {f \in {[f EXCEPT !.cols = Less(@, c)] : f \in s.fks} : f.cols # <<>>}]

\* rename_column_metadata: this table's lists; not the lists of the tables that
\* reference the column.
RenameColumn(s, old, new) ==
  [order |-> Renamed(s.order, old, new), pk |-> Renamed(s.pk, old, new),
   unique |-> {Renamed(u, old, new) : u \in s.unique},
   indexes |-> {[x EXCEPT !.cols = Renamed(@, old, new)] : x \in s.indexes},
   fks |-> {[f EXCEPT !.cols = Renamed(@, old, new)] : f \in s.fks}]

\* apply_column_position: "end" (none given), "first", or a column to come after.
Places(s, c, pos) == pos \in {"end", "first"} \/ pos \in Columns(s) \ {c}
Placed(s, c, pos) ==
  LET others == Less(s.order, c)
      at == CHOOSE i \in 1..Len(others) : others[i] = pos
  IN CASE pos = "end" -> s
       [] pos = "first" -> [s EXCEPT !.order = <<c>> \o others]
       [] OTHER -> [s EXCEPT !.order = InsertAt(others, at + 1, c)]

\* Mutant: only the foreign keys are validated.
ValidForeignKeys(s, t) ==
  \A f \in s.fks : Len(f.cols) = Len(f.refcols) /\ f.cols # <<>> /\ Range(f.cols) \subseteq Columns(s)

\* validate_mysql_schema: the lists name columns, and a parent that exists has
\* the columns a foreign key names.
Valid(s, t) ==
  LET Parent(u) == IF u = t THEN s ELSE mem[u].schema
      lists == {s.pk} \cup s.unique \cup {x.cols : x \in s.indexes} \cup {f.cols : f \in s.fks}
  IN /\ \A list \in lists : Range(list) \subseteq Columns(s)
     /\ \A f \in s.fks :
          /\ Len(f.cols) = Len(f.refcols) /\ f.cols # <<>>
          /\ f.table = t \/ mem[f.table] # None => Range(f.refcols) \subseteq Columns(Parent(f.table))

\* table_schema_from_create: the constraints in their order, then the key.
Constrain(s, c) ==
  CASE c.op = "unique" -> AddUnique(s, c.name, c.cols)
    [] c.op = "primary" -> [s EXCEPT !.pk = c.cols]
    [] c.op = "index" -> [s EXCEPT !.indexes = @ \cup {[name |-> c.name, cols |-> c.cols, unique |-> FALSE]}]
    [] c.op = "foreign" ->
         LET lists == {s.pk} \cup s.unique \cup {x.cols : x \in s.indexes}
             led == \E list \in lists : IsPrefix(c.fk.cols, list)
             own == [name |-> c.fk.cols[1], cols |-> c.fk.cols, unique |-> FALSE]
         IN AddForeign(IF led THEN s ELSE AddIndex(s, own), c.fk)

SchemaFromCreate(cols, constraints) ==
  LET F[i \in 0..Len(constraints)] ==
        IF i = 0 THEN [EmptySchema EXCEPT !.order = cols] ELSE Constrain(F[i - 1], constraints[i])
      s == F[Len(constraints)]
  IN IF s.pk = <<>> THEN s ELSE AddPrimary(s, s.pk)

-----------------------------------------------------------------------------
(* Rows                                                                    *)

NoRows == [k \in {} |-> Absent]
NoData == [c \in Cols |-> Absent]
Add(rows, k, d) == [j \in DOMAIN rows \cup {k} |-> IF j = k THEN d ELSE rows[j]]

\* resolve_row_id: the key's values in the order of the key; without a key a
\* new uuid, here the least number no row has.
KeyOf(pk, d) == [i \in DOMAIN pk |-> d[pk[i]]]
Fresh(rows) == <<0, 0, CHOOSE n \in 1..(MaxRows + 1) : <<0, 0, n>> \notin DOMAIN rows>>

\* validate_unique_constraints: no two rows agree on a list, NULLs apart.
Agree(d, e, list) == \A c \in Range(list) : d[c] = e[c] /\ d[c] # Absent
Distinct(rows, list) ==
  list = <<>> \/ \A j, k \in DOMAIN rows : j # k => ~Agree(rows[j], rows[k], list)

\* Mutant: ALTER looks for duplicates of the primary key only.
UniqueKeyOnly(s, rows) == Distinct(rows, s.pk)

Unique(s, rows) == \A list \in s.unique \cup {s.pk} : Distinct(rows, list)

\* apply_alter_row_action
Moved(d, old, new) ==
  IF d[old] = Absent THEN d
  ELSE [c \in Cols |-> IF c = new THEN d[old] ELSE IF c = old THEN Absent ELSE d[c]]

-----------------------------------------------------------------------------
(* The store: its commands, and what a reopen makes of its keys            *)

\* The keys of a schema, in the order in which they are deleted and written: the
\* root hash, with the order of the columns, and five sets.
Parts == <<"order", "columns", "pk", "unique", "indexes", "fks">>
PartsOf(s) ==
  [p \in Range(Parts) |->
     CASE p = "order" -> {s.order} [] p = "columns" -> Columns(s) [] p = "pk" -> Range(s.pk)
       [] p = "unique" -> s.unique [] p = "indexes" -> s.indexes [] p = "fks" -> s.fks]
NoParts == [p \in Range(Parts) |-> {}]

\* known: whether the table is in the set of tables; keys: the set of its rows'
\* keys; rows: the hashes of its rows.
Nothing == [known |-> FALSE, parts |-> NoParts, keys |-> {}, rows |-> NoRows]

\* The commands of several parts, one part after the other.
InTurn(parts) ==
  LET F[i \in 0..Len(parts)] == IF i = 0 THEN <<>> ELSE F[i - 1] \o parts[i]
  IN F[Len(parts)]

\* delete_schema_from_storage: a DEL of each key.
DeleteSchema(t) == [i \in DOMAIN Parts |-> [op |-> "delete", table |-> t, part |-> Parts[i]]]

\* schema_storage_writes of one part: a SADD of each member, or the HSET of the order.
WritePart(t, p, S) ==
  LET members == SetToSeq(S)
  IN [i \in DOMAIN members |-> [op |-> "add", table |-> t, part |-> p, member |-> members[i]]]

\* persist_schema
PutSchema(t, s) ==
  DeleteSchema(t) \o <<[op |-> "know", table |-> t]>>
  \o InTurn([i \in DOMAIN Parts |-> WritePart(t, Parts[i], PartsOf(s)[Parts[i]])])

\* The HSETs of a row: its id, with which there is a hash, and its values.
FillRow(t, k, d) ==
  LET cols == Only(Sorted, {c \in Cols : d[c] # Absent})
  IN <<[op |-> "begin", table |-> t, key |-> k]>>
     \o [i \in DOMAIN cols |-> [op |-> "field", table |-> t, key |-> k, col |-> cols[i], value |-> d[cols[i]]]]

\* SADD of its key and DEL of its hash.
ClearRow(t, k) == <<[op |-> "file", table |-> t, key |-> k], [op |-> "clear", table |-> t, key |-> k]>>

\* persist_row, and persist_row_batch of one row.
PutRow(t, k, d) == ClearRow(t, k) \o FillRow(t, k, d)

\* Mutant: the old hashes are all deleted before the new ones are written.
PutRowsClearsAll(t, rows) ==
  LET keys == SetToSeq(DOMAIN rows)
  IN InTurn([i \in DOMAIN keys |-> ClearRow(t, keys[i])])
     \o InTurn([i \in DOMAIN keys |-> FillRow(t, keys[i], rows[keys[i]])])

PutRows(t, rows) ==
  LET keys == SetToSeq(DOMAIN rows)
  IN InTurn([i \in DOMAIN keys |-> PutRow(t, keys[i], rows[keys[i]])])

\* delete_table_rows_from_storage: a DEL of each hash there is, then of the keys.
DeleteRows(t) ==
  LET keys == SetToSeq(DOMAIN store[t].rows)
  IN [i \in DOMAIN keys |-> [op |-> "clear", table |-> t, key |-> keys[i]]] \o <<[op |-> "unfile", table |-> t]>>

\* Mutant: the table stays in the set of tables.
DeleteTableStaysKnown(t) == DeleteRows(t) \o DeleteSchema(t)

\* delete_table_from_storage
DeleteTable(t) == DeleteRows(t) \o DeleteSchema(t) \o <<[op |-> "forget", table |-> t]>>

Drop1(rows, k) == [j \in DOMAIN rows \ {k} |-> rows[j]]
Put(d, c, v) == [d EXCEPT ![c] = v]

\* The keys x of a table after one of its commands.
Sent(x, w) ==
  CASE w.op = "know" -> [x EXCEPT !.known = TRUE]
    [] w.op = "forget" -> [x EXCEPT !.known = FALSE]
    [] w.op = "delete" -> [x EXCEPT !.parts[w.part] = {}]
    [] w.op = "add" -> [x EXCEPT !.parts[w.part] = @ \cup {w.member}]
    [] w.op = "file" -> [x EXCEPT !.keys = @ \cup {w.key}]
    [] w.op = "unfile" -> [x EXCEPT !.keys = {}]
    [] w.op = "clear" -> [x EXCEPT !.rows = Drop1(@, w.key)]
    [] w.op = "begin" -> [x EXCEPT !.rows = Add(@, w.key, NoData)]
    [] w.op = "field" -> [x EXCEPT !.rows = Add(@, w.key, Put(@[w.key], w.col, w.value))]

\* The keys x of table t as the commands are done one after the other.
Course(x, t, commands) ==
  LET F[i \in 0..Len(commands)] ==
        IF i = 0 THEN x ELSE IF commands[i].table = t THEN Sent(F[i - 1], commands[i]) ELSE F[i - 1]
  IN F

\* repair_column_order: the columns there are, those of no place in the order last.
Repaired(orders, columns) ==
  LET order == IF orders = {} THEN <<>> ELSE CHOOSE o \in orders : TRUE
      placed == Only(order, columns)
  IN placed \o Only(Sorted, columns \ Range(placed))

\* load_schema_from_storage: sets come back in their own order, and there may be
\* none of them.
LoadedSchema(parts) ==
  [order |-> Repaired(parts["order"], parts["columns"]), pk |-> Only(Sorted, parts["pk"]),
   unique |-> parts["unique"], indexes |-> parts["indexes"], fks |-> parts["fks"]]

\* load_from_storage, for one table: of the rows, the keys that have a hash.
Loaded(x) ==
  IF ~x.known THEN None
  ELSE [schema |-> LoadedSchema(x.parts), rows |-> [k \in x.keys \cap DOMAIN x.rows |-> x.rows[k]]]

-----------------------------------------------------------------------------
(* Statements                                                              *)

Init ==
  /\ mem = [t \in Tables |-> None] /\ store = [t \in Tables |-> Nothing]
  /\ todo = <<>> /\ before = mem
  /\ orphaned = {} /\ unproven = {} /\ overlooked = {} /\ torn = {} /\ statements = 0 /\ crashes = 0

\* A statement runs to its last change in memory, and leaves its commands.  A table
\* that is made where there was none is not torn.
Execute(mem2, writes, doubts, blind, tears) ==
  /\ todo = <<>> /\ statements < MaxStatements
  /\ mem' = mem2 /\ todo' = writes
  /\ before' = [t \in Tables |->
                  IF mem[t] # None /\ \E i \in DOMAIN writes : writes[i].op = "forget" /\ writes[i].table = t
                  THEN [mem[t] EXCEPT !.rows = NoRows] ELSE mem[t]]
  /\ unproven' = doubts /\ overlooked' = blind /\ torn' = tears
  /\ statements' = statements + 1
  /\ UNCHANGED <<store, orphaned, crashes>>

With(t, s, rows) == [mem EXCEPT ![t] = [schema |-> s, rows |-> rows]]

CreateTable == \E c \in Creates :
  LET s == SchemaFromCreate(c.cols, c.constraints)
  IN /\ mem[c.table] = None /\ IsInjective(c.cols) /\ Valid(s, c.table)
     /\ Execute(With(c.table, s, NoRows), PutSchema(c.table, s),
                unproven \ {c.table}, overlooked \ {c.table}, torn \ {c.table})

\* apply_alter_operation_fallback: keys, indexes and constraints.
Fallback(s, o) ==
  CASE o.op = "primary" -> AddPrimary(s, o.cols)
    [] o.op = "unique" -> AddUnique(s, o.name, o.cols)
    [] o.op = "index" -> AddIndex(s, [name |-> o.name, cols |-> o.cols, unique |-> FALSE])
    [] o.op = "foreign" -> AddForeign(s, o.fk)
    [] o.op = "dropPrimary" -> DropPrimary(s)
    [] o.op = "dropConstraint" -> DropForeign(DropUnique(s, o.name), o.name)
    [] o.op = "dropForeign" -> DropForeign(s, o.name)
    [] o.op = "unsupported" -> s

\* One operation of an ALTER TABLE on st: the copy of the schema, the rows, the
\* commands that were sent, whether it moved values, and whether it succeeded.
Apply(t, st, o) ==
  LET s == st.schema
      Goes(cond, s2) == IF cond THEN [st EXCEPT !.schema = s2] ELSE [st EXCEPT !.ok = FALSE]
      Moves(cond, s2) ==
        LET rows == [k \in DOMAIN st.rows |-> Moved(st.rows[k], o.old, o.new)]
        IN IF ~cond THEN [st EXCEPT !.ok = FALSE]
           ELSE [st EXCEPT !.schema = s2, !.rows = rows, !.moved = TRUE,
                           !.sent = @ \o PutRows(t, rows)]
      Has(c) == c \in Columns(s)
  IN IF ~st.ok THEN st ELSE
     CASE o.op = "add" ->
            LET added == Placed([s EXCEPT !.order = Append(@, o.col)], o.col, o.pos)
            IN Goes(~Has(o.col) /\ Places(s, o.col, o.pos), IF o.key THEN AddPrimary(added, <<o.col>>) ELSE added)
       [] o.op = "drop" -> Goes(Has(o.col), DropColumn(s, o.col))
       [] o.op = "rename" -> Moves(Has(o.old) /\ ~Has(o.new), RenameColumn(s, o.old, o.new))
       [] o.op = "change" ->
            LET changed == RenameColumn(s, o.old, o.new)
            IN Moves(Has(o.old) /\ (o.new = o.old \/ ~Has(o.new)) /\ Places(changed, o.new, o.pos),
                     Placed(changed, o.new, o.pos))
       [] o.op = "modify" -> Goes(Has(o.col) /\ Places(s, o.col, o.pos), Placed(s, o.col, o.pos))
       [] OTHER -> Goes(o.op # "unsupported", Fallback(s, o))

Altered(t, ops) ==
  LET F[i \in 0..Len(ops)] ==
        IF i = 0
        THEN [schema |-> mem[t].schema, rows |-> mem[t].rows, sent |-> <<>>, moved |-> FALSE, ok |-> TRUE]
        ELSE Apply(t, F[i - 1], ops[i])
  IN F[Len(ops)]

\* ALTER TABLE: the schema is replaced at the end, if all went well and the
\* rows fit it; the values are moved, and written, as the operations come.
AlterTable == \E t \in Tables, ops \in Alters :
  /\ mem[t] # None
  /\ LET st == Altered(t, ops)
         done == st.ok /\ Valid(st.schema, t) /\ Unique(st.schema, st.rows)
     IN Execute(With(t, IF done THEN st.schema ELSE mem[t].schema, st.rows),
                IF done THEN st.sent \o PutSchema(t, st.schema) ELSE st.sent,
                IF done THEN unproven \ {t} ELSE IF st.moved THEN unproven \cup {t} ELSE unproven,
                IF done THEN overlooked \ {t} ELSE overlooked, torn)

\* CREATE [UNIQUE] INDEX, with OR REPLACE; the rows are not looked at.
CreateIndex == \E t \in Tables, name \in IndexNames, c \in Cols, unique, replace \in BOOLEAN :
  /\ mem[t] # None
  /\ LET s == mem[t].schema
         kept == [s EXCEPT !.indexes = {x \in @ : ~(replace /\ x.name = name)}]
         made == AddIndex(kept, [name |-> name, cols |-> <<c>>, unique |-> unique])
         s2 == IF unique THEN AddUnique(made, None, <<c>>) ELSE made
     IN /\ c \in Columns(s)
        /\ replace \/ \A x \in s.indexes : x.name # name
        /\ Execute(With(t, s2, mem[t].rows), PutSchema(t, s2),
                   IF unique /\ <<c>> \notin s.unique THEN unproven \cup {t} ELSE unproven, overlooked, torn)

\* DROP INDEX, whatever table it names, is about every table.
DropIndex == \E name \in IndexNames \cup Cols \cup {Primary} :
  LET hit == {t \in Tables : mem[t] # None /\ DropUnique(mem[t].schema, name) # mem[t].schema}
      mem2 == [t \in Tables |->
                 IF t \in hit THEN [mem[t] EXCEPT !.schema = DropUnique(@, name)] ELSE mem[t]]
  IN /\ hit # {}
     /\ Execute(mem2, LET order == SetToSeq(hit)
                      IN InTurn([i \in DOMAIN order |-> PutSchema(order[i], mem2[order[i]].schema)]),
                unproven, overlooked, torn)

\* ALTER TABLE ... DROP INDEX: the same for one table.
DropIndexFrom == \E t \in Tables, name \in IndexNames \cup Cols \cup {Primary} :
  /\ mem[t] # None
  /\ LET s2 == DropUnique(mem[t].schema, name)
     IN s2 # mem[t].schema /\ Execute(With(t, s2, mem[t].rows), PutSchema(t, s2), unproven, overlooked, torn)

\* A row whose key is not made of its values in the order of the primary key: it
\* was stored before ALTER gave the table this key, or before a reopen put the
\* columns of the key in another order.  INSERT does not find it.
Misfiled(t) ==
  \E k \in DOMAIN mem[t].rows : k # KeyOf(mem[t].schema.pk, mem[t].rows[k])

Insert == \E t \in Tables, v \in [Cols -> Vals] :
  /\ mem[t] # None /\ Cardinality(DOMAIN mem[t].rows) < MaxRows
  /\ LET s == mem[t].schema
         d == [c \in Cols |-> IF c \in Columns(s) THEN v[c] ELSE Absent]
         k == IF s.pk = <<>> THEN Fresh(mem[t].rows) ELSE KeyOf(s.pk, d)
     IN /\ s.order # <<>> /\ \A c \in Cols \ Columns(s), e \in Vals : v[c] <= e
        /\ k \notin DOMAIN mem[t].rows
        /\ \A u \in s.unique, j \in DOMAIN mem[t].rows : ~Agree(d, mem[t].rows[j], u)
        /\ Execute(With(t, s, Add(mem[t].rows, k, d)), PutRow(t, k, d),
                   unproven, IF s.pk # <<>> /\ Misfiled(t) THEN overlooked \cup {t} ELSE overlooked, torn)

\* DROP TABLE of one or several tables, none of which another table references.
DropTable == \E gone \in SUBSET Tables :
  /\ gone # {} /\ \A t \in gone : mem[t] # None
  /\ \A u \in Tables \ gone : mem[u] # None => \A f \in mem[u].schema.fks : f.table \notin gone
  /\ Execute([t \in Tables |-> IF t \in gone THEN None ELSE mem[t]],
             LET order == SetToSeq(gone) IN InTurn([i \in DOMAIN order |-> DeleteTable(order[i])]),
             unproven \ gone, overlooked \ gone, torn)

TruncateTable == \E t \in Tables :
  /\ mem[t] # None
  /\ Execute(With(t, mem[t].schema, NoRows), DeleteRows(t), unproven \ {t}, overlooked \ {t}, torn)

\* RENAME TABLE; the foreign keys of other tables keep the old name.
RenameTable == \E from, to \in Tables :
  /\ mem[from] # None /\ mem[to] = None
  /\ LET Follows(set, doubt) == IF doubt THEN (set \ {from}) \cup {to} ELSE set \ {to}
     IN Execute([mem EXCEPT ![to] = mem[from], ![from] = None],
                DeleteTable(from) \o PutSchema(to, mem[from].schema) \o PutRows(to, mem[from].rows),
                Follows(unproven, from \in unproven \cup orphaned), Follows(overlooked, from \in overlooked),
                IF from \in torn THEN torn \cup {to} ELSE torn \ {to})

\* The columns and rows of SELECT * FROM u, the rows numbered.
Selected(u) ==
  LET cols == Columns(mem[u].schema)
      keys == SetToSeq(DOMAIN mem[u].rows)
  IN [schema |-> [EmptySchema EXCEPT !.order = mem[u].schema.order],
      rows |-> [k \in {<<i>> : i \in DOMAIN keys} |->
                  [c \in Cols |-> IF c \in cols THEN mem[u].rows[keys[k[1]]][c] ELSE Absent]]]

\* CREATE TABLE ... AS SELECT: the rows are written before the schema.
CreateTableAs == \E t, u \in Tables :
  /\ mem[t] = None /\ mem[u] # None
  /\ Execute([mem EXCEPT ![t] = Selected(u)],
             PutRows(t, Selected(u).rows) \o PutSchema(t, Selected(u).schema),
             unproven \ {t}, overlooked \ {t}, torn \ {t})

\* CREATE OR REPLACE TABLE ... AS SELECT
ReplaceTable == \E t, u \in Tables :
  /\ mem[u] # None
  /\ Execute([mem EXCEPT ![t] = Selected(u)],
             DeleteTable(t) \o PutRows(t, Selected(u).rows) \o PutSchema(t, Selected(u).schema),
             unproven \ {t}, overlooked \ {t}, IF mem[t] = None THEN torn \ {t} ELSE torn)

-----------------------------------------------------------------------------
(* The store, and a crash                                                  *)

\* The store when n of the commands are done.
After(n) == [t \in Tables |-> Course(store[t], t, todo)[n]]

Finish ==
  /\ todo # <<>>
  /\ store' = After(Len(todo)) /\ todo' = <<>>
  /\ UNCHANGED <<mem, before, orphaned, unproven, overlooked, torn, statements, crashes>>

InHand(t) == \E i \in DOMAIN todo : todo[i].table = t

\* What a schema is after a reopen: the primary key is a set in the store.
Sortedly(s) == [s EXCEPT !.pk = SortedList(@)]

\* The schemas of a table before and after a statement, and that of a table that is
\* only known.
Forms(b, m) == {EmptySchema} \cup {Sortedly(n.schema) : n \in {b, m} \ {None}}

\* The process ends, at rest or with the first commands of a statement done, and
\* opens the directory.
Reopen == \E n \in 0..Len(todo) :
  /\ crashes < MaxCrashes /\ crashes' = crashes + 1
  /\ store' = After(n) /\ todo' = <<>>
  /\ mem' = [t \in Tables |-> Loaded(store'[t])] /\ before' = mem'
  /\ orphaned' = orphaned \cup {t \in Tables : ~store'[t].known /\ store'[t].rows # NoRows}
  /\ unproven' = unproven \cup {t \in Tables : InHand(t)}
  /\ torn' = torn \cup {t \in Tables : mem'[t] # None /\ mem'[t].schema \notin Forms(before[t], mem[t])}
  /\ UNCHANGED <<overlooked, statements>>

Next ==
  \/ /\ todo = <<>> /\ statements < MaxStatements
     /\ \/ CreateTable \/ AlterTable \/ CreateIndex \/ DropIndex \/ DropIndexFrom \/ Insert
        \/ DropTable \/ TruncateTable \/ RenameTable \/ CreateTableAs \/ ReplaceTable
  \/ Finish \/ Reopen

Spec == Init /\ [][Next]_vars

-----------------------------------------------------------------------------
(* Properties                                                              *)

\* The keys of a table hold what statements work with: a reopen gives it, but for
\* the order of the primary key's columns.
Holds(x, m) == Loaded(x) = IF m = None THEN None ELSE [m EXCEPT !.schema = Sortedly(@)]

\* When a table has no write in hand, a reopen gives the schema and the rows that
\* statements work with, whatever sequence of CREATE, ALTER, RENAME, DROP and so
\* on led to them and however it was cut by a crash, in a row or in a schema; only
\* the order of the primary key's columns is lost.  The exception: a table whose
\* rows were written before its schema (CREATE TABLE AS) when a crash came between.
StoredAtRest ==
  \A t \in Tables \ orphaned : ~InHand(t) => Holds(store[t], mem[t])

\* The sets of a schema.
Sets(s) == <<Columns(s), Range(s.pk), s.unique, s.indexes, s.fks>>

\* The schema s is n on its way out, the first sets gone, or on its way in, the last
\* ones not there yet.
Piece(s, n) ==
  LET p == Sets(s)
      q == Sets(n)
  IN \/ \A i \in DOMAIN p : p[i] \in {{}, q[i]} /\ \A j \in 1..i : p[j] # {} => p[i] = q[i]
     \/ \A i \in DOMAIN p : p[i] \subseteq q[i] /\ \A j \in (i + 1)..Len(p) : p[j] # {} => p[i] = q[i]

\* What is loaded, l, of a table that was b and is to be m.
Between(l, b, m) ==
  LET kept == IF b = None \/ m = None THEN {} ELSE DOMAIN b.rows \cap DOMAIN m.rows
      Same(k) == k \in DOMAIN l.rows /\ l.rows[k] \in {b.rows[k], m.rows[k]}
  IN /\ l # None => \E n \in {b, m} \ {None} : Piece(l.schema, n.schema)
     /\ kept # {} => l # None
     /\ \A j, k \in kept : Same(j) \/ Same(k) \/ j = k
     /\ \A k \in kept : k \in DOMAIN l.rows =>
          l.rows[k] = b.rows[k] \/ \A c \in Cols : l.rows[k][c] \in {m.rows[k][c], Absent}

\* A crash within a statement leaves of a table's schema a piece of the old form or
\* of the new one, never of both (delete_schema_from_storage takes the old one away
\* set by set, and the writes that follow bring the new one in the same order, so a
\* table may have keys and no columns, or columns and no keys); and of the rows that
\* the statement keeps one at most is missing or has only some of its new values,
\* the one whose hash ALTER was writing again.
CrashSafe ==
  \A t \in Tables \ orphaned : InHand(t) =>
    \A n \in 0..Len(todo) : Between(Loaded(After(n)[t]), before[t], mem[t])

\* The lists of a schema name its columns, and no column is there twice.
NamesColumns(s) ==
  /\ IsInjective(s.order) /\ IsInjective(s.pk)
  /\ \A list \in {s.pk} \cup s.unique \cup {x.cols : x \in s.indexes} \cup {f.cols : f \in s.fks} :
       Range(list) \subseteq Columns(s)

\* Whatever columns were dropped, renamed, changed and put back, the lists of a
\* schema name its columns, and no column is there twice; unless a crash tore the
\* schema.  What a crash took of it is not looked for by any later statement.
MetadataNamesColumns ==
  \A t \in Tables \ torn : mem[t] # None => NamesColumns(mem[t].schema)

\* The rows of a table agree on no unique list and on no primary key; unless a
\* CREATE UNIQUE INDEX did not look at them, an ALTER that moved values failed or
\* was cut short; and on the key, unless a row was inserted while another was
\* filed under a key of another form.
UniqueHolds ==
  \A t \in Tables \ (unproven \cup orphaned) : mem[t] # None =>
    /\ \A list \in mem[t].schema.unique : Distinct(mem[t].rows, list)
    /\ t \in overlooked \/ Distinct(mem[t].rows, mem[t].schema.pk)
=============================================================================
