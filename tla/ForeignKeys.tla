----------------------------- MODULE ForeignKeys -----------------------------
(***************************************************************************)
(* Declared foreign keys and their ON DELETE / ON UPDATE actions           *)
(* (validate_foreign_key_row, apply_parent_delete_actions,                 *)
(* apply_parent_update_actions in src/sql/engine/dml.rs) over several      *)
(* tables, in memory and in the store, under one client.                   *)
(*                                                                         *)
(* Every table has a primary key (IdsOf) that its children reference, and  *)
(* at most one foreign key, from its column ref to the primary key of      *)
(* Parent.  A row is its ref.  The referential actions clone a table's     *)
(* rows, work on the clone, write each row they touch to the store and     *)
(* install the clone; the statement's own rows are installed first and     *)
(* written afterwards.  The recursion of ON DELETE CASCADE is a stack of   *)
(* calls that the steps push and pop, so that the process may die between  *)
(* any two commands that reach the store.                                  *)
(***************************************************************************)
EXTENDS Naturals, Sequences

CONSTANTS
  Tables, NoTable,
  Parent,      \* the table a table's foreign key references, or NoTable
  IdsOf,       \* the primary-key values of a table
  NULL, NoRow,
  OnDeletes,   \* the ON DELETE actions a table's foreign key may be declared with
  Kinds        \* the statements that are sent

Actions == {"CASCADE", "SET NULL", "RESTRICT"}

ASSUME ParentAssumption == NoTable \notin Tables /\ Parent \in [Tables -> Tables \cup {NoTable}]
ASSUME IdsAssumption ==
  /\ NULL # NoRow
  /\ \A t \in Tables : IdsOf[t] \subseteq Nat /\ NULL \notin IdsOf[t] /\ NoRow \notin IdsOf[t]
ASSUME OnDeletesAssumption == \A t \in Tables : OnDeletes[t] \subseteq Actions
ASSUME KindsAssumption == Kinds \subseteq {"insert", "delete", "update"}

\* The foreign keys form no cycle: every table ranks above its parent.
Acyclic(rank) ==
  /\ rank \in [Tables -> Nat]
  /\ \A t \in Tables : Parent[t] # NoTable => rank[Parent[t]] < rank[t]

VARIABLES
  onDelete,    \* the ON DELETE action of each table's foreign key
  onUpdate,    \* the ON UPDATE action, the same for every table
  mem,         \* Engine.rows of every table
  disk,        \* the rows a reopening would load
  phase,       \* "idle"; the referential "actions" of a statement; its "own" rows
               \* being written; "refused"
  stmt,        \* the current statement
  calls,       \* the calls of apply_parent_delete_actions_inner, innermost last
  visited,     \* the rows these calls have come to
  hits,        \* the child tables an UPDATE has yet to rewrite
  batch,       \* rows of one table on their way to the store
  stage,       \* commands of the row being written that have been carried out
  torn         \* history: a reopening has found a row without its parent

working == <<calls, visited, hits>>
declared == <<onDelete, onUpdate>>
vars == <<declared, mem, disk, phase, stmt, working, batch, stage, torn>>

Refs(t) == (IF Parent[t] = NoTable THEN {} ELSE IdsOf[Parent[t]]) \cup {NULL}
RowsOf(t) == [IdsOf[t] -> Refs(t) \cup {NoRow}]
Live(rows) == {k \in DOMAIN rows : rows[k] # NoRow}
ChildrenOf(p) == {t \in Tables : Parent[t] = p}

\* Rows of t that reference no row of its parent.
Orphans(db, t) ==
  {k \in Live(db[t]) : db[t][k] # NULL /\ db[t][k] \notin Live(db[Parent[t]])}
Sound(db) == \A t \in Tables : Orphans(db, t) = {}

RemoveRows(rows, S) == [k \in DOMAIN rows |-> IF k \in S THEN NoRow ELSE rows[k]]
SetRefs(rows, S, v) == [k \in DOMAIN rows |-> IF k \in S THEN v ELSE rows[k]]

\* A statement: the rows of its table as it will leave them, the keys it writes,
\* and (history) the database it found.  An UPDATE takes one key to another.
Statement(op, t, next, keys, from, to) ==
  [op |-> op, table |-> t, next |-> next, keys |-> keys, from |-> from, to |-> to,
   before |-> mem]
NoStatement == [op |-> "idle"]

\* Mutant: the rows of a batch are installed in memory only.
BatchWritesNone(t, rows, keys) == [table |-> t, rows |-> rows, left |-> {}]

\* The rows of t as they are to be installed, and the keys not yet written.
Batch(t, rows, keys) == [table |-> t, rows |-> rows, left |-> keys]
NoBatch == Batch(NoTable, <<>>, {})

-----------------------------------------------------------------------------
(* Statements                                                              *)

Issue(s, p) ==
  /\ phase = "idle" /\ s.op \in Kinds
  /\ ~torn  \* bound: nothing is examined after a torn reopening
  /\ stmt' = s /\ phase' = p
  /\ UNCHANGED <<declared, disk, stage, torn>>

\* Mutant: the parent row need not be there.
HasParentUnchecked(t, ref) == ref \in Refs(t)

\* validate_foreign_key_row
HasParent(t, ref) ==
  ref \in {NULL} \cup (IF Parent[t] = NoTable THEN {} ELSE Live(mem[Parent[t]]))

InsertRow(t, k, ref) ==
  LET next == [mem[t] EXCEPT ![k] = ref] IN
  /\ Issue(Statement("insert", t, next, {k}, k, k), "own")
  /\ k \notin Live(mem[t]) /\ HasParent(t, ref)
  /\ mem' = [mem EXCEPT ![t] = next] /\ batch' = Batch(t, next, {k})
  /\ UNCHANGED working

\* A call for the rows keys of p, all of them there, whose caller has cloned the rows
\* of p.
Call(p, keys, rows) ==
  [table |-> p, keys |-> keys, rows |-> rows,
   todo |-> IF keys = {} THEN {} ELSE ChildrenOf(p)]

\* DELETE of the rows S of p begins with the actions of its children.
Delete(p, S) ==
  /\ Issue(Statement("delete", p, RemoveRows(mem[p], S), S, 0, 0), "actions") /\ S # {}
  /\ calls' = <<Call(p, S, mem[p])>>
  /\ UNCHANGED <<mem, visited, hits, batch>>

\* The child tables with a row that references k (apply_parent_update_actions).
Hits(p, k) == {c \in ChildrenOf(p) \ {p} : \E j \in Live(mem[c]) : mem[c][j] = k}

\* UPDATE of one row that changes its key, to one that is free, or its ref.
Update(t, k, nk, ref) ==
  LET next == [RemoveRows(mem[t], {k}) EXCEPT ![nk] = ref] IN
  /\ Issue(Statement("update", t, next, {k, nk}, k, nk), "actions")
  /\ k \in Live(mem[t]) /\ (nk = k \/ nk \notin Live(mem[t]))
  /\ HasParent(t, ref)
  /\ nk = k \/ Hits(t, k) = {} \/ onUpdate # "RESTRICT"
  /\ hits' = IF nk = k THEN {} ELSE Hits(t, k)
  /\ UNCHANGED <<mem, calls, visited, batch>>

-----------------------------------------------------------------------------
(* ON DELETE: apply_parent_delete_actions_inner                            *)

Top == calls[Len(calls)]
Acting(op) == phase = "actions" /\ stmt.op = op /\ batch = NoBatch

Matching(c) ==
  {k \in Live(mem[c]) : mem[c][k] \in Top.keys /\ ~(c = Top.table /\ k \in Top.keys)}

\* The innermost call goes on to the foreign key of c, in whatever order the
\* schema map lists them.
Comes(c) == [calls EXCEPT ![Len(calls)].todo = @ \ {c}]
ForeignKey(c) == Acting("delete") /\ c \in Top.todo
UnchangedOnDelete == UNCHANGED <<declared, mem, disk, stmt, hits, stage, torn>>

NoMatch(c) ==
  /\ ForeignKey(c) /\ Matching(c) = {}
  /\ calls' = Comes(c)
  /\ UnchangedOnDelete /\ UNCHANGED <<phase, visited, batch>>

\* What the actions have done so far stays.
Restrict(c) ==
  /\ ForeignKey(c) /\ Matching(c) # {} /\ onDelete[c] = "RESTRICT"
  /\ phase' = "refused" /\ calls' = <<>> /\ visited' = {}
  /\ UnchangedOnDelete /\ UNCHANGED batch

SetNull(c) ==
  /\ ForeignKey(c) /\ Matching(c) # {} /\ onDelete[c] = "SET NULL"
  /\ calls' = Comes(c)
  /\ batch' = Batch(c, SetRefs(mem[c], Matching(c), NULL), Matching(c))
  /\ UnchangedOnDelete /\ UNCHANGED <<phase, visited>>

Fresh(c) == {k \in Matching(c) : <<c, k>> \notin visited}

\* Mutant: the rows of a cascade have no actions of their own.
CascadeShallow(c) ==
  /\ ForeignKey(c) /\ Matching(c) # {} /\ onDelete[c] = "CASCADE"
  /\ calls' = Append(Comes(c), [Call(c, Fresh(c), mem[c]) EXCEPT !.todo = {}])
  /\ visited' = visited \cup ({c} \X Fresh(c))
  /\ UnchangedOnDelete /\ UNCHANGED <<phase, batch>>

\* Mutant: the rows of a cascade leave the store before their own children do.
CascadeParentFirst(c) ==
  /\ ForeignKey(c) /\ Matching(c) # {} /\ onDelete[c] = "CASCADE"
  /\ calls' = Append(Comes(c), Call(c, Fresh(c), mem[c]))
  /\ visited' = visited \cup ({c} \X Fresh(c))
  /\ batch' = Batch(c, RemoveRows(mem[c], Fresh(c)), Fresh(c))
  /\ UnchangedOnDelete /\ UNCHANGED phase

Cascade(c) ==
  /\ ForeignKey(c) /\ Matching(c) # {} /\ onDelete[c] = "CASCADE"
  /\ calls' = Append(Comes(c), Call(c, Fresh(c), mem[c]))
  /\ visited' = visited \cup ({c} \X Fresh(c))
  /\ UnchangedOnDelete /\ UNCHANGED <<phase, batch>>

\* An inner call returns: the rows it was called for go from the clone.
Return ==
  /\ Acting("delete") /\ Top.todo = {} /\ Len(calls) > 1
  /\ batch' = Batch(Top.table, RemoveRows(Top.rows, Top.keys), Top.keys)
  /\ calls' = SubSeq(calls, 1, Len(calls) - 1)
  /\ UnchangedOnDelete /\ UNCHANGED <<phase, visited>>

-----------------------------------------------------------------------------
(* ON UPDATE: apply_parent_update_actions writes every row of a child table *)
(* with a match again.                                                      *)

Moved(rows, s) ==
  SetRefs(rows, {j \in Live(rows) : rows[j] = s.from},
          IF onUpdate = "CASCADE" THEN s.to ELSE NULL)

Rewrite(c) ==
  /\ Acting("update") /\ c \in hits /\ hits' = hits \ {c}
  /\ batch' = Batch(c, Moved(mem[c], stmt), Live(mem[c]))
  /\ UNCHANGED <<declared, mem, disk, phase, stmt, calls, visited, stage, torn>>

-----------------------------------------------------------------------------
(* The rows on their way to the store                                      *)

\* The outermost call, or the last child table, is done: the statement's own rows.
OwnRows ==
  /\ \/ Acting("delete") /\ Len(calls) = 1 /\ Top.todo = {}
     \/ Acting("update") /\ hits = {}
  /\ phase' = "own" /\ calls' = <<>> /\ visited' = {}
  /\ mem' = [mem EXCEPT ![stmt.table] = stmt.next]
  /\ batch' = Batch(stmt.table, stmt.next, stmt.keys)
  /\ UNCHANGED <<declared, disk, stmt, hits, stage, torn>>

\* Keys that are removed come first (persist_row_batch), each kind in key order.
First(k) ==
  \A j \in batch.left \ {k} :
    IF (batch.rows[j] = NoRow) = (batch.rows[k] = NoRow)
    THEN k < j ELSE batch.rows[k] = NoRow

\* Key k holds v in the store; the row is complete after the command.
Put(k, v) == disk' = [disk EXCEPT ![batch.table][k] = v]
Done(k) == batch' = [batch EXCEPT !.left = @ \ {k}] /\ stage' = 0

RemoveRow(k) == batch.rows[k] = NoRow /\ Put(k, NoRow) /\ Done(k)

\* A row is written command by command (persist_row, persist_row_batch): DEL, the
\* row's own fields, its columns.
PersistRow(k) ==
  /\ batch.rows[k] # NoRow
  /\ \/ stage = 0 /\ Put(k, NoRow) /\ stage' = 1 /\ UNCHANGED batch
     \/ stage = 1 /\ Put(k, NULL) /\ stage' = 2 /\ UNCHANGED batch
     \/ stage = 2 /\ Put(k, batch.rows[k]) /\ Done(k)

Persist(k) ==
  /\ k \in batch.left /\ First(k)
  /\ RemoveRow(k) \/ PersistRow(k)
  /\ UNCHANGED <<declared, mem, phase, stmt, working, torn>>

\* A referential action installs the clone when its rows are written.
Install ==
  /\ phase = "actions" /\ batch # NoBatch /\ batch.left = {}
  /\ mem' = [mem EXCEPT ![batch.table] = batch.rows] /\ batch' = NoBatch
  /\ UNCHANGED <<declared, disk, phase, stmt, working, stage, torn>>

Answer ==
  /\ phase \in {"own", "refused"} /\ batch.left = {}
  /\ phase' = "idle" /\ stmt' = NoStatement /\ batch' = NoBatch
  /\ UNCHANGED <<declared, mem, disk, working, stage, torn>>

Reopen ==
  /\ mem' = disk /\ torn' = (torn \/ ~Sound(disk))
  /\ phase' = "idle" /\ stmt' = NoStatement /\ batch' = NoBatch /\ stage' = 0
  /\ calls' = <<>> /\ visited' = {} /\ hits' = {}
  /\ UNCHANGED <<declared, disk>>

EmptyDatabase == [t \in Tables |-> [k \in IdsOf[t] |-> NoRow]]

Init ==
  /\ onDelete \in [{t \in Tables : Parent[t] # NoTable} -> Actions]
  /\ \A t \in DOMAIN onDelete : onDelete[t] \in OnDeletes[t]
  /\ onUpdate \in Actions
  /\ mem = EmptyDatabase /\ disk = EmptyDatabase
  /\ phase = "idle" /\ stmt = NoStatement /\ batch = NoBatch /\ stage = 0
  /\ calls = <<>> /\ visited = {} /\ hits = {} /\ torn = FALSE

Next ==
  \/ \E t \in Tables :
       \/ \E k \in IdsOf[t], ref \in Refs(t) : InsertRow(t, k, ref)
       \/ \E S \in SUBSET Live(mem[t]) : Delete(t, S)
       \/ \E k, nk \in IdsOf[t], ref \in Refs(t) : Update(t, k, nk, ref)
       \/ NoMatch(t) \/ Restrict(t) \/ SetNull(t) \/ Cascade(t) \/ Rewrite(t)
  \/ Return \/ OwnRows
  \/ \E k \in batch.left : Persist(k)
  \/ Install \/ Answer \/ Reopen

Spec == Init /\ [][Next]_vars

-----------------------------------------------------------------------------
(* Properties                                                              *)

\* An UPDATE is about to take the children of a row to its new key.
Moving == stmt.op = "update" /\ stmt.from # stmt.to

TypeOK ==
  /\ \A t \in Tables : mem[t] \in RowsOf(t) /\ disk[t] \in RowsOf(t)
  /\ phase \in {"idle", "actions", "own", "refused"} /\ stage \in 0..2 /\ torn \in BOOLEAN
  /\ batch.table \in Tables => batch.rows \in RowsOf(batch.table)

\* No step of a DELETE, a refused one included, and no completed INSERT or UPDATE
\* leaves a row whose parent is gone (README: declared relationships and actions
\* are enforced in both profiles).
NoDangling == ~torn /\ ~(phase = "actions" /\ Moving) => Sound(mem)

\* Between statements the store holds what memory holds, cascaded rows of other
\* tables included.
StoreFollows == phase = "idle" => disk = mem

\* The writes of an INSERT, a DELETE or an UPDATE that keeps the key go child before
\* parent: a crash between two of them leaves no row without its parent, unless it
\* hits the rewriting of a row.
CrashKeepsReferences == ~torn /\ stage = 0 /\ ~Moving => Sound(disk)

\* What a DELETE of the rows S of p must remove: the least set of rows that holds
\* them and is closed under the CASCADE references.
RowsIn(db) == UNION {{t} \X Live(db[t]) : t \in Tables}
Refers(db, r, X) ==
  db[r[1]][r[2]] \notin {NULL, NoRow} /\ <<Parent[r[1]], db[r[1]][r[2]]>> \in X
Closed(db, p, S, X) ==
  /\ {p} \X S \subseteq X
  /\ \A r \in RowsIn(db) : Refers(db, r, X) /\ onDelete[r[1]] = "CASCADE" => r \in X
Removed(db, p, S) ==
  {r \in RowsIn(db) : \A X \in SUBSET RowsIn(db) : Closed(db, p, S, X) => r \in X}

\* The database without the rows of gone, the references to them cleared.
Without(db, gone) ==
  [t \in Tables |-> [k \in IdsOf[t] |->
     IF <<t, k>> \in gone THEN NoRow
     ELSE IF Refers(db, <<t, k>>, gone) THEN NULL ELSE db[t][k]]]

\* A DELETE that is not refused removes exactly that set, clears exactly the SET
\* NULL references to it and leaves every other row alone, in whatever order the
\* foreign keys are visited; one with a RESTRICT reference to that set is refused.
DeleteIsCascade ==
  ~torn /\ stmt.op = "delete" /\ phase \in {"own", "refused"} =>
    LET gone == Removed(stmt.before, stmt.table, stmt.keys) IN
    /\ phase = "refused" <=>
         \E r \in RowsIn(stmt.before) :
           Refers(stmt.before, r, gone) /\ onDelete[r[1]] = "RESTRICT"
    /\ phase = "own" => mem = Without(stmt.before, gone)
=============================================================================
