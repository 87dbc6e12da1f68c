----------------------------- MODULE TableStore -----------------------------
(***************************************************************************)
(* One table of an engine opened with Engine::open_persistent: the rows,   *)
(* the AUTO_INCREMENT counter and the secondary index in memory, and their *)
(* copy in the embedded Lux store, under one client that sends a statement *)
(* after the answer to the previous one.  The process may crash between    *)
(* any two steps; it then reopens the data directory.                      *)
(*                                                                         *)
(* A DML statement first works row by row on memory (InsertRow, UpdateRow) *)
(* and then sends one pipeline of storage commands (persist_row_batch).    *)
(* Lux logs each command before it applies it, and a pipeline with a DEL   *)
(* in it is executed command by command, so a crash keeps a prefix of the  *)
(* pipeline: of a row it may keep the first fields.  A column that has no  *)
(* field is read as NULL.                                                  *)
(*                                                                         *)
(* Values a statement computes (expressions, defaults, conversions) are    *)
(* chosen freely.  A generated id needs no action of its own: it is the    *)
(* step of InsertRow that takes k = autoInc + 1.                           *)
(***************************************************************************)
EXTENDS TableOps, FiniteSets

CONSTANTS
  DupCols,     \* columns ON DUPLICATE KEY UPDATE may assign, a subset of {"u","w"}
  UpdateCols,  \* columns UPDATE may assign, a subset of {"id","u","w"}
  MaxStmts,    \* bound: statements in a behaviour
  MaxBatch,    \* bound: rows in one INSERT
  MaxOpens,    \* bound: reopenings of the data directory in a behaviour
  Crashes      \* TRUE: the process may die inside a statement

ASSUME ColsAssumption == DupCols \subseteq {"u", "w"} /\ UpdateCols \subseteq {"id", "u", "w"}
ASSUME PayloadsAssumption == NULL \in Payloads
ASSUME BoundsAssumption == MaxStmts \in Nat /\ MaxBatch \in Nat /\ MaxOpens \in Nat

VARIABLES
  enforce,     \* enforces_uniqueness(): strict profile or --unique-mode enforce
  rows,        \* Engine.rows of the table
  autoInc,     \* Engine.auto_inc of the table, 0 when there is no entry
  index,       \* Engine.indexes of the table
  pks,         \* Lux: the set of row keys of the table
  hash,        \* Lux: the row hashes
  storedAuto,  \* Lux: the stored AUTO_INCREMENT counter
  pc,          \* where the current statement is
  mode,        \* the kind of the current INSERT
  room,        \* rows the current INSERT may still have
  lookup,      \* unique_lookup of the current INSERT
  todo,        \* keys the current UPDATE's loop or TRUNCATE's batch has not reached
  next,        \* next_rows of the current UPDATE
  toDelete,    \* rows_to_delete / deleted_keys
  changed,     \* rows_to_persist / changed_rows
  delLeft,     \* keys of toDelete the pipeline has not finished
  putLeft,     \* keys of changed the pipeline has not finished
  step,        \* commands of the pipeline's current key that are done
  acked,       \* history: the table as the answered statements left it on disk
  dirty,       \* history: keys a failed statement changed in memory only
  strays,      \* history: keys inserted by a failed INSERT, not in storedAuto
  orphans,     \* history: hashes a crash left without an entry in pks
  broken,      \* history: a reopening has found a table with a duplicate unique value
  nstmt, nopen

memory == <<rows, autoInc, index>>
disk == <<pks, hash, storedAuto>>
scan == <<lookup, todo, next>>
batch == <<toDelete, changed>>
pipe == <<delLeft, putLeft, step>>
history == <<acked, dirty, strays, orphans, broken>>
vars == <<enforce, memory, disk, pc, mode, room, scan, batch, pipe, history,
          nstmt, nopen>>

Modes == {"plain", "ignore", "replace", "odku"}
EmptyLookup == [v \in UVals |-> {}]

\* load_from_storage: a key of pks without a hash is skipped.
Durable(k) == IF k \in pks THEN hash[k] ELSE NoRow
Load == [k \in Keys |-> Durable(k)]
\* The keys the current statement removes or writes.
Touched == toDelete \cup Live(changed)

TypeOK ==
  /\ enforce \in BOOLEAN
  /\ rows \in Table /\ autoInc \in Nat /\ index \in Index
  /\ pks \subseteq Keys /\ hash \in Table /\ storedAuto \in Nat
  /\ pc \in {"idle", "insert", "update", "auto", "write", "joined", "trunc", "truncAuto"}
  /\ mode \in Modes /\ room \in 0..MaxBatch
  /\ lookup \in Lookup /\ todo \subseteq Keys /\ next \in Table
  /\ toDelete \subseteq Keys /\ changed \in Table
  /\ delLeft \subseteq Keys /\ putLeft \subseteq (IF pc = "write" THEN Live(changed) ELSE {})
  /\ step \in 0..4
  /\ acked \in Table /\ dirty \subseteq Keys /\ strays \subseteq Keys
  /\ orphans \subseteq Keys /\ broken \in BOOLEAN /\ nstmt \in 0..MaxStmts /\ nopen \in 0..MaxOpens

Init ==
  /\ enforce \in BOOLEAN
  /\ rows = EmptyTable /\ autoInc = 0 /\ index = BuildIndex(EmptyTable)
  /\ pks = {} /\ hash = EmptyTable /\ storedAuto = 0
  /\ pc = "idle" /\ mode = "plain" /\ room = 0
  /\ lookup = EmptyLookup /\ todo = {} /\ next = EmptyTable
  /\ toDelete = {} /\ changed = EmptyTable
  /\ delLeft = {} /\ putLeft = {} /\ step = 0
  /\ acked = EmptyTable /\ dirty = {} /\ strays = {} /\ orphans = {}
  /\ broken = FALSE
  /\ nstmt = 0 /\ nopen = 0

-----------------------------------------------------------------------------
(* Statement boundaries                                                    *)

Begin ==
  /\ pc = "idle" /\ nstmt < MaxStmts /\ nstmt' = nstmt + 1
  /\ UNCHANGED <<enforce, disk, nopen>>

\* What a statement that returns leaves behind of its local variables.
ClearWork ==
  /\ mode' = "plain" /\ room' = 0
  /\ lookup' = EmptyLookup /\ todo' = {} /\ next' = EmptyTable
  /\ toDelete' = {} /\ changed' = EmptyTable
  /\ delLeft' = {} /\ putLeft' = {} /\ step' = 0

\* The statement returns an error before it writes to storage: what it did to
\* memory stays there.
Fail ==
  /\ pc' = "idle" /\ ClearWork
  /\ dirty' = dirty \cup toDelete \cup Live(changed)
  /\ strays' = strays \cup {k \in Live(changed) : k > storedAuto}
  /\ UNCHANGED <<enforce, disk, acked, orphans, broken, nstmt, nopen>>

-----------------------------------------------------------------------------
(* INSERT, INSERT IGNORE, REPLACE, INSERT ... ON DUPLICATE KEY UPDATE      *)

BeginInsert(m) ==
  /\ Begin
  /\ pc' = "insert" /\ mode' = m /\ room' = MaxBatch
  /\ lookup' = BuildLookup(rows)
  /\ UNCHANGED <<memory, todo, next, batch, pipe, history>>

\* resolve_row_id and the max() with an explicit id, before any conflict is seen
TakeId(k) == autoInc' = IF k > autoInc THEN k ELSE autoInc

\* What every step of the row loop that goes on to the next row leaves alone.
NextRow ==
  /\ room' = room - 1
  /\ UNCHANGED <<enforce, disk, pc, mode, todo, next, pipe, history, nstmt, nopen>>

\* Mutant: the index entries of removed rows stay.
StoreLeavesIndex(k, r, C) ==
  LET gone == C \cap Live(rows) IN
  /\ rows' = Put(Without(rows, gone), k, r)
  /\ lookup' = AddToLookup(RemoveFromLookup(lookup, rows, gone), k, r)
  /\ index' = AddToIndex(index, Put(EmptyTable, k, r), {k})
  /\ toDelete' = toDelete \cup gone
  /\ changed' = Put(Without(changed, gone), k, r)

\* The row loop's last part: rows under C make way for row r under key k.
Store(k, r, C) ==
  LET gone == C \cap Live(rows) IN
  /\ rows' = Put(Without(rows, gone), k, r)
  /\ lookup' = AddToLookup(RemoveFromLookup(lookup, rows, gone), k, r)
  /\ index' = AddToIndex(RemoveFromIndex(index, rows, gone), Put(EmptyTable, k, r), {k})
  /\ toDelete' = toDelete \cup gone
  /\ changed' = Put(Without(changed, gone), k, r)

\* No conflict, or one that REPLACE or the overwrite profile resolves by
\* removing the rows in the way.
InsertStore(k, r) ==
  LET C == ConflictKeys(rows, lookup, k, r) IN
  /\ pc = "insert" /\ room > 0
  /\ C = {} \/ mode = "replace" \/ (mode = "plain" /\ ~enforce)
  /\ TakeId(k) /\ Store(k, r, C) /\ NextRow

\* INSERT IGNORE skips a row in conflict; its id is used up all the same.
InsertSkip(k, r) ==
  /\ pc = "insert" /\ room > 0 /\ mode = "ignore"
  /\ ConflictKeys(rows, lookup, k, r) # {}
  /\ TakeId(k) /\ NextRow
  /\ UNCHANGED <<rows, index, lookup, batch>>

\* The existing row c that ON DUPLICATE KEY UPDATE rewrites: the first key.
Upserts(k, r, c) ==
  /\ pc = "insert" /\ room > 0 /\ mode = "odku"
  /\ IsFirst(c, ConflictKeys(rows, lookup, k, r))
  /\ c \in Live(rows)

\* ON DUPLICATE KEY UPDATE rewrites that row to x without another look at the
\* conflicts x may have; a no-op update is not written.
InsertUpsert(k, r, c, x) ==
  /\ Upserts(k, r, c) /\ x \in Rewrites(rows[c], DupCols)
  /\ TakeId(k) /\ NextRow
  /\ rows' = Put(rows, c, x)
  /\ lookup' = AddToLookup(RemoveFromLookup(lookup, rows, {c}), c, x)
  /\ index' = AddToIndex(RemoveFromIndex(index, rows, {c}), rows', {c})
  /\ changed' = IF x = rows[c] THEN changed ELSE Put(changed, c, x)
  /\ UNCHANGED toDelete

\* An assignment fails to evaluate after earlier ones were stored in the row.
InsertUpsertError(k, r, c, x) ==
  /\ Upserts(k, r, c) /\ x \in Rewrites(rows[c], DupCols)
  /\ TakeId(k)
  /\ rows' = Put(rows, c, x) /\ UNCHANGED index
  /\ pc' = "idle" /\ ClearWork
  /\ dirty' = dirty \cup Touched \cup {c}
  /\ strays' = strays \cup {j \in Live(changed) : j > storedAuto}
  /\ UNCHANGED <<enforce, disk, acked, orphans, broken, nstmt, nopen>>

\* "primary key conflict", "unique constraint violation" (and "conflict row
\* disappeared"): the statement stops at this row.
InsertConflict(k, r) ==
  LET C == ConflictKeys(rows, lookup, k, r) IN
  /\ pc = "insert" /\ room > 0 /\ C # {}
  /\ \/ mode = "plain" /\ enforce
     \/ mode = "odku" /\ \A c \in C : IsFirst(c, C) => c \notin Live(rows)
  /\ TakeId(k) /\ UNCHANGED <<rows, index>> /\ Fail

\* A row fails validation (NULL, default, type, generated column, foreign key)
\* before its id is resolved.
InsertReject ==
  /\ pc = "insert" /\ room > 0
  /\ UNCHANGED memory /\ Fail

\* INSERT IGNORE skips a row whose foreign key has no parent.
InsertSkipOrphan ==
  /\ pc = "insert" /\ room > 0 /\ mode = "ignore"
  /\ NextRow /\ UNCHANGED <<memory, lookup, batch>>

\* Mutant: the counter is not persisted with the rows.
InsertDoneNoCounter ==
  /\ pc = "insert" /\ pc' = "write"
  /\ delLeft' = toDelete /\ putLeft' = Live(changed) /\ step' = 0
  /\ UNCHANGED <<enforce, memory, disk, mode, room, scan, batch, history, nstmt, nopen>>

InsertDone ==
  /\ pc = "insert" /\ pc' = "auto"
  /\ UNCHANGED <<enforce, memory, disk, mode, room, scan, batch, pipe, history,
                 nstmt, nopen>>

\* persist_auto_inc at the end of an INSERT, then the pipeline is built.
PersistAuto ==
  /\ pc = "auto" /\ pc' = "write"
  /\ storedAuto' = autoInc
  /\ delLeft' = toDelete /\ putLeft' = Live(changed) /\ step' = 0
  /\ strays' = {k \in strays : k > autoInc}
  /\ UNCHANGED <<enforce, memory, pks, hash, mode, room, scan, batch, acked, dirty,
                 orphans, broken, nstmt, nopen>>

-----------------------------------------------------------------------------
(* UPDATE of one table                                                     *)

BeginUpdate ==
  /\ Begin
  /\ pc' = "update" /\ todo' = Live(rows) /\ next' = EmptyTable
  /\ UNCHANGED <<memory, mode, room, lookup, batch, pipe, history>>

Scanning(k) ==
  /\ pc = "update" /\ IsFirst(k, todo) /\ todo' = todo \ {k}
  /\ UNCHANGED <<enforce, memory, disk, pc, mode, room, lookup, pipe, history,
                 nstmt, nopen>>

\* The row does not match WHERE, or UPDATE IGNORE spares it, or the overwrite
\* profile has already removed it.
UpdateSkip(k) ==
  /\ Scanning(k) /\ UNCHANGED batch
  /\ next' = IF ~enforce /\ k \in toDelete THEN next ELSE Put(next, k, rows[k])

\* Mutant: conflicting rows are removed in every profile.
UpdateRowOverwrites(k, nk, r) ==
  LET moved == {k} \ {nk}
      kept == Without(next, {k})
      C == ConflictsIn(kept, nk, r) IN
  /\ Scanning(k) /\ (enforce \/ k \notin toDelete)
  /\ nk = k \/ "id" \in UpdateCols
  /\ r \in Rewrites(rows[k], UpdateCols)
  /\ next' = Put(Without(kept, C), nk, r)
  /\ toDelete' = toDelete \cup moved \cup C
  /\ changed' = Put(Without(changed, moved \cup C), nk, r)

\* The row matches and becomes r under key nk.
UpdateRow(k, nk, r) ==
  LET moved == {k} \ {nk}
      kept == Without(next, {k})
      C == IF enforce THEN {} ELSE ConflictsIn(kept, nk, r) IN
  /\ Scanning(k) /\ (enforce \/ k \notin toDelete)
  /\ nk = k \/ "id" \in UpdateCols
  /\ r \in Rewrites(rows[k], UpdateCols)
  /\ enforce => nk \notin Live(kept)
  /\ next' = Put(Without(kept, C), nk, r)
  /\ toDelete' = toDelete \cup moved \cup C
  /\ changed' = Put(Without(changed, moved \cup C), nk, r)

\* An expression or a check fails, the new key is taken, or the rows as a whole
\* break a unique key: no row was touched yet.
UpdateReject ==
  /\ pc = "update"
  /\ pc' = "idle" /\ ClearWork
  /\ UNCHANGED <<enforce, memory, disk, history, nstmt, nopen>>

\* Mutant: the rows are not validated as a whole.
UpdateInstallUnchecked ==
  /\ pc = "update" /\ todo = {}
  /\ pc' = "write"
  /\ rows' = next
  /\ index' = AddToIndex(RemoveFromIndex(index, rows, Touched), changed, Live(changed))
  /\ delLeft' = toDelete /\ putLeft' = Live(changed) /\ step' = 0
  /\ UNCHANGED <<enforce, autoInc, disk, mode, room, scan, batch, history, nstmt, nopen>>

\* Mutant: every changed row is deleted in storage before it is rewritten.
UpdateInstallDeletesAll ==
  /\ pc = "update" /\ todo = {}
  /\ enforce => UniqueOK(next)
  /\ pc' = "write"
  /\ rows' = next
  /\ index' = AddToIndex(RemoveFromIndex(index, rows, Touched), changed, Live(changed))
  /\ delLeft' = Touched /\ putLeft' = Live(changed) /\ step' = 0
  /\ UNCHANGED <<enforce, autoInc, disk, mode, room, scan, batch, history, nstmt, nopen>>

\* validate_unique_constraints, then rows, index and the pipeline.
UpdateInstall ==
  /\ pc = "update" /\ todo = {}
  /\ enforce => UniqueOK(next)
  /\ pc' = "write"
  /\ rows' = next
  /\ index' = AddToIndex(RemoveFromIndex(index, rows, Touched), changed, Live(changed))
  /\ delLeft' = toDelete /\ putLeft' = Live(changed) /\ step' = 0
  /\ UNCHANGED <<enforce, autoInc, disk, mode, room, scan, batch, history, nstmt, nopen>>

-----------------------------------------------------------------------------
(* DELETE, TRUNCATE                                                        *)

\* Mutant: DELETE changes memory only.
DeleteInMemory(S) ==
  /\ Begin /\ S # {} /\ S \subseteq Live(rows)
  /\ pc' = "write"
  /\ rows' = Without(rows, S) /\ index' = RemoveFromIndex(index, rows, S)
  /\ UNCHANGED <<autoInc, mode, room, scan, batch, pipe, history>>

\* DELETE of the rows S; with no candidate it returns at once.
Delete(S) ==
  /\ Begin /\ S # {} /\ S \subseteq Live(rows)
  /\ pc' = "write"
  /\ rows' = Without(rows, S) /\ index' = RemoveFromIndex(index, rows, S)
  /\ toDelete' = S /\ delLeft' = S
  /\ UNCHANGED <<autoInc, mode, room, scan, changed, putLeft, step, history>>

\* DELETE with several tables, of this table's rows S: they leave the store one
\* by one, with the commands of the pipeline, while memory still has them.
DeleteJoined(S) ==
  /\ Begin /\ S # {} /\ S \subseteq Live(rows)
  /\ pc' = "joined" /\ toDelete' = S /\ delLeft' = S
  /\ UNCHANGED <<memory, mode, room, scan, changed, putLeft, step, history>>

\* Then the rows that are left replace the table, and it is indexed again.
JoinedInstall ==
  /\ pc = "joined" /\ delLeft = {}
  /\ pc' = "idle" /\ ClearWork
  /\ rows' = Without(rows, toDelete) /\ index' = BuildIndex(rows')
  /\ acked' = Without(acked, toDelete) /\ dirty' = dirty \ toDelete
  /\ UNCHANGED <<enforce, autoInc, disk, strays, orphans, broken, nstmt, nopen>>

\* TRUNCATE empties memory, then asks the store for the hashes to delete.
Truncate ==
  /\ Begin
  /\ pc' = "trunc"
  /\ rows' = EmptyTable /\ index' = BuildIndex(EmptyTable) /\ autoInc' = 0
  /\ todo' = Live(hash)
  /\ UNCHANGED <<mode, room, lookup, next, batch, pipe, history>>

TruncateHash(k) ==
  /\ pc = "trunc" /\ k \in todo /\ todo' = todo \ {k}
  /\ hash' = Put(hash, k, NoRow) /\ orphans' = orphans \ {k}
  /\ UNCHANGED <<enforce, memory, pks, storedAuto, pc, mode, room, lookup, next,
                 batch, pipe, acked, dirty, strays, broken, nstmt, nopen>>

TruncatePks ==
  /\ pc = "trunc" /\ todo = {} /\ pc' = "truncAuto" /\ pks' = {}
  /\ UNCHANGED <<enforce, memory, hash, storedAuto, mode, room, scan, batch, pipe,
                 history, nstmt, nopen>>

\* persist_auto_inc removes the counter's field; TRUNCATE returns.
TruncateAuto ==
  /\ pc = "truncAuto" /\ pc' = "idle" /\ storedAuto' = autoInc
  /\ acked' = EmptyTable /\ dirty' = {} /\ strays' = {}
  /\ UNCHANGED <<enforce, memory, pks, hash, mode, room, scan, batch, pipe, orphans,
                 broken, nstmt, nopen>>

-----------------------------------------------------------------------------
(* The pipeline of persist_row_batch, one command at a time                *)

Piping ==
  /\ pc \in {"write", "joined"}
  /\ UNCHANGED <<enforce, memory, storedAuto, pc, mode, room, scan, batch, acked,
                 dirty, strays, broken, nstmt, nopen>>

SRem(k) ==
  /\ Piping /\ IsFirst(k, delLeft) /\ step = 0 /\ step' = 1
  /\ pks' = pks \ {k}
  /\ UNCHANGED <<hash, delLeft, putLeft, orphans>>

Del(k) ==
  /\ Piping /\ IsFirst(k, delLeft) /\ step = 1 /\ step' = 0
  /\ hash' = Put(hash, k, NoRow) /\ delLeft' = delLeft \ {k}
  /\ orphans' = orphans \ {k}
  /\ UNCHANGED <<pks, putLeft>>

Putting(k) == Piping /\ pc = "write" /\ delLeft = {} /\ IsFirst(k, putLeft)

SAdd(k) ==
  /\ Putting(k) /\ step = 0 /\ step' = 1
  /\ pks' = pks \cup {k}
  /\ UNCHANGED <<hash, delLeft, putLeft, orphans>>

\* The old hash goes first.
DelOld(k) ==
  /\ Putting(k) /\ step = 1 /\ step' = 2
  /\ hash' = Put(hash, k, NoRow) /\ orphans' = orphans \ {k}
  /\ UNCHANGED <<pks, delLeft, putLeft>>

\* The row's own fields and its id, then u.
HSet(k) ==
  /\ Putting(k) /\ step \in {2, 3} /\ step' = step + 1
  /\ hash' = Put(hash, k, [u |-> IF step = 3 THEN changed[k].u ELSE NULL, w |-> NULL])
  /\ UNCHANGED <<pks, delLeft, putLeft, orphans>>

\* The last field, w, completes the row.
HSetLast(k) ==
  /\ Putting(k) /\ step = 4 /\ step' = 0
  /\ hash' = Put(hash, k, changed[k]) /\ putLeft' = putLeft \ {k}
  /\ UNCHANGED <<pks, delLeft, orphans>>

\* The pipeline is done and the statement answers OK.
Answer ==
  /\ pc = "write" /\ delLeft = {} /\ putLeft = {}
  /\ pc' = "idle" /\ ClearWork
  /\ acked' = [k \in Keys |-> IF k \in Touched THEN rows[k] ELSE acked[k]]
  /\ dirty' = dirty \ Touched
  /\ UNCHANGED <<enforce, memory, disk, strays, orphans, broken, nstmt, nopen>>

-----------------------------------------------------------------------------
\* The process exits between statements, or dies anywhere if Crashes, and the
\* directory is opened again: memory is what load_from_storage finds.
Reopen ==
  /\ nopen < MaxOpens /\ nopen' = nopen + 1
  /\ pc = "idle" \/ Crashes
  /\ pc' = "idle" /\ ClearWork
  /\ rows' = Load /\ autoInc' = storedAuto /\ index' = BuildIndex(Load)
  /\ acked' = Load /\ dirty' = {}
  /\ orphans' = {k \in Keys \ pks : hash[k] # NoRow}
  /\ broken' = (broken \/ ~UniqueOK(Load))
  /\ UNCHANGED <<enforce, disk, strays, nstmt>>

Insert ==
  \/ \E m \in Modes : BeginInsert(m)
  \/ pc = "insert" /\ \E k \in Keys, r \in Row :
       \/ InsertStore(k, r) \/ InsertSkip(k, r) \/ InsertConflict(k, r)
       \/ \E c \in Keys, x \in Row : InsertUpsert(k, r, c, x) \/ InsertUpsertError(k, r, c, x)
  \/ InsertReject \/ InsertSkipOrphan \/ InsertDone \/ PersistAuto

Update ==
  \/ BeginUpdate
  \/ \E k \in Keys : UpdateSkip(k)
  \/ pc = "update" /\ \E k, nk \in Keys, r \in Row : UpdateRow(k, nk, r)
  \/ UpdateReject \/ UpdateInstall

Remove ==
  \/ \E S \in SUBSET Keys : Delete(S) \/ DeleteJoined(S)
  \/ JoinedInstall \/ Truncate \/ TruncatePks \/ TruncateAuto
  \/ \E k \in Keys : TruncateHash(k)

Persist ==
  \/ \E k \in Keys : SRem(k) \/ Del(k) \/ SAdd(k) \/ DelOld(k) \/ HSet(k) \/ HSetLast(k)
  \/ Answer

Next == Insert \/ Update \/ Remove \/ Persist \/ Reopen

Spec == Init /\ [][Next]_vars

-----------------------------------------------------------------------------
(* Properties                                                              *)

\* With uniqueness enforced no two rows in memory share a non-NULL unique
\* value, between statements and inside them, as long as no reopening has found
\* duplicates on disk: statements alone never make one
\* (insert_prepared_rows, validate_unique_constraints).
UniqueKeys == enforce /\ ~broken => UniqueOK(rows)

\* The secondary index lists exactly the keys of the rows holding each value,
\* through inserts, removals, upserts, updates and reopening
\* (add_row_to_indexes, remove_row_from_indexes, rebuild_indexes).
IndexExact == index = BuildIndex(rows)

\* Between statements a reopen would find every row as memory has it, except
\* the rows a failed statement left behind in memory (persist_row_batch).
StorageMirrorsMemory ==
  pc = "idle" => \A k \in Keys \ dirty : Durable(k) = rows[k]

\* At any moment a crash leaves each row as the last answered statement left
\* it, or as the running statement wrote it, or absent if the running
\* statement removes it; the exceptions are the one row whose fields are being
\* written, and a hash without a set entry, left by an earlier crash, whose key
\* is being added again.
CrashSafe ==
  \A k \in Keys :
    \/ Durable(k) = acked[k]
    \/ pc = "write" /\ k \in Live(changed) /\ Durable(k) = changed[k]
    \/ pc \in {"write", "joined"} /\ k \in toDelete /\ Durable(k) = NoRow
    \/ pc \in {"trunc", "truncAuto"} /\ Durable(k) = NoRow
    \/ pc = "write" /\ k \in orphans /\ Durable(k) = hash[k]
    \/ pc = "write" /\ step > 1 /\ IsFirst(k, putLeft)

\* The next generated id is above every row in memory, and after a crash it
\* is above every row on disk, but for rows a failed INSERT left in memory
\* (persist_auto_inc runs before persist_row_batch, and not at all on failure).
AutoIncCovers ==
  \A k \in Keys \ strays :
    /\ rows[k] # NoRow => k <= autoInc
    /\ Durable(k) # NoRow => k <= storedAuto

\* With uniqueness enforced an UPDATE that succeeds keeps the number of rows: a
\* row whose new key is taken is an error ("primary key conflict"), it never
\* replaces the other row or vanishes (update_rows).
UpdateKeepsRows ==
  [][pc = "update" /\ pc' = "write" /\ enforce
       => Cardinality(Live(rows')) = Cardinality(Live(rows))]_vars
=============================================================================
