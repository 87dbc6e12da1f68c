-------------------------- MODULE ConcurrentInsert --------------------------
(***************************************************************************)
(* INSERT statements of several connections on one table of a persistent   *)
(* engine with enforced uniqueness (insert_prepared_rows, persist_auto_inc *)
(* and persist_row_batch).  Every connection of the wire server has its    *)
(* thread, and no lock is held for a whole statement: the unique lookup is *)
(* built once when the statement begins, the counter is advanced on its    *)
(* own, each row is checked and stored under the guard of the table's      *)
(* entry in the row map, and the counter to be persisted is read before it *)
(* is written.                                                             *)
(*                                                                         *)
(* The commands that write one row touch no other row's key, and no two    *)
(* INSERTs write one key, so a row is written in one step here; TableStore *)
(* has the commands.                                                       *)
(***************************************************************************)
EXTENDS TableOps

CONSTANTS
  Sessions,   \* connections
  NoneTaken,  \* a session has no row in hand
  MaxStmts,   \* bound: statements in a behaviour
  MaxBatch    \* bound: rows in one INSERT

Taken == [key : Keys, row : Row, generated : BOOLEAN]

ASSUME NoneTakenAssumption == NoneTaken \notin Taken
ASSUME BoundsAssumption == MaxStmts \in Nat /\ MaxBatch \in Nat

VARIABLES
  rows, autoInc, index,  \* Engine.rows, auto_inc and indexes of the table
  disk, storedAuto,      \* the rows and the counter a reopening would load
  pc, room,              \* where each session's statement is, the rows it may still have
  lookup,                \* its unique_lookup
  taken,                 \* the row in hand: id, contents, whether the id was generated
  changed, putLeft,      \* its rows_to_persist, and the keys not written yet
  seen,                  \* the counter it is about to persist
  acked,                 \* history: the rows of the answered statements
  dirty,                 \* history: keys a failed statement left in memory only
  nstmt

memory == <<rows, autoInc, index>>
history == <<acked, dirty>>
locals == <<pc, room, lookup, taken, changed, putLeft, seen>>
vars == <<memory, disk, storedAuto, locals, history, nstmt>>

TypeOK ==
  /\ rows \in Table /\ autoInc \in Nat /\ index \in Index
  /\ disk \in Table /\ storedAuto \in Nat
  /\ pc \in [Sessions -> {"idle", "row", "apply", "counter", "write"}]
  /\ room \in [Sessions -> 0..MaxBatch]
  /\ lookup \in [Sessions -> Lookup]
  /\ taken \in [Sessions -> Taken \cup {NoneTaken}]
  /\ changed \in [Sessions -> Table] /\ putLeft \in [Sessions -> SUBSET Keys]
  /\ seen \in [Sessions -> Nat]
  /\ acked \in Table /\ dirty \subseteq Keys /\ nstmt \in 0..MaxStmts

Init ==
  /\ rows = EmptyTable /\ autoInc = 0 /\ index = BuildIndex(EmptyTable)
  /\ disk = EmptyTable /\ storedAuto = 0
  /\ pc = [s \in Sessions |-> "idle"] /\ room = [s \in Sessions |-> 0]
  /\ lookup = [s \in Sessions |-> BuildLookup(EmptyTable)]
  /\ taken = [s \in Sessions |-> NoneTaken]
  /\ changed = [s \in Sessions |-> EmptyTable] /\ putLeft = [s \in Sessions |-> {}]
  /\ seen = [s \in Sessions |-> 0]
  /\ acked = EmptyTable /\ dirty = {} /\ nstmt = 0

Goto(s, from, to) == pc[s] = from /\ pc' = [pc EXCEPT ![s] = to]

Begin(s) ==
  /\ Goto(s, "idle", "row") /\ nstmt < MaxStmts /\ nstmt' = nstmt + 1
  /\ room' = [room EXCEPT ![s] = MaxBatch]
  /\ lookup' = [lookup EXCEPT ![s] = BuildLookup(rows)]
  /\ changed' = [changed EXCEPT ![s] = EmptyTable]
  /\ UNCHANGED <<memory, disk, storedAuto, taken, putLeft, seen, history>>

Take(s, k, r, generated) ==
  /\ Goto(s, "row", "apply") /\ room[s] > 0
  /\ taken' = [taken EXCEPT ![s] = [key |-> k, row |-> r, generated |-> generated]]
  /\ UNCHANGED <<rows, index, disk, storedAuto, room, lookup, changed, putLeft, seen,
                 history, nstmt>>

\* Mutant: the counter is read here and advanced when the row is stored.
TakeGeneratedEarly(s, k, r) ==
  /\ Take(s, k, r, TRUE) /\ k = autoInc + 1 /\ UNCHANGED autoInc

\* next_auto_inc, under the guard of the counter's entry
TakeGenerated(s, k, r) ==
  /\ Take(s, k, r, TRUE) /\ k = autoInc + 1 /\ autoInc' = k

\* An id in the statement lifts the counter.
TakeExplicit(s, k, r) ==
  /\ Take(s, k, r, FALSE) /\ autoInc' = IF k > autoInc THEN k ELSE autoInc

Leave(s) == taken' = [taken EXCEPT ![s] = NoneTaken]

\* Mutant: the primary key is not looked up in the live rows.
StoreRowByLookup(s) ==
  LET k == taken[s].key
      r == taken[s].row IN
  /\ Goto(s, "apply", "row") /\ Leave(s)
  /\ r.u \in UVals => lookup[s][r.u] = {}
  /\ rows' = Put(rows, k, r) /\ index' = AddToIndex(index, rows', {k})
  /\ lookup' = [lookup EXCEPT ![s] = AddToLookup(@, k, r)]
  /\ changed' = [changed EXCEPT ![s] = Put(@, k, r)]
  /\ room' = [room EXCEPT ![s] = @ - 1]
  /\ UNCHANGED <<autoInc, disk, storedAuto, putLeft, seen, history, nstmt>>

\* Mutant: the index is rebuilt from the rows the statement changed.
StoreRowRebuilds(s) ==
  LET k == taken[s].key
      r == taken[s].row IN
  /\ Goto(s, "apply", "row") /\ Leave(s)
  /\ ConflictKeys(rows, lookup[s], k, r) = {}
  /\ changed' = [changed EXCEPT ![s] = Put(@, k, r)]
  /\ rows' = Put(rows, k, r) /\ index' = BuildIndex(changed'[s])
  /\ lookup' = [lookup EXCEPT ![s] = AddToLookup(@, k, r)]
  /\ room' = [room EXCEPT ![s] = @ - 1]
  /\ UNCHANGED <<autoInc, disk, storedAuto, putLeft, seen, history, nstmt>>

\* The row is checked, stored and indexed under the guard of the table's rows;
\* the unique column is checked against the statement's own lookup.
StoreRow(s) ==
  LET k == taken[s].key
      r == taken[s].row IN
  /\ Goto(s, "apply", "row") /\ Leave(s)
  /\ ConflictKeys(rows, lookup[s], k, r) = {}
  /\ rows' = Put(rows, k, r) /\ index' = AddToIndex(index, rows', {k})
  /\ lookup' = [lookup EXCEPT ![s] = AddToLookup(@, k, r)]
  /\ changed' = [changed EXCEPT ![s] = Put(@, k, r)]
  /\ room' = [room EXCEPT ![s] = @ - 1]
  /\ UNCHANGED <<autoInc, disk, storedAuto, putLeft, seen, history, nstmt>>

\* A conflict ends the statement; the rows it stored stay in memory.
Conflict(s) ==
  /\ Goto(s, "apply", "idle") /\ Leave(s)
  /\ ConflictKeys(rows, lookup[s], taken[s].key, taken[s].row) # {}
  /\ dirty' = dirty \cup Live(changed[s])
  /\ changed' = [changed EXCEPT ![s] = EmptyTable]
  /\ UNCHANGED <<memory, disk, storedAuto, room, lookup, putLeft, seen, acked, nstmt>>

\* A row fails validation before its id is resolved.
Reject(s) ==
  /\ Goto(s, "row", "idle") /\ room[s] > 0
  /\ dirty' = dirty \cup Live(changed[s])
  /\ changed' = [changed EXCEPT ![s] = EmptyTable]
  /\ UNCHANGED <<memory, disk, storedAuto, room, lookup, taken, putLeft, seen, acked, nstmt>>

\* The rows are done; persist_auto_inc reads the counter ...
ReadCounter(s) ==
  /\ Goto(s, "row", "counter") /\ seen' = [seen EXCEPT ![s] = autoInc]
  /\ UNCHANGED <<memory, disk, storedAuto, room, lookup, taken, changed, putLeft,
                 history, nstmt>>

\* Mutant: the rows are queued for a later write.
WriteCounterQueues(s) ==
  /\ Goto(s, "counter", "write") /\ storedAuto' = seen[s]
  /\ UNCHANGED <<memory, disk, room, lookup, taken, changed, putLeft, seen, history, nstmt>>

\* ... asks the store for the fields it has, and writes what it read.
WriteCounter(s) ==
  /\ Goto(s, "counter", "write") /\ storedAuto' = seen[s]
  /\ putLeft' = [putLeft EXCEPT ![s] = Live(changed[s])]
  /\ UNCHANGED <<memory, disk, room, lookup, taken, changed, seen, history, nstmt>>

WriteRow(s, k) ==
  /\ pc[s] = "write" /\ IsFirst(k, putLeft[s])
  /\ disk' = Put(disk, k, changed[s][k])
  /\ putLeft' = [putLeft EXCEPT ![s] = @ \ {k}]
  /\ UNCHANGED <<memory, storedAuto, pc, room, lookup, taken, changed, seen, history, nstmt>>

\* Mutant: the statement answers before its pipeline is done.
AnswerEarly(s) ==
  /\ Goto(s, "write", "idle")
  /\ acked' = [k \in Keys |-> IF k \in Live(changed[s]) THEN changed[s][k] ELSE acked[k]]
  /\ changed' = [changed EXCEPT ![s] = EmptyTable]
  /\ UNCHANGED <<memory, disk, storedAuto, room, lookup, taken, putLeft, seen, dirty, nstmt>>

Answer(s) ==
  /\ Goto(s, "write", "idle") /\ putLeft[s] = {}
  /\ acked' = [k \in Keys |-> IF k \in Live(changed[s]) THEN changed[s][k] ELSE acked[k]]
  /\ changed' = [changed EXCEPT ![s] = EmptyTable]
  /\ UNCHANGED <<memory, disk, storedAuto, room, lookup, taken, putLeft, seen, dirty, nstmt>>

Next ==
  \E s \in Sessions :
    \/ Begin(s)
    \/ \E k \in Keys, r \in Row : TakeGenerated(s, k, r) \/ TakeExplicit(s, k, r)
    \/ StoreRow(s) \/ Conflict(s) \/ Reject(s)
    \/ ReadCounter(s) \/ WriteCounter(s)
    \/ \E k \in Keys : WriteRow(s, k)
    \/ Answer(s)

Spec == Init /\ [][Next]_vars

-----------------------------------------------------------------------------
(* Properties                                                              *)

\* No INSERT of any connection replaces or removes a row that is there, however
\* old the lookup is that its statement carries.
NoClobber == [][\A k \in Live(rows) : rows'[k] = rows[k]]_vars

\* No two connections hold the same generated id, and no generated id will be
\* one that a row has or that a statement has taken (next_auto_inc and the
\* max() with explicit ids).
FreshIds ==
  LET taking == {s \in Sessions : taken[s] # NoneTaken} IN
  /\ \A k \in Live(rows) \cup {taken[s].key : s \in taking} : k <= autoInc
  /\ \A s, t \in taking : taken[s].generated /\ taken[t].generated
       /\ taken[s].key = taken[t].key => s = t

\* The index lists exactly the rows holding each value, although several
\* statements add to it between each other's rows.
IndexExact == index = BuildIndex(rows)

\* A row whose INSERT was answered is in memory and on disk, at every moment
\* after the answer, whatever the other connections do.
AckedRowsStay ==
  \A k \in Live(acked) : rows[k] = acked[k] /\ disk[k] = acked[k]

\* When no statement runs, memory holds no row that a reopening would not find,
\* but for the rows of failed statements.
QuietMirrors ==
  (\A s \in Sessions : pc[s] = "idle") => \A k \in Keys \ dirty : disk[k] = rows[k]

\* README: "The strict profile always enforces unique keys."
UniqueKeys == UniqueOK(rows)
=============================================================================
