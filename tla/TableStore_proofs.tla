-------------------------- MODULE TableStore_proofs --------------------------
(***************************************************************************)
(* Theorems about TableStore for every set of keys, values and payloads    *)
(* and every bound: the types and the unique keys first, then what relates *)
(* the parts of the state to each other.  The index and the stored rows    *)
(* follow the rows in memory, and the counter covers them.                 *)
(***************************************************************************)
EXTENDS TableStore, TableOps_lemmas

USE DEF memory, disk, scan, batch, pipe, history, vars

\* A statement that returns leaves well-typed local variables.
LEMMA ClearWorkTypes ==
  ASSUME ClearWork
  PROVE  /\ mode' \in Modes /\ room' \in 0..MaxBatch
         /\ lookup' \in Lookup /\ todo' \subseteq Keys /\ next' \in Table
         /\ toDelete' \subseteq Keys /\ changed' \in Table
         /\ delLeft' \subseteq Keys /\ putLeft' = {} /\ step' \in 0..4
<1>1. lookup' \in Lookup
  BY DEF ClearWork, EmptyLookup, Lookup
<1>2. room' \in 0..MaxBatch
  BY BoundsAssumption DEF ClearWork
<1>3. next' \in Table /\ changed' \in Table
  BY TableTypes DEF ClearWork
<1> QED BY <1>1, <1>2, <1>3 DEF ClearWork, Modes

\* The rows a reopening loads are a table.
LEMMA LoadType ==
  ASSUME TypeOK
  PROVE  Load \in Table
BY DEF TypeOK, Load, Durable, Table

\* The steps of an INSERT keep the types.
LEMMA InsertTypes ==
  ASSUME TypeOK, Insert
  PROVE  TypeOK'
<1> USE TableTypes, LookupTypes, IndexTypes, KeysAssumption, BoundsAssumption
<1>1. ASSUME NEW m \in Modes, BeginInsert(m)
      PROVE  TypeOK'
  BY <1>1 DEF TypeOK, BeginInsert, Begin
<1>2. ASSUME NEW k \in Keys, NEW r \in Row, InsertStore(k, r)
      PROVE  TypeOK'
  <2> DEFINE gone == ConflictKeys(rows, lookup, k, r) \cap Live(rows)
  <2>1. gone \in SUBSET Keys /\ {k} \in SUBSET Keys
    BY LiveRows DEF TypeOK
  <2>2. rows' \in Table /\ changed' \in Table /\ toDelete' \subseteq Keys
    BY <1>2, <2>1 DEF TypeOK, InsertStore, Store
  <2>3. lookup' \in Lookup
    <3>1. RemoveFromLookup(lookup, rows, gone) \in Lookup
      BY <2>1 DEF TypeOK
    <3> QED BY <1>2, <3>1 DEF InsertStore, Store
  <2>4. index' \in Index
    <3>1. RemoveFromIndex(index, rows, gone) \in Index /\ Put(EmptyTable, k, r) \in Table
      BY <2>1 DEF TypeOK
    <3> QED BY <1>2, <2>1, <3>1 DEF InsertStore, Store
  <2>5. autoInc' \in Nat /\ room' \in 0..MaxBatch
    BY <1>2 DEF TypeOK, InsertStore, TakeId, NextRow
  <2> QED BY <1>2, <2>2, <2>3, <2>4, <2>5 DEF TypeOK, InsertStore, NextRow
<1>3. ASSUME NEW k \in Keys, NEW r \in Row, InsertSkip(k, r)
      PROVE  TypeOK'
  BY <1>3 DEF TypeOK, InsertSkip, TakeId, NextRow
<1>4. ASSUME NEW k \in Keys, NEW r \in Row, InsertConflict(k, r)
      PROVE  TypeOK'
  BY <1>4, ClearWorkTypes, LiveRows DEF TypeOK, InsertConflict, TakeId, Fail
<1>5. ASSUME NEW k \in Keys, NEW r \in Row, NEW c \in Keys, NEW x \in Row,
             InsertUpsert(k, r, c, x)
      PROVE  TypeOK'
  <2>1. rows' \in Table /\ changed' \in Table /\ {c} \in SUBSET Keys
    BY <1>5 DEF TypeOK, InsertUpsert
  <2>2. lookup' \in Lookup
    <3>1. RemoveFromLookup(lookup, rows, {c}) \in Lookup
      BY <2>1 DEF TypeOK
    <3> QED BY <1>5, <3>1 DEF InsertUpsert
  <2>3. index' \in Index
    <3>1. RemoveFromIndex(index, rows, {c}) \in Index
      BY <2>1 DEF TypeOK
    <3> QED BY <1>5, <2>1, <3>1 DEF InsertUpsert
  <2>4. autoInc' \in Nat /\ room' \in 0..MaxBatch
    BY <1>5 DEF TypeOK, InsertUpsert, Upserts, TakeId, NextRow
  <2>5. pc = "insert" /\ NextRow /\ UNCHANGED toDelete
    BY <1>5 DEF InsertUpsert, Upserts
  <2> QED BY <2>1, <2>2, <2>3, <2>4, <2>5 DEF TypeOK, NextRow
<1>6. ASSUME NEW k \in Keys, NEW r \in Row, NEW c \in Keys, NEW x \in Row,
             InsertUpsertError(k, r, c, x)
      PROVE  TypeOK'
  <2>1. rows' \in Table /\ autoInc' \in Nat
    BY <1>6 DEF TypeOK, InsertUpsertError, TakeId
  <2>2. dirty' \subseteq Keys /\ strays' \subseteq Keys
    BY <1>6, LiveRows DEF TypeOK, InsertUpsertError, Touched
  <2> QED BY <1>6, <2>1, <2>2, ClearWorkTypes DEF TypeOK, InsertUpsertError
<1>7. ASSUME InsertReject
      PROVE  TypeOK'
  BY <1>7, ClearWorkTypes, LiveRows DEF TypeOK, InsertReject, Fail
<1>8. ASSUME InsertSkipOrphan
      PROVE  TypeOK'
  BY <1>8 DEF TypeOK, InsertSkipOrphan, NextRow
<1>9. ASSUME InsertDone
      PROVE  TypeOK'
  BY <1>9 DEF TypeOK, InsertDone
<1>10. ASSUME PersistAuto
       PROVE  TypeOK'
  <2>1. putLeft' \subseteq Live(changed)' /\ pc' = "write" /\ Live(changed) \subseteq Keys
    BY <1>10, LiveRows DEF TypeOK, PersistAuto
  <2>2. strays' \subseteq Keys
    BY <1>10 DEF TypeOK, PersistAuto
  <2>3. step' \in 0..4 /\ storedAuto' \in Nat
    BY <1>10 DEF TypeOK, PersistAuto
  <2>4. UNCHANGED <<enforce, memory, pks, hash, mode, room, scan, batch, acked, dirty,
                    orphans, broken, nstmt, nopen>>
    BY <1>10 DEF PersistAuto
  <2>5. delLeft' \subseteq Keys
    BY <1>10 DEF TypeOK, PersistAuto
  <2> QED BY <2>1, <2>2, <2>3, <2>4, <2>5 DEF TypeOK
<1> QED BY <1>1, <1>2, <1>3, <1>4, <1>5, <1>6, <1>7, <1>8, <1>9, <1>10 DEF Insert

\* The steps of an UPDATE keep the types.
LEMMA UpdateTypes ==
  ASSUME TypeOK, Update
  PROVE  TypeOK'
<1> USE TableTypes, IndexTypes, BoundsAssumption
<1>1. ASSUME BeginUpdate
      PROVE  TypeOK'
  BY <1>1, LiveRows DEF TypeOK, BeginUpdate, Begin
<1>2. ASSUME NEW k \in Keys, UpdateSkip(k)
      PROVE  TypeOK'
  <2>1. Put(next, k, rows[k]) \in Table
    BY <1>2 DEF TypeOK, Scanning, Table, Put
  <2>2. next' \in Table
    BY <1>2, <2>1 DEF TypeOK, UpdateSkip
  <2> QED BY <1>2, <2>2 DEF TypeOK, UpdateSkip, Scanning
<1>3. ASSUME NEW k \in Keys, NEW nk \in Keys, NEW r \in Row, UpdateRow(k, nk, r)
      PROVE  TypeOK'
  <2> DEFINE moved == {k} \ {nk}
             kept == Without(next, {k})
             C == IF enforce THEN {} ELSE ConflictsIn(kept, nk, r)
  <2>1. kept \in Table /\ moved \in SUBSET Keys
    BY DEF TypeOK
  <2>2. C \in SUBSET Keys
    BY <2>1, ConflictTypes
  <2>3. next' \in Table
    <3>1. Without(kept, C) \in Table
      BY <2>1, <2>2
    <3> QED BY <1>3, <3>1 DEF UpdateRow
  <2>4. changed' \in Table /\ toDelete' \subseteq Keys
    <3>1. moved \cup C \in SUBSET Keys
      BY <2>1, <2>2
    <3>2. Without(changed, moved \cup C) \in Table
      BY <3>1 DEF TypeOK
    <3>3. changed' \in Table
      BY <1>3, <3>2 DEF UpdateRow
    <3>4. toDelete' = toDelete \cup moved \cup C
      BY <1>3 DEF UpdateRow
    <3> QED BY <3>1, <3>3, <3>4 DEF TypeOK
  <2>5. Scanning(k)
    BY <1>3 DEF UpdateRow
  <2> QED BY <2>3, <2>4, <2>5 DEF TypeOK, Scanning
<1>4. ASSUME UpdateReject
      PROVE  TypeOK'
  BY <1>4, ClearWorkTypes DEF TypeOK, UpdateReject
<1>5. ASSUME UpdateInstall
      PROVE  TypeOK'
  <2>1. Touched \in SUBSET Keys /\ Live(changed) \in SUBSET Keys
    BY LiveRows DEF TypeOK, Touched
  <2>2. index' \in Index
    <3>1. RemoveFromIndex(index, rows, Touched) \in Index
      BY <2>1 DEF TypeOK
    <3> QED BY <1>5, <2>1, <3>1 DEF TypeOK, UpdateInstall
  <2> QED BY <1>5, <2>1, <2>2 DEF TypeOK, UpdateInstall
<1> QED BY <1>1, <1>2, <1>3, <1>4, <1>5 DEF Update

\* The steps of DELETE, TRUNCATE and the pipeline, and a reopening, keep the types.
LEMMA OtherTypes ==
  ASSUME TypeOK, Remove \/ Persist \/ Reopen
  PROVE  TypeOK'
<1> USE TableTypes, IndexTypes, BoundsAssumption
<1>1. ASSUME NEW S \in SUBSET Keys, Delete(S)
      PROVE  TypeOK'
  BY <1>1 DEF TypeOK, Delete, Begin
<1>10. ASSUME NEW S \in SUBSET Keys, DeleteJoined(S)
       PROVE  TypeOK'
  BY <1>10 DEF TypeOK, DeleteJoined, Begin
<1>11. ASSUME JoinedInstall
       PROVE  TypeOK'
  <2>1. /\ rows' \in Table /\ acked' \in Table
        /\ dirty' \subseteq Keys
    BY <1>11 DEF TypeOK, JoinedInstall
  <2>2. index' \in Index
    BY <1>11, <2>1 DEF JoinedInstall
  <2> QED BY <1>11, <2>1, <2>2, ClearWorkTypes DEF TypeOK, JoinedInstall
<1>2. ASSUME Truncate
      PROVE  TypeOK'
  BY <1>2, LiveRows DEF TypeOK, Truncate, Begin
<1>3. ASSUME NEW k \in Keys, TruncateHash(k)
      PROVE  TypeOK'
  BY <1>3 DEF TypeOK, TruncateHash
<1>4. ASSUME TruncatePks \/ TruncateAuto
      PROVE  TypeOK'
  BY <1>4 DEF TypeOK, TruncatePks, TruncateAuto
<1>5. ASSUME NEW k \in Keys, SRem(k) \/ SAdd(k)
      PROVE  TypeOK'
  BY <1>5 DEF TypeOK, SRem, SAdd, Putting, Piping
<1>6. ASSUME NEW k \in Keys, Del(k) \/ DelOld(k)
      PROVE  TypeOK'
  BY <1>6 DEF TypeOK, Del, DelOld, Putting, Piping
<1>7. ASSUME NEW k \in Keys, HSet(k) \/ HSetLast(k)
      PROVE  TypeOK'
  <2>1. changed[k] \in Row
    BY <1>7, LiveRows DEF TypeOK, HSet, HSetLast, Putting, Piping, IsFirst
  <2>2. hash' \in Table
    <3>1. /\ [u |-> NULL, w |-> NULL] \in Row
          /\ [u |-> changed[k].u, w |-> NULL] \in Row
      BY <2>1, PayloadsAssumption DEF Row
    <3> QED BY <1>7, <2>1, <3>1 DEF TypeOK, HSet, HSetLast
  <2>3. step' \in 0..4 /\ putLeft' \subseteq putLeft
    BY <1>7 DEF TypeOK, HSet, HSetLast
  <2> QED BY <1>7, <2>2, <2>3 DEF TypeOK, HSet, HSetLast, Putting, Piping
<1>8. ASSUME Answer
      PROVE  TypeOK'
  <2>1. acked' \in Table
    BY <1>8 DEF TypeOK, Answer, Table
  <2> QED BY <1>8, <2>1, ClearWorkTypes DEF TypeOK, Answer
<1>9. ASSUME Reopen
      PROVE  TypeOK'
  <2>1. index' \in Index
    BY <1>9, LoadType DEF Reopen
  <2>2. broken' \in BOOLEAN
    BY <1>9, Zenon DEF Reopen
  <2>3. orphans' \subseteq Keys /\ nopen' \in 0..MaxOpens
    BY <1>9 DEF TypeOK, Reopen
  <2> QED BY <1>9, <2>1, <2>2, <2>3, ClearWorkTypes, LoadType DEF TypeOK, Reopen
<1> QED BY <1>1, <1>2, <1>3, <1>4, <1>5, <1>6, <1>7, <1>8, <1>9, <1>10, <1>11
        DEF Remove, Persist

\* The initial states are well typed.
LEMMA InitTypes ==
  ASSUME Init
  PROVE  TypeOK
<1>1. lookup \in Lookup
  BY DEF Init, EmptyLookup, Lookup
<1>2. index \in Index
  BY TableTypes, IndexTypes DEF Init
<1>3. /\ room \in 0..MaxBatch /\ nstmt \in 0..MaxStmts /\ nopen \in 0..MaxOpens
      /\ enforce \in BOOLEAN
  BY BoundsAssumption DEF Init
<1>4. putLeft = {} /\ step \in 0..4
  BY DEF Init
<1> QED BY <1>1, <1>2, <1>3, <1>4, TableTypes DEF Init, TypeOK, Modes

\* Every reachable state is well typed: no statement, failure or reopening puts
\* anything else into the row map, the counter, the index or the store.
THEOREM TypeCorrect == Spec => []TypeOK
<1>1. ASSUME TypeOK, [Next]_vars
      PROVE  TypeOK'
  <2>1. CASE Next
    BY <1>1, <2>1, InsertTypes, UpdateTypes, OtherTypes DEF Next
  <2>2. CASE UNCHANGED vars
    BY <1>1, <2>2 DEF TypeOK, Touched
  <2> QED BY <1>1, <2>1, <2>2
<1> QED BY <1>1, InitTypes, PTL DEF Spec

-----------------------------------------------------------------------------
(* Uniqueness.  The inductive invariant adds that the lookup an INSERT built *)
(* when it began has followed every row the statement stored since.          *)

LookupCurrent == pc = "insert" => lookup = BuildLookup(rows)
UniqueInv == TypeOK /\ LookupCurrent /\ UniqueKeys

\* The row loop of an INSERT keeps the lookup current.
LEMMA LookupStep ==
  ASSUME UniqueInv, Next
  PROVE  LookupCurrent'
<1>1. ASSUME NEW k \in Keys, NEW r \in Row, InsertStore(k, r)
      PROVE  LookupCurrent'
  <2> DEFINE C == ConflictKeys(rows, lookup, k, r)
             gone == C \cap Live(rows)
  <2>1. gone \in SUBSET Keys /\ (k \in Live(rows) => k \in gone)
    BY LiveRows DEF UniqueInv, TypeOK, ConflictKeys
  <2>2. lookup = BuildLookup(rows)
    BY <1>1 DEF InsertStore, UniqueInv, LookupCurrent
  <2>3. BuildLookup(Put(Without(rows, gone), k, r))
          = AddToLookup(RemoveFromLookup(BuildLookup(rows), rows, gone), k, r)
    BY <2>1, LookupFollows DEF UniqueInv, TypeOK
  <2>4. /\ rows' = Put(Without(rows, gone), k, r)
        /\ lookup' = AddToLookup(RemoveFromLookup(lookup, rows, gone), k, r)
    BY <1>1 DEF InsertStore, Store
  <2>5. lookup' = BuildLookup(rows')
    BY <2>2, <2>3, <2>4
  <2> QED BY <2>5 DEF LookupCurrent
<1>2. ASSUME NEW k \in Keys, NEW r \in Row, NEW c \in Keys, NEW x \in Row,
             InsertUpsert(k, r, c, x)
      PROVE  LookupCurrent'
  <2>1. lookup = BuildLookup(rows)
    BY <1>2 DEF InsertUpsert, Upserts, UniqueInv, LookupCurrent
  <2>2. Put(rows, c, x) = Put(Without(rows, {c}), c, x)
    BY DEF Put, Without, UniqueInv, TypeOK, Table
  <2>3. BuildLookup(Put(rows, c, x))
          = AddToLookup(RemoveFromLookup(BuildLookup(rows), rows, {c}), c, x)
    BY <2>2, LookupFollows DEF UniqueInv, TypeOK
  <2>4. /\ rows' = Put(rows, c, x)
        /\ lookup' = AddToLookup(RemoveFromLookup(lookup, rows, {c}), c, x)
    BY <1>2 DEF InsertUpsert
  <2>5. lookup' = BuildLookup(rows')
    BY <2>1, <2>3, <2>4
  <2> QED BY <2>5 DEF LookupCurrent
<1>3. ASSUME NEW m \in Modes, BeginInsert(m)
      PROVE  LookupCurrent'
  BY <1>3 DEF BeginInsert, LookupCurrent
<1>4. ASSUME NEW k \in Keys, NEW r \in Row, InsertSkip(k, r) \/ InsertSkipOrphan
      PROVE  LookupCurrent'
  BY <1>4 DEF InsertSkip, InsertSkipOrphan, NextRow, UniqueInv, LookupCurrent
<1>5. ASSUME NEW k \in Keys, NEW r \in Row, InsertConflict(k, r)
      PROVE  LookupCurrent'
  BY <1>5 DEF InsertConflict, Fail, LookupCurrent
<1>6. ASSUME NEW k \in Keys, NEW r \in Row, NEW c \in Keys, NEW x \in Row,
             InsertUpsertError(k, r, c, x)
      PROVE  LookupCurrent'
  BY <1>6 DEF InsertUpsertError, LookupCurrent
<1>7. ASSUME InsertReject \/ InsertDone \/ PersistAuto
      PROVE  LookupCurrent'
  BY <1>7 DEF InsertReject, Fail, InsertDone, PersistAuto, LookupCurrent
<1>8. ASSUME InsertSkipOrphan
      PROVE  LookupCurrent'
  BY <1>8 DEF InsertSkipOrphan, NextRow, UniqueInv, LookupCurrent
<1>9. ASSUME Update
      PROVE  LookupCurrent'
  BY <1>9 DEF Update, BeginUpdate, UpdateSkip, UpdateRow, Scanning,
              UpdateReject, UpdateInstall, LookupCurrent
<1>10. ASSUME Remove
       PROVE  LookupCurrent'
  BY <1>10 DEF Remove, Delete, DeleteJoined, JoinedInstall, Truncate, TruncateHash,
               TruncatePks, TruncateAuto, LookupCurrent
<1>11. ASSUME Persist \/ Reopen
       PROVE  LookupCurrent'
  BY <1>11 DEF Persist, SRem, Del, SAdd, DelOld, HSet, HSetLast, Putting, Piping, Answer, Reopen, LookupCurrent
<1> QED BY <1>1, <1>2, <1>3, <1>4, <1>5, <1>6, <1>7, <1>8, <1>9, <1>10, <1>11
        DEF Next, Insert

\* A row that keeps its unique value when it is rewritten makes no duplicate.
LEMMA UniqueAfterRewrite ==
  ASSUME NEW t \in Table, NEW c \in Live(t), NEW x \in Row, x.u = t[c].u, UniqueOK(t)
  PROVE  UniqueOK(Put(t, c, x))
<1>1. x.u = NULL \/ Holders(t, x.u) \subseteq {c}
  BY DEF UniqueOK, Holders
<1> QED BY <1>1, LiveRows, UniqueAfterPut

\* Nothing but a reopening changes the profile or finds a broken table.
LEMMA OnlyReopenBreaks ==
  ASSUME Next, ~Reopen
  PROVE  enforce' = enforce /\ broken' = broken
<1>1. ASSUME NEW k \in Keys, NEW r \in Row,
             InsertStore(k, r) \/ InsertSkip(k, r) \/ InsertConflict(k, r)
      PROVE  enforce' = enforce /\ broken' = broken
  BY <1>1 DEF InsertStore, InsertSkip, InsertConflict, NextRow, Fail
<1>5. ASSUME NEW k \in Keys, NEW r \in Row, NEW c \in Keys, NEW x \in Row,
             InsertUpsert(k, r, c, x) \/ InsertUpsertError(k, r, c, x)
      PROVE  enforce' = enforce /\ broken' = broken
  BY <1>5 DEF InsertUpsert, InsertUpsertError, NextRow
<1>6. ASSUME NEW m \in Modes, BeginInsert(m)
      PROVE  enforce' = enforce /\ broken' = broken
  BY <1>6 DEF BeginInsert, Begin
<1>7. ASSUME InsertReject \/ InsertSkipOrphan \/ InsertDone \/ PersistAuto
      PROVE  enforce' = enforce /\ broken' = broken
  BY <1>7 DEF InsertReject, InsertSkipOrphan, InsertDone, PersistAuto, NextRow, Fail
<1>2. CASE Update
  BY <1>2 DEF Update, BeginUpdate, Begin, UpdateSkip, UpdateRow, Scanning,
       UpdateReject, UpdateInstall
<1>3. CASE Remove
  BY <1>3 DEF Remove, Delete, DeleteJoined, JoinedInstall, Begin, Truncate, TruncateHash,
       TruncatePks, TruncateAuto
<1>4. CASE Persist
  BY <1>4 DEF Persist, SRem, Del, SAdd, DelOld, HSet, HSetLast, Putting, Piping, Answer
<1> QED BY <1>1, <1>2, <1>3, <1>4, <1>5, <1>6, <1>7 DEF Next, Insert

\* Every step keeps unique values unique, if ON DUPLICATE KEY UPDATE leaves the
\* unique column alone.
LEMMA UniqueStep ==
  ASSUME UniqueInv, Next, "u" \notin DupCols
  PROVE  UniqueKeys'
<1> SUFFICES ASSUME enforce', ~broken', Next
             PROVE  UniqueOK(rows')
  BY DEF UniqueKeys
<1>1. CASE Reopen
  BY <1>1 DEF Reopen
<1>2. ASSUME ~Reopen
      PROVE  enforce /\ ~broken /\ UniqueOK(rows)
  <2>1. enforce' = enforce /\ broken' = broken
    BY <1>2, OnlyReopenBreaks
  <2> QED BY <2>1 DEF UniqueInv, UniqueKeys
<1>3. ASSUME ~Reopen, NEW k \in Keys, NEW r \in Row, InsertStore(k, r)
      PROVE  UniqueOK(rows')
  <2> DEFINE gone == ConflictKeys(rows, lookup, k, r) \cap Live(rows)
  <2>1. lookup = BuildLookup(rows)
    BY <1>3 DEF InsertStore, UniqueInv, LookupCurrent
  <2>2. rows' = Put(Without(rows, gone), k, r)
    BY <1>3 DEF InsertStore, Store
  <2> QED BY <1>2, <1>3, <2>1, <2>2, UniqueAfterReplace DEF UniqueInv, TypeOK
<1>4. ASSUME ~Reopen, NEW k \in Keys, NEW r \in Row, NEW c \in Keys, NEW x \in Row,
             InsertUpsert(k, r, c, x) \/ InsertUpsertError(k, r, c, x)
      PROVE  UniqueOK(rows')
  <2>1. c \in Live(rows) /\ rows' = Put(rows, c, x) /\ x \in Rewrites(rows[c], DupCols)
    BY <1>4 DEF InsertUpsert, InsertUpsertError, Upserts
  <2>2. x.u = rows[c].u
    BY <2>1 DEF Rewrites
  <2> QED BY <1>2, <1>4, <2>1, <2>2, UniqueAfterRewrite DEF UniqueInv, TypeOK
<1>5. ASSUME ~Reopen, UpdateInstall
      PROVE  UniqueOK(rows')
  BY <1>2, <1>5 DEF UpdateInstall
<1>6. ASSUME ~Reopen, NEW S \in SUBSET Keys, Delete(S)
      PROVE  UniqueOK(rows')
  BY <1>2, <1>6, UniqueAfterWithout DEF Delete, UniqueInv, TypeOK
<1>10. ASSUME ~Reopen, JoinedInstall
       PROVE  UniqueOK(rows')
  BY <1>2, <1>10, UniqueAfterWithout DEF JoinedInstall, UniqueInv, TypeOK
<1>7. CASE Truncate
  BY <1>7, LiveEmpty DEF Truncate, UniqueOK
<1>8. ASSUME ~Reopen, UNCHANGED rows
      PROVE  UniqueOK(rows')
  BY <1>2, <1>8
<1>9. ASSUME Next, ~Reopen, ~UpdateInstall, ~Truncate, ~JoinedInstall,
             \A S \in SUBSET Keys : ~Delete(S),
             \A k \in Keys, r \in Row : ~InsertStore(k, r),
             \A k \in Keys, r \in Row, c \in Keys, x \in Row :
               ~InsertUpsert(k, r, c, x) /\ ~InsertUpsertError(k, r, c, x)
      PROVE  UNCHANGED rows
  BY ZenonT(60), <1>9 DEF Next, Insert, BeginInsert, InsertSkip, InsertConflict, InsertReject,
       InsertSkipOrphan, InsertDone, PersistAuto, Update, BeginUpdate, UpdateSkip,
       UpdateRow, Scanning, UpdateReject, Remove, DeleteJoined, TruncateHash, TruncatePks,
       TruncateAuto, Persist, SRem, Del, SAdd, DelOld, HSet, HSetLast, Putting, Piping, Answer
<1> QED BY <1>1, <1>3, <1>4, <1>5, <1>6, <1>7, <1>8, <1>9, <1>10

\* With uniqueness enforced, statements alone never make two rows share a unique
\* value, whatever their inputs, order and failures, provided ON DUPLICATE KEY
\* UPDATE assigns only columns outside unique keys (it does not check the row it
\* rewrites).
THEOREM UniqueKeysHold ==
  ASSUME "u" \notin DupCols
  PROVE  Spec => []UniqueKeys
<1>1. Init => UniqueInv
  BY InitTypes, LiveEmpty DEF UniqueInv, LookupCurrent, UniqueKeys, UniqueOK, Init
<1>2. UniqueInv /\ [Next]_vars => UniqueInv'
  <2> SUFFICES ASSUME UniqueInv, [Next]_vars
               PROVE  UniqueInv'
    OBVIOUS
  <2>1. CASE Next
    BY <2>1, InsertTypes, UpdateTypes, OtherTypes, LookupStep, UniqueStep
       DEF UniqueInv, Next
  <2>2. CASE UNCHANGED vars
    BY <2>2 DEF UniqueInv, TypeOK, LookupCurrent, UniqueKeys
  <2> QED BY <2>1, <2>2
<1>3. UniqueInv => UniqueKeys
  BY DEF UniqueInv
<1> QED BY <1>1, <1>2, <1>3, PTL DEF Spec

-----------------------------------------------------------------------------
(* What relates the parts of the state                                     *)

\* A step keeps the types.
LEMMA TypesStep ==
  ASSUME TypeOK, Next
  PROVE  TypeOK'
BY InsertTypes, UpdateTypes, OtherTypes DEF Next

\* Two keys that both come first are the same.
LEMMA FirstIsOne ==
  ASSUME NEW S \in SUBSET Keys, NEW j, NEW k, IsFirst(j, S), IsFirst(k, S)
  PROVE  j = k
BY KeysAssumption DEF IsFirst

-----------------------------------------------------------------------------
(* What the loop of an UPDATE has built.  While no row changes its key, the *)
(* rows it has not reached are untouched, and the next rows are the rows   *)
(* with the changes so far.                                                *)

NoBatch == pc \in {"idle", "trunc", "truncAuto"} => toDelete = {} /\ changed = EmptyTable

UpdateFollows ==
  pc = "update" =>
    /\ todo \subseteq Live(rows) /\ Live(changed) \subseteq Live(rows)
    /\ Touched \cap todo = {}
    /\ \A k \in Keys : next[k] = IF k \in todo THEN NoRow
                                 ELSE IF k \in Touched THEN changed[k] ELSE rows[k]
    /\ enforce => toDelete = {}

LoopInv == TypeOK /\ NoBatch /\ UpdateFollows

\* Rewriting the first row of the loop keeps what the loop has built.
LEMMA RewriteFollows ==
  ASSUME LoopInv, NEW k \in Keys, NEW nk \in Keys, NEW r \in Row, UpdateRow(k, nk, r),
         "id" \notin UpdateCols
  PROVE  UpdateFollows'
<1> DEFINE kept == Without(next, {k})
           C == IF enforce THEN {} ELSE ConflictsIn(kept, k, r)
<1>1. /\ nk = k /\ pc = "update" /\ pc' = "update" /\ k \in todo /\ todo' = todo \ {k}
      /\ rows' = rows /\ enforce' = enforce
  BY DEF UpdateRow, Scanning, IsFirst
<1>2. /\ next' = Put(Without(kept, C), k, r)
      /\ toDelete' = toDelete \cup C
      /\ changed' = Put(Without(changed, C), k, r)
  <2>1. {k} \ {nk} = {} /\ {} \cup C = C /\ toDelete \cup {} \cup C = toDelete \cup C
    BY <1>1
  <2> QED BY <1>1, <2>1 DEF UpdateRow
<1>3. /\ next \in Table /\ changed \in Table /\ rows \in Table /\ toDelete \subseteq Keys
      /\ todo \subseteq Keys
  BY DEF LoopInv, TypeOK
<1>4. C \subseteq Keys /\ k \notin C /\ (\A j \in C : next[j] # NoRow)
  BY <1>3, LiveWithout DEF ConflictsIn, Holders, Live
<1>5. C \cap todo = {}
  BY <1>1, <1>4 DEF LoopInv, UpdateFollows
<1>6. Live(changed') = (Live(changed) \ C) \cup {k}
  <2>1. Without(changed, C) \in Table /\ Live(Without(changed, C)) = Live(changed) \ C
    BY <1>3, <1>4, TableTypes, LiveWithout
  <2> QED BY <1>2, <2>1, LivePut
<1>7. Touched' = Touched \cup C \cup {k}
  BY <1>2, <1>6 DEF Touched
<1>8. \A j \in Keys :
        /\ next'[j] = IF j = k THEN r ELSE IF j \in C THEN NoRow ELSE next[j]
        /\ changed'[j] = IF j = k THEN r ELSE IF j \in C THEN NoRow ELSE changed[j]
  BY <1>2, <1>3, <1>4 DEF Put, Without, Table
<1>9. \A j \in Keys : next'[j] = IF j \in todo' THEN NoRow
                                 ELSE IF j \in Touched' THEN changed'[j] ELSE rows'[j]
  BY <1>1, <1>5, <1>7, <1>8 DEF LoopInv, UpdateFollows
<1>10. /\ todo' \subseteq Live(rows)' /\ Live(changed)' \subseteq Live(rows)'
       /\ Touched' \cap todo' = {}
  BY <1>1, <1>5, <1>6, <1>7 DEF LoopInv, UpdateFollows
<1>11. enforce' => toDelete' = {}
  BY <1>1, <1>2 DEF LoopInv, UpdateFollows
<1> QED BY <1>9, <1>10, <1>11 DEF UpdateFollows

\* Every step keeps what the loop has built.
LEMMA LoopStep ==
  ASSUME LoopInv, Next, "id" \notin UpdateCols
  PROVE  LoopInv'
<1>1. TypeOK'
  BY TypesStep DEF LoopInv
<1>2. ASSUME Insert \/ Persist \/ Reopen
      PROVE  NoBatch' /\ UpdateFollows'
  <2>1. ASSUME NEW m \in Modes, BeginInsert(m)
        PROVE  pc' = "insert"
    BY <2>1 DEF BeginInsert
  <2>2. ASSUME NEW k \in Keys, NEW r \in Row, InsertStore(k, r) \/ InsertSkip(k, r)
        PROVE  pc' = "insert"
    BY <2>2 DEF InsertStore, InsertSkip, NextRow
  <2>3. ASSUME NEW k \in Keys, NEW r \in Row, NEW c \in Keys, NEW x \in Row,
               InsertUpsert(k, r, c, x)
        PROVE  pc' = "insert"
    BY <2>3 DEF InsertUpsert, Upserts, NextRow
  <2>4. ASSUME NEW k \in Keys, NEW r \in Row, NEW c \in Keys, NEW x \in Row,
               InsertUpsertError(k, r, c, x)
        PROVE  pc' = "idle" /\ toDelete' = {} /\ changed' = EmptyTable
    BY <2>4 DEF InsertUpsertError, ClearWork
  <2>5. ASSUME NEW k \in Keys, NEW r \in Row, InsertConflict(k, r)
        PROVE  pc' = "idle" /\ toDelete' = {} /\ changed' = EmptyTable
    BY <2>5 DEF InsertConflict, Fail, ClearWork
  <2>6. ASSUME InsertDone \/ PersistAuto \/ InsertSkipOrphan
        PROVE  pc' \in {"insert", "auto", "write"}
    BY <2>6 DEF InsertDone, PersistAuto, InsertSkipOrphan, NextRow
  <2>7. ASSUME NEW k \in Keys, SRem(k) \/ Del(k) \/ SAdd(k) \/ DelOld(k) \/ HSet(k) \/ HSetLast(k)
        PROVE  pc' \in {"write", "joined"}
    BY <2>7 DEF SRem, Del, SAdd, DelOld, HSet, HSetLast, Putting, Piping
  <2>8. ASSUME Answer \/ Reopen \/ InsertReject
        PROVE  pc' = "idle" /\ toDelete' = {} /\ changed' = EmptyTable
    BY <2>8 DEF Answer, Reopen, InsertReject, Fail, ClearWork
  <2>9. \/ pc' \in {"insert", "auto", "write", "joined"}
        \/ pc' = "idle" /\ toDelete' = {} /\ changed' = EmptyTable
    BY <1>2, <2>1, <2>2, <2>3, <2>4, <2>5, <2>6, <2>7, <2>8 DEF Insert, Persist
  <2> QED BY <2>9 DEF NoBatch, UpdateFollows
<1>3. ASSUME Remove
      PROVE  NoBatch' /\ UpdateFollows'
  <2>1. ASSUME NEW S \in SUBSET Keys, Delete(S) \/ DeleteJoined(S)
        PROVE  pc' \in {"write", "joined"}
    BY <2>1 DEF Delete, DeleteJoined
  <2>2. ASSUME JoinedInstall
        PROVE  pc' = "idle" /\ toDelete' = {} /\ changed' = EmptyTable
    BY <2>2 DEF JoinedInstall, ClearWork
  <2>3. ASSUME Truncate \/ TruncatePks \/ TruncateAuto \/ \E k \in Keys : TruncateHash(k)
        PROVE  pc' \in {"idle", "trunc", "truncAuto"} /\ toDelete' = {} /\ changed' = EmptyTable
    BY <2>3 DEF Truncate, Begin, TruncateHash, TruncatePks, TruncateAuto, LoopInv, NoBatch
  <2>4. \/ pc' \in {"write", "joined"}
        \/ pc' \in {"idle", "trunc", "truncAuto"} /\ toDelete' = {} /\ changed' = EmptyTable
    BY <1>3, <2>1, <2>2, <2>3 DEF Remove
  <2> QED BY <2>4 DEF NoBatch, UpdateFollows
<1>4. ASSUME BeginUpdate
      PROVE  NoBatch' /\ UpdateFollows'
  <2>1. /\ toDelete' = {} /\ changed' = EmptyTable /\ rows' = rows /\ rows \in Table
        /\ pc' = "update" /\ todo' = Live(rows) /\ next' = EmptyTable
    BY <1>4 DEF BeginUpdate, Begin, LoopInv, NoBatch, TypeOK
  <2>2. Touched' = {}
    BY <2>1, LiveEmpty DEF Touched
  <2>3. \A k \in Keys : k \notin Live(rows) => rows[k] = NoRow
    BY DEF Live
  <2> QED BY <2>1, <2>2, <2>3, LiveEmpty DEF NoBatch, UpdateFollows, EmptyTable
<1>5. ASSUME NEW k \in Keys, UpdateSkip(k)
      PROVE  NoBatch' /\ UpdateFollows'
  <2>1. /\ pc = "update" /\ pc' = "update" /\ k \in todo /\ todo' = todo \ {k}
        /\ UNCHANGED <<rows, enforce, toDelete, changed>> /\ next \in Table
    BY <1>5 DEF UpdateSkip, Scanning, IsFirst, LoopInv, TypeOK
  <2>2. k \notin Touched
    BY <2>1 DEF LoopInv, UpdateFollows
  <2>3. next' = Put(next, k, rows[k])
    BY <1>5, <2>2 DEF UpdateSkip, Touched
  <2>4. \A j \in Keys : next'[j] = IF j = k THEN rows[k] ELSE next[j]
    BY <2>1, <2>3 DEF Put, Table
  <2> QED BY <2>1, <2>2, <2>4 DEF LoopInv, NoBatch, UpdateFollows, Touched
<1>6. ASSUME NEW k \in Keys, NEW nk \in Keys, NEW r \in Row, UpdateRow(k, nk, r)
      PROVE  NoBatch' /\ UpdateFollows'
  <2>1. pc' = "update"
    BY <1>6 DEF UpdateRow, Scanning
  <2> QED BY <1>6, <2>1, RewriteFollows DEF NoBatch
<1>7. ASSUME UpdateReject \/ UpdateInstall
      PROVE  NoBatch' /\ UpdateFollows'
  <2>1. pc' = "write" \/ (pc' = "idle" /\ toDelete' = {} /\ changed' = EmptyTable)
    BY <1>7 DEF UpdateReject, UpdateInstall, ClearWork
  <2> QED BY <2>1 DEF NoBatch, UpdateFollows
<1> QED BY <1>1, <1>2, <1>3, <1>4, <1>5, <1>6, <1>7 DEF LoopInv, Next, Update

\* In every reachable state the loop of an UPDATE has built what it should.
THEOREM LoopHolds ==
  ASSUME "id" \notin UpdateCols
  PROVE  Spec => []LoopInv
<1>1. Init => LoopInv
  BY InitTypes, Zenon DEF Init, LoopInv, NoBatch, UpdateFollows
<1>2. LoopInv /\ [Next]_vars => LoopInv'
  <2>1. CASE Next
    BY <2>1, LoopStep
  <2>2. CASE UNCHANGED vars
    BY <2>2 DEF LoopInv, TypeOK, NoBatch, UpdateFollows, Touched
  <2> QED BY <2>1, <2>2
<1> QED BY <1>1, <1>2, PTL DEF Spec

\* With uniqueness enforced and primary keys that stay, an UPDATE that succeeds
\* leaves exactly the keys it found.
THEOREM UpdateKeepsRowsHolds ==
  ASSUME "id" \notin UpdateCols
  PROVE  Spec => UpdateKeepsRows
<1>1. LoopInv /\ [Next]_vars
        => [pc = "update" /\ pc' = "write" /\ enforce
              => Cardinality(Live(rows')) = Cardinality(Live(rows))]_vars
  <2> SUFFICES ASSUME LoopInv, Next, pc = "update", pc' = "write", enforce
               PROVE  Live(rows') = Live(rows)
    OBVIOUS
  <2>1. UpdateInstall
    BY DEF Next, Insert, BeginInsert, InsertStore, InsertSkip, InsertConflict, InsertReject,
       InsertSkipOrphan, InsertDone, PersistAuto, InsertUpsert, InsertUpsertError, Upserts,
       Update, BeginUpdate, UpdateSkip, UpdateRow, Scanning, UpdateReject, Remove, Delete,
       DeleteJoined, JoinedInstall, Truncate, Begin, TruncateHash, TruncatePks, TruncateAuto,
       Persist, SRem, Del, SAdd, DelOld, HSet, HSetLast, Putting, Piping, Answer, Reopen
  <2>2. rows' = next /\ todo = {} /\ toDelete = {}
    BY <2>1 DEF UpdateInstall, LoopInv, UpdateFollows
  <2>3. \A k \in Keys : rows'[k] # NoRow <=> rows[k] # NoRow
    BY <2>2 DEF LoopInv, UpdateFollows, Touched, Live
  <2> QED BY <2>3 DEF Live
<1> QED BY <1>1, LoopHolds, PTL DEF Spec, UpdateKeepsRows

-----------------------------------------------------------------------------
(* The index                                                               *)

\* Rows make way for one row: the index follows (remove_row_from_indexes,
\* add_row_to_indexes).
LEMMA IndexFollowsStore ==
  ASSUME NEW t \in Table, NEW S \in SUBSET Keys, NEW k \in Keys, NEW r \in Row,
         k \in Live(t) => k \in S
  PROVE  AddToIndex(RemoveFromIndex(BuildIndex(t), t, S), Put(EmptyTable, k, r), {k})
           = BuildIndex(Put(Without(t, S), k, r))
<1>1. Without(t, S) \in Table /\ EmptyTable \in Table
  BY TableTypes
<1>2. \A v : Holders(Put(Without(t, S), k, r), v)
               = ((Holders(t, v) \ S) \ {k}) \cup (IF r.u = v THEN {k} ELSE {})
  BY <1>1, HoldersWithout, HoldersPut
<1>3. \A v : Holders(Put(EmptyTable, k, r), v) = IF r.u = v THEN {k} ELSE {}
  BY <1>1, HoldersPut, LiveEmpty DEF Holders
<1>4. \A v : (Holders(t, v) \ S) \ {k} = Holders(t, v) \ S
  BY DEF Holders
<1>5. \A v \in UVals \cup {NULL} :
        (BuildIndex(t)[v] \ (S \cap Holders(t, v))) \cup ({k} \cap Holders(Put(EmptyTable, k, r), v))
          = Holders(Put(Without(t, S), k, r), v)
  BY <1>2, <1>3, <1>4 DEF BuildIndex
<1> QED BY <1>5 DEF AddToIndex, RemoveFromIndex, BuildIndex

\* Rows go: the index follows.
LEMMA IndexFollowsRemoval ==
  ASSUME NEW t \in Table, NEW S \in SUBSET Keys
  PROVE  RemoveFromIndex(BuildIndex(t), t, S) = BuildIndex(Without(t, S))
BY HoldersWithout DEF RemoveFromIndex, BuildIndex

\* A table n differs from t under the keys S alone, where it has the rows of c:
\* the index of t without the old rows and with the new ones is that of n.
LEMMA IndexFollowsChanges ==
  ASSUME NEW t \in Table, NEW n \in Table, NEW c \in Table, NEW S \in SUBSET Keys,
         Live(c) \subseteq S,
         \A k \in Keys : n[k] = IF k \in S THEN c[k] ELSE t[k]
  PROVE  AddToIndex(RemoveFromIndex(BuildIndex(t), t, S), c, Live(c)) = BuildIndex(n)
<1>1. \A v \in UVals \cup {NULL} :
        (Holders(t, v) \ (S \cap Holders(t, v))) \cup (Live(c) \cap Holders(c, v)) = Holders(n, v)
  BY DEF Holders, Live
<1> QED BY <1>1 DEF AddToIndex, RemoveFromIndex, BuildIndex

\* Only the unique column is indexed: a rewrite that keeps it keeps the index.
LEMMA IndexOfRewrite ==
  ASSUME NEW t \in Table, NEW c \in Live(t), NEW x \in Row, x.u = t[c].u
  PROVE  BuildIndex(Put(t, c, x)) = BuildIndex(t)
<1>1. \A v : Holders(Put(t, c, x), v) = Holders(t, v)
  BY HoldersPut, LiveRows DEF Holders, Live
<1> QED BY <1>1 DEF BuildIndex

IndexInv == LoopInv /\ IndexExact

\* Every step that stores, rewrites or removes rows changes the index alike.
LEMMA IndexStep ==
  ASSUME IndexInv, Next, "id" \notin UpdateCols, "u" \notin DupCols
  PROVE  IndexExact'
<1>1. rows \in Table /\ index = BuildIndex(rows)
  BY DEF IndexInv, LoopInv, TypeOK, IndexExact
<1>2. ASSUME NEW k \in Keys, NEW r \in Row, InsertStore(k, r)
      PROVE  IndexExact'
  <2> DEFINE gone == ConflictKeys(rows, lookup, k, r) \cap Live(rows)
  <2>1. gone \in SUBSET Keys /\ (k \in Live(rows) => k \in gone)
    BY <1>1, LiveRows DEF ConflictKeys
  <2>2. /\ rows' = Put(Without(rows, gone), k, r)
        /\ index' = AddToIndex(RemoveFromIndex(index, rows, gone), Put(EmptyTable, k, r), {k})
    BY <1>2 DEF InsertStore, Store
  <2> QED BY <1>1, <2>1, <2>2, IndexFollowsStore DEF IndexExact
<1>3. ASSUME NEW k \in Keys, NEW r \in Row, NEW c \in Keys, NEW x \in Row,
             InsertUpsert(k, r, c, x)
      PROVE  IndexExact'
  <2>1. /\ rows' = Put(rows, c, x)
        /\ index' = AddToIndex(RemoveFromIndex(index, rows, {c}), rows', {c})
    BY <1>3 DEF InsertUpsert
  <2>2. rows' \in Table /\ Holders(rows', x.u) = (Holders(rows, x.u) \ {c}) \cup {c}
    BY <1>1, <2>1, TableTypes, HoldersPut
  <2>3. \A v \in UVals \cup {NULL} :
          (Holders(rows, v) \ ({c} \cap Holders(rows, v))) \cup ({c} \cap Holders(rows', v))
            = Holders(rows', v)
    BY <1>1, <2>1, HoldersPut
  <2> QED BY <1>1, <2>1, <2>3 DEF IndexExact, AddToIndex, RemoveFromIndex, BuildIndex
<1>4. ASSUME NEW k \in Keys, NEW r \in Row, NEW c \in Keys, NEW x \in Row,
             InsertUpsertError(k, r, c, x)
      PROVE  IndexExact'
  <2>1. /\ c \in Live(rows) /\ x \in Rewrites(rows[c], DupCols)
        /\ rows' = Put(rows, c, x) /\ index' = index
    BY <1>4 DEF InsertUpsertError, Upserts
  <2>2. x.u = rows[c].u
    BY <2>1 DEF Rewrites
  <2> QED BY <1>1, <2>1, <2>2, IndexOfRewrite DEF IndexExact
<1>5. ASSUME UpdateInstall
      PROVE  IndexExact'
  <2>1. /\ next \in Table /\ changed \in Table /\ Touched \in SUBSET Keys
        /\ Live(changed) \subseteq Touched
    BY LiveRows DEF IndexInv, LoopInv, TypeOK, Touched
  <2>2. \A k \in Keys : next[k] = IF k \in Touched THEN changed[k] ELSE rows[k]
    BY <1>5 DEF UpdateInstall, IndexInv, LoopInv, UpdateFollows
  <2>3. AddToIndex(RemoveFromIndex(BuildIndex(rows), rows, Touched), changed, Live(changed))
          = BuildIndex(next)
    BY <1>1, <2>1, <2>2, IndexFollowsChanges
  <2> QED BY <1>1, <1>5, <2>3 DEF UpdateInstall, IndexExact
<1>6. ASSUME NEW S \in SUBSET Keys, Delete(S)
      PROVE  IndexExact'
  BY <1>1, <1>6, IndexFollowsRemoval DEF Delete, IndexExact
<1>7. ASSUME JoinedInstall \/ Truncate \/ Reopen
      PROVE  IndexExact'
  BY <1>7 DEF JoinedInstall, Truncate, Reopen, IndexExact
<1>8. ASSUME UNCHANGED <<rows, index>>
      PROVE  IndexExact'
  BY <1>1, <1>8 DEF IndexExact
<1>9. ASSUME ~UpdateInstall, ~JoinedInstall, ~Truncate, ~Reopen,
             \A S \in SUBSET Keys : ~Delete(S),
             \A k \in Keys, r \in Row : ~InsertStore(k, r),
             \A k \in Keys, r \in Row, c \in Keys, x \in Row :
               ~InsertUpsert(k, r, c, x) /\ ~InsertUpsertError(k, r, c, x)
      PROVE  UNCHANGED <<rows, index>>
  BY ZenonT(60), <1>9 DEF Next, Insert, BeginInsert, InsertSkip, InsertConflict, InsertReject,
       InsertSkipOrphan, InsertDone, PersistAuto, Update, BeginUpdate, UpdateSkip,
       UpdateRow, Scanning, UpdateReject, Remove, DeleteJoined, TruncateHash, TruncatePks,
       TruncateAuto, Persist, SRem, Del, SAdd, DelOld, HSet, HSetLast, Putting, Piping, Answer
<1> QED BY <1>2, <1>3, <1>4, <1>5, <1>6, <1>7, <1>8, <1>9

\* The index is the index of the rows in memory in every reachable state, if no
\* statement assigns a key that its loop does not follow: UPDATE leaves the
\* primary key alone, and an ON DUPLICATE KEY UPDATE that may stop between two
\* assignments leaves the indexed column alone.
THEOREM IndexExactHolds ==
  ASSUME "id" \notin UpdateCols, "u" \notin DupCols
  PROVE  Spec => []IndexExact
<1>1. Init => IndexInv
  BY InitTypes, Zenon DEF Init, IndexInv, LoopInv, NoBatch, UpdateFollows, IndexExact
<1>2. IndexInv /\ [Next]_vars => IndexInv'
  <2>1. CASE Next
    BY <2>1, LoopStep, IndexStep DEF IndexInv
  <2>2. CASE UNCHANGED vars
    BY <2>2 DEF IndexInv, IndexExact, LoopInv, TypeOK, NoBatch, UpdateFollows, Touched
  <2> QED BY <2>1, <2>2
<1> QED BY <1>1, <1>2, PTL DEF Spec, IndexInv

-----------------------------------------------------------------------------
(* The AUTO_INCREMENT counter.  A key is covered in memory when its row is   *)
(* stored, and on disk at the latest before the pipeline of its statement.  *)

Inserting == pc \in {"insert", "auto"}
Emptying == pc \in {"trunc", "truncAuto"}

Covered(k) ==
  /\ rows[k] # NoRow => k <= autoInc
  /\ rows[k] # NoRow => k <= storedAuto \/ (Inserting /\ k \in Live(changed))
  /\ k \in pks => k <= storedAuto
  /\ Inserting /\ k \in Live(changed) => k <= autoInc
  /\ pc = "write" /\ k \in Live(changed) => k <= storedAuto

CounterFollows ==
  /\ ~Emptying => storedAuto <= autoInc
  /\ Emptying => rows = EmptyTable
  /\ pc = "truncAuto" => pks = {}
  /\ \A k \in Keys \ strays : Covered(k)

CounterInv == LoopInv /\ CounterFollows

\* The steps of an INSERT keep every key covered.
LEMMA CounterInsertStep ==
  ASSUME CounterInv, Insert
  PROVE  CounterFollows'
<1> USE KeysAssumption
<1>0. /\ rows \in Table /\ changed \in Table /\ autoInc \in Nat /\ storedAuto \in Nat
      /\ lookup \in Lookup
      /\ \A k \in Keys : k \in Live(changed) <=> changed[k] # NoRow
  BY DEF CounterInv, LoopInv, TypeOK, Live
<1>1. ASSUME NEW m \in Modes, BeginInsert(m)
      PROVE  CounterFollows'
  <2>1. /\ pc = "idle" /\ pc' = "insert"
        /\ UNCHANGED <<rows, autoInc, storedAuto, pks, changed, strays>>
    BY <1>1 DEF BeginInsert, Begin
  <2>2. Live(changed) = {}
    BY <2>1, LiveEmpty DEF CounterInv, LoopInv, NoBatch
  <2> QED BY <2>1, <2>2 DEF CounterInv, CounterFollows, Covered, Inserting, Emptying
<1>2. ASSUME NEW k \in Keys, NEW r \in Row, InsertStore(k, r)
      PROVE  CounterFollows'
  <2> DEFINE gone == ConflictKeys(rows, lookup, k, r) \cap Live(rows)
  <2>1. /\ pc = "insert" /\ pc' = "insert" /\ UNCHANGED <<storedAuto, pks, strays>>
        /\ rows' = Put(Without(rows, gone), k, r)
        /\ changed' = Put(Without(changed, gone), k, r)
        /\ autoInc' \in Nat /\ autoInc <= autoInc' /\ k <= autoInc'
    BY <1>0, <1>2 DEF InsertStore, Store, NextRow, TakeId
  <2>2. gone \in SUBSET Keys
    BY LiveRows, <1>0
  <2>3. /\ \A j \in Keys : rows'[j] = IF j = k THEN r ELSE IF j \in gone THEN NoRow ELSE rows[j]
        /\ \A j \in Keys : changed'[j] = IF j = k THEN r ELSE IF j \in gone THEN NoRow ELSE changed[j]
    BY <1>0, <2>1, <2>2 DEF Put, Without, Table
  <2>4. \A j \in Keys : j \in Live(changed)' <=> changed'[j] # NoRow
    BY DEF Live
  <2>5. ASSUME NEW j \in Keys \ strays'
        PROVE  Covered(j)'
    <3>1. Covered(j)
      BY <2>1 DEF CounterInv, CounterFollows
    <3>2. CASE j = k
      <4>1. j \in Live(changed)' /\ j <= autoInc' /\ j \in Nat
        BY <2>1, <2>3, <2>4, <3>2, NoRowAssumption
      <4>2. j \in pks' => j <= storedAuto'
        BY <2>1, <3>1 DEF Covered
      <4> QED BY <2>1, <4>1, <4>2 DEF Covered, Inserting
    <3>3. CASE j # k
      <4>1. /\ rows'[j] # NoRow => rows[j] # NoRow /\ j \notin gone
            /\ j \in Live(changed)' <=> j \in Live(changed) /\ j \notin gone
        BY <1>0, <2>3, <2>4, <3>3
      <4>2. j \in Nat
        OBVIOUS
      <4> QED BY <1>0, <2>1, <3>1, <4>1, <4>2 DEF Covered, Inserting
    <3> QED BY <3>2, <3>3
  <2>6. storedAuto' <= autoInc'
    BY <1>0, <2>1 DEF CounterInv, CounterFollows, Emptying
  <2> QED BY <2>1, <2>5, <2>6 DEF CounterFollows, Emptying
<1>3. ASSUME NEW k \in Keys, NEW r \in Row, InsertSkip(k, r)
      PROVE  CounterFollows'
  <2>1. /\ pc = "insert" /\ UNCHANGED <<pc, rows, changed, storedAuto, pks, strays>>
        /\ autoInc' \in Nat /\ autoInc <= autoInc'
    BY <1>0, <1>3 DEF InsertSkip, NextRow, TakeId
  <2> QED BY <1>0, <2>1 DEF CounterInv, CounterFollows, Covered, Inserting, Emptying
<1>4. ASSUME NEW k \in Keys, NEW r \in Row, NEW c \in Keys, NEW x \in Row,
             InsertUpsert(k, r, c, x)
      PROVE  CounterFollows'
  <2>1. /\ pc = "insert" /\ pc' = "insert" /\ UNCHANGED <<storedAuto, pks, strays>>
        /\ rows[c] # NoRow /\ rows' = Put(rows, c, x)
        /\ changed' = IF x = rows[c] THEN changed ELSE Put(changed, c, x)
        /\ autoInc' \in Nat /\ autoInc <= autoInc'
    BY <1>0, <1>4 DEF InsertUpsert, Upserts, NextRow, TakeId, Live
  <2>2. /\ \A j \in Keys : rows'[j] # NoRow <=> rows[j] # NoRow
        /\ \A j \in Keys : changed'[j] # NoRow => changed[j] # NoRow \/ j = c
        /\ \A j \in Keys : changed[j] # NoRow => changed'[j] # NoRow
    BY <1>0, <2>1, NoRowAssumption DEF Put, Table
  <2>3. \A j \in Keys : j \in Live(changed)' <=> changed'[j] # NoRow
    BY DEF Live
  <2>4. ASSUME NEW j \in Keys \ strays'
        PROVE  Covered(j)'
    <3>1. Covered(j)
      BY <2>1 DEF CounterInv, CounterFollows
    <3> QED BY <1>0, <2>1, <2>2, <2>3, <3>1 DEF Covered, Inserting
  <2>5. storedAuto' <= autoInc'
    BY <1>0, <2>1 DEF CounterInv, CounterFollows, Emptying
  <2> QED BY <2>1, <2>4, <2>5 DEF CounterFollows, Emptying
<1>5. ASSUME NEW k \in Keys, NEW r \in Row, NEW c \in Keys, NEW x \in Row,
             InsertUpsertError(k, r, c, x)
      PROVE  CounterFollows'
  <2>1. /\ pc = "insert" /\ pc' = "idle" /\ UNCHANGED <<storedAuto, pks>>
        /\ rows[c] # NoRow /\ rows' = Put(rows, c, x)
        /\ strays' = strays \cup {j \in Live(changed) : j > storedAuto}
        /\ autoInc' \in Nat /\ autoInc <= autoInc'
    BY <1>0, <1>5 DEF InsertUpsertError, Upserts, TakeId, Live
  <2>2. \A j \in Keys : rows'[j] # NoRow <=> rows[j] # NoRow
    BY <1>0, <2>1, NoRowAssumption DEF Put, Table
  <2>3. ASSUME NEW j \in Keys \ strays'
        PROVE  Covered(j)'
    <3>1. Covered(j) /\ (j \in Live(changed) => j <= storedAuto)
      BY <1>0, <2>1 DEF CounterInv, CounterFollows
    <3>2. j \in Nat /\ (rows'[j] # NoRow <=> rows[j] # NoRow)
      BY <2>2
    <3>3. storedAuto' = storedAuto /\ pks' = pks /\ pc' = "idle" /\ autoInc <= autoInc'
      BY <2>1
    <3> QED BY <1>0, <2>1, <3>1, <3>2, <3>3 DEF Covered, Inserting
  <2>4. storedAuto' <= autoInc'
    BY <1>0, <2>1 DEF CounterInv, CounterFollows, Emptying
  <2> QED BY <2>1, <2>3, <2>4 DEF CounterFollows, Emptying
<1>6. ASSUME InsertReject \/ \E k \in Keys, r \in Row : InsertConflict(k, r)
      PROVE  CounterFollows'
  <2>1. /\ pc = "insert" /\ pc' = "idle" /\ UNCHANGED <<rows, storedAuto, pks>>
        /\ strays' = strays \cup {j \in Live(changed) : j > storedAuto}
        /\ autoInc' \in Nat /\ autoInc <= autoInc'
    BY <1>0, <1>6 DEF InsertReject, InsertConflict, Fail, TakeId
  <2>2. ASSUME NEW j \in Keys \ strays'
        PROVE  Covered(j)'
    <3>1. Covered(j) /\ (j \in Live(changed) => j <= storedAuto)
      BY <1>0, <2>1 DEF CounterInv, CounterFollows
    <3> QED BY <1>0, <2>1, <3>1 DEF Covered, Inserting
  <2>3. storedAuto' <= autoInc'
    BY <1>0, <2>1 DEF CounterInv, CounterFollows, Emptying
  <2> QED BY <2>1, <2>2, <2>3 DEF CounterFollows, Emptying
<1>7. ASSUME InsertSkipOrphan \/ InsertDone
      PROVE  CounterFollows'
  <2>1. /\ pc = "insert" /\ pc' \in {"insert", "auto"}
        /\ UNCHANGED <<rows, changed, autoInc, storedAuto, pks, strays>>
    BY <1>7 DEF InsertSkipOrphan, InsertDone, NextRow
  <2> QED BY <2>1 DEF CounterInv, CounterFollows, Covered, Inserting, Emptying
<1>8. ASSUME PersistAuto
      PROVE  CounterFollows'
  <2>1. /\ pc = "auto" /\ pc' = "write" /\ UNCHANGED <<rows, changed, autoInc, pks>>
        /\ storedAuto' = autoInc /\ strays' = {k \in strays : k > autoInc}
    BY <1>8 DEF PersistAuto
  <2>2. storedAuto <= autoInc
    BY <2>1 DEF CounterInv, CounterFollows, Emptying
  <2>3. ASSUME NEW j \in Keys \ strays'
        PROVE  Covered(j)'
    <3>1. CASE j \in strays
      <4>1. j <= autoInc
        BY <1>0, <2>1, <3>1
      <4> QED BY <2>1, <4>1 DEF Covered, Inserting
    <3>2. CASE j \notin strays
      <4>1. Covered(j)
        BY <3>2 DEF CounterInv, CounterFollows
      <4> QED BY <1>0, <2>1, <2>2, <4>1 DEF Covered, Inserting
    <3> QED BY <3>1, <3>2
  <2> QED BY <1>0, <2>1, <2>3 DEF CounterFollows, Emptying
<1> QED BY <1>1, <1>2, <1>3, <1>4, <1>5, <1>6, <1>7, <1>8 DEF Insert

\* The other steps keep every key covered: they store rows under keys that had one.
LEMMA CounterOtherStep ==
  ASSUME CounterInv, Update \/ Remove \/ Persist \/ Reopen
  PROVE  CounterFollows'
<1> USE KeysAssumption
<1>0. /\ rows \in Table /\ changed \in Table /\ autoInc \in Nat /\ storedAuto \in Nat
      /\ hash \in Table
  BY DEF CounterInv, LoopInv, TypeOK
<1>1. ASSUME BeginUpdate \/ UpdateReject \/ (\E k \in Keys : UpdateSkip(k))
               \/ (\E k, nk \in Keys, r \in Row : UpdateRow(k, nk, r))
      PROVE  CounterFollows'
  <2>1. /\ pc \in {"idle", "update"} /\ pc' \in {"idle", "update"}
        /\ UNCHANGED <<rows, autoInc, storedAuto, pks, strays>>
    BY <1>1 DEF BeginUpdate, Begin, UpdateReject, UpdateSkip, UpdateRow, Scanning
  <2> QED BY <2>1 DEF CounterInv, CounterFollows, Covered, Inserting, Emptying
<1>2. ASSUME UpdateInstall
      PROVE  CounterFollows'
  <2>1. /\ pc = "update" /\ pc' = "write" /\ todo = {} /\ rows' = next
        /\ UNCHANGED <<changed, autoInc, storedAuto, pks, strays>>
    BY <1>2 DEF UpdateInstall
  <2>2. /\ Live(changed) \subseteq Live(rows)
        /\ \A k \in Keys : next[k] # NoRow => rows[k] # NoRow
    BY <2>1 DEF CounterInv, LoopInv, UpdateFollows, Touched, Live
  <2> QED BY <2>1, <2>2 DEF CounterInv, CounterFollows, Covered, Inserting, Emptying, Live
<1>3. ASSUME NEW S \in SUBSET Keys, Delete(S) \/ DeleteJoined(S)
      PROVE  CounterFollows'
  <2>1. /\ pc = "idle" /\ pc' \in {"write", "joined"}
        /\ rows' = Without(rows, S) \/ rows' = rows
        /\ UNCHANGED <<changed, autoInc, storedAuto, pks, strays>>
    BY <1>3 DEF Delete, DeleteJoined, Begin
  <2>2. Live(changed) = {} /\ \A k \in Keys : rows'[k] # NoRow => rows[k] # NoRow
    BY <1>0, <2>1, LiveEmpty DEF CounterInv, LoopInv, NoBatch, Without
  <2> QED BY <2>1, <2>2 DEF CounterInv, CounterFollows, Covered, Inserting, Emptying
<1>4. ASSUME JoinedInstall \/ Answer
      PROVE  CounterFollows'
  <2>1. /\ pc \in {"joined", "write"} /\ pc' = "idle"
        /\ rows' = Without(rows, toDelete) \/ rows' = rows
        /\ UNCHANGED <<autoInc, storedAuto, pks, strays>>
    BY <1>4 DEF JoinedInstall, Answer
  <2>2. \A k \in Keys : rows'[k] # NoRow => rows[k] # NoRow
    BY <2>1 DEF Without
  <2> QED BY <2>1, <2>2 DEF CounterInv, CounterFollows, Covered, Inserting, Emptying
<1>5. ASSUME Truncate
      PROVE  CounterFollows'
  <2>1. /\ pc = "idle" /\ pc' = "trunc" /\ rows' = EmptyTable
        /\ UNCHANGED <<changed, storedAuto, pks, strays>>
    BY <1>5 DEF Truncate, Begin
  <2> QED BY <2>1 DEF CounterInv, CounterFollows, Covered, Inserting, Emptying, EmptyTable
<1>6. ASSUME TruncatePks \/ (\E k \in Keys : TruncateHash(k))
      PROVE  CounterFollows'
  <2>1. /\ pc = "trunc" /\ pc' \in {"trunc", "truncAuto"} /\ (pc' = "truncAuto" => pks' = {})
        /\ pks' \subseteq pks /\ UNCHANGED <<rows, changed, autoInc, storedAuto, strays>>
    BY <1>6 DEF TruncatePks, TruncateHash
  <2> QED BY <2>1 DEF CounterInv, CounterFollows, Covered, Inserting, Emptying
<1>7. ASSUME TruncateAuto
      PROVE  CounterFollows'
  <2>1. /\ pc' = "idle" /\ pks' = {} /\ rows' = EmptyTable /\ storedAuto' = autoInc'
        /\ autoInc' \in Nat
    BY <1>0, <1>7 DEF TruncateAuto, CounterInv, CounterFollows, Emptying
  <2> QED BY <2>1 DEF CounterFollows, Covered, Inserting, Emptying, EmptyTable
<1>8. ASSUME NEW k \in Keys, SRem(k) \/ Del(k) \/ DelOld(k) \/ HSet(k) \/ HSetLast(k)
      PROVE  CounterFollows'
  <2>1. /\ pc \in {"write", "joined"} /\ pc' = pc /\ pks' \subseteq pks
        /\ UNCHANGED <<rows, changed, autoInc, storedAuto, strays>>
    BY <1>8 DEF SRem, Del, DelOld, HSet, HSetLast, Putting, Piping
  <2> QED BY <2>1 DEF CounterInv, CounterFollows, Covered, Inserting, Emptying
<1>9. ASSUME NEW k \in Keys, SAdd(k)
      PROVE  CounterFollows'
  <2>1. /\ pc = "write" /\ pc' = pc /\ pks' = pks \cup {k} /\ k \in putLeft
        /\ UNCHANGED <<rows, changed, autoInc, storedAuto, strays>>
    BY <1>9 DEF SAdd, Putting, Piping, IsFirst
  <2>2. k \in Live(changed)
    BY <2>1 DEF CounterInv, LoopInv, TypeOK
  <2> QED BY <2>1, <2>2 DEF CounterInv, CounterFollows, Covered, Inserting, Emptying
<1>10. ASSUME Reopen
       PROVE  CounterFollows'
  <2>1. /\ pc' = "idle" /\ rows' = Load /\ autoInc' = storedAuto
        /\ UNCHANGED <<storedAuto, pks, strays>>
    BY <1>10 DEF Reopen
  <2>2. \A k \in Keys : rows'[k] # NoRow => k \in pks
    BY <2>1 DEF Load, Durable
  <2> QED BY <1>0, <2>1, <2>2 DEF CounterInv, CounterFollows, Covered, Inserting, Emptying
<1> QED BY <1>1, <1>2, <1>3, <1>4, <1>5, <1>6, <1>7, <1>8, <1>9, <1>10
        DEF Update, Remove, Persist

\* The next generated id is above every row in memory, and after a crash it is
\* above every row on disk, but for the rows of failed INSERTs, if UPDATE leaves
\* the primary key alone.
THEOREM AutoIncCoversHolds ==
  ASSUME "id" \notin UpdateCols
  PROVE  Spec => []AutoIncCovers
<1>1. Init => CounterInv
  <2> SUFFICES ASSUME Init PROVE CounterInv
    OBVIOUS
  <2>1. LoopInv
    BY InitTypes, Zenon DEF Init, LoopInv, NoBatch, UpdateFollows
  <2>2. rows = EmptyTable /\ pks = {} /\ pc = "idle" /\ autoInc = 0 /\ storedAuto = 0
    BY DEF Init
  <2> QED BY <2>1, <2>2 DEF CounterInv, CounterFollows, Covered, Inserting, Emptying, EmptyTable
<1>2. CounterInv /\ [Next]_vars => CounterInv'
  <2>1. CASE Next
    BY <2>1, LoopStep, CounterInsertStep, CounterOtherStep DEF CounterInv, Next
  <2>2. CASE UNCHANGED vars
    BY <2>2 DEF CounterInv, CounterFollows, Covered, Inserting, Emptying, LoopInv, TypeOK,
       NoBatch, UpdateFollows, Touched
  <2> QED BY <2>1, <2>2
<1>3. CounterInv => AutoIncCovers
  BY DEF CounterInv, CounterFollows, Covered, AutoIncCovers, Durable
<1> QED BY <1>1, <1>2, <1>3, PTL DEF Spec

-----------------------------------------------------------------------------
(* Memory.  The rows are those of the answered statements, but for the rows *)
(* the current statement has changed and those that failed ones left.      *)

Changing == pc \in {"insert", "auto", "write"}

Remembered(k) ==
  /\ Changing /\ k \in Touched => rows[k] = changed[k]
  /\ ~Emptying /\ k \notin dirty /\ ~(Changing /\ k \in Touched) => rows[k] = acked[k]
  /\ Emptying => rows[k] = NoRow

MemoryInv == LoopInv /\ \A k \in Keys : Remembered(k)

\* The steps of an INSERT keep the rows accounted for.
LEMMA MemoryInsertStep ==
  ASSUME MemoryInv, Insert, NEW j \in Keys
  PROVE  Remembered(j)'
<1>0. /\ rows \in Table /\ changed \in Table /\ Live(changed) = {k \in Keys : changed[k] # NoRow}
      /\ Remembered(j) /\ dirty \subseteq Keys /\ toDelete \subseteq Keys
      /\ (j \in Live(changed) <=> changed[j] # NoRow)
      /\ (j \in Live(changed)' <=> changed'[j] # NoRow)
  BY DEF MemoryInv, LoopInv, TypeOK, Live
<1>1. ASSUME NEW m \in Modes, BeginInsert(m)
      PROVE  Remembered(j)'
  <2>1. pc = "idle" /\ pc' = "insert" /\ UNCHANGED <<rows, changed, toDelete, dirty, acked>>
    BY <1>1 DEF BeginInsert, Begin
  <2>2. Touched = {} /\ Touched' = {}
    BY <2>1, LiveEmpty DEF MemoryInv, LoopInv, NoBatch, Touched
  <2> QED BY <1>0, <2>1, <2>2 DEF Remembered, Changing, Emptying
<1>2. ASSUME NEW k \in Keys, NEW r \in Row, InsertStore(k, r)
      PROVE  Remembered(j)'
  <2> DEFINE gone == ConflictKeys(rows, lookup, k, r) \cap Live(rows)
  <2>1. /\ pc = "insert" /\ pc' = "insert" /\ UNCHANGED <<dirty, acked>>
        /\ rows' = Put(Without(rows, gone), k, r)
        /\ changed' = Put(Without(changed, gone), k, r)
        /\ toDelete' = toDelete \cup gone
    BY <1>2 DEF InsertStore, Store, NextRow
  <2>2. /\ rows'[j] = IF j = k THEN r ELSE IF j \in gone THEN NoRow ELSE rows[j]
        /\ changed'[j] = IF j = k THEN r ELSE IF j \in gone THEN NoRow ELSE changed[j]
    BY <1>0, <2>1 DEF Put, Without, Table
  <2>3. j \in Touched' <=> j \in Touched \/ j \in gone \/ j = k
    BY <1>0, <2>1, <2>2, NoRowAssumption DEF Touched
  <2> QED BY <1>0, <2>1, <2>2, <2>3 DEF Remembered, Changing, Emptying
<1>3. ASSUME NEW k \in Keys, NEW r \in Row, NEW c \in Keys, NEW x \in Row,
             InsertUpsert(k, r, c, x)
      PROVE  Remembered(j)'
  <2>1. /\ pc = "insert" /\ pc' = "insert" /\ UNCHANGED <<dirty, acked, toDelete>>
        /\ rows' = Put(rows, c, x)
        /\ changed' = IF x = rows[c] THEN changed ELSE Put(changed, c, x)
    BY <1>3 DEF InsertUpsert, Upserts, NextRow
  <2>2. /\ rows'[j] = IF j = c THEN x ELSE rows[j]
        /\ changed'[j] = IF j = c /\ x # rows[c] THEN x ELSE changed[j]
    BY <1>0, <2>1 DEF Put, Table
  <2>3. j \in Touched' <=> j \in Touched \/ (j = c /\ x # rows[c])
    BY <1>0, <2>1, <2>2, NoRowAssumption DEF Touched
  <2> QED BY <1>0, <2>1, <2>2, <2>3 DEF Remembered, Changing, Emptying
<1>4. ASSUME NEW k \in Keys, NEW r \in Row, NEW c \in Keys, NEW x \in Row,
             InsertUpsertError(k, r, c, x)
      PROVE  Remembered(j)'
  <2>1. /\ pc = "insert" /\ pc' = "idle" /\ UNCHANGED acked
        /\ rows' = Put(rows, c, x) /\ dirty' = dirty \cup Touched \cup {c}
    BY <1>4 DEF InsertUpsertError, Upserts
  <2>2. rows'[j] = IF j = c THEN x ELSE rows[j]
    BY <1>0, <2>1 DEF Put, Table
  <2> QED BY <1>0, <2>1, <2>2 DEF Remembered, Changing, Emptying
<1>5. ASSUME InsertReject \/ \E k \in Keys, r \in Row : InsertConflict(k, r)
      PROVE  Remembered(j)'
  <2>1. /\ pc = "insert" /\ pc' = "idle" /\ UNCHANGED <<rows, acked>>
        /\ dirty' = dirty \cup Touched
    BY <1>5 DEF InsertReject, InsertConflict, Fail, Touched
  <2> QED BY <1>0, <2>1 DEF Remembered, Changing, Emptying
<1>6. ASSUME InsertSkipOrphan \/ InsertDone \/ PersistAuto
               \/ \E k \in Keys, r \in Row : InsertSkip(k, r)
      PROVE  Remembered(j)'
  <2>1. /\ pc \in {"insert", "auto"} /\ pc' \in {"insert", "auto", "write"}
        /\ UNCHANGED <<rows, changed, toDelete, dirty, acked>>
    BY <1>6 DEF InsertSkipOrphan, InsertDone, PersistAuto, InsertSkip, NextRow
  <2> QED BY <1>0, <2>1 DEF Remembered, Changing, Emptying, Touched
<1> QED BY <1>1, <1>2, <1>3, <1>4, <1>5, <1>6 DEF Insert

\* The other steps keep the rows accounted for.
LEMMA MemoryOtherStep ==
  ASSUME MemoryInv, Update \/ Remove \/ Persist \/ Reopen, NEW j \in Keys
  PROVE  Remembered(j)'
<1>0. /\ rows \in Table /\ changed \in Table /\ Remembered(j)
      /\ (j \in Live(changed) <=> changed[j] # NoRow)
  BY DEF MemoryInv, LoopInv, TypeOK, Live
<1>1. ASSUME BeginUpdate \/ UpdateReject \/ (\E k \in Keys : UpdateSkip(k))
               \/ (\E k, nk \in Keys, r \in Row : UpdateRow(k, nk, r))
      PROVE  Remembered(j)'
  <2>1. /\ pc \in {"idle", "update"} /\ pc' \in {"idle", "update"}
        /\ UNCHANGED <<rows, dirty, acked>>
    BY <1>1 DEF BeginUpdate, Begin, UpdateReject, UpdateSkip, UpdateRow, Scanning
  <2> QED BY <1>0, <2>1 DEF Remembered, Changing, Emptying
<1>2. ASSUME UpdateInstall
      PROVE  Remembered(j)'
  <2>1. /\ pc = "update" /\ pc' = "write" /\ UNCHANGED <<changed, toDelete, dirty, acked>>
        /\ rows' = next /\ todo = {}
    BY <1>2 DEF UpdateInstall
  <2>2. rows'[j] = IF j \in Touched THEN changed[j] ELSE rows[j]
    BY <2>1 DEF MemoryInv, LoopInv, UpdateFollows
  <2> QED BY <1>0, <2>1, <2>2 DEF Remembered, Changing, Emptying, Touched
<1>3. ASSUME NEW S \in SUBSET Keys, Delete(S)
      PROVE  Remembered(j)'
  <2>1. /\ pc = "idle" /\ pc' = "write" /\ UNCHANGED <<changed, dirty, acked>>
        /\ rows' = Without(rows, S) /\ toDelete' = S /\ changed = EmptyTable
    BY <1>3 DEF Delete, Begin, MemoryInv, LoopInv, NoBatch
  <2>2. /\ Touched' = S /\ changed'[j] = NoRow
        /\ rows'[j] = IF j \in S THEN NoRow ELSE rows[j]
    BY <2>1, LiveEmpty DEF Touched, EmptyTable, Without
  <2> QED BY <1>0, <2>1, <2>2 DEF Remembered, Changing, Emptying
<1>4. ASSUME NEW S \in SUBSET Keys, DeleteJoined(S)
      PROVE  Remembered(j)'
  <2>1. pc = "idle" /\ pc' = "joined" /\ UNCHANGED <<rows, dirty, acked>>
    BY <1>4 DEF DeleteJoined, Begin
  <2> QED BY <1>0, <2>1 DEF Remembered, Changing, Emptying
<1>5. ASSUME JoinedInstall
      PROVE  Remembered(j)'
  <2>1. /\ pc = "joined" /\ pc' = "idle" /\ dirty' = dirty \ toDelete
        /\ rows' = Without(rows, toDelete) /\ acked' = Without(acked, toDelete)
    BY <1>5 DEF JoinedInstall
  <2>2. /\ rows'[j] = IF j \in toDelete THEN NoRow ELSE rows[j]
        /\ acked'[j] = IF j \in toDelete THEN NoRow ELSE acked[j]
    BY <2>1 DEF Without
  <2> QED BY <1>0, <2>1, <2>2 DEF Remembered, Changing, Emptying
<1>6. ASSUME Truncate \/ TruncatePks \/ (\E k \in Keys : TruncateHash(k))
      PROVE  Remembered(j)'
  <2>1. pc' \in {"trunc", "truncAuto"} /\ rows'[j] = NoRow
    BY <1>0, <1>6 DEF Truncate, TruncatePks, TruncateHash, Remembered, Emptying, EmptyTable
  <2> QED BY <2>1 DEF Remembered, Changing, Emptying
<1>7. ASSUME TruncateAuto
      PROVE  Remembered(j)'
  <2>1. pc' = "idle" /\ rows'[j] = NoRow /\ acked'[j] = NoRow
    BY <1>0, <1>7 DEF TruncateAuto, Remembered, Emptying, EmptyTable
  <2> QED BY <2>1 DEF Remembered, Changing, Emptying
<1>8. ASSUME NEW k \in Keys, SRem(k) \/ Del(k) \/ SAdd(k) \/ DelOld(k) \/ HSet(k) \/ HSetLast(k)
      PROVE  Remembered(j)'
  <2>1. pc' = pc /\ UNCHANGED <<rows, changed, toDelete, dirty, acked>>
    BY <1>8 DEF SRem, Del, SAdd, DelOld, HSet, HSetLast, Putting, Piping
  <2> QED BY <1>0, <2>1 DEF Remembered, Changing, Emptying, Touched
<1>9. ASSUME Answer
      PROVE  Remembered(j)'
  <2>1. /\ pc = "write" /\ pc' = "idle" /\ UNCHANGED rows /\ dirty' = dirty \ Touched
        /\ acked'[j] = IF j \in Touched THEN rows[j] ELSE acked[j]
    BY <1>9 DEF Answer
  <2> QED BY <1>0, <2>1 DEF Remembered, Changing, Emptying
<1>10. ASSUME Reopen
       PROVE  Remembered(j)'
  <2>1. pc' = "idle" /\ rows' = acked'
    BY <1>10 DEF Reopen
  <2> QED BY <2>1 DEF Remembered, Changing, Emptying
<1> QED BY <1>1, <1>2, <1>3, <1>4, <1>5, <1>6, <1>7, <1>8, <1>9, <1>10
        DEF Update, Remove, Persist

-----------------------------------------------------------------------------
(* The pipeline.  A key of the statement is as it was before, or removed, or *)
(* written, and the one the pipeline is at is in between.                  *)

Pipes == pc \in {"write", "joined"}

PipeOK ==
  /\ ~Pipes => delLeft = {} /\ putLeft = {} /\ step = 0
  /\ pc = "joined" => changed = EmptyTable
  /\ delLeft \subseteq toDelete
  /\ delLeft # {} => step \in {0, 1} /\ putLeft = Live(changed)
  /\ delLeft = {} /\ putLeft = {} => step = 0

Removing(k) == step = 1 /\ IsFirst(k, delLeft)
Writing(k) == step > 0 /\ delLeft = {} /\ IsFirst(k, putLeft)

\* What the store has of a key the pipeline has still to write.
Before(k) == IF k \in toDelete \ delLeft THEN NoRow ELSE acked[k]
\* What the store has of a key the pipeline is not at.
Settled(k) ==
  IF ~Pipes THEN acked[k] ELSE IF k \in Live(changed) \ putLeft THEN changed[k] ELSE Before(k)
Loose(k) == k \notin pks /\ hash[k] # NoRow

KeyFollows(k) ==
  /\ Removing(k) => k \notin pks
  /\ Writing(k) => k \in pks /\ (step = 1 => Durable(k) = Before(k) \/ k \in orphans)
  /\ ~Removing(k) => (Loose(k) => k \in orphans)
  /\ ~Removing(k) /\ ~Writing(k) => Durable(k) = Settled(k)

Kept(k) ==
  /\ ~Emptying => KeyFollows(k)
  /\ pc = "trunc" => /\ Durable(k) \in {acked[k], NoRow}
                     /\ Loose(k) => k \in orphans
                     /\ k \notin todo => hash[k] = NoRow
  /\ pc = "truncAuto" => k \notin pks /\ hash[k] = NoRow

DiskInv == MemoryInv /\ PipeOK /\ \A k \in Keys : Kept(k)

\* The pipeline's work list stays in order.
LEMMA PipeStep ==
  ASSUME DiskInv, Next
  PROVE  PipeOK'
<1>0. /\ changed \in Table /\ putLeft \subseteq Live(changed) /\ step \in 0..4
      /\ delLeft \subseteq Keys /\ PipeOK /\ NoBatch /\ TypeOK
  BY DEF DiskInv, MemoryInv, LoopInv, TypeOK
<1>1. ASSUME NEW k \in Keys, SRem(k)
      PROVE  PipeOK'
  BY <1>0, <1>1 DEF SRem, Piping, IsFirst, PipeOK, Pipes
<1>2. ASSUME NEW k \in Keys, Del(k)
      PROVE  PipeOK'
  BY <1>0, <1>2 DEF Del, Piping, IsFirst, PipeOK, Pipes
<1>3. ASSUME NEW k \in Keys, SAdd(k) \/ DelOld(k) \/ HSet(k)
      PROVE  PipeOK'
  BY <1>0, <1>3 DEF SAdd, DelOld, HSet, Putting, Piping, IsFirst, PipeOK, Pipes
<1>4. ASSUME NEW k \in Keys, HSetLast(k)
      PROVE  PipeOK'
  BY <1>0, <1>4 DEF HSetLast, Putting, Piping, IsFirst, PipeOK, Pipes
<1>5. ASSUME ClearWork, pc' = "idle"
      PROVE  PipeOK'
  BY <1>5 DEF ClearWork, PipeOK, Pipes
<1>6. ASSUME PersistAuto \/ UpdateInstall
      PROVE  PipeOK'
  BY <1>6 DEF PersistAuto, UpdateInstall, PipeOK, Pipes
<1>7. ASSUME NEW S \in SUBSET Keys, Delete(S) \/ DeleteJoined(S)
      PROVE  PipeOK'
  <2>1. /\ pc = "idle" /\ UNCHANGED <<changed, putLeft, step>> /\ delLeft' = S /\ toDelete' = S
        /\ pc' \in {"write", "joined"}
    BY <1>7 DEF Delete, DeleteJoined, Begin
  <2>2. changed = EmptyTable /\ Live(changed) = {} /\ putLeft = {} /\ step = 0
    BY <1>0, <2>1, LiveEmpty DEF NoBatch, PipeOK, Pipes
  <2> QED BY <2>1, <2>2 DEF PipeOK, Pipes
<1>8. ASSUME ~Pipes, ~Pipes', UNCHANGED <<delLeft, putLeft, step>>
      PROVE  PipeOK'
  BY <1>0, <1>8 DEF PipeOK, Pipes
<1>9. ASSUME Insert
      PROVE  PipeOK'
  <2>1. ASSUME NEW m \in Modes, BeginInsert(m)
        PROVE  PipeOK'
    BY <1>8, <2>1 DEF BeginInsert, Begin, Pipes
  <2>2. ASSUME NEW k \in Keys, NEW r \in Row, InsertStore(k, r) \/ InsertSkip(k, r)
        PROVE  PipeOK'
    BY <1>8, <2>2 DEF InsertStore, InsertSkip, NextRow, Pipes
  <2>3. ASSUME NEW k \in Keys, NEW r \in Row, NEW c \in Keys, NEW x \in Row,
               InsertUpsert(k, r, c, x) \/ InsertUpsertError(k, r, c, x)
        PROVE  PipeOK'
    <3>1. \/ ClearWork /\ pc' = "idle"
          \/ ~Pipes /\ ~Pipes' /\ UNCHANGED <<delLeft, putLeft, step>>
      BY <2>3 DEF InsertUpsert, InsertUpsertError, Upserts, NextRow, Pipes
    <3> QED BY <1>5, <1>8, <3>1
  <2>4. ASSUME InsertReject \/ \E k \in Keys, r \in Row : InsertConflict(k, r)
        PROVE  PipeOK'
    BY <1>5, <2>4 DEF InsertReject, InsertConflict, Fail
  <2>5. ASSUME InsertSkipOrphan \/ InsertDone
        PROVE  PipeOK'
    BY <1>8, <2>5 DEF InsertSkipOrphan, InsertDone, NextRow, Pipes
  <2> QED BY <1>6, <1>9, <2>1, <2>2, <2>3, <2>4, <2>5 DEF Insert
<1>10. ASSUME Update
       PROVE  PipeOK'
  <2>1. ASSUME NEW k \in Keys, Scanning(k)
        PROVE  PipeOK'
    BY <1>8, <2>1 DEF Scanning, Pipes
  <2>3. ASSUME BeginUpdate
        PROVE  PipeOK'
    BY <1>8, <2>3 DEF BeginUpdate, Begin, Pipes
  <2>2. ASSUME UpdateReject
        PROVE  PipeOK'
    BY <1>5, <2>2 DEF UpdateReject
  <2> QED BY <1>6, <1>10, <2>1, <2>2, <2>3 DEF Update, UpdateSkip, UpdateRow
<1>11. ASSUME Remove
       PROVE  PipeOK'
  <2>1. \/ (\E S \in SUBSET Keys : Delete(S) \/ DeleteJoined(S))
        \/ (ClearWork /\ pc' = "idle")
        \/ (~Pipes /\ ~Pipes' /\ UNCHANGED <<delLeft, putLeft, step>>)
    BY <1>11 DEF Remove, JoinedInstall, Truncate, Begin, TruncateHash, TruncatePks,
       TruncateAuto, Pipes
  <2> QED BY <1>5, <1>7, <1>8, <2>1
<1> QED BY <1>1, <1>2, <1>3, <1>4, <1>5, <1>9, <1>10, <1>11
        DEF Next, Persist, Answer, Reopen

\* The commands of the pipeline move one key on and leave the others alone.
LEMMA CommandStep ==
  ASSUME DiskInv, NEW k \in Keys, NEW j \in Keys,
         SRem(k) \/ Del(k) \/ SAdd(k) \/ DelOld(k) \/ HSet(k) \/ HSetLast(k)
  PROVE  Kept(j)'
<1>0. /\ Pipes /\ pc' = pc /\ UNCHANGED <<acked, changed, toDelete>>
      /\ hash \in Table /\ step \in 0..4 /\ delLeft \in SUBSET Keys /\ putLeft \in SUBSET Keys
      /\ delLeft \subseteq toDelete /\ (delLeft # {} => step \in {0, 1} /\ putLeft = Live(changed))
      /\ putLeft \subseteq Live(changed)
  BY LiveRows DEF SRem, Del, SAdd, DelOld, HSet, HSetLast, Putting, Piping, Pipes, DiskInv,
     MemoryInv, LoopInv, TypeOK, PipeOK
<1>1. KeyFollows(j) /\ ~Emptying
  BY <1>0 DEF DiskInv, Kept, Emptying, Pipes
<1>2. SUFFICES KeyFollows(j)'
  BY <1>0 DEF Kept, Emptying, Pipes
<1>3. \A S \in SUBSET Keys : IsFirst(j, S) /\ IsFirst(k, S) => j = k
  BY FirstIsOne
<1>4. CASE SRem(k)
  <2>1. /\ IsFirst(k, delLeft) /\ step = 0 /\ step' = 1 /\ pks' = pks \ {k} /\ delLeft # {}
        /\ UNCHANGED <<hash, delLeft, putLeft, orphans>>
    BY <1>4 DEF SRem, IsFirst
  <2>2. CASE j = k
    BY <1>0, <2>1, <2>2 DEF KeyFollows, Removing, Writing
  <2>3. CASE j # k
    <3>1. ~Removing(j) /\ ~Writing(j) /\ ~Removing(j)' /\ ~Writing(j)'
      BY <1>0, <1>3, <2>1, <2>3 DEF Removing, Writing
    <3>2. Durable(j)' = Durable(j) /\ Settled(j)' = Settled(j) /\ (Loose(j)' <=> Loose(j))
      BY <1>0, <2>1, <2>3 DEF Durable, Settled, Before, Loose, Pipes
    <3> QED BY <1>1, <2>1, <3>1, <3>2 DEF KeyFollows
  <2> QED BY <2>2, <2>3
<1>5. CASE Del(k)
  <2>1. /\ IsFirst(k, delLeft) /\ step = 1 /\ step' = 0 /\ delLeft # {} /\ k \in delLeft
        /\ hash' = Put(hash, k, NoRow) /\ delLeft' = delLeft \ {k} /\ orphans' = orphans \ {k}
        /\ UNCHANGED <<pks, putLeft>>
    BY <1>5 DEF Del, IsFirst
  <2>2. ~Removing(j)' /\ ~Writing(j)' /\ hash'[j] = IF j = k THEN NoRow ELSE hash[j]
    BY <1>0, <2>1 DEF Removing, Writing, Put, Table
  <2>3. CASE j = k
    <3>1. Durable(j)' = NoRow /\ ~Loose(j)'
      BY <2>2, <2>3 DEF Durable, Loose
    <3>2. Settled(j)' = NoRow
      BY <1>0, <2>1, <2>3 DEF Settled, Before, Pipes
    <3> QED BY <2>2, <3>1, <3>2 DEF KeyFollows
  <2>4. CASE j # k
    <3>1. ~Removing(j) /\ ~Writing(j)
      BY <1>0, <1>3, <2>1, <2>4 DEF Removing, Writing
    <3>2. Durable(j)' = Durable(j) /\ Settled(j)' = Settled(j) /\ (Loose(j)' <=> Loose(j))
      BY <1>0, <2>1, <2>2, <2>4 DEF Durable, Settled, Before, Loose, Pipes
    <3> QED BY <1>1, <2>1, <2>2, <2>4, <3>1, <3>2 DEF KeyFollows
  <2> QED BY <2>3, <2>4
<1>6. CASE SAdd(k)
  <2>1. /\ IsFirst(k, putLeft) /\ delLeft = {} /\ step = 0 /\ step' = 1 /\ pks' = pks \cup {k}
        /\ UNCHANGED <<hash, delLeft, putLeft, orphans>> /\ k \in putLeft
    BY <1>6 DEF SAdd, Putting, IsFirst
  <2>2. ~Removing(j) /\ ~Writing(j) /\ ~Removing(j)'
    BY <1>0, <2>1 DEF Removing, Writing, IsFirst
  <2>3. CASE j = k
    <3>1. Durable(j) = Before(j) /\ Before(j)' = Before(j)
      BY <1>0, <1>1, <2>1, <2>2, <2>3 DEF KeyFollows, Settled, Before
    <3>2. Durable(j)' = Durable(j) \/ j \in orphans
      BY <1>1, <2>1, <2>2, <2>3 DEF KeyFollows, Durable, Loose
    <3> QED BY <2>1, <2>2, <2>3, <3>1, <3>2 DEF KeyFollows, Writing, Loose
  <2>4. CASE j # k
    <3>1. ~Writing(j)'
      BY <1>0, <1>3, <2>1, <2>4 DEF Writing
    <3>2. Durable(j)' = Durable(j) /\ Settled(j)' = Settled(j) /\ (Loose(j)' <=> Loose(j))
      BY <1>0, <2>1, <2>4 DEF Durable, Settled, Before, Loose, Pipes
    <3> QED BY <1>1, <2>1, <2>2, <3>1, <3>2 DEF KeyFollows
  <2> QED BY <2>3, <2>4
<1>7. CASE DelOld(k) \/ HSet(k)
  <2>1. /\ IsFirst(k, putLeft) /\ delLeft = {} /\ step > 0 /\ step' > 1 /\ step' \in Nat
        /\ UNCHANGED <<pks, delLeft, putLeft>> /\ orphans \ {k} \subseteq orphans'
        /\ \A i \in Keys \ {k} : hash'[i] = hash[i]
    BY <1>0, <1>7 DEF DelOld, HSet, Putting, Put, Table
  <2>2. ~Removing(j) /\ ~Removing(j)' /\ Writing(k) /\ Writing(k)'
    BY <1>0, <2>1 DEF Removing, Writing, IsFirst
  <2>3. CASE j = k
    BY <1>0, <1>1, <2>1, <2>2, <2>3 DEF KeyFollows, Loose
  <2>4. CASE j # k
    <3>1. ~Writing(j) /\ ~Writing(j)'
      BY <1>0, <1>3, <2>1, <2>4 DEF Writing
    <3>2. Durable(j)' = Durable(j) /\ Settled(j)' = Settled(j) /\ (Loose(j)' <=> Loose(j))
      BY <1>0, <2>1, <2>4 DEF Durable, Settled, Before, Loose, Pipes
    <3> QED BY <1>1, <2>1, <2>2, <2>4, <3>1, <3>2 DEF KeyFollows
  <2> QED BY <2>3, <2>4
<1>8. CASE HSetLast(k)
  <2>1. /\ IsFirst(k, putLeft) /\ delLeft = {} /\ step = 4 /\ step' = 0 /\ k \in putLeft
        /\ UNCHANGED <<pks, delLeft, orphans>> /\ putLeft' = putLeft \ {k}
        /\ \A i \in Keys : hash'[i] = IF i = k THEN changed[k] ELSE hash[i]
    BY <1>0, <1>8 DEF HSetLast, Putting, Put, Table, IsFirst
  <2>2. ~Removing(j) /\ ~Removing(j)' /\ ~Writing(j)' /\ Writing(k)
    BY <1>0, <2>1 DEF Removing, Writing, IsFirst
  <2>3. CASE j = k
    <3>1. j \in pks /\ j \in Live(changed)
      BY <1>0, <1>1, <2>1, <2>2, <2>3 DEF KeyFollows
    <3>2. Durable(j)' = changed[j] /\ Settled(j)' = changed[j] /\ ~Loose(j)'
      BY <1>0, <2>1, <2>3, <3>1 DEF Durable, Settled, Loose, Pipes
    <3> QED BY <2>2, <3>2 DEF KeyFollows
  <2>4. CASE j # k
    <3>1. ~Writing(j)
      BY <1>0, <1>3, <2>1, <2>4 DEF Writing
    <3>2. Durable(j)' = Durable(j) /\ Settled(j)' = Settled(j) /\ (Loose(j)' <=> Loose(j))
      BY <1>0, <2>1, <2>4 DEF Durable, Settled, Before, Loose, Pipes
    <3> QED BY <1>1, <2>1, <2>2, <3>1, <3>2 DEF KeyFollows
  <2> QED BY <2>3, <2>4
<1> QED BY <1>4, <1>5, <1>6, <1>7, <1>8

\* What enters or leaves the pipeline, and TRUNCATE, keep the store in step.
LEMMA StatementStep ==
  ASSUME DiskInv, NEW j \in Keys,
         PersistAuto \/ UpdateInstall \/ Answer \/ Remove
  PROVE  Kept(j)'
<1>0. /\ hash \in Table /\ changed \in Table /\ PipeOK /\ Kept(j) /\ Remembered(j) /\ NoBatch
      /\ putLeft \subseteq Live(changed)
      /\ (j \in Live(changed) <=> changed[j] # NoRow)
  BY LiveRows DEF DiskInv, MemoryInv, LoopInv, TypeOK, PipeOK, Live
<1>1. ASSUME ~Pipes, ~Emptying, UNCHANGED <<pks, hash, acked>>, pc' \in {"write", "joined"},
             step' = 0, delLeft' = toDelete', putLeft' = Live(changed)' \/ Live(changed)' = {},
             j \in orphans => j \in orphans'
      PROVE  Kept(j)'
  <2>1. ~Removing(j) /\ ~Writing(j) /\ ~Removing(j)' /\ ~Writing(j)'
    BY <1>0, <1>1 DEF PipeOK, Removing, Writing
  <2>2. Settled(j)' = acked[j] /\ Settled(j) = acked[j]
    BY <1>1 DEF Settled, Before, Pipes
  <2> QED BY <1>0, <1>1, <2>1, <2>2 DEF Kept, KeyFollows, Emptying, Loose, Durable
<1>2. ASSUME PersistAuto \/ UpdateInstall
      PROVE  Kept(j)'
  BY <1>1, <1>2 DEF PersistAuto, UpdateInstall, Pipes, Emptying
<1>3. ASSUME NEW S \in SUBSET Keys, Delete(S) \/ DeleteJoined(S)
      PROVE  Kept(j)'
  <2>1. Live(changed)' = {} /\ step = 0
    BY <1>0, <1>3, LiveEmpty DEF Delete, DeleteJoined, Begin, NoBatch, PipeOK, Pipes
  <2> QED BY <1>1, <1>3, <2>1 DEF Delete, DeleteJoined, Begin, Pipes, Emptying
<1>4. ASSUME pc' = "idle", delLeft' = {}, putLeft' = {}, step' = 0,
             Durable(j)' = acked'[j], Loose(j)' => j \in orphans'
      PROVE  Kept(j)'
  BY <1>4 DEF Kept, KeyFollows, Emptying, Removing, Writing, Settled, Pipes
<1>5. ASSUME Answer
      PROVE  Kept(j)'
  <2>1. /\ pc = "write" /\ delLeft = {} /\ putLeft = {} /\ step = 0 /\ UNCHANGED <<pks, hash, orphans>>
        /\ acked'[j] = IF j \in Touched THEN rows[j] ELSE acked[j]
    BY <1>0, <1>5 DEF Answer, PipeOK
  <2>2. ~Removing(j) /\ ~Writing(j)
    BY <2>1 DEF Removing, Writing
  <2>3. Durable(j) = Settled(j) /\ (Loose(j) => j \in orphans)
    BY <1>0, <2>1, <2>2 DEF Kept, KeyFollows, Emptying
  <2>4. Settled(j) = acked'[j]
    BY <1>0, <2>1 DEF Settled, Before, Pipes, Remembered, Changing, Touched
  <2> QED BY <1>4, <1>5, <2>1, <2>3, <2>4 DEF Answer, ClearWork, Durable, Loose
<1>6. ASSUME JoinedInstall
      PROVE  Kept(j)'
  <2>1. /\ pc = "joined" /\ delLeft = {} /\ putLeft = {} /\ step = 0 /\ UNCHANGED <<pks, hash, orphans>>
        /\ acked'[j] = IF j \in toDelete THEN NoRow ELSE acked[j]
    BY <1>0, <1>6, LiveEmpty DEF JoinedInstall, PipeOK, Without
  <2>2. ~Removing(j) /\ ~Writing(j)
    BY <2>1 DEF Removing, Writing
  <2>3. Durable(j) = Settled(j) /\ (Loose(j) => j \in orphans)
    BY <1>0, <2>1, <2>2 DEF Kept, KeyFollows, Emptying
  <2>4. Settled(j) = acked'[j]
    BY <1>0, <2>1, LiveEmpty DEF Settled, Before, Pipes, PipeOK
  <2> QED BY <1>4, <1>6, <2>1, <2>3, <2>4 DEF JoinedInstall, ClearWork, Durable, Loose
<1>7. ASSUME Truncate
      PROVE  Kept(j)'
  <2>1. /\ pc = "idle" /\ pc' = "trunc" /\ UNCHANGED <<pks, hash, orphans, acked>>
        /\ (j \notin todo' => hash[j] = NoRow)
    BY <1>7 DEF Truncate, Begin, Live
  <2>2. Durable(j) = acked[j] /\ (Loose(j) => j \in orphans)
    BY <1>0, <2>1 DEF Kept, KeyFollows, Emptying, Removing, Writing, Settled, Pipes, PipeOK
  <2> QED BY <2>1, <2>2 DEF Kept, Emptying, Durable, Loose
<1>8. ASSUME NEW k \in Keys, TruncateHash(k)
      PROVE  Kept(j)'
  <2>1. /\ pc = "trunc" /\ pc' = "trunc" /\ UNCHANGED <<pks, acked>> /\ todo' = todo \ {k}
        /\ hash'[j] = (IF j = k THEN NoRow ELSE hash[j]) /\ orphans' = orphans \ {k}
    BY <1>0, <1>8 DEF TruncateHash, Put, Table
  <2> QED BY <1>0, <2>1 DEF Kept, Emptying, Durable, Loose
<1>9. ASSUME TruncatePks \/ TruncateAuto
      PROVE  Kept(j)'
  <2>1. CASE TruncatePks
    BY <1>0, <2>1 DEF TruncatePks, Kept, Emptying
  <2>2. CASE TruncateAuto
    <3>1. j \notin pks' /\ hash'[j] = NoRow /\ acked'[j] = NoRow
      BY <1>0, <2>2 DEF TruncateAuto, Kept, EmptyTable
    <3>2. pc' = "idle" /\ delLeft' = {} /\ putLeft' = {} /\ step' = 0
      BY <1>0, <2>2 DEF TruncateAuto, PipeOK, Pipes
    <3> QED BY <1>4, <3>1, <3>2 DEF Durable, Loose
  <2> QED BY <1>9, <2>1, <2>2
<1> QED BY <1>2, <1>3, <1>5, <1>6, <1>7, <1>8, <1>9 DEF Remove

\* Before its pipeline a statement does not touch the store, and a reopening
\* takes it as it is.
LEMMA QuietStep ==
  ASSUME DiskInv, NEW j \in Keys,
         (Insert /\ ~PersistAuto) \/ (Update /\ ~UpdateInstall) \/ Reopen
  PROVE  Kept(j)'
<1>1. CASE Reopen
  <2>1. /\ pc' = "idle" /\ delLeft' = {} /\ putLeft' = {} /\ step' = 0
        /\ Durable(j)' = acked'[j] /\ (Loose(j)' => j \in orphans')
    BY <1>1 DEF Reopen, ClearWork, Load, Durable, Loose
  <2> QED BY <2>1 DEF Kept, KeyFollows, Emptying, Removing, Writing, Settled, Pipes
<1>2. ASSUME ~Pipes, ~Emptying, ~Pipes', ~Emptying', UNCHANGED <<pks, hash, acked, orphans>>,
             delLeft' = {}, putLeft' = {}, step' = 0
      PROVE  Kept(j)'
  <2>1. step = 0 /\ Kept(j)
    BY <1>2 DEF DiskInv, PipeOK
  <2>2. ~Removing(j) /\ ~Writing(j) /\ ~Removing(j)' /\ ~Writing(j)'
    BY <1>2, <2>1 DEF Removing, Writing
  <2>3. Durable(j) = acked[j] /\ (Loose(j) => j \in orphans)
    BY <1>2, <2>1, <2>2 DEF Kept, KeyFollows, Settled
  <2>4. Durable(j)' = acked'[j] /\ (Loose(j)' => j \in orphans') /\ Settled(j)' = acked'[j]
    BY <1>2, <2>3 DEF Durable, Loose, Settled
  <2> QED BY <1>2, <2>2, <2>4 DEF Kept, KeyFollows, Emptying
<1>3. ASSUME ~Pipes, ~Emptying, ~Pipes', ~Emptying', UNCHANGED <<pks, hash, acked, orphans>>,
             ClearWork \/ UNCHANGED pipe
      PROVE  Kept(j)'
  BY <1>2, <1>3 DEF DiskInv, PipeOK, ClearWork
<1>4. ASSUME Insert, ~PersistAuto
      PROVE  Kept(j)'
  <2>1. ASSUME NEW m \in Modes, BeginInsert(m)
        PROVE  Kept(j)'
    BY <1>3, <2>1 DEF BeginInsert, Begin, Pipes, Emptying
  <2>2. ASSUME NEW k \in Keys, NEW r \in Row, InsertStore(k, r) \/ InsertSkip(k, r)
        PROVE  Kept(j)'
    BY <1>3, <2>2 DEF InsertStore, InsertSkip, NextRow, Pipes, Emptying
  <2>3. ASSUME NEW k \in Keys, NEW r \in Row, NEW c \in Keys, NEW x \in Row,
               InsertUpsert(k, r, c, x) \/ InsertUpsertError(k, r, c, x)
        PROVE  Kept(j)'
    <3>1. /\ ~Pipes /\ ~Emptying /\ ~Pipes' /\ ~Emptying'
          /\ UNCHANGED <<pks, hash, acked, orphans>>
          /\ ClearWork \/ UNCHANGED pipe
      BY <2>3 DEF InsertUpsert, InsertUpsertError, Upserts, NextRow, Pipes, Emptying
    <3> QED BY <1>3, <3>1
  <2>4. ASSUME InsertReject \/ \E k \in Keys, r \in Row : InsertConflict(k, r)
        PROVE  Kept(j)'
    BY <1>3, <2>4 DEF InsertReject, InsertConflict, Fail, Pipes, Emptying
  <2>5. ASSUME InsertSkipOrphan \/ InsertDone
        PROVE  Kept(j)'
    BY <1>3, <2>5 DEF InsertSkipOrphan, InsertDone, NextRow, Pipes, Emptying
  <2> QED BY <1>4, <2>1, <2>2, <2>3, <2>4, <2>5 DEF Insert
<1>5. ASSUME Update, ~UpdateInstall
      PROVE  Kept(j)'
  <2>1. ASSUME NEW k \in Keys, Scanning(k)
        PROVE  Kept(j)'
    BY <1>3, <2>1 DEF Scanning, Pipes, Emptying
  <2>2. ASSUME BeginUpdate \/ UpdateReject
        PROVE  Kept(j)'
    BY <1>3, <2>2 DEF BeginUpdate, Begin, UpdateReject, Pipes, Emptying
  <2> QED BY <1>5, <2>1, <2>2 DEF Update, UpdateSkip, UpdateRow
<1> QED BY <1>1, <1>4, <1>5

\* The parts of the invariant hold together in every reachable state.
THEOREM DiskHolds ==
  ASSUME "id" \notin UpdateCols
  PROVE  Spec => []DiskInv
<1>1. Init => DiskInv
  <2> SUFFICES ASSUME Init PROVE DiskInv
    OBVIOUS
  <2>1. LoopInv
    BY InitTypes, Zenon DEF Init, LoopInv, NoBatch, UpdateFollows
  <2>2. /\ pc = "idle" /\ rows = EmptyTable /\ acked = EmptyTable /\ pks = {} /\ hash = EmptyTable
        /\ delLeft = {} /\ putLeft = {} /\ step = 0
    BY DEF Init
  <2>3. MemoryInv
    BY <2>1, <2>2 DEF MemoryInv, Remembered, Changing, Emptying
  <2>4. PipeOK
    BY <2>2 DEF PipeOK, Pipes
  <2>5. \A k \in Keys : Kept(k)
    <3> SUFFICES ASSUME NEW k \in Keys PROVE Kept(k)
      OBVIOUS
    <3>1. ~Removing(k) /\ ~Writing(k) /\ Durable(k) = NoRow /\ acked[k] = NoRow /\ ~Loose(k)
      BY <2>2 DEF Removing, Writing, Durable, Loose, EmptyTable
    <3> QED BY <2>2, <3>1 DEF Kept, KeyFollows, Settled, Pipes
  <2> QED BY <2>3, <2>4, <2>5 DEF DiskInv
<1>2. DiskInv /\ [Next]_vars => DiskInv'
  <2>1. ASSUME DiskInv, Next
        PROVE  DiskInv'
    <3>1. LoopInv'
      BY <2>1, LoopStep DEF DiskInv, MemoryInv
    <3>2. \A k \in Keys : Remembered(k)'
      BY <2>1, MemoryInsertStep, MemoryOtherStep DEF DiskInv, Next
    <3>3. PipeOK'
      BY <2>1, PipeStep
    <3>4. \A k \in Keys : Kept(k)'
      BY <2>1, CommandStep, StatementStep, QuietStep DEF Next, Persist, Update, Insert
    <3> QED BY <3>1, <3>2, <3>3, <3>4 DEF DiskInv, MemoryInv
  <2>2. CASE UNCHANGED vars
    BY <2>2 DEF DiskInv, MemoryInv, LoopInv, TypeOK, NoBatch, UpdateFollows, Touched, Remembered,
       Changing, Emptying, PipeOK, Pipes, Kept, KeyFollows, Removing, Writing, Settled, Before,
       Loose, Durable
  <2> QED BY <2>1, <2>2
<1> QED BY <1>1, <1>2, PTL DEF Spec

\* Between statements a reopening finds every row as memory has it, except the
\* rows a failed statement left in memory, if UPDATE leaves the primary key alone.
THEOREM StorageMirrorsMemoryHolds ==
  ASSUME "id" \notin UpdateCols
  PROVE  Spec => []StorageMirrorsMemory
<1>1. DiskInv => StorageMirrorsMemory
  <2> SUFFICES ASSUME DiskInv, pc = "idle", NEW k \in Keys \ dirty
               PROVE  Durable(k) = rows[k]
    BY DEF StorageMirrorsMemory
  <2>1. Durable(k) = acked[k]
    BY DEF DiskInv, PipeOK, Pipes, Kept, KeyFollows, Emptying, Removing, Writing, Settled
  <2>2. rows[k] = acked[k]
    BY DEF DiskInv, MemoryInv, Remembered, Changing, Emptying
  <2> QED BY <2>1, <2>2
<1> QED BY <1>1, DiskHolds, PTL

\* At any moment a crash leaves each row as the last answered statement left it,
\* or as the running statement removes or writes it, up to the row that is being
\* written and the hash of an earlier crash whose key is added again, if UPDATE
\* leaves the primary key alone.
THEOREM CrashSafeHolds ==
  ASSUME "id" \notin UpdateCols
  PROVE  Spec => []CrashSafe
<1>1. DiskInv => CrashSafe
  <2> SUFFICES ASSUME DiskInv, NEW k \in Keys
               PROVE  \/ Durable(k) = acked[k]
                      \/ pc = "write" /\ k \in Live(changed) /\ Durable(k) = changed[k]
                      \/ pc \in {"write", "joined"} /\ k \in toDelete /\ Durable(k) = NoRow
                      \/ pc \in {"trunc", "truncAuto"} /\ Durable(k) = NoRow
                      \/ pc = "write" /\ k \in orphans /\ Durable(k) = hash[k]
                      \/ pc = "write" /\ step > 1 /\ IsFirst(k, putLeft)
    BY DEF CrashSafe
  <2>0. /\ Kept(k) /\ PipeOK /\ step \in 0..4 /\ putLeft \subseteq Live(changed)
        /\ (pc = "joined" => Live(changed) = {})
    BY LiveRows, LiveEmpty DEF DiskInv, MemoryInv, LoopInv, TypeOK, PipeOK
  <2>1. CASE Emptying
    BY <2>0, <2>1 DEF Kept, Emptying, Durable
  <2>2. CASE ~Emptying /\ Removing(k)
    <3>1. Durable(k) = NoRow
      BY <2>0, <2>2 DEF Kept, KeyFollows, Durable
    <3>2. k \in toDelete /\ pc \in {"write", "joined"}
      BY <2>0, <2>2 DEF Removing, IsFirst, PipeOK, Pipes
    <3> QED BY <3>1, <3>2
  <2>3. CASE ~Emptying /\ Writing(k)
    <3>1. k \in putLeft /\ pc = "write" /\ step > 0 /\ IsFirst(k, putLeft)
      BY <2>0, <2>3 DEF Writing, IsFirst, PipeOK, Pipes
    <3>2. CASE step = 1
      BY <2>0, <2>3, <3>1, <3>2 DEF Kept, KeyFollows, Before, Durable
    <3>3. CASE step > 1
      BY <3>1, <3>3
    <3> QED BY <2>0, <3>1, <3>2, <3>3
  <2>4. CASE ~Emptying /\ ~Removing(k) /\ ~Writing(k)
    <3>1. Durable(k) = Settled(k)
      BY <2>0, <2>4 DEF Kept, KeyFollows
    <3> QED BY <2>0, <3>1 DEF Settled, Before, Pipes
  <2> QED BY <2>1, <2>2, <2>3, <2>4
<1> QED BY <1>1, DiskHolds, PTL
=============================================================================
