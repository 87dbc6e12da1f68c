----------------------- MODULE ConcurrentInsert_proofs -----------------------
(***************************************************************************)
(* Theorems about ConcurrentInsert for any number of connections, keys and *)
(* statements.                                                             *)
(***************************************************************************)
EXTENDS ConcurrentInsert, TableOps_lemmas, TLAPS

-----------------------------------------------------------------------------
(* The parts of the inductive invariant                                    *)

\* A row is in hand exactly while it waits to be stored, and there is room for it.
InHand ==
  \A s \in Sessions :
    /\ pc[s] = "apply" <=> taken[s] # NoneTaken
    /\ pc[s] = "apply" => room[s] > 0

\* FreshIds, a statement about each session and each pair of them.
IdsFresh ==
  /\ \A k \in Live(rows) : k <= autoInc
  /\ \A s \in Sessions : taken[s] # NoneTaken => taken[s].key <= autoInc
  /\ \A s, t \in Sessions :
       /\ taken[s] # NoneTaken /\ taken[t] # NoneTaken
       /\ taken[s].generated /\ taken[t].generated /\ taken[s].key = taken[t].key
       => s = t

\* What a statement has changed is what memory has, and what its pipeline has
\* written is what disk has.
BatchesCurrent ==
  \A s \in Sessions :
    /\ pc[s] = "idle" => changed[s] = EmptyTable
    /\ \A k \in Live(changed[s]) : rows[k] = changed[s][k]
    /\ pc[s] = "write" =>
         /\ putLeft[s] \subseteq Live(changed[s])
         /\ \A k \in Live(changed[s]) \ putLeft[s] : disk[k] = changed[s][k]

\* The statement of s has yet to write row k.
Owes(s, k) == k \in Live(changed[s]) /\ (pc[s] = "write" => k \in putLeft[s])

\* A row that memory and disk disagree on is dirty or owed by a statement.
Mirrored ==
  /\ Live(disk) \subseteq Live(rows)
  /\ \A k \in Live(rows) \ dirty : disk[k] = rows[k] \/ \E s \in Sessions : Owes(s, k)

Inv == TypeOK /\ InHand /\ IdsFresh /\ IndexExact /\ BatchesCurrent /\ Mirrored /\ AckedRowsStay

-----------------------------------------------------------------------------
\* Adding a row under a free key to the index gives the index of the new rows
\* (add_row_to_indexes, rebuild_indexes).
LEMMA IndexFollowsNewRow ==
  ASSUME NEW t \in Table, NEW k \in Keys \ Live(t), NEW r \in Row
  PROVE  AddToIndex(BuildIndex(t), Put(t, k, r), {k}) = BuildIndex(Put(t, k, r))
<1> DEFINE n == Put(t, k, r)
<1>1. \A v : Holders(n, v) = (Holders(t, v) \ {k}) \cup (IF r.u = v THEN {k} ELSE {})
  BY HoldersPut
<1>2. \A v : k \notin Holders(t, v)
  BY DEF Holders
<1>3. \A v : Holders(n, v) = Holders(t, v) \cup ({k} \cap Holders(n, v))
  BY <1>1, <1>2
<1> QED BY <1>3 DEF AddToIndex, BuildIndex

\* A key without conflict is free.
LEMMA NoConflictIsFree ==
  ASSUME NEW t, NEW l, NEW k, NEW r, ConflictKeys(t, l, k, r) = {}
  PROVE  k \notin Live(t)
BY DEF ConflictKeys

-----------------------------------------------------------------------------
(* One lemma for each kind of step                                         *)

\* The beginning of a statement.
LEMMA BeginStep ==
  ASSUME Inv, NEW s \in Sessions, Begin(s)
  PROVE  Inv'
<1> USE DEF Inv, TypeOK, Goto, Begin, memory, history
<1>1. TypeOK'
  BY BoundsAssumption, LookupTypes, TableTypes
<1>2. InHand'
  BY DEF InHand
<1>3. IdsFresh' /\ IndexExact' /\ AckedRowsStay'
  BY DEF IdsFresh, IndexExact, AckedRowsStay
<1>4. changed' = changed
  BY DEF BatchesCurrent
<1>5. BatchesCurrent' /\ Mirrored'
  BY <1>4 DEF BatchesCurrent, Mirrored, Owes
<1> QED BY <1>1, <1>2, <1>3, <1>5

\* An id is resolved, generated or given.
LEMMA TakeStep ==
  ASSUME Inv, NEW s \in Sessions, NEW k \in Keys, NEW r \in Row, NEW g \in BOOLEAN,
         Take(s, k, r, g), autoInc' \in Nat, autoInc' >= autoInc, autoInc' >= k,
         g => k = autoInc + 1
  PROVE  Inv'
<1> DEFINE hand == [key |-> k, row |-> r, generated |-> g]
<1> USE DEF Inv, TypeOK, Goto, Take, history
<1>1. hand \in Taken /\ hand # NoneTaken
  BY NoneTakenAssumption DEF Taken
<1>2. /\ pc[s] = "row" /\ room[s] > 0 /\ pc' = [pc EXCEPT ![s] = "apply"]
      /\ UNCHANGED <<rows, index, disk, storedAuto, room, lookup, changed, putLeft, seen,
                     acked, dirty, nstmt>>
  OBVIOUS
<1>3. taken' = [taken EXCEPT ![s] = hand]
  OBVIOUS
<1> HIDE DEF Take
<1>4. TypeOK'
  BY <1>1, <1>2, <1>3
<1>5. InHand'
  BY <1>1, <1>2, <1>3 DEF InHand
<1>6. IdsFresh'
  <2>1. \A t \in Sessions \ {s} : taken'[t] = taken[t]
    BY <1>3
  <2>2. taken'[s] = hand
    BY <1>3
  <2>3. \A j \in Live(rows) : j <= autoInc'
    <3>1. \A j \in Live(rows) : j \in Nat /\ j <= autoInc
      BY LiveRows, KeysAssumption DEF IdsFresh
    <3> QED BY <3>1
  <2>4. \A t \in Sessions : taken'[t] # NoneTaken => taken'[t].key <= autoInc'
    BY <1>2, <2>1, <2>2, KeysAssumption DEF IdsFresh, Taken
  <2>5. ASSUME NEW t \in Sessions \ {s}, taken[t] # NoneTaken, g
        PROVE  taken[t].key # k
    BY <1>2, <2>5, KeysAssumption DEF IdsFresh, Taken
  <2> QED BY <1>2, <2>1, <2>2, <2>3, <2>4, <2>5 DEF IdsFresh
<1>7. IndexExact' /\ AckedRowsStay'
  BY <1>2 DEF IndexExact, AckedRowsStay
<1>8. BatchesCurrent' /\ Mirrored'
  BY <1>2 DEF BatchesCurrent, Mirrored, Owes
<1> QED BY <1>4, <1>5, <1>6, <1>7, <1>8

\* A row is stored under a key that is free.
LEMMA StoreStep ==
  ASSUME Inv, NEW s \in Sessions, StoreRow(s)
  PROVE  Inv'
<1> DEFINE k == taken[s].key
           r == taken[s].row
<1> USE DEF Inv, TypeOK, Goto, Leave, history
<1>1. taken[s] \in Taken /\ k \in Keys /\ r \in Row /\ pc[s] = "apply"
  BY DEF StoreRow, InHand, Taken
<1>2. k \notin Live(rows)
  BY NoConflictIsFree DEF StoreRow
<1>3. /\ pc' = [pc EXCEPT ![s] = "row"]
      /\ taken' = [taken EXCEPT ![s] = NoneTaken]
      /\ rows' = Put(rows, k, r)
      /\ index' = AddToIndex(index, rows', {k})
      /\ lookup' = [lookup EXCEPT ![s] = AddToLookup(lookup[s], k, r)]
      /\ changed' = [changed EXCEPT ![s] = Put(changed[s], k, r)]
      /\ room' = [room EXCEPT ![s] = room[s] - 1]
      /\ UNCHANGED <<autoInc, disk, storedAuto, putLeft, seen, acked, dirty, nstmt>>
  BY DEF StoreRow
<1>4. /\ Live(rows') = Live(rows) \cup {k} /\ rows'[k] = r
      /\ \A j \in Keys \ {k} : rows'[j] = rows[j]
  BY <1>1, <1>3, LivePut
<1>5. /\ Live(changed'[s]) = Live(changed[s]) \cup {k} /\ changed'[s][k] = r
      /\ \A j \in Keys \ {k} : changed'[s][j] = changed[s][j]
      /\ \A t \in Sessions \ {s} : changed'[t] = changed[t]
  BY <1>1, <1>3, LivePut
<1>6. TypeOK'
  <2>1. room[s] - 1 \in 0..MaxBatch
    BY <1>1, BoundsAssumption DEF InHand
  <2>2. rows' \in Table /\ changed' \in [Sessions -> Table]
    BY <1>1, <1>3, TableTypes
  <2>3. index' \in Index /\ lookup' \in [Sessions -> Lookup]
    BY <1>1, <1>3, <2>2, IndexTypes, LookupTypes
  <2> QED BY <1>1, <1>3, <2>1, <2>2, <2>3
<1>7. InHand'
  BY <1>1, <1>3 DEF InHand
<1>8. IdsFresh'
  BY <1>1, <1>3, <1>4 DEF IdsFresh, InHand
<1>9. IndexExact'
  BY <1>1, <1>2, <1>3, IndexFollowsNewRow DEF IndexExact
<1>10. BatchesCurrent'
  <2> SUFFICES ASSUME NEW t \in Sessions
               PROVE  /\ pc'[t] = "idle" => changed'[t] = EmptyTable
                      /\ \A j \in Live(changed'[t]) : rows'[j] = changed'[t][j]
                      /\ pc'[t] = "write" =>
                           /\ putLeft'[t] \subseteq Live(changed'[t])
                           /\ \A j \in Live(changed'[t]) \ putLeft'[t] : disk'[j] = changed'[t][j]
    BY DEF BatchesCurrent
  <2>1. CASE t = s
    BY <1>1, <1>3, <1>4, <1>5, <2>1, LiveRows DEF BatchesCurrent
  <2>2. CASE t # s
    <3>1. \A j \in Live(changed[t]) : j \in Live(rows)
      BY LiveRows, NoRowAssumption DEF BatchesCurrent, Live, Table
    <3> QED BY <1>2, <1>3, <1>4, <1>5, <2>2, <3>1, LiveRows DEF BatchesCurrent
  <2> QED BY <2>1, <2>2
<1>11. Mirrored'
  <2>1. Live(disk') \subseteq Live(rows')
    BY <1>3, <1>4 DEF Mirrored
  <2>2. k \in Live(changed'[s]) /\ pc'[s] = "row"
    BY <1>3, <1>5, <1>1
  <2>3. ASSUME NEW j \in Live(rows) \ dirty
        PROVE  disk'[j] = rows'[j] \/ \E t \in Sessions : Owes(t, j)'
    <3>1. rows'[j] = rows[j] /\ disk' = disk
      BY <1>2, <1>3, <1>4, LiveRows
    <3>2. \A t \in Sessions : Owes(t, j) => Owes(t, j)'
      BY <1>1, <1>3, <1>5 DEF Owes
    <3> QED BY <3>1, <3>2 DEF Mirrored
  <2>4. ASSUME NEW j \in Live(rows') \ dirty'
        PROVE  disk'[j] = rows'[j] \/ \E t \in Sessions : Owes(t, j)'
    <3>1. CASE j = k
      BY <2>2, <3>1 DEF Owes
    <3>2. CASE j # k
      BY <1>3, <1>4, <2>3, <3>2
    <3> QED BY <3>1, <3>2
  <2> QED BY <2>1, <2>4 DEF Mirrored
<1>12. AckedRowsStay'
  BY <1>2, <1>3, <1>4, LiveRows DEF AckedRowsStay, Live, Table
<1> QED BY <1>6, <1>7, <1>8, <1>9, <1>10, <1>11, <1>12

\* A statement ends at a row it cannot store; its rows stay in memory.
LEMMA FailStep ==
  ASSUME Inv, NEW s \in Sessions, Conflict(s) \/ Reject(s)
  PROVE  Inv'
<1> USE DEF Inv, TypeOK, Goto, Leave, memory
<1>1. /\ pc[s] \in {"apply", "row"} /\ pc' = [pc EXCEPT ![s] = "idle"]
      /\ taken' = [taken EXCEPT ![s] = NoneTaken]
      /\ dirty' = dirty \cup Live(changed[s])
      /\ changed' = [changed EXCEPT ![s] = EmptyTable]
      /\ UNCHANGED <<rows, autoInc, index, disk, storedAuto, room, lookup, putLeft, seen,
                     acked, nstmt>>
  <2>1. CASE Conflict(s)
    BY <2>1 DEF Conflict
  <2>2. CASE Reject(s)
    <3>1. pc[s] = "row" /\ taken' = taken
      BY <2>2 DEF Reject
    <3>2. taken = [taken EXCEPT ![s] = NoneTaken]
      BY <3>1 DEF InHand
    <3> QED BY <2>2, <3>1, <3>2 DEF Reject
  <2> QED BY <2>1, <2>2
<1>2. TypeOK'
  BY <1>1, TableTypes, LiveRows
<1>3. InHand' /\ IdsFresh'
  BY <1>1 DEF InHand, IdsFresh
<1>4. IndexExact' /\ AckedRowsStay'
  BY <1>1 DEF IndexExact, AckedRowsStay
<1>5. BatchesCurrent'
  BY <1>1, LiveEmpty DEF BatchesCurrent
<1>6. Mirrored'
  BY <1>1 DEF Mirrored, Owes
<1> QED BY <1>2, <1>3, <1>4, <1>5, <1>6

\* The counter is read, then written.
LEMMA CounterStep ==
  ASSUME Inv, NEW s \in Sessions, ReadCounter(s) \/ WriteCounter(s)
  PROVE  Inv'
<1> USE DEF Inv, TypeOK, Goto, memory, history
<1>1. CASE ReadCounter(s)
  <2> USE <1>1 DEF ReadCounter
  <2>1. TypeOK' /\ InHand' /\ IdsFresh'
    BY DEF InHand, IdsFresh
  <2>2. IndexExact' /\ AckedRowsStay' /\ BatchesCurrent' /\ Mirrored'
    BY DEF IndexExact, AckedRowsStay, BatchesCurrent, Mirrored, Owes
  <2> QED BY <2>1, <2>2
<1>2. CASE WriteCounter(s)
  <2> USE <1>2 DEF WriteCounter
  <2>1. TypeOK' /\ InHand' /\ IdsFresh'
    BY LiveRows DEF InHand, IdsFresh
  <2>2. IndexExact' /\ AckedRowsStay' /\ BatchesCurrent'
    BY DEF IndexExact, AckedRowsStay, BatchesCurrent
  <2>3. Mirrored'
    BY DEF Mirrored, Owes
  <2> QED BY <2>1, <2>2, <2>3
<1> QED BY <1>1, <1>2

\* One row of a pipeline is written; it is the row that memory has.
LEMMA WriteRowStep ==
  ASSUME Inv, NEW s \in Sessions, NEW k \in Keys, WriteRow(s, k)
  PROVE  Inv'
<1> USE DEF Inv, TypeOK, memory, history
<1>1. /\ pc[s] = "write" /\ k \in putLeft[s]
      /\ disk' = Put(disk, k, changed[s][k])
      /\ putLeft' = [putLeft EXCEPT ![s] = putLeft[s] \ {k}]
      /\ UNCHANGED <<rows, autoInc, index, storedAuto, pc, room, lookup, taken, changed,
                     seen, acked, dirty, nstmt>>
  BY DEF WriteRow, IsFirst
<1>2. k \in Live(changed[s]) /\ changed[s][k] \in Row /\ rows[k] = changed[s][k]
  BY <1>1, LiveRows DEF BatchesCurrent
<1>3. /\ Live(disk') = Live(disk) \cup {k} /\ disk'[k] = rows[k]
      /\ \A j \in Keys \ {k} : disk'[j] = disk[j]
  BY <1>1, <1>2, LivePut
<1>4. TypeOK'
  BY <1>1, <1>2, TableTypes
<1>5. InHand' /\ IdsFresh' /\ IndexExact'
  BY <1>1 DEF InHand, IdsFresh, IndexExact
<1>6. BatchesCurrent'
  BY <1>1, <1>2, <1>3, LiveRows DEF BatchesCurrent
<1>7. Mirrored'
  <2>1. k \in Live(rows)
    BY <1>2, NoRowAssumption DEF Live
  <2>2. Live(disk') \subseteq Live(rows')
    BY <1>1, <1>3, <2>1 DEF Mirrored
  <2>3. ASSUME NEW j \in Live(rows) \ dirty, j # k
        PROVE  disk'[j] = rows[j] \/ \E t \in Sessions : Owes(t, j)'
    <3>1. disk'[j] = disk[j]
      BY <1>3, <2>3, LiveRows
    <3>2. \A t \in Sessions : Owes(t, j) => Owes(t, j)'
      BY <1>1, <2>3 DEF Owes
    <3> QED BY <2>3, <3>1, <3>2 DEF Mirrored
  <2> QED BY <1>1, <1>3, <2>2, <2>3 DEF Mirrored
<1>8. AckedRowsStay'
  BY <1>1, <1>3, LiveRows DEF AckedRowsStay
<1> QED BY <1>4, <1>5, <1>6, <1>7, <1>8

\* The statement answers when all its rows are on disk.
LEMMA AnswerStep ==
  ASSUME Inv, NEW s \in Sessions, Answer(s)
  PROVE  Inv'
<1> USE DEF Inv, TypeOK, Goto, memory
<1>1. /\ pc[s] = "write" /\ pc' = [pc EXCEPT ![s] = "idle"] /\ putLeft[s] = {}
      /\ acked' = [k \in Keys |-> IF k \in Live(changed[s]) THEN changed[s][k] ELSE acked[k]]
      /\ changed' = [changed EXCEPT ![s] = EmptyTable]
      /\ UNCHANGED <<rows, autoInc, index, disk, storedAuto, room, lookup, taken, putLeft,
                     seen, dirty, nstmt>>
  BY DEF Answer
<1>2. \A k \in Live(changed[s]) : changed[s][k] \in Row /\ rows[k] = changed[s][k] /\ disk[k] = changed[s][k]
  BY <1>1, LiveRows DEF BatchesCurrent
<1>3. TypeOK'
  <2>1. acked' \in Table
    BY <1>1, <1>2 DEF Table
  <2> QED BY <1>1, <2>1, TableTypes
<1>4. InHand' /\ IdsFresh' /\ IndexExact'
  BY <1>1 DEF InHand, IdsFresh, IndexExact
<1>5. BatchesCurrent'
  BY <1>1, LiveEmpty DEF BatchesCurrent
<1>6. Mirrored'
  <2>1. \A t \in Sessions, j \in Live(rows) :
          Owes(t, j) => Owes(t, j)' \/ disk[j] = rows[j]
    BY <1>1, <1>2 DEF Owes
  <2> QED BY <1>1, <2>1 DEF Mirrored
<1>7. AckedRowsStay'
  BY <1>1, <1>2 DEF AckedRowsStay, Live
<1> QED BY <1>3, <1>4, <1>5, <1>6, <1>7

-----------------------------------------------------------------------------
\* The invariant holds in every reachable state.
THEOREM InvHolds == Spec => []Inv
<1>1. Init => Inv
  <2> SUFFICES ASSUME Init PROVE Inv
    OBVIOUS
  <2> USE DEF Init
  <2>1. TypeOK
    BY BoundsAssumption, NoneTakenAssumption, TableTypes, LookupTypes, IndexTypes DEF TypeOK
  <2>2. InHand /\ IdsFresh /\ IndexExact /\ BatchesCurrent /\ Mirrored /\ AckedRowsStay
    BY LiveEmpty DEF InHand, IdsFresh, IndexExact, BatchesCurrent, Mirrored, AckedRowsStay
  <2> QED BY <2>1, <2>2 DEF Inv
<1>2. Inv /\ [Next]_vars => Inv'
  <2> SUFFICES ASSUME Inv, [Next]_vars
               PROVE  Inv'
    OBVIOUS
  <2>1. ASSUME NEW s \in Sessions, NEW k \in Keys, NEW r \in Row,
               TakeGenerated(s, k, r) \/ TakeExplicit(s, k, r)
        PROVE  Inv'
    <3>1. k \in Nat /\ autoInc \in Nat
      BY KeysAssumption DEF Inv, TypeOK
    <3>2. CASE TakeGenerated(s, k, r)
      <4>1. Take(s, k, r, TRUE)
        BY <3>2, Zenon DEF TakeGenerated
      <4>2. k = autoInc + 1 /\ autoInc' = k
        BY <3>2, Zenon DEF TakeGenerated
      <4>3. autoInc' \in Nat /\ autoInc' >= autoInc /\ autoInc' >= k
        BY <3>1, <4>2
      <4>4. \A g \in BOOLEAN : Take(s, k, r, g) /\ (g => k = autoInc + 1) => Inv'
        BY <4>3, TakeStep, Zenon
      <4> QED BY <4>1, <4>2, <4>4, Zenon
    <3>3. CASE TakeExplicit(s, k, r)
      <4>1. autoInc' \in Nat /\ autoInc' >= autoInc /\ autoInc' >= k
        BY <3>1, <3>3 DEF TakeExplicit
      <4> QED BY <3>3, <4>1, TakeStep DEF TakeExplicit
    <3> QED BY <2>1, <3>2, <3>3
  <2>2. CASE Next
    BY <2>1, <2>2, BeginStep, StoreStep, FailStep, CounterStep, WriteRowStep, AnswerStep DEF Next
  <2>3. CASE UNCHANGED vars
    <3> USE <2>3 DEF vars, memory, locals, history, Inv
    <3>1. TypeOK' /\ InHand' /\ IdsFresh' /\ IndexExact'
      BY DEF TypeOK, InHand, IdsFresh, IndexExact
    <3>2. BatchesCurrent' /\ Mirrored' /\ AckedRowsStay'
      BY DEF BatchesCurrent, Mirrored, Owes, AckedRowsStay
    <3> QED BY <3>1, <3>2
  <2> QED BY <2>2, <2>3
<1> QED BY <1>1, <1>2, PTL DEF Spec

\* Generated ids are fresh, whoever else inserts (next_auto_inc).
THEOREM FreshIdsHold == Spec => []FreshIds
<1>1. Inv => FreshIds
  BY DEF Inv, IdsFresh, FreshIds
<1> QED BY <1>1, InvHolds, PTL

\* The shared index is exact between any two steps (add_row_to_indexes).
THEOREM IndexExactHolds == Spec => []IndexExact
<1>1. Inv => IndexExact
  BY DEF Inv
<1> QED BY <1>1, InvHolds, PTL

\* An answered row stays, in memory and on disk (persist_row_batch).
THEOREM AckedRowsStayHold == Spec => []AckedRowsStay
<1>1. Inv => AckedRowsStay
  BY DEF Inv
<1> QED BY <1>1, InvHolds, PTL

\* Without a statement under way, disk has what memory has, but for failed rows.
THEOREM QuietMirrorsHolds == Spec => []QuietMirrors
<1>1. Inv => QuietMirrors
  <2> SUFFICES ASSUME Inv, \A s \in Sessions : pc[s] = "idle", NEW k \in Keys \ dirty
               PROVE  disk[k] = rows[k]
    BY DEF QuietMirrors
  <2>1. \A s \in Sessions : ~Owes(s, k)
    BY LiveEmpty DEF Inv, BatchesCurrent, Owes
  <2>2. CASE k \in Live(rows)
    BY <2>1, <2>2 DEF Inv, Mirrored
  <2>3. CASE k \notin Live(rows)
    BY <2>3 DEF Inv, Mirrored, Live
  <2> QED BY <2>2, <2>3
<1> QED BY <1>1, InvHolds, PTL

\* No INSERT replaces or removes a row, however old its lookup is
\* (find_conflict_keys_with_lookup).
THEOREM NoClobberHolds == Spec => NoClobber
<1>1. Inv /\ [Next]_vars => [\A k \in Live(rows) : rows'[k] = rows[k]]_vars
  <2> SUFFICES ASSUME Inv, Next, NEW k \in Live(rows)
               PROVE  rows'[k] = rows[k]
    OBVIOUS
  <2>1. ASSUME NEW s \in Sessions, StoreRow(s)
        PROVE  rows'[k] = rows[k]
    <3>1. taken[s].key \notin Live(rows)
      BY <2>1, NoConflictIsFree DEF StoreRow
    <3> QED BY <2>1, <3>1 DEF StoreRow, Put
  <2>2. ASSUME NEW s \in Sessions, ~StoreRow(s), UNCHANGED rows
        PROVE  rows'[k] = rows[k]
    BY <2>2
  <2> QED
    BY <2>1, <2>2 DEF Next, Begin, TakeGenerated, TakeExplicit, Take, Conflict, Reject,
       ReadCounter, WriteCounter, WriteRow, Answer, memory
<1> QED BY <1>1, InvHolds, PTL DEF Spec, NoClobber
=============================================================================
