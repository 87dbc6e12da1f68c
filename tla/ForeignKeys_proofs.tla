-------------------------- MODULE ForeignKeys_proofs --------------------------
(***************************************************************************)
(* Proofs about ForeignKeys, for foreign keys that form no cycle: without  *)
(* that the properties are false (SelfReference.cfg).                      *)
(*                                                                         *)
(* The invariant compares each table with what the statement found (stmt.  *)
(* before) and with what it will have made of it (Goal).  Under DELETE the *)
(* tables on the stack and the tables below them that no call has come to  *)
(* are as they were found, the others as they will be, and a table is      *)
(* changed only after its children: so a mixture of the two has no row     *)
(* without its parent (MixSound), in memory and in the store alike.        *)
(***************************************************************************)
EXTENDS ForeignKeys, WellFoundedInduction, TLAPS

IsDatabase(db) == db = [t \in Tables |-> db[t]] /\ \A t \in Tables : db[t] \in RowsOf(t)

\* What the statement will have made of the database.
Gone == Removed(stmt.before, stmt.table, stmt.keys)
Goal ==
  IF stmt.op = "delete" THEN Without(stmt.before, Gone)
  ELSE [t \in Tables |->
          IF t = stmt.table THEN stmt.next
          ELSE IF Moving /\ Parent[t] = stmt.table THEN Moved(stmt.before[t], stmt)
          ELSE stmt.before[t]]

\* Per table: the keys that go, and the keys of the rows that reference one that goes.
GoneKeys(t) == {k \in IdsOf[t] : <<t, k>> \in Gone}
Found(t) == {k \in IdsOf[t] : Refers(stmt.before, <<t, k>>, Gone)}

\* INSERT puts a row under one key, UPDATE takes one from its key to another.
PutOK(s) ==
  /\ s.from \in IdsOf[s.table] /\ s.to \in IdsOf[s.table] /\ s.keys = {s.from, s.to}
  /\ s.to = s.from \/ s.before[s.table][s.to] = NoRow
  /\ \A k \in IdsOf[s.table] :
       s.next[k] = IF k = s.to THEN s.next[s.to] ELSE IF k = s.from THEN NoRow
                   ELSE s.before[s.table][k]
  /\ s.next[s.to] # NoRow
  /\ s.next[s.to] # NULL =>
       Parent[s.table] # NoTable /\ s.next[s.to] \in Live(s.before[Parent[s.table]])
  /\ s.op = "insert" => s.from = s.to
DeleteOK(s) ==
  s.keys \subseteq Live(s.before[s.table]) /\ s.next = RemoveRows(s.before[s.table], s.keys)
StmtOK ==
  /\ stmt.op \in {"insert", "delete", "update"} /\ stmt.table \in Tables
  /\ IsDatabase(stmt.before) /\ Sound(stmt.before) /\ stmt.next \in RowsOf(stmt.table)
  /\ IF stmt.op = "delete" THEN DeleteOK(stmt) ELSE PutOK(stmt)

\* The rows that are being written: each key holds its new row in the store, or the
\* row the statement found, or is half way.
BatchOK ==
  /\ batch = Batch(batch.table, batch.rows, batch.left) /\ batch.table \in Tables
  /\ batch.rows = Goal[batch.table] /\ batch.left \subseteq IdsOf[batch.table]
  /\ \A k \in IdsOf[batch.table] \ batch.left : disk[batch.table][k] = batch.rows[k]
  /\ \A k \in batch.left :
       disk[batch.table][k] = stmt.before[batch.table][k] \/ (stage # 0 /\ First(k))
  /\ stage # 0 => \E k \in batch.left : First(k) /\ batch.rows[k] # NoRow
StoreOK ==
  /\ \A t \in Tables : t # batch.table => disk[t] = mem[t]
  /\ (batch = NoBatch /\ stage = 0) \/ BatchOK

\* UPDATE: a child is as it was found until it is rewritten.
UpdateActs ==
  /\ stmt.op = "update" /\ calls = <<>> /\ visited = {}
  /\ hits \subseteq ChildrenOf(stmt.table) /\ stmt.table \notin hits
  /\ ~Moving => hits = {} /\ batch.table = NoTable
  /\ batch.table # stmt.table /\ batch.table \notin hits
  /\ batch.table # NoTable => batch.table \in ChildrenOf(stmt.table)
  /\ \A t \in Tables : IF t = stmt.table \/ t = batch.table \/ t \in hits
                       THEN mem[t] = stmt.before[t] ELSE mem[t] = Goal[t]

\* DELETE: the tables under removal, and those it has yet to come to.
Under == {calls[i].table : i \in DOMAIN calls}
Later == {t \in Tables : mem[t] # Goal[t]} \ (Under \cup {batch.table})
Waiting(t) ==
  mem[t] = stmt.before[t] /\ t \notin Under /\ t # batch.table /\ \A r \in visited : r[1] # t

\* A table under removal is as the DELETE found it; so are the children it has not
\* come to.
CallOK(f) ==
  /\ f = [table |-> f.table, keys |-> f.keys, rows |-> f.rows, todo |-> f.todo]
  /\ f.table \in Tables /\ f.table # batch.table
  /\ mem[f.table] = stmt.before[f.table] /\ f.rows = mem[f.table]
  /\ f.keys = GoneKeys(f.table)
  /\ f.todo \subseteq ChildrenOf(f.table) /\ \A c \in f.todo : Waiting(c)

\* The calls go down the foreign keys.
Nested(rank) ==
  /\ calls = [i \in 1..Len(calls) |-> calls[i]] /\ Len(calls) \in Nat \ {0}
  /\ calls[1].table = stmt.table
  /\ \A i \in 2..Len(calls) :
       Parent[calls[i].table] = calls[i - 1].table /\ onDelete[calls[i].table] = "CASCADE"
  /\ \A i, j \in 1..Len(calls) : i < j => rank[calls[i].table] < rank[calls[j].table]

\* A table that the DELETE has yet to come to waits, and so do the tables below it.
LaterOK ==
  /\ \A t \in Later :
       /\ Waiting(t)
       /\ Parent[t] \in Later \/ \E i \in 1..Len(calls) : t \in calls[i].todo
  /\ \A t \in Tables : Parent[t] \in Later => Waiting(t)

DeleteActs(rank) ==
  /\ stmt.op = "delete" /\ hits = {}
  /\ Nested(rank) /\ LaterOK
  /\ \A i \in 1..Len(calls) : CallOK(calls[i])
  /\ batch.table # NoTable =>
       /\ Parent[batch.table] = Top.table /\ mem[batch.table] = stmt.before[batch.table]
       /\ batch.table \notin Under /\ onDelete[batch.table] # "RESTRICT"
  /\ \A t \in Tables : mem[t] = Goal[t] /\ Goal[t] # stmt.before[t] => onDelete[t] # "RESTRICT"

Refusable ==
  \E r \in RowsIn(stmt.before) : Refers(stmt.before, r, Gone) /\ onDelete[r[1]] = "RESTRICT"

NoWork == calls = <<>> /\ visited = {} /\ hits = {}
Quiet == disk = mem /\ batch = NoBatch /\ stage = 0 /\ NoWork /\ (~torn => Sound(mem))
InActions(rank) == ~torn /\ StmtOK /\ StoreOK /\ (UpdateActs \/ DeleteActs(rank))
Own ==
  /\ ~torn /\ StmtOK /\ StoreOK /\ mem = Goal /\ batch.table = stmt.table /\ NoWork
  /\ stmt.op = "delete" => ~Refusable
Refused == ~torn /\ StmtOK /\ stmt.op = "delete" /\ Refusable

IInv(rank) ==
  /\ IsDatabase(mem) /\ IsDatabase(disk) /\ stage \in 0..2 /\ torn \in BOOLEAN
  /\ onDelete \in [{t \in Tables : Parent[t] # NoTable} -> Actions] /\ onUpdate \in Actions
  /\ \/ phase = "idle" /\ Quiet /\ stmt = NoStatement
     \/ phase = "actions" /\ InActions(rank)
     \/ phase = "own" /\ Own
     \/ phase = "refused" /\ Quiet /\ Refused

-----------------------------------------------------------------------------
(* What a DELETE must remove                                               *)

\* A nonempty set of tables has one of lowest rank.
LEMMA LowestRank ==
  ASSUME NEW rank, Acyclic(rank), NEW T, T \subseteq Tables, T # {}
  PROVE  \E t \in T : \A u \in T : ~(rank[u] < rank[t])
<1> DEFINE R == OpToRel(<, Nat)
           N == {rank[t] : t \in T}
<1>1. IsWellFoundedOn(R, Nat)
  BY NatLessThanWellFounded
<1>2. N \subseteq Nat /\ N # {}
  BY DEF Acyclic
<1> HIDE DEF R
<1>3. PICK x \in N : \A y \in N : ~(<<y, x>> \in R)
  <2> HIDE DEF N
  <2> QED BY <1>1, <1>2, WFMin
<1>4. \A y \in N : ~(y < x)
  BY <1>2, <1>3 DEF R, OpToRel
<1> QED BY <1>3, <1>4

LEMMA DatabaseRows ==
  ASSUME NEW db, IsDatabase(db), NEW t \in Tables
  PROVE  /\ DOMAIN db = Tables /\ DOMAIN db[t] = IdsOf[t]
         /\ db[t] = [k \in IdsOf[t] |-> db[t][k]]
         /\ \A k \in IdsOf[t] : db[t][k] \in Refs(t) \cup {NoRow}
         /\ Live(db[t]) = {k \in IdsOf[t] : db[t][k] # NoRow}
         /\ Live(db[t]) \subseteq IdsOf[t]
<1>1. db = [u \in Tables |-> db[u]] /\ db[t] \in [IdsOf[t] -> Refs(t) \cup {NoRow}]
  BY DEF IsDatabase, RowsOf
<1>2. DOMAIN db = Tables
  BY <1>1
<1> QED BY <1>1, <1>2 DEF Live

LEMMA LiveRow ==
  ASSUME NEW db, IsDatabase(db), NEW t \in Tables, NEW k
  PROVE  k \in Live(db[t]) <=> k \in IdsOf[t] /\ db[t][k] # NoRow
<1>1. Live(db[t]) = {j \in IdsOf[t] : db[t][j] # NoRow}
  BY ZenonT(60), DatabaseRows
<1> QED BY <1>1

\* The rows of a database are pairs of a table and a key.
LEMMA RowsInPairs ==
  ASSUME NEW db, IsDatabase(db)
  PROVE  \A r : r \in RowsIn(db) <=>
           \E t \in Tables : \E k \in IdsOf[t] : r = <<t, k>> /\ db[t][k] # NoRow
<1>1. \A t \in Tables : Live(db[t]) = {k \in IdsOf[t] : db[t][k] # NoRow}
  BY ZenonT(60), DatabaseRows
<1>2. \A r : r \in RowsIn(db) <=> \E t \in Tables : r \in {t} \X Live(db[t])
  BY Zenon DEF RowsIn
<1> QED BY <1>1, <1>2

\* A reference is to a key of the parent table.
LEMMA RefersPair ==
  ASSUME NEW db, IsDatabase(db), NEW c \in Tables, NEW k \in IdsOf[c], NEW X,
         X \subseteq RowsIn(db), Refers(db, <<c, k>>, X)
  PROVE  /\ Parent[c] \in Tables /\ db[c][k] \in IdsOf[Parent[c]]
         /\ <<Parent[c], db[c][k]>> \in X /\ db[c][k] # NULL /\ db[c][k] # NoRow
<1>1. db[c][k] \notin {NULL, NoRow} /\ <<Parent[c], db[c][k]>> \in X
  BY DEF Refers
<1>2. PICK t \in Tables : \E j \in IdsOf[t] : <<Parent[c], db[c][k]>> = <<t, j>>
  BY <1>1, RowsInPairs
<1> QED BY <1>1, <1>2

\* Removed is the least closed set, so each of its rows is one that the statement
\* removes or one that a CASCADE reference brings in; and it lies below the table.
LEMMA RemovedRows ==
  ASSUME NEW rank, Acyclic(rank), NEW db, IsDatabase(db), NEW p \in Tables,
         NEW S, S \subseteq Live(db[p])
  PROVE  /\ Removed(db, p, S) \subseteq RowsIn(db)
         /\ Closed(db, p, S, Removed(db, p, S))
         /\ \A r \in Removed(db, p, S) :
              \/ r \in {p} \X S
              \/ Refers(db, r, Removed(db, p, S)) /\ onDelete[r[1]] = "CASCADE"
         /\ \A r \in Removed(db, p, S) : r \in {p} \X S \/ rank[p] < rank[r[1]]
<1> DEFINE G == Removed(db, p, S)
<1>1. G \subseteq RowsIn(db)
  BY DEF Removed
<1>2. \A X \in SUBSET RowsIn(db) : Closed(db, p, S, X) => G \subseteq X
  BY DEF Removed
<1>3. \A X : {p} \X S \subseteq X /\ G \subseteq X => \A r : Refers(db, r, G) => Refers(db, r, X)
  BY DEF Refers
<1>4. {p} \X S \subseteq RowsIn(db)
  <2>1. Live(db[p]) = {k \in IdsOf[p] : db[p][k] # NoRow}
    BY DatabaseRows
  <2>2. S \subseteq IdsOf[p] /\ \A k \in S : db[p][k] # NoRow
    BY <2>1
  <2>3. \A r \in {p} \X S : \E k \in S : r = <<p, k>>
    OBVIOUS
  <2>4. \A k \in S : <<p, k>> \in RowsIn(db)
    BY <2>2, RowsInPairs
  <2> QED BY <2>3, <2>4
<1>5. Closed(db, p, S, G)
  <2>1. \A X \in SUBSET RowsIn(db) : Closed(db, p, S, X) => {p} \X S \subseteq X
    BY DEF Closed
  <2>2. {p} \X S \subseteq G
    BY <1>4, <2>1 DEF Removed
  <2>3. ASSUME NEW r \in RowsIn(db), Refers(db, r, G), onDelete[r[1]] = "CASCADE"
        PROVE  r \in G
    <3>1. ASSUME NEW X \in SUBSET RowsIn(db), Closed(db, p, S, X) PROVE r \in X
      <4>1. Refers(db, r, X)
        BY <1>2, <1>3, <2>1, <2>3, <3>1
      <4> QED BY <2>3, <3>1, <4>1 DEF Closed
    <3> QED BY <3>1 DEF Removed
  <2> QED BY <2>2, <2>3 DEF Closed
<1>6. ASSUME NEW r \in G, r \notin {p} \X S, ~(Refers(db, r, G) /\ onDelete[r[1]] = "CASCADE")
      PROVE  FALSE
  <2> DEFINE Y == G \ {r}
  <2>1. Y \in SUBSET RowsIn(db) /\ {p} \X S \subseteq Y
    BY <1>1, <1>5, <1>6 DEF Closed
  <2>2. \A q : Refers(db, q, Y) => Refers(db, q, G)
    BY DEF Refers
  <2>3. \A q \in RowsIn(db) : Refers(db, q, Y) /\ onDelete[q[1]] = "CASCADE" => q \in Y
    BY <1>5, <1>6, <2>2 DEF Closed
  <2>4. Closed(db, p, S, Y)
    BY <2>1, <2>3 DEF Closed
  <2> HIDE DEF G
  <2> QED BY <1>2, <1>6, <2>1, <2>4
<1>7. ASSUME NEW r \in G PROVE r \in {p} \X S \/ rank[p] < rank[r[1]]
  <2> DEFINE Y == {q \in G : q \in {p} \X S \/ rank[p] < rank[q[1]]}
  <2>1. Y \in SUBSET RowsIn(db) /\ {p} \X S \subseteq Y
    BY <1>1, <1>5 DEF Closed
  <2>2. ASSUME NEW q \in RowsIn(db), Refers(db, q, Y), onDelete[q[1]] = "CASCADE"
        PROVE  q \in Y
    <3>1. PICK c \in Tables : \E k \in IdsOf[c] : q = <<c, k>>
      BY RowsInPairs
    <3>2. PICK k \in IdsOf[c] : q = <<c, k>>
      BY <3>1
    <3>3. Refers(db, q, G)
      BY <2>2 DEF Refers
    <3>4. q \in G
      BY <1>5, <2>2, <3>3 DEF Closed
    <3>5. Parent[c] \in Tables /\ <<Parent[c], db[c][k]>> \in Y
      <4> HIDE DEF Y
      <4> QED BY <2>1, <2>2, <3>2, RefersPair
    <3>6. rank[p] \in Nat /\ rank[c] \in Nat /\ rank[Parent[c]] \in Nat /\ rank[Parent[c]] < rank[c]
      BY <3>5, ParentAssumption DEF Acyclic
    <3>7. Parent[c] = p \/ rank[p] < rank[Parent[c]]
      BY <3>5
    <3>8. rank[p] < rank[c]
      BY <3>6, <3>7
    <3> QED BY <3>2, <3>4, <3>8
  <2>3. Closed(db, p, S, Y)
    <3> HIDE DEF Y
    <3> QED BY <2>1, <2>2 DEF Closed
  <2> QED BY <1>2, <2>1, <2>3
<1> QED BY <1>1, <1>5, <1>6, <1>7

\* What the statement makes of each table, from the rows of its parent that go.
LEMMA DeleteGoal ==
  ASSUME NEW rank, Acyclic(rank), StmtOK, stmt.op = "delete"
  PROVE  /\ GoneKeys(stmt.table) = stmt.keys /\ Found(stmt.table) = {}
         /\ Goal = [t \in Tables |-> Goal[t]]
         /\ \A t \in Tables :
              /\ Goal[t] = [k \in IdsOf[t] |->
                   IF k \in GoneKeys(t) THEN NoRow
                   ELSE IF k \in Found(t) THEN NULL ELSE stmt.before[t][k]]
              /\ GoneKeys(t) \subseteq Live(stmt.before[t])
              /\ GoneKeys(t) # {} => t = stmt.table \/ rank[stmt.table] < rank[t]
              /\ Found(t) # {} => Parent[t] \in Tables /\ rank[stmt.table] < rank[t]
              /\ Found(t) = {k \in IdsOf[t] : /\ stmt.before[t][k] # NULL /\ Parent[t] \in Tables
                                              /\ stmt.before[t][k] \in GoneKeys(Parent[t])}
              /\ t # stmt.table =>
                   GoneKeys(t) = IF onDelete[t] = "CASCADE" THEN Found(t) ELSE {}
<1> DEFINE p == stmt.table
           b == stmt.before
<1>1. p \in Tables /\ IsDatabase(b) /\ stmt.keys \subseteq Live(b[p])
  BY DEF StmtOK, DeleteOK
<1>2. Goal = Without(b, Gone)
  BY DEF Goal
<1>3. /\ Gone \subseteq RowsIn(b) /\ Closed(b, p, stmt.keys, Gone)
      /\ \A r \in Gone : \/ r \in {p} \X stmt.keys
                         \/ Refers(b, r, Gone) /\ onDelete[r[1]] = "CASCADE"
      /\ \A r \in Gone : r \in {p} \X stmt.keys \/ rank[p] < rank[r[1]]
  <2> HIDE DEF p, b
  <2>1. Gone = Removed(b, p, stmt.keys)
    BY DEF Gone, p, b
  <2> QED BY <1>1, <2>1, RemovedRows
<1>4. \A t \in Tables : DOMAIN b[t] = IdsOf[t] /\ Live(b[t]) = {k \in IdsOf[t] : b[t][k] # NoRow}
  BY ZenonT(60), <1>1, DatabaseRows
<1> HIDE DEF p, b
<1>5. ASSUME NEW t \in Tables
      PROVE  /\ GoneKeys(t) \subseteq Live(b[t])
             /\ \A k \in GoneKeys(t) : (t = p /\ k \in stmt.keys) \/ rank[p] < rank[t]
  <2>1. SUFFICES ASSUME NEW k \in GoneKeys(t)
                 PROVE  k \in Live(b[t]) /\ ((t = p /\ k \in stmt.keys) \/ rank[p] < rank[t])
    OBVIOUS
  <2>2. <<t, k>> \in Gone /\ k \in IdsOf[t]
    BY DEF GoneKeys
  <2>3. PICK u \in Tables : \E j \in IdsOf[u] : <<t, k>> = <<u, j>> /\ b[u][j] # NoRow
    BY <1>1, <1>3, <2>2, RowsInPairs
  <2>4. <<t, k>> \in {p} \X stmt.keys \/ rank[p] < rank[t]
    BY <1>3, <2>2
  <2> QED BY <1>4, <2>2, <2>3, <2>4
<1>6. GoneKeys(p) = stmt.keys
  <2>1. rank[p] \in Nat
    BY <1>1 DEF Acyclic
  <2>2. GoneKeys(p) \subseteq stmt.keys
    BY <1>1, <1>5, <2>1
  <2>3. stmt.keys \subseteq IdsOf[p]
    BY <1>1, <1>4
  <2>4. \A k \in stmt.keys : <<p, k>> \in Gone
    BY <1>3 DEF Closed
  <2> QED BY <2>2, <2>3, <2>4 DEF GoneKeys
<1>7. ASSUME NEW t \in Tables, NEW k \in IdsOf[t]
      PROVE  Refers(b, <<t, k>>, Gone) <=>
               /\ b[t][k] # NULL /\ Parent[t] \in Tables
               /\ b[t][k] \in GoneKeys(Parent[t])
  <2>1. ASSUME Refers(b, <<t, k>>, Gone)
        PROVE  b[t][k] # NULL /\ Parent[t] \in Tables /\ b[t][k] \in GoneKeys(Parent[t])
    <3>1. /\ Parent[t] \in Tables /\ b[t][k] \in IdsOf[Parent[t]]
          /\ <<Parent[t], b[t][k]>> \in Gone /\ b[t][k] # NULL
      BY <1>1, <1>3, <2>1, RefersPair
    <3> QED BY <3>1 DEF GoneKeys
  <2>2. ASSUME b[t][k] # NULL, Parent[t] \in Tables, b[t][k] \in GoneKeys(Parent[t])
        PROVE  Refers(b, <<t, k>>, Gone)
    <3>1. b[t][k] \in IdsOf[Parent[t]] /\ <<Parent[t], b[t][k]>> \in Gone
      BY <2>2 DEF GoneKeys
    <3>2. b[t][k] # NoRow
      BY <2>2, <3>1, IdsAssumption
    <3> QED BY <2>2, <3>1, <3>2 DEF Refers
  <2> QED BY <2>1, <2>2
<1>8. \A t \in Tables : Found(t) = {k \in IdsOf[t] : /\ b[t][k] # NULL /\ Parent[t] \in Tables
                                                     /\ b[t][k] \in GoneKeys(Parent[t])}
  BY <1>7 DEF Found, b
<1>9. ASSUME NEW t \in Tables, Found(t) # {}
      PROVE  Parent[t] \in Tables /\ rank[p] < rank[t]
  <2>1. PICK k \in IdsOf[t] : Parent[t] \in Tables /\ b[t][k] \in GoneKeys(Parent[t])
    BY <1>8, <1>9
  <2>2. Parent[t] = p \/ rank[p] < rank[Parent[t]]
    BY <1>5, <2>1
  <2>3. rank[p] \in Nat /\ rank[t] \in Nat /\ rank[Parent[t]] \in Nat /\ rank[Parent[t]] < rank[t]
    BY <1>1, <2>1, ParentAssumption DEF Acyclic
  <2> QED BY <2>1, <2>2, <2>3
<1>10. Found(p) = {}
  <2>1. rank[p] \in Nat
    BY <1>1 DEF Acyclic
  <2> QED BY <1>1, <1>9, <2>1
<1>11. ASSUME NEW t \in Tables, t # p
       PROVE  GoneKeys(t) = IF onDelete[t] = "CASCADE" THEN Found(t) ELSE {}
  <2>1. \A k \in GoneKeys(t) : Refers(b, <<t, k>>, Gone) /\ onDelete[t] = "CASCADE"
    <3>1. \A k \in GoneKeys(t) : <<t, k>> \in Gone /\ <<t, k>> \notin {p} \X stmt.keys /\ <<t, k>>[1] = t
      BY <1>11 DEF GoneKeys
    <3> QED BY <1>3, <3>1
  <2>2. ASSUME NEW k \in IdsOf[t], Refers(b, <<t, k>>, Gone), onDelete[t] = "CASCADE"
        PROVE  k \in GoneKeys(t)
    <3>1. b[t][k] # NoRow
      BY <2>2 DEF Refers
    <3>2. <<t, k>> \in RowsIn(b) /\ <<t, k>>[1] = t
      BY <1>1, <3>1, RowsInPairs
    <3> QED BY <1>3, <2>2, <3>2 DEF Closed, GoneKeys
  <2>3. \A k \in GoneKeys(t) : k \in IdsOf[t]
    BY DEF GoneKeys
  <2>4. \A k \in IdsOf[t] : k \in Found(t) <=> Refers(b, <<t, k>>, Gone)
    BY DEF Found, b
  <2>5. \A k \in Found(t) : k \in IdsOf[t]
    BY DEF Found
  <2> QED BY <2>1, <2>2, <2>3, <2>4, <2>5
<1>12. Goal = [t \in Tables |-> Goal[t]] /\
       \A t \in Tables : Goal[t] = [k \in IdsOf[t] |->
          IF k \in GoneKeys(t) THEN NoRow ELSE IF k \in Found(t) THEN NULL ELSE b[t][k]]
  <2>1. \A t \in Tables : \A k \in IdsOf[t] :
          (k \in GoneKeys(t) <=> <<t, k>> \in Gone) /\ (k \in Found(t) <=> Refers(b, <<t, k>>, Gone))
    BY DEF GoneKeys, Found, b
  <2> QED BY <1>2, <2>1 DEF Without
<1>13. \A t \in Tables : GoneKeys(t) # {} => t = p \/ rank[p] < rank[t]
  BY <1>5
<1> HIDE DEF Found, GoneKeys
<1> QED BY <1>5, <1>6, <1>8, <1>9, <1>10, <1>11, <1>12, <1>13 DEF p, b

\* A value of Goal under DELETE, and what it means that a row of it is there.
LEMMA DeleteRow ==
  ASSUME NEW rank, Acyclic(rank), StmtOK, stmt.op = "delete", NEW t \in Tables, NEW k \in IdsOf[t]
  PROVE  /\ Goal[t][k] \in {stmt.before[t][k], NULL, NoRow}
         /\ Goal[t][k] = NoRow <=> k \in GoneKeys(t) \/ stmt.before[t][k] = NoRow
         /\ Goal[t][k] \notin {NULL, NoRow} => /\ Goal[t][k] = stmt.before[t][k]
                                               /\ k \notin Found(t)
<1>1. Goal[t] = [j \in IdsOf[t] |->
         IF j \in GoneKeys(t) THEN NoRow ELSE IF j \in Found(t) THEN NULL ELSE stmt.before[t][j]]
  BY DeleteGoal
<1>2. k \in Found(t) => stmt.before[t][k] # NoRow
  BY DEF Found, Refers
<1> QED BY <1>1, <1>2, IdsAssumption

\* Rows of which some are as the DELETE found them and some as it leaves them hang
\* together, if those of a table that it has begun to change have changed in its children.
LEMMA MixSound ==
  ASSUME NEW rank, Acyclic(rank), StmtOK, stmt.op = "delete",
         NEW db, IsDatabase(db),
         \A t \in Tables : \A k \in IdsOf[t] : db[t][k] \in {stmt.before[t][k], Goal[t][k]},
         \A c \in Tables : Parent[c] \in Tables =>
           db[Parent[c]] = stmt.before[Parent[c]] \/ db[c] = Goal[c]
  PROVE  Sound(db)
<1>1. IsDatabase(stmt.before) /\ Sound(stmt.before)
  BY DEF StmtOK
<1> DEFINE b == stmt.before
<1>2. SUFFICES ASSUME NEW c \in Tables, NEW k \in Live(db[c]), db[c][k] # NULL,
                      db[c][k] \notin Live(db[Parent[c]])
               PROVE  FALSE
  BY DEF Sound, Orphans
<1>3. k \in IdsOf[c] /\ db[c][k] # NoRow
  <2>1. Live(db[c]) = {j \in IdsOf[c] : db[c][j] # NoRow}
    BY ZenonT(60), DatabaseRows
  <2> QED BY <2>1
<1>4. db[c][k] = b[c][k] /\ (db[c] = Goal[c] => k \notin Found(c))
  BY <1>2, <1>3, DeleteRow
<1>5. k \in Live(b[c]) /\ b[c][k] \in Live(b[Parent[c]])
  <2>1. Live(b[c]) = {j \in IdsOf[c] : b[c][j] # NoRow}
    BY ZenonT(60), <1>1, DatabaseRows
  <2>2. k \in Live(b[c])
    BY <1>3, <1>4, <2>1
  <2> QED BY <1>1, <1>2, <1>4, <2>2 DEF Sound, Orphans
<1>6. Parent[c] \in Tables
  <2>1. b[c][k] \in Refs(c) \cup {NoRow}
    BY <1>1, <1>3, DatabaseRows
  <2>2. b[c][k] \in Refs(c) /\ b[c][k] # NULL
    BY <1>2, <1>3, <1>4, <2>1
  <2> QED BY <2>2, ParentAssumption DEF Refs
<1> DEFINE p == Parent[c]
           j == b[c][k]
<1>7. j \in IdsOf[p] /\ b[p][j] # NoRow /\ db[p][j] = NoRow
  <2> HIDE DEF b, p, j
  <2>1. j \in Live(b[p]) <=> j \in IdsOf[p] /\ b[p][j] # NoRow
    BY <1>1, <1>6, LiveRow DEF b, p
  <2>2. j \in Live(db[p]) <=> j \in IdsOf[p] /\ db[p][j] # NoRow
    BY <1>6, LiveRow DEF p
  <2>3. j \in Live(b[p]) /\ j \notin Live(db[p])
    BY <1>2, <1>4, <1>5 DEF b, p, j
  <2> QED BY <2>1, <2>2, <2>3
<1>8. db[p][j] = Goal[p][j] /\ db[c] = Goal[c]
  BY <1>6, <1>7
<1>9. j \in GoneKeys(p)
  BY <1>6, <1>7, <1>8, DeleteRow
<1>10. k \in Found(c)
  <2>1. Found(c) = {i \in IdsOf[c] : /\ b[c][i] # NULL /\ Parent[c] \in Tables
                                     /\ b[c][i] \in GoneKeys(Parent[c])}
    BY DeleteGoal
  <2>2. b[c][k] # NULL /\ b[c][k] \in GoneKeys(Parent[c])
    BY <1>2, <1>4, <1>9
  <2> QED BY <1>3, <1>6, <2>1, <2>2
<1> QED BY <1>4, <1>8, <1>10

\* INSERT and UPDATE: the rows of the table hang together with any rows of the others
\* as the statement found them, and the whole with the children that it rewrites.
LEMMA PutGoal ==
  ASSUME NEW rank, Acyclic(rank), StmtOK, stmt.op # "delete", onUpdate \in Actions
  PROVE  /\ IsDatabase(Goal)
         /\ Goal[stmt.table] = stmt.next
         /\ Sound(Goal)
         /\ ~Moving => /\ \A t \in Tables : t # stmt.table => Goal[t] = stmt.before[t]
                       /\ \A k \in IdsOf[stmt.table] :
                            Goal[stmt.table][k] # stmt.before[stmt.table][k] => k = stmt.to
<1> DEFINE b == stmt.before
           p == stmt.table
           f == stmt.from
           n == stmt.to
<1>1. /\ p \in Tables /\ IsDatabase(b) /\ Sound(b) /\ stmt.next \in RowsOf(p)
      /\ f \in IdsOf[p] /\ n \in IdsOf[p] /\ (n = f \/ b[p][n] = NoRow)
      /\ \A k \in IdsOf[p] :
           stmt.next[k] = IF k = n THEN stmt.next[n] ELSE IF k = f THEN NoRow ELSE b[p][k]
      /\ stmt.next[n] # NoRow
      /\ stmt.next[n] # NULL => Parent[p] # NoTable /\ stmt.next[n] \in Live(b[Parent[p]])
      /\ stmt.op = "insert" => f = n
      /\ stmt.op \in {"insert", "update"}
  BY DEF StmtOK, PutOK
<1>2. /\ Goal = [t \in Tables |-> Goal[t]]
      /\ \A t \in Tables : Goal[t] =
           IF t = p THEN stmt.next
           ELSE IF Moving /\ Parent[t] = p THEN Moved(b[t], stmt) ELSE b[t]
  BY DEF Goal
<1>3. Moving <=> f # n
  BY <1>1 DEF Moving
<1>4. \A t \in Tables : /\ b[t] \in RowsOf(t) /\ DOMAIN b[t] = IdsOf[t]
                        /\ \A k : k \in Live(b[t]) <=> k \in IdsOf[t] /\ b[t][k] # NoRow
  <2> HIDE DEF b
  <2>1. \A t \in Tables : \A k : k \in Live(b[t]) <=> k \in IdsOf[t] /\ b[t][k] # NoRow
    BY <1>1, LiveRow
  <2>2. \A t \in Tables : b[t] \in RowsOf(t)
    BY <1>1 DEF IsDatabase
  <2> QED BY <2>1, <2>2 DEF RowsOf
<1> DEFINE v == IF onUpdate = "CASCADE" THEN n ELSE NULL
<1>5. ASSUME NEW t \in Tables
      PROVE  Moved(b[t], stmt) =
               [k \in IdsOf[t] |-> IF b[t][k] # NoRow /\ b[t][k] = f THEN v ELSE b[t][k]]
  BY <1>4 DEF Moved, SetRefs
<1> HIDE DEF b, p, f, n
<1>6. ASSUME NEW t \in Tables PROVE Goal[t] \in RowsOf(t)
  <2>1. CASE t = p
    BY <1>1, <1>2, <2>1
  <2>2. CASE t # p /\ Moving /\ Parent[t] = p
    <3>1. v \in Refs(t)
      BY <1>1, <2>2, ParentAssumption DEF Refs
    <3>2. \A k \in IdsOf[t] : b[t][k] \in Refs(t) \cup {NoRow}
      BY <1>4 DEF RowsOf
    <3> HIDE DEF v
    <3>3. Moved(b[t], stmt) \in RowsOf(t)
      BY <1>5, <3>1, <3>2 DEF RowsOf
    <3> QED BY <1>2, <2>2, <3>3
  <2>3. CASE t # p /\ ~(Moving /\ Parent[t] = p)
    BY <1>2, <1>4, <2>3
  <2> QED BY <2>1, <2>2, <2>3
<1>7. IsDatabase(Goal)
  BY <1>2, <1>6 DEF IsDatabase
<1>8. \A t \in Tables : \A k : k \in Live(Goal[t]) <=> k \in IdsOf[t] /\ Goal[t][k] # NoRow
  BY <1>7, LiveRow
<1>9. v # NoRow
  BY <1>1, IdsAssumption
<1>10. onUpdate # "CASCADE" => v = NULL
  OBVIOUS
<1>11. onUpdate = "CASCADE" => v = n
  OBVIOUS
<1> HIDE DEF v
<1>12. \A t \in Tables : \A k \in Live(b[t]) :
        b[t][k] # NULL => Parent[t] \in Tables /\ b[t][k] \in Live(b[Parent[t]])
  <2> SUFFICES ASSUME NEW t \in Tables, NEW k \in Live(b[t]), b[t][k] # NULL
               PROVE  Parent[t] \in Tables /\ b[t][k] \in Live(b[Parent[t]])
    OBVIOUS
  <2>1. b[t][k] \in Live(b[Parent[t]])
    BY <1>1 DEF Sound, Orphans
  <2>2. b[t][k] \in Refs(t)
    BY <1>4 DEF RowsOf
  <2> QED BY <2>1, <2>2, ParentAssumption DEF Refs
<1>13. \A t \in Tables : Parent[t] \in Tables => Parent[t] # t
  <2> SUFFICES ASSUME NEW t \in Tables, Parent[t] \in Tables, Parent[t] = t PROVE FALSE
    OBVIOUS
  <2>1. rank[t] < rank[t] /\ rank[t] \in Nat
    BY ParentAssumption DEF Acyclic
  <2> QED BY <2>1
<1>14. ASSUME NEW t \in Tables, NEW k \in Live(Goal[t]), Goal[t][k] # NULL
       PROVE  Goal[t][k] \in Live(Goal[Parent[t]])
  <2>1. k \in IdsOf[t] /\ Goal[t][k] # NoRow
    BY <1>8, <1>14
  <2>2. CASE t = p /\ k = n
    <3>1. Parent[p] \in Tables /\ Goal[t][k] \in Live(b[Parent[p]])
      BY <1>1, <1>2, <1>14, <2>2, ParentAssumption
    <3>2. Parent[p] # p
      BY <1>1, <1>13, <3>1
    <3>3. Goal[t][k] \in Live(Goal[Parent[p]])
      <4>1. CASE Moving /\ Parent[Parent[p]] = p
        <5>1. rank[Parent[p]] < rank[p] /\ rank[p] < rank[Parent[p]] /\ rank[p] \in Nat /\ rank[Parent[p]] \in Nat
          BY <1>1, <3>1, <4>1, ParentAssumption DEF Acyclic
        <5> QED BY <5>1
      <4>2. CASE ~(Moving /\ Parent[Parent[p]] = p)
        BY <1>2, <3>1, <3>2, <4>2
      <4> QED BY <4>1, <4>2
    <3> QED BY <2>2, <3>3
  <2>3. CASE ~(t = p /\ k = n)
    <3>1. \/ Goal[t][k] = b[t][k] /\ (t = p => k # f)
          \/ Moving /\ Parent[t] = p /\ Goal[t][k] = n /\ t # p
      <4>1. CASE t = p
        BY <1>1, <1>2, <2>1, <2>3, <4>1
      <4>2. CASE t # p /\ Moving /\ Parent[t] = p
        <5>1. Goal[t] = [i \in IdsOf[t] |-> IF b[t][i] # NoRow /\ b[t][i] = f THEN v ELSE b[t][i]]
          BY <1>2, <1>5, <4>2
        <5>2. Goal[t][k] = IF b[t][k] # NoRow /\ b[t][k] = f THEN v ELSE b[t][k]
          BY <2>1, <5>1
        <5> QED BY <1>14, <1>10, <1>11, <4>2, <5>2
      <4>3. CASE t # p /\ ~(Moving /\ Parent[t] = p)
        BY <1>2, <4>3
      <4> QED BY <4>1, <4>2, <4>3
    <3>2. CASE Moving /\ Parent[t] = p /\ Goal[t][k] = n /\ t # p
      BY <1>1, <1>2, <1>8, <3>2
    <3>3. CASE Goal[t][k] = b[t][k] /\ ~(Moving /\ Parent[t] = p /\ Goal[t][k] = n /\ t # p)
      <4> DEFINE q == Parent[t]
                 j == b[t][k]
      <4>1. q \in Tables /\ j \in IdsOf[q] /\ b[q][j] # NoRow
        BY <1>4, <1>12, <1>14, <2>1, <3>3
      <4>2. q # t
        BY <1>13, <4>1
      <4>3. Goal[q][j] # NoRow
        <5>1. CASE q = p
          <6>1. j # f \/ ~Moving
            <7>1. CASE Moving
              <8>1. Goal[t] = [i \in IdsOf[t] |-> IF b[t][i] # NoRow /\ b[t][i] = f THEN v ELSE b[t][i]]
                BY <1>2, <1>5, <4>2, <5>1, <7>1
              <8>2. Goal[t][k] = IF b[t][k] # NoRow /\ b[t][k] = f THEN v ELSE b[t][k]
                BY <2>1, <8>1
              <8>3. j = f => Goal[t][k] = v
                BY <2>1, <3>3, <8>2
              <8> QED BY <1>14, <1>10, <1>11, <3>3, <4>2, <5>1, <7>1, <8>3
            <7> QED BY <7>1
          <6> QED BY <1>1, <1>2, <1>3, <4>1, <5>1, <6>1
        <5>2. CASE q # p
          <6>1. CASE Moving /\ Parent[q] = p
            <7> HIDE DEF q, j
            <7>1. Goal[q] = [i \in IdsOf[q] |-> IF b[q][i] # NoRow /\ b[q][i] = f THEN v ELSE b[q][i]]
              BY <1>2, <1>5, <4>1, <5>2, <6>1
            <7> QED BY <1>9, <4>1, <7>1
          <6>2. CASE ~(Moving /\ Parent[q] = p)
            BY <1>2, <4>1, <5>2, <6>2
          <6> QED BY <6>1, <6>2
        <5> QED BY <5>1, <5>2
      <4> QED BY <1>8, <3>3, <4>1, <4>3
    <3> QED BY <3>1, <3>2, <3>3
  <2> QED BY <2>2, <2>3
<1>15. Sound(Goal)
  BY <1>14 DEF Sound, Orphans
<1>16. ~Moving => /\ \A t \in Tables : t # p => Goal[t] = b[t]
                  /\ \A k \in IdsOf[p] : Goal[p][k] # b[p][k] => k = n
  BY <1>1, <1>2, <1>3
<1> QED BY <1>1, <1>2, <1>7, <1>15, <1>16 DEF p, b, n

LEMMA SameRows ==
  ASSUME NEW a, NEW b, IsDatabase(a), IsDatabase(b), NEW t \in Tables,
         \A k \in IdsOf[t] : a[t][k] = b[t][k]
  PROVE  a[t] = b[t]
<1>1. a[t] = [k \in IdsOf[t] |-> a[t][k]]
  BY DatabaseRows
<1>2. b[t] = [k \in IdsOf[t] |-> b[t][k]]
  BY DatabaseRows
<1> QED BY <1>1, <1>2

LEMMA SameDatabase ==
  ASSUME NEW a, NEW b, IsDatabase(a), IsDatabase(b), \A t \in Tables : a[t] = b[t]
  PROVE  a = b
BY DEF IsDatabase

\* Which tables a DELETE changes, and how.
LEMMA DeleteChanges ==
  ASSUME NEW rank, Acyclic(rank), StmtOK, stmt.op = "delete"
  PROVE  /\ IsDatabase(Goal) /\ Goal[stmt.table] = stmt.next
         /\ \A t \in Tables :
              /\ t # stmt.table => (Goal[t] # stmt.before[t] <=> Found(t) # {})
              /\ Found(t) # {} =>
                   /\ Parent[t] \in Tables /\ GoneKeys(Parent[t]) # {} /\ t # stmt.table
                   /\ rank[stmt.table] < rank[t]
              /\ GoneKeys(t) # {} => Goal[t] # stmt.before[t]
              /\ Goal[t] # stmt.before[t] => t = stmt.table \/ rank[stmt.table] < rank[t]
              /\ t # stmt.table => IF onDelete[t] = "CASCADE"
                   THEN /\ GoneKeys(t) = Found(t)
                        /\ Goal[t] = RemoveRows(stmt.before[t], Found(t))
                   ELSE /\ GoneKeys(t) = {}
                        /\ Goal[t] = SetRefs(stmt.before[t], Found(t), NULL)
<1> DEFINE b == stmt.before
           p == stmt.table
<1>1. p \in Tables /\ IsDatabase(b) /\ stmt.next = RemoveRows(b[p], stmt.keys)
  BY DEF StmtOK, DeleteOK
<1>2. \A t \in Tables : DOMAIN b[t] = IdsOf[t] /\ b[t] = [k \in IdsOf[t] |-> b[t][k]]
  BY <1>1, DatabaseRows
<1>3. GoneKeys(p) = stmt.keys /\ Found(p) = {} /\ Goal = [t \in Tables |-> Goal[t]]
  BY DeleteGoal
<1>4. ASSUME NEW t \in Tables
      PROVE  /\ Goal[t] = [k \in IdsOf[t] |->
                   IF k \in GoneKeys(t) THEN NoRow ELSE IF k \in Found(t) THEN NULL ELSE b[t][k]]
             /\ GoneKeys(t) \subseteq Live(b[t])
             /\ Found(t) # {} => Parent[t] \in Tables /\ rank[p] < rank[t]
             /\ Found(t) = {k \in IdsOf[t] : /\ b[t][k] # NULL /\ Parent[t] \in Tables
                                             /\ b[t][k] \in GoneKeys(Parent[t])}
             /\ t # p => GoneKeys(t) = IF onDelete[t] = "CASCADE" THEN Found(t) ELSE {}
  BY DeleteGoal
<1> HIDE DEF b, p
<1>5. ASSUME NEW t \in Tables, NEW k \in IdsOf[t] PROVE b[t][k] \in Refs(t) \cup {NoRow}
  BY <1>1, DatabaseRows
<1>6. \A t \in Tables : Goal[t] \in RowsOf(t)
  <2>1. SUFFICES ASSUME NEW t \in Tables PROVE Goal[t] \in RowsOf(t)
    OBVIOUS
  <2>2. NULL \in Refs(t)
    BY DEF Refs
  <2>3. \A k \in IdsOf[t] :
          (IF k \in GoneKeys(t) THEN NoRow ELSE IF k \in Found(t) THEN NULL ELSE b[t][k])
            \in Refs(t) \cup {NoRow}
    BY <1>5, <2>2
  <2>4. Goal[t] = [k \in IdsOf[t] |->
          IF k \in GoneKeys(t) THEN NoRow ELSE IF k \in Found(t) THEN NULL ELSE b[t][k]]
    BY <1>4
  <2> QED BY <2>3, <2>4 DEF RowsOf
<1>7. IsDatabase(Goal)
  BY <1>3, <1>6 DEF IsDatabase
<1>8. Goal[p] = stmt.next
  <2>1. Goal[p] = [k \in IdsOf[p] |-> IF k \in stmt.keys THEN NoRow ELSE b[p][k]]
    BY <1>1, <1>3, <1>4
  <2> QED BY <1>1, <1>2, <2>1 DEF RemoveRows
<1>9. ASSUME NEW t \in Tables, NEW k \in Found(t)
      PROVE  k \in IdsOf[t] /\ b[t][k] \notin {NULL, NoRow}
  BY DEF Found, Refers, b
<1>10. ASSUME NEW t \in Tables, NEW k \in GoneKeys(t)
       PROVE  k \in IdsOf[t] /\ b[t][k] # NoRow /\ Goal[t][k] = NoRow
  <2>1. k \in Live(b[t])
    BY <1>4
  <2>2. k \in IdsOf[t] /\ b[t][k] # NoRow
    BY <1>1, <2>1, LiveRow
  <2> QED BY <1>4, <2>2
<1>11. \A t \in Tables : GoneKeys(t) # {} => Goal[t] # b[t]
  BY <1>10
<1>12. \A t \in Tables : Found(t) # {} => Goal[t] # b[t]
  <2> SUFFICES ASSUME NEW t \in Tables, NEW k \in Found(t) PROVE Goal[t] # b[t]
    OBVIOUS
  <2>1. Goal[t][k] \in {NULL, NoRow}
    BY <1>4, <1>9
  <2> QED BY <1>9, <2>1
<1>13. ASSUME NEW t \in Tables, t # p
       PROVE  IF onDelete[t] = "CASCADE"
              THEN GoneKeys(t) = Found(t) /\ Goal[t] = RemoveRows(b[t], Found(t))
              ELSE GoneKeys(t) = {} /\ Goal[t] = SetRefs(b[t], Found(t), NULL)
  <2>1. CASE onDelete[t] = "CASCADE"
    <3>1. GoneKeys(t) = Found(t)
      BY <1>4, <1>13, <2>1
    <3>2. Goal[t] = [k \in IdsOf[t] |-> IF k \in Found(t) THEN NoRow ELSE b[t][k]]
      BY <1>4, <3>1
    <3> QED BY <1>2, <2>1, <3>1, <3>2 DEF RemoveRows
  <2>2. CASE onDelete[t] # "CASCADE"
    <3>1. GoneKeys(t) = {}
      BY <1>4, <1>13, <2>2
    <3>2. Goal[t] = [k \in IdsOf[t] |-> IF k \in Found(t) THEN NULL ELSE b[t][k]]
      BY <1>4, <3>1
    <3> QED BY <1>2, <2>2, <3>1, <3>2 DEF SetRefs
  <2> QED BY <2>1, <2>2
<1>14. \A t \in Tables : t # p /\ Found(t) = {} => Goal[t] = b[t]
  <2> SUFFICES ASSUME NEW t \in Tables, t # p, Found(t) = {} PROVE Goal[t] = b[t]
    OBVIOUS
  <2>1. Goal[t] = RemoveRows(b[t], {}) \/ Goal[t] = SetRefs(b[t], {}, NULL)
    BY <1>13
  <2> QED BY <1>2, <2>1 DEF RemoveRows, SetRefs
<1>15. \A t \in Tables : Found(t) # {} => GoneKeys(Parent[t]) # {} /\ t # p
  BY <1>3, <1>4
<1>16. \A t \in Tables : Found(t) # {} => Parent[t] \in Tables /\ rank[p] < rank[t]
  BY <1>4
<1> QED BY <1>7, <1>8, <1>11, <1>12, <1>13, <1>14, <1>15, <1>16 DEF b, p

\* The statement's outcome hangs together.
LEMMA GoalFacts ==
  ASSUME NEW rank, Acyclic(rank), StmtOK, onUpdate \in Actions
  PROVE  IsDatabase(Goal) /\ Sound(Goal) /\ Goal[stmt.table] = stmt.next
<1>1. CASE stmt.op = "delete"
  <2>1. IsDatabase(Goal) /\ Goal[stmt.table] = stmt.next
    BY <1>1, DeleteChanges
  <2>2. Sound(Goal)
    BY <1>1, <2>1, MixSound
  <2> QED BY <2>1, <2>2
<1>2. CASE stmt.op # "delete"
  BY <1>2, PutGoal
<1> QED BY <1>1, <1>2

\* An INSERT or an UPDATE that keeps the key changes one row.
LEMMA PutMix ==
  ASSUME NEW rank, Acyclic(rank), StmtOK, stmt.op # "delete", ~Moving, onUpdate \in Actions,
         NEW db, IsDatabase(db),
         \A t \in Tables : \A k \in IdsOf[t] : db[t][k] \in {stmt.before[t][k], Goal[t][k]}
  PROVE  Sound(db)
<1> DEFINE b == stmt.before
           p == stmt.table
           n == stmt.to
<1>1. /\ IsDatabase(b) /\ Sound(b) /\ IsDatabase(Goal) /\ Sound(Goal)
      /\ \A t \in Tables : t # p => Goal[t] = b[t]
      /\ \A k \in IdsOf[p] : Goal[p][k] # b[p][k] => k = n
      /\ p \in Tables /\ n \in IdsOf[p]
  BY PutGoal DEF StmtOK, PutOK
<1> HIDE DEF b, p, n
<1>2. \A t \in Tables : \A k \in IdsOf[t] : db[t][k] \in {b[t][k], Goal[t][k]}
  BY DEF b
<1>3. CASE db[p][n] = b[p][n]
  <2>1. \A t \in Tables : \A k \in IdsOf[t] : db[t][k] = b[t][k]
    BY <1>1, <1>2, <1>3
  <2>2. db = b
    BY <1>1, <2>1, SameRows, SameDatabase
  <2> QED BY <1>1, <2>2
<1>4. CASE db[p][n] = Goal[p][n]
  <2>1. \A t \in Tables : \A k \in IdsOf[t] : db[t][k] = Goal[t][k]
    BY <1>1, <1>2, <1>4
  <2>2. db = Goal
    BY <1>1, <2>1, SameRows, SameDatabase
  <2> QED BY <1>1, <2>2
<1> QED BY <1>1, <1>2, <1>3, <1>4

-----------------------------------------------------------------------------
(* The states of a statement                                               *)

LEMMA SameStatement ==
  ASSUME stmt' = stmt, UNCHANGED declared
  PROVE  /\ Goal' = Goal /\ Gone' = Gone /\ Moving' = Moving
         /\ StmtOK' = StmtOK /\ Refusable' = Refusable
         /\ \A t : GoneKeys(t)' = GoneKeys(t) /\ Found(t)' = Found(t)
<1>1. stmt' = stmt /\ onDelete' = onDelete /\ onUpdate' = onUpdate
  BY DEF declared
<1>2. Gone' = Gone
  BY <1>1 DEF Gone, Removed, Closed, Refers, RowsIn
<1>3. Goal' = Goal
  BY <1>1, <1>2 DEF Goal, Without, Refers, Moving, Moved
<1>4. StmtOK' = StmtOK
  BY <1>1 DEF StmtOK, DeleteOK, PutOK, IsDatabase, Sound, Orphans
<1>5. Refusable' = Refusable
  BY <1>1, <1>2 DEF Refusable, Refers, RowsIn
<1> QED BY <1>1, <1>2, <1>3, <1>4, <1>5 DEF GoneKeys, Found, Refers, Moving

\* No batch is under way if and only if it has no table.
LEMMA BatchTable ==
  ASSUME StoreOK
  PROVE  /\ batch = NoBatch <=> batch.table = NoTable
         /\ batch # NoBatch => BatchOK /\ batch.table \in Tables
         /\ batch = NoBatch => stage = 0 /\ batch.left = {}
<1>1. NoBatch.table = NoTable /\ NoBatch.left = {}
  BY DEF NoBatch, Batch
<1> QED BY <1>1, ParentAssumption DEF StoreOK, BatchOK

LEMMA TopCall ==
  ASSUME NEW rank, Nested(rank)
  PROVE  /\ Len(calls) \in 1..Len(calls) /\ Top.table \in Under
         /\ \A i \in 1..Len(calls) : calls[i].table \in Under
         /\ \A t \in Under : \E i \in 1..Len(calls) : t = calls[i].table
BY DEF Nested, Under, Top

\* Under DELETE: the tables below the statement's rank above it.
LEMMA UnderRank ==
  ASSUME NEW rank, Acyclic(rank), StmtOK, DeleteActs(rank)
  PROVE  /\ \A t \in Under : t \in Tables /\ (t = stmt.table \/ rank[stmt.table] < rank[t])
         /\ batch.table \in Tables => rank[stmt.table] < rank[batch.table]
<1>1. Nested(rank) /\ \A i \in 1..Len(calls) : CallOK(calls[i])
  BY DEF DeleteActs
<1>2. \A i \in 1..Len(calls) : calls[i].table \in Tables
  BY <1>1 DEF CallOK
<1>3. Len(calls) \in Nat \ {0} /\ calls[1].table = stmt.table
  BY <1>1 DEF Nested
<1>4. \A i \in 1..Len(calls) : i = 1 \/ rank[calls[1].table] < rank[calls[i].table]
  BY <1>1, <1>3 DEF Nested
<1>5. \A t \in Under : t \in Tables /\ (t = stmt.table \/ rank[stmt.table] < rank[t])
  BY <1>1, <1>2, <1>3, <1>4, TopCall
<1>6. ASSUME batch.table \in Tables PROVE rank[stmt.table] < rank[batch.table]
  <2>1. Parent[batch.table] = Top.table
    BY <1>6, ParentAssumption DEF DeleteActs
  <2>2. Parent[batch.table] \in Tables /\ (Parent[batch.table] = stmt.table \/ rank[stmt.table] < rank[Parent[batch.table]])
    BY <1>1, <1>5, <2>1, TopCall
  <2>3. rank[Parent[batch.table]] < rank[batch.table] /\ rank[batch.table] \in Nat
        /\ rank[Parent[batch.table]] \in Nat /\ rank[stmt.table] \in Nat
    BY <1>6, <2>2, ParentAssumption DEF Acyclic, StmtOK
  <2> QED BY <2>2, <2>3
<1> QED BY <1>5, <1>6

\* The children of a table that is being written, or has been changed, are done.
LEMMA Settled ==
  ASSUME NEW rank, Acyclic(rank), StmtOK, DeleteActs(rank),
         NEW c \in Tables, Parent[c] \in Tables,
         Parent[c] = batch.table \/ mem[Parent[c]] # stmt.before[Parent[c]]
  PROVE  c # batch.table /\ mem[c] = Goal[c]
<1> DEFINE t == Parent[c]
<1>1. Nested(rank) /\ LaterOK /\ \A i \in 1..Len(calls) : CallOK(calls[i])
  BY DEF DeleteActs
<1>2. t \notin Under
  <2>1. CASE t = batch.table
    BY <2>1, ParentAssumption DEF DeleteActs
  <2>2. CASE mem[t] # stmt.before[t]
    BY ZenonT(60), <1>1, <2>2, TopCall DEF CallOK
  <2> QED BY <2>1, <2>2
<1>3. t \notin Later
  BY <1>1 DEF LaterOK, Waiting
<1>4. c # batch.table
  BY <1>1, <1>2, TopCall, ParentAssumption DEF DeleteActs
<1>5. \A i \in 1..Len(calls) : c \notin calls[i].todo
  BY <1>1, <1>2, TopCall DEF CallOK, ChildrenOf
<1>6. c \notin Later
  BY <1>1, <1>3, <1>5 DEF LaterOK
<1>7. c \notin Under
  <2>1. SUFFICES ASSUME NEW i \in 1..Len(calls), c = calls[i].table PROVE FALSE
    BY <1>1, TopCall
  <2>2. CASE i = 1
    <3>1. c = stmt.table
      BY <1>1, <2>1, <2>2 DEF Nested
    <3>2. rank[t] < rank[stmt.table] /\ rank[t] \in Nat /\ rank[stmt.table] \in Nat
      BY <3>1, ParentAssumption DEF Acyclic
    <3>3. t # batch.table
      BY <3>2, UnderRank
    <3>4. t # stmt.table /\ Goal[t] = stmt.before[t]
      BY <3>2, DeleteChanges DEF DeleteActs
    <3>5. mem[t] # Goal[t]
      BY <3>3, <3>4
    <3>6. t \in Later
      BY <1>2, <3>3, <3>5 DEF Later
    <3> QED BY <1>3, <3>6
  <2>3. CASE i # 1
    <3>1. i \in 2..Len(calls) /\ i - 1 \in 1..Len(calls)
      BY <1>1, <2>3 DEF Nested
    <3>2. t = calls[i - 1].table
      BY <1>1, <2>1, <3>1 DEF Nested
    <3> QED BY <1>1, <1>2, <3>1, <3>2, TopCall
  <2> QED BY <2>2, <2>3
<1> QED BY <1>4, <1>6, <1>7 DEF Later

\* Each table is as the DELETE found it or as it leaves it.
LEMMA MemOfDelete ==
  ASSUME NEW rank, StmtOK, DeleteActs(rank), NEW t \in Tables
  PROVE  mem[t] \in {stmt.before[t], Goal[t]}
<1>1. Nested(rank) /\ LaterOK /\ \A i \in 1..Len(calls) : CallOK(calls[i])
  BY DEF DeleteActs
<1>2. CASE t \in Later
  BY <1>1, <1>2 DEF LaterOK, Waiting
<1>3. CASE t \in Under
  BY ZenonT(60), <1>1, <1>3, TopCall DEF CallOK
<1>4. CASE t = batch.table
  BY <1>4, ParentAssumption DEF DeleteActs
<1> QED BY <1>2, <1>3, <1>4 DEF Later

\* No step of a DELETE leaves a row in memory whose parent is gone.
LEMMA DeleteSound ==
  ASSUME NEW rank, Acyclic(rank), StmtOK, DeleteActs(rank), IsDatabase(mem)
  PROVE  Sound(mem)
<1>1. \A t \in Tables : \A k \in IdsOf[t] : mem[t][k] \in {stmt.before[t][k], Goal[t][k]}
  BY MemOfDelete
<1>2. \A c \in Tables : Parent[c] \in Tables =>
        mem[Parent[c]] = stmt.before[Parent[c]] \/ mem[c] = Goal[c]
  BY Settled
<1>3. stmt.op = "delete"
  BY DEF DeleteActs
<1> QED BY <1>1, <1>2, <1>3, MixSound

\* What the store holds of each row, between rows.
LEMMA DiskRows ==
  ASSUME StoreOK, stage = 0, NEW t \in Tables, NEW k \in IdsOf[t]
  PROVE  /\ t # batch.table => disk[t] = mem[t]
         /\ t = batch.table => disk[t][k] \in {stmt.before[t][k], Goal[t][k]}
<1>1. t # batch.table => disk[t] = mem[t]
  BY DEF StoreOK
<1>2. ASSUME t = batch.table PROVE disk[t][k] \in {stmt.before[t][k], Goal[t][k]}
  <2>1. BatchOK
    BY <1>2, BatchTable, ParentAssumption
  <2>2. CASE k \in batch.left
    BY <1>2, <2>1, <2>2 DEF BatchOK
  <2>3. CASE k \notin batch.left
    BY <1>2, <2>1, <2>3 DEF BatchOK
  <2> QED BY <2>2, <2>3
<1> QED BY <1>1, <1>2

\* Nor does one in the store, between rows.
LEMMA DeleteDiskSound ==
  ASSUME NEW rank, Acyclic(rank), StmtOK, StoreOK, stage = 0, IsDatabase(disk),
         DeleteActs(rank)
  PROVE  Sound(disk)
<1>1. \A t \in Tables : \A k \in IdsOf[t] : disk[t][k] \in {stmt.before[t][k], Goal[t][k]}
  BY MemOfDelete, DiskRows
<1>2. ASSUME NEW c \in Tables, Parent[c] \in Tables,
             disk[Parent[c]] # stmt.before[Parent[c]]
      PROVE  disk[c] = Goal[c]
  <2>1. Parent[c] = batch.table \/ mem[Parent[c]] # stmt.before[Parent[c]]
    BY <1>2 DEF StoreOK
  <2>2. c # batch.table /\ mem[c] = Goal[c]
    BY <1>2, <2>1, Settled
  <2> QED BY <2>2 DEF StoreOK
<1>3. stmt.op = "delete"
  BY DEF DeleteActs
<1> QED BY <1>1, <1>2, <1>3, MixSound

LEMMA OwnDiskSound ==
  ASSUME NEW rank, Acyclic(rank), Own, ~Moving, stage = 0, IsDatabase(disk), onUpdate \in Actions
  PROVE  Sound(disk)
<1>1. StmtOK /\ StoreOK /\ mem = Goal /\ batch.table = stmt.table /\ stmt.table \in Tables
  BY DEF Own, StmtOK
<1>2. \A t \in Tables : t # stmt.table => disk[t] = Goal[t]
  BY <1>1 DEF StoreOK
<1>3. \A t \in Tables : \A k \in IdsOf[t] : disk[t][k] \in {stmt.before[t][k], Goal[t][k]}
  BY <1>1, <1>2, DiskRows
<1>4. CASE stmt.op = "delete"
  <2>1. ASSUME NEW c \in Tables, Parent[c] \in Tables
        PROVE  disk[Parent[c]] = stmt.before[Parent[c]] \/ disk[c] = Goal[c]
    <3>1. CASE c # stmt.table
      BY <1>2, <3>1
    <3>2. CASE c = stmt.table
      <4>1. rank[Parent[c]] < rank[c] /\ rank[Parent[c]] \in Nat /\ rank[c] \in Nat
        BY <2>1, ParentAssumption DEF Acyclic
      <4>2. Parent[c] # stmt.table /\ Goal[Parent[c]] = stmt.before[Parent[c]]
        BY <1>1, <1>4, <2>1, <3>2, <4>1, DeleteChanges
      <4> QED BY <1>2, <2>1, <4>2
    <3> QED BY <3>1, <3>2
  <2> QED BY <1>1, <1>3, <1>4, <2>1, MixSound
<1>5. CASE stmt.op # "delete"
  BY <1>1, <1>3, <1>5, PutMix
<1> QED BY <1>4, <1>5

LEMMA ChangedRows ==
  ASSUME NEW db, IsDatabase(db), NEW t \in Tables, NEW rows \in RowsOf(t)
  PROVE  /\ IsDatabase([db EXCEPT ![t] = rows])
         /\ [db EXCEPT ![t] = rows][t] = rows
         /\ \A u \in Tables : u # t => [db EXCEPT ![t] = rows][u] = db[u]
<1>1. DOMAIN db = Tables
  BY DatabaseRows
<1> QED BY <1>1 DEF IsDatabase

\* A statement that begins: what it found is the database, which hangs together.
LEMMA StatementFields ==
  ASSUME NEW op, NEW t, NEW next, NEW keys, NEW from, NEW to,
         stmt' = Statement(op, t, next, keys, from, to)
  PROVE  /\ stmt'.op = op /\ stmt'.table = t /\ stmt'.next = next /\ stmt'.keys = keys
         /\ stmt'.from = from /\ stmt'.to = to /\ stmt'.before = mem
BY DEF Statement

LEMMA PutBegins ==
  ASSUME NEW rank, Acyclic(rank), IInv(rank), phase = "idle", ~torn,
         NEW op \in {"insert", "update"}, NEW t \in Tables, NEW k \in IdsOf[t], NEW nk \in IdsOf[t],
         NEW ref \in Refs(t), NEW next \in RowsOf(t), HasParent(t, ref), op = "insert" => k = nk,
         nk = k \/ nk \notin Live(mem[t]),
         \A j \in IdsOf[t] : next[j] = IF j = nk THEN ref ELSE IF j = k THEN NoRow ELSE mem[t][j],
         stmt' = Statement(op, t, next, {k, nk}, k, nk)
  PROVE  StmtOK' /\ (Moving' <=> op = "update" /\ k # nk)
<1>1. /\ stmt'.op = op /\ stmt'.table = t /\ stmt'.next = next /\ stmt'.keys = {k, nk}
      /\ stmt'.from = k /\ stmt'.to = nk /\ stmt'.before = mem
  BY StatementFields
<1>2. IsDatabase(mem) /\ Sound(mem)
  BY DEF IInv, Quiet
<1>3. ref # NoRow
  BY IdsAssumption, ParentAssumption DEF Refs
<1>4. ref # NULL => Parent[t] # NoTable /\ ref \in Live(mem[Parent[t]])
  BY DEF HasParent
<1>5. nk = k \/ mem[t][nk] = NoRow
  BY <1>2, LiveRow
<1>6. next[nk] = ref
  OBVIOUS
<1>7. PutOK(stmt)'
  BY <1>1, <1>3, <1>4, <1>5, <1>6 DEF PutOK
<1>8. IsDatabase(stmt.before)' /\ Sound(stmt.before)'
  BY <1>1, <1>2 DEF IsDatabase, Sound, Orphans
<1>9. StmtOK'
  BY <1>1, <1>7, <1>8 DEF StmtOK
<1> QED BY <1>1, <1>9 DEF Moving

\* The outcome of an INSERT or an UPDATE, as PutGoal gives it.
IsPut == StmtOK /\ stmt.op # "delete" /\ onUpdate \in Actions
PutOutcome ==
  /\ IsDatabase(Goal) /\ Sound(Goal) /\ Goal[stmt.table] = stmt.next
  /\ ~Moving => /\ \A u \in Tables : u # stmt.table => Goal[u] = stmt.before[u]
                /\ \A j \in IdsOf[stmt.table] :
                     Goal[stmt.table][j] # stmt.before[stmt.table][j] => j = stmt.to

LEMMA PutOutcomeNext ==
  ASSUME NEW rank, Acyclic(rank)
  PROVE  IsPut' => PutOutcome'
<1>1. IsPut => PutOutcome
  BY PutGoal DEF IsPut, PutOutcome
<1> QED BY <1>1, PTL

\* The batch of a table, before its first command.
LEMMA BatchBegins ==
  ASSUME NEW t \in Tables, NEW keys, batch' = Batch(t, Goal'[t], keys), keys \subseteq IdsOf[t],
         stage' = 0, \A u \in Tables : u # t => disk'[u] = mem'[u],
         \A k \in IdsOf[t] : disk'[t][k] = stmt'.before[t][k],
         \A k \in IdsOf[t] \ keys : Goal'[t][k] = stmt'.before[t][k]
  PROVE  /\ StoreOK' /\ batch'.table = t /\ batch'.left = keys
<1>1. batch'.table = t /\ batch'.rows = Goal'[t] /\ batch'.left = keys
  BY DEF Batch
<1>2. batch' = Batch(batch'.table, batch'.rows, batch'.left)
  BY <1>1
<1>3. BatchOK'
  BY <1>1, <1>2 DEF BatchOK, Batch
<1> QED BY <1>1, <1>3 DEF StoreOK

LEMMA InsertStep ==
  ASSUME NEW rank, Acyclic(rank), IInv(rank), NEW t \in Tables, NEW k \in IdsOf[t],
         NEW ref \in Refs(t), InsertRow(t, k, ref)
  PROVE  IInv(rank)'
<1> DEFINE next == [mem[t] EXCEPT ![k] = ref]
<1>1. /\ k \notin Live(mem[t]) /\ HasParent(t, ref)
      /\ stmt' = Statement("insert", t, next, {k}, k, k) /\ phase' = "own" /\ phase = "idle" /\ ~torn
      /\ mem' = [mem EXCEPT ![t] = next] /\ batch' = Batch(t, next, {k})
      /\ UNCHANGED <<declared, disk, stage, torn, working>>
  BY DEF InsertRow, Issue
<1>2. IsDatabase(mem) /\ IsDatabase(disk) /\ Quiet /\ torn \in BOOLEAN /\ stage \in 0..2
      /\ onDelete \in [{u \in Tables : Parent[u] # NoTable} -> Actions] /\ onUpdate \in Actions
  BY <1>1 DEF IInv
<1>3. mem[t] \in RowsOf(t) /\ mem[t] = [j \in IdsOf[t] |-> mem[t][j]]
  BY ZenonT(60), <1>2, DatabaseRows DEF IsDatabase
<1>4. next \in RowsOf(t)
  BY <1>3 DEF RowsOf
<1>5. \A j \in IdsOf[t] : next[j] = IF j = k THEN ref ELSE IF j = k THEN NoRow ELSE mem[t][j]
  BY <1>3
<1> HIDE DEF next
<1>6. {k} = {k, k}
  OBVIOUS
<1>7. StmtOK' /\ ~Moving'
  BY <1>1, <1>4, <1>5, <1>6, PutBegins
<1>8. /\ stmt'.op = "insert" /\ stmt'.table = t /\ stmt'.next = next /\ stmt'.before = mem
      /\ stmt'.to = k
  BY <1>1, StatementFields
<1>9. onUpdate' \in Actions /\ onDelete' = onDelete
  BY <1>1, <1>2 DEF declared
<1>10. /\ IsDatabase(Goal') /\ Goal'[t] = next
       /\ \A u \in Tables : u # t => Goal'[u] = mem[u]
       /\ \A j \in IdsOf[t] : Goal'[t][j] # mem[t][j] => j = k
  <2>1. IsPut'
    BY <1>7, <1>8, <1>9 DEF IsPut
  <2>2. /\ IsDatabase(Goal') /\ Goal'[stmt'.table] = stmt'.next
        /\ \A u \in Tables : u # stmt'.table => Goal'[u] = stmt'.before[u]
        /\ \A j \in IdsOf[stmt'.table] :
             Goal'[stmt'.table][j] # stmt'.before[stmt'.table][j] => j = stmt'.to
    BY <1>7, <2>1, PutOutcomeNext DEF PutOutcome, IsDatabase
  <2> QED BY <1>8, <2>2
<1>11. IsDatabase(mem') /\ mem'[t] = next /\ \A u \in Tables : u # t => mem'[u] = mem[u]
  <2>1. /\ IsDatabase([mem EXCEPT ![t] = next]) /\ [mem EXCEPT ![t] = next][t] = next
        /\ \A u \in Tables : u # t => [mem EXCEPT ![t] = next][u] = mem[u]
    BY <1>2, <1>4, ChangedRows
  <2> QED BY <1>1, <2>1
<1>12. mem' = Goal'
  <2>1. \A u \in Tables : mem'[u] = Goal'[u]
    BY <1>10, <1>11
  <2>2. IsDatabase(Goal')
    BY <1>10 DEF IsDatabase
  <2> QED BY <1>11, <2>1, <2>2, SameDatabase
<1>13. disk' = mem /\ stage' = 0 /\ NoWork'
  BY <1>1, <1>2 DEF Quiet, NoWork, working
<1>14. StoreOK' /\ batch'.table = t
  <2>1. batch' = Batch(t, Goal'[t], {k})
    BY <1>1, <1>10
  <2>2. \A u \in Tables : u # t => disk'[u] = mem'[u]
    BY <1>11, <1>13
  <2>3. \A j \in IdsOf[t] : disk'[t][j] = stmt'.before[t][j]
    BY <1>8, <1>13
  <2>4. \A j \in IdsOf[t] \ {k} : Goal'[t][j] = stmt'.before[t][j]
    BY <1>8, <1>10
  <2>5. {k} \subseteq IdsOf[t]
    OBVIOUS
  <2> QED BY ZenonT(60), <1>13, <2>1, <2>2, <2>3, <2>4, <2>5, BatchBegins
<1>15. Own'
  BY <1>1, <1>7, <1>8, <1>12, <1>13, <1>14 DEF Own
<1>16. IsDatabase(mem)' /\ IsDatabase(disk)' /\ torn' \in BOOLEAN /\ stage' \in 0..2 /\ phase' = "own"
       /\ onDelete' \in [{u \in Tables : Parent[u] # NoTable} -> Actions]
  BY <1>1, <1>2, <1>9, <1>11 DEF IsDatabase
<1> QED BY <1>9, <1>15, <1>16 DEF IInv

\* The outcome of a DELETE, as DeleteGoal and DeleteChanges give it.
IsDelete == StmtOK /\ stmt.op = "delete"
DeleteOutcome(rank) ==
  /\ IsDatabase(Goal) /\ Goal[stmt.table] = stmt.next
  /\ GoneKeys(stmt.table) = stmt.keys
  /\ \A t \in Tables :
       /\ t # stmt.table => (Goal[t] # stmt.before[t] <=> Found(t) # {})
       /\ Found(t) # {} =>
            Parent[t] \in Tables /\ GoneKeys(Parent[t]) # {} /\ rank[stmt.table] < rank[t]
       /\ GoneKeys(t) # {} => Goal[t] # stmt.before[t]
       /\ Goal[t] # stmt.before[t] => t = stmt.table \/ rank[stmt.table] < rank[t]

LEMMA DeleteOutcomeNext ==
  ASSUME NEW rank, Acyclic(rank)
  PROVE  IsDelete' => DeleteOutcome(rank)'
<1>1. IsDelete => DeleteOutcome(rank)
  BY DeleteGoal, DeleteChanges DEF IsDelete, DeleteOutcome
<1> QED BY <1>1, PTL

LEMMA DeleteStep ==
  ASSUME NEW rank, Acyclic(rank), IInv(rank), NEW p \in Tables, NEW S \in SUBSET Live(mem[p]),
         Delete(p, S)
  PROVE  IInv(rank)'
<1>1. /\ S # {} /\ phase = "idle" /\ phase' = "actions" /\ ~torn
      /\ stmt' = Statement("delete", p, RemoveRows(mem[p], S), S, 0, 0)
      /\ calls' = <<Call(p, S, mem[p])>>
      /\ UNCHANGED <<declared, disk, stage, torn, mem, visited, hits, batch>>
  BY DEF Delete, Issue
<1>2. /\ IsDatabase(mem) /\ IsDatabase(disk) /\ Quiet /\ torn \in BOOLEAN /\ stage \in 0..2
      /\ onDelete \in [{u \in Tables : Parent[u] # NoTable} -> Actions] /\ onUpdate \in Actions
  BY <1>1 DEF IInv
<1>3. /\ stmt'.op = "delete" /\ stmt'.table = p /\ stmt'.next = RemoveRows(mem[p], S)
      /\ stmt'.keys = S /\ stmt'.before = mem
  BY <1>1, StatementFields
<1>4. mem[p] \in RowsOf(p) /\ DOMAIN mem[p] = IdsOf[p] /\ S \subseteq IdsOf[p]
  BY <1>2, DatabaseRows DEF IsDatabase
<1>5. RemoveRows(mem[p], S) \in RowsOf(p)
  BY <1>4 DEF RemoveRows, RowsOf
<1>6. StmtOK'
  <2>1. IsDatabase(stmt.before)' /\ Sound(stmt.before)'
    BY <1>1, <1>2, <1>3 DEF IsDatabase, Sound, Orphans, Quiet
  <2>2. DeleteOK(stmt)'
    BY <1>3 DEF DeleteOK
  <2> QED BY <1>3, <1>5, <2>1, <2>2 DEF StmtOK
<1>7. DeleteOutcome(rank)'
  BY <1>3, <1>6, DeleteOutcomeNext DEF IsDelete
<1> DEFINE f == Call(p, S, mem[p])
<1>8. /\ calls' = <<f>> /\ Len(calls') = 1 /\ calls'[1] = f
      /\ f.table = p /\ f.keys = S /\ f.rows = mem[p] /\ f.todo = ChildrenOf(p)
      /\ f = [table |-> f.table, keys |-> f.keys, rows |-> f.rows, todo |-> f.todo]
  BY <1>1 DEF Call
<1> HIDE DEF f
<1>9. batch' = NoBatch /\ batch'.table = NoTable /\ disk' = mem /\ visited' = {} /\ hits' = {}
      /\ stage' = 0 /\ mem' = mem
  BY <1>1, <1>2 DEF Quiet, NoWork, NoBatch, Batch
<1>10. Under' = {p}
  <2>1. DOMAIN calls' = 1..1
    BY <1>8
  <2> QED BY <1>8, <2>1 DEF Under
<1>11. Later' = {t \in Tables : mem[t] # Goal'[t]} \ {p}
  BY <1>9, <1>10, ParentAssumption DEF Later
<1>12. \A t \in Tables : t # p => Waiting(t)'
  BY <1>3, <1>9, <1>10, ParentAssumption DEF Waiting
<1>13. ASSUME NEW c \in ChildrenOf(p) PROVE c \in Tables /\ c # p
  <2>1. c \in Tables /\ Parent[c] = p
    BY DEF ChildrenOf
  <2>2. rank[p] < rank[c] /\ rank[p] \in Nat
    BY <2>1, ParentAssumption DEF Acyclic
  <2> QED BY <2>1, <2>2
<1>14. CallOK(calls[1])'
  <2>1. (GoneKeys(calls[1].table))' = S
    BY <1>3, <1>7, <1>8 DEF DeleteOutcome, GoneKeys
  <2>2. \A c \in calls'[1].todo : Waiting(c)'
    BY <1>8, <1>12, <1>13
  <2>3. p # NoTable
    BY ParentAssumption
  <2> QED BY <1>3, <1>8, <1>9, <2>1, <2>2, <2>3 DEF CallOK, Waiting
<1>15. Nested(rank)'
  BY <1>3, <1>8 DEF Nested
<1>16. LaterOK'
  <2>1. ASSUME NEW t \in Later'
        PROVE  Parent[t] \in Later' \/ t \in calls'[1].todo
    <3>1. t \in Tables /\ t # p /\ mem[t] # Goal'[t]
      BY <1>11, <2>1
    <3>2. Found(t)' # {}
      BY <1>3, <1>7, <3>1 DEF DeleteOutcome, Found
    <3>3. Parent[t] \in Tables /\ GoneKeys(Parent[t])' # {}
      BY <1>7, <3>1, <3>2 DEF DeleteOutcome, Found, GoneKeys
    <3>4. Goal'[Parent[t]] # mem[Parent[t]]
      BY <1>3, <1>7, <3>3 DEF DeleteOutcome, GoneKeys
    <3>5. Parent[t] = p => t \in ChildrenOf(p)
      BY <3>1 DEF ChildrenOf
    <3> QED BY <1>8, <1>11, <3>3, <3>4, <3>5
  <2>2. \A t \in Later' : Waiting(t)'
    BY <1>11, <1>12
  <2>3. ASSUME NEW t \in Tables, Parent[t] \in Later', t = p PROVE FALSE
    <3>1. Parent[p] \in Tables /\ Parent[p] # p /\ Goal'[Parent[p]] # stmt'.before[Parent[p]]
      BY <1>3, <1>11, <2>3
    <3>2. rank[p] < rank[Parent[p]]
      BY <1>3, <1>7, <3>1 DEF DeleteOutcome
    <3>3. rank[Parent[p]] < rank[p] /\ rank[p] \in Nat /\ rank[Parent[p]] \in Nat
      BY <3>1, ParentAssumption DEF Acyclic
    <3> QED BY <3>2, <3>3
  <2>4. 1 \in 1..Len(calls')
    BY <1>8
  <2> QED BY <1>12, <2>1, <2>2, <2>3, <2>4 DEF LaterOK
<1>17. DeleteActs(rank)'
  <2>1. \A i \in 1..Len(calls') : CallOK(calls[i])'
    <3>1. \A i \in 1..Len(calls') : i = 1
      BY <1>8
    <3> QED BY <1>14, <3>1
  <2>2. ASSUME NEW t \in Tables, mem'[t] = Goal'[t], Goal'[t] # stmt'.before[t] PROVE FALSE
    BY <1>3, <1>9, <2>2
  <2> QED BY <1>3, <1>9, <1>15, <1>16, <2>1, <2>2 DEF DeleteActs
<1>18. StoreOK'
  BY <1>9 DEF StoreOK
<1>19. InActions(rank)'
  BY <1>1, <1>6, <1>17, <1>18 DEF InActions
<1>20. IsDatabase(mem)' /\ IsDatabase(disk)' /\ torn' \in BOOLEAN /\ stage' \in 0..2
       /\ onDelete' \in [{u \in Tables : Parent[u] # NoTable} -> Actions] /\ onUpdate' \in Actions
  BY <1>1, <1>2 DEF IsDatabase, declared
<1> QED BY <1>1, <1>19, <1>20 DEF IInv

LEMMA UpdateStep ==
  ASSUME NEW rank, Acyclic(rank), IInv(rank), NEW t \in Tables, NEW k \in IdsOf[t],
         NEW nk \in IdsOf[t], NEW ref \in Refs(t), Update(t, k, nk, ref)
  PROVE  IInv(rank)'
<1> DEFINE next == [RemoveRows(mem[t], {k}) EXCEPT ![nk] = ref]
<1>1. /\ nk = k \/ nk \notin Live(mem[t])
      /\ HasParent(t, ref) /\ phase = "idle" /\ phase' = "actions" /\ ~torn
      /\ stmt' = Statement("update", t, next, {k, nk}, k, nk)
      /\ hits' = IF nk = k THEN {} ELSE Hits(t, k)
      /\ UNCHANGED <<declared, disk, stage, torn, mem, calls, visited, batch>>
  BY DEF Update, Issue
<1>2. /\ IsDatabase(mem) /\ IsDatabase(disk) /\ Quiet /\ torn \in BOOLEAN /\ stage \in 0..2
      /\ onDelete \in [{u \in Tables : Parent[u] # NoTable} -> Actions] /\ onUpdate \in Actions
  BY <1>1 DEF IInv
<1>3. mem[t] \in RowsOf(t) /\ mem[t] = [j \in IdsOf[t] |-> mem[t][j]] /\ DOMAIN mem[t] = IdsOf[t]
  BY ZenonT(60), <1>2, DatabaseRows DEF IsDatabase
<1>4. RemoveRows(mem[t], {k}) = [j \in IdsOf[t] |-> IF j = k THEN NoRow ELSE mem[t][j]]
  BY <1>3 DEF RemoveRows
<1>5. next \in RowsOf(t)
  BY <1>3, <1>4 DEF RowsOf
<1>6. \A j \in IdsOf[t] : next[j] = IF j = nk THEN ref ELSE IF j = k THEN NoRow ELSE mem[t][j]
  BY <1>4
<1> HIDE DEF next
<1>7. StmtOK' /\ (Moving' <=> k # nk)
  BY <1>1, <1>2, <1>5, <1>6, PutBegins
<1>8. /\ stmt'.op = "update" /\ stmt'.table = t /\ stmt'.next = next /\ stmt'.before = mem
      /\ stmt'.from = k /\ stmt'.to = nk
  BY <1>1, StatementFields
<1>9. /\ batch' = NoBatch /\ batch'.table = NoTable /\ disk' = mem /\ visited' = {} /\ calls' = <<>>
      /\ stage' = 0 /\ mem' = mem
  BY <1>1, <1>2 DEF Quiet, NoWork, NoBatch, Batch
<1>10. /\ hits' \subseteq ChildrenOf(t) /\ t \notin hits'
       /\ ~Moving' => hits' = {}
  BY <1>1, <1>7 DEF Hits
<1>11. ASSUME NEW u \in Tables, u # t, u \notin hits' PROVE mem[u] = Goal'[u]
  <2>1. Goal'[u] = IF Moving' /\ Parent[u] = t THEN (Moved(stmt.before[u], stmt))' ELSE mem[u]
    BY <1>8, <1>11 DEF Goal
  <2>2. ASSUME Moving', Parent[u] = t PROVE (Moved(stmt.before[u], stmt))' = mem[u]
    <3>1. u \notin Hits(t, k)
      BY <1>1, <1>7, <1>11, <2>2
    <3>2. \A j \in Live(mem[u]) : mem[u][j] # k
      BY <1>11, <2>2, <3>1 DEF Hits, ChildrenOf
    <3>3. {j \in Live(mem[u]) : mem[u][j] = k} = {}
      BY <3>2
    <3>4. DOMAIN mem[u] = IdsOf[u] /\ mem[u] = [j \in IdsOf[u] |-> mem[u][j]]
      BY <1>2, DatabaseRows
    <3>5. (Moved(stmt.before[u], stmt))' =
            SetRefs(mem[u], {}, IF onUpdate' = "CASCADE" THEN nk ELSE NULL)
      BY <1>8, <3>3 DEF Moved
    <3> QED BY <3>4, <3>5 DEF SetRefs
  <2> QED BY <2>1, <2>2
<1>12. UpdateActs'
  <2>1. NoTable \notin hits' /\ NoTable # t
    BY <1>10, ParentAssumption DEF ChildrenOf
  <2>2. ASSUME NEW u \in Tables
        PROVE  IF u = t \/ u = NoTable \/ u \in hits' THEN mem'[u] = mem[u] ELSE mem'[u] = Goal'[u]
    BY <1>9, <1>11
  <2> QED BY <1>8, <1>9, <1>10, <2>1, <2>2 DEF UpdateActs
<1>13. StoreOK'
  BY <1>9 DEF StoreOK
<1>14. InActions(rank)'
  BY <1>1, <1>7, <1>12, <1>13 DEF InActions
<1>15. IsDatabase(mem)' /\ IsDatabase(disk)' /\ torn' \in BOOLEAN /\ stage' \in 0..2
       /\ onDelete' \in [{u \in Tables : Parent[u] # NoTable} -> Actions] /\ onUpdate' \in Actions
  BY <1>1, <1>2 DEF IsDatabase, declared
<1> QED BY <1>1, <1>14, <1>15 DEF IInv

\* What a DELETE that acts knows of the foreign key it comes to.
LEMMA AtForeignKey ==
  ASSUME NEW rank, Acyclic(rank), IInv(rank), NEW c, ForeignKey(c)
  PROVE  /\ ~torn /\ phase = "actions" /\ StmtOK /\ StoreOK /\ DeleteActs(rank) /\ batch = NoBatch
         /\ batch.table = NoTable /\ stage = 0 /\ disk = mem
         /\ IsDatabase(mem) /\ c \in Tables /\ Parent[c] = Top.table /\ Top.table \in Tables
         /\ Waiting(c) /\ c # stmt.table
         /\ Matching(c) = Found(c)
         /\ \A i \in 1..Len(calls) : c \in calls[i].todo => i = Len(calls)
<1>1. phase = "actions" /\ stmt.op = "delete" /\ batch = NoBatch /\ c \in Top.todo
  BY DEF ForeignKey, Acting
<1>2. ~torn /\ StmtOK /\ StoreOK /\ DeleteActs(rank) /\ IsDatabase(mem) /\ IsDatabase(disk)
  BY <1>1 DEF IInv, InActions, UpdateActs
<1>3. batch.table = NoTable /\ stage = 0
  BY <1>1, <1>2, BatchTable
<1>4. disk = mem
  <2>1. \A t \in Tables : disk[t] = mem[t]
    BY <1>2, <1>3, ParentAssumption DEF StoreOK
  <2> QED BY <1>2, <2>1, SameDatabase
<1>5. Nested(rank) /\ \A i \in 1..Len(calls) : CallOK(calls[i])
  BY <1>2 DEF DeleteActs
<1>6. CallOK(Top)
  BY <1>5, TopCall DEF Top
<1>7. c \in Tables /\ Parent[c] = Top.table /\ Top.table \in Tables /\ Waiting(c)
  BY <1>1, <1>6 DEF CallOK, ChildrenOf
<1>8. c # stmt.table
  <2>1. Top.table = stmt.table \/ rank[stmt.table] < rank[Top.table]
    BY <1>2, <1>5, TopCall, UnderRank
  <2>2. rank[Top.table] < rank[c] /\ rank[Top.table] \in Nat /\ rank[c] \in Nat
    BY <1>7, ParentAssumption DEF Acyclic
  <2> QED BY <2>1, <2>2
<1>9. Top.table # c
  <2>1. rank[Top.table] < rank[c] /\ rank[Top.table] \in Nat
    BY <1>7, ParentAssumption DEF Acyclic
  <2> QED BY <2>1
<1>10. Matching(c) = Found(c)
  <2>1. Found(c) = {k \in IdsOf[c] : /\ stmt.before[c][k] # NULL /\ Parent[c] \in Tables
                                     /\ stmt.before[c][k] \in GoneKeys(Parent[c])}
    BY <1>1, <1>2, <1>7, DeleteGoal
  <2>2. mem[c] = stmt.before[c] /\ Top.keys = GoneKeys(Parent[c])
    BY <1>6, <1>7 DEF CallOK, Waiting
  <2>3. \A k : k \in Live(mem[c]) <=> k \in IdsOf[c] /\ mem[c][k] # NoRow
    BY <1>2, <1>7, LiveRow
  <2>4. \A k \in GoneKeys(Parent[c]) : k # NULL /\ k # NoRow
    BY <1>7, IdsAssumption DEF GoneKeys
  <2> QED BY <1>7, <1>9, <2>1, <2>2, <2>3, <2>4 DEF Matching
<1>11. \A i \in 1..Len(calls) : c \in calls[i].todo => i = Len(calls)
  <2> SUFFICES ASSUME NEW i \in 1..Len(calls), c \in calls[i].todo, i # Len(calls) PROVE FALSE
    OBVIOUS
  <2>1. calls[i].table = Parent[c] /\ calls[i].table \in Tables
    BY <1>5 DEF CallOK, ChildrenOf
  <2>2. i < Len(calls) /\ Len(calls) \in 1..Len(calls)
    BY <1>5 DEF Nested
  <2>3. rank[calls[i].table] < rank[Top.table]
    BY <1>5, <2>2 DEF Nested, Top
  <2>4. rank[Top.table] \in Nat
    BY <1>7 DEF Acyclic
  <2> QED BY <1>7, <2>1, <2>3, <2>4
<1> QED BY <1>1, <1>2, <1>3, <1>4, <1>7, <1>8, <1>10, <1>11

\* The calls after the innermost one has come to c.
LEMMA ComesFacts ==
  ASSUME NEW rank, Nested(rank), \A i \in 1..Len(calls) : CallOK(calls[i]), NEW c
  PROVE  /\ Comes(c) = [i \in 1..Len(calls) |-> Comes(c)[i]] /\ Len(Comes(c)) = Len(calls)
         /\ \A i \in 1..Len(calls) :
              Comes(c)[i] = [table |-> calls[i].table, keys |-> calls[i].keys, rows |-> calls[i].rows,
                             todo |-> IF i = Len(calls) THEN calls[i].todo \ {c} ELSE calls[i].todo]
         /\ \A i \in 1..Len(calls) :
              /\ Comes(c)[i].table = calls[i].table /\ Comes(c)[i].keys = calls[i].keys
              /\ Comes(c)[i].rows = calls[i].rows
              /\ Comes(c)[i].todo = IF i = Len(calls) THEN calls[i].todo \ {c} ELSE calls[i].todo
<1> DEFINE n == Len(calls)
<1>1. calls = [i \in 1..n |-> calls[i]] /\ n \in Nat \ {0}
  BY DEF Nested
<1>2. \A i \in 1..n : calls[i] = [table |-> calls[i].table, keys |-> calls[i].keys,
                                  rows |-> calls[i].rows, todo |-> calls[i].todo]
  BY DEF CallOK
<1> DEFINE x == [i \in 1..n |->
                   [table |-> calls[i].table, keys |-> calls[i].keys, rows |-> calls[i].rows,
                    todo |-> IF i = n THEN calls[i].todo \ {c} ELSE calls[i].todo]]
<1>3. Comes(c) = [i \in 1..n |-> IF i = n THEN [calls[n] EXCEPT !.todo = @ \ {c}] ELSE calls[i]]
  BY <1>1 DEF Comes
<1>4. [calls[n] EXCEPT !.todo = @ \ {c}] =
        [table |-> calls[n].table, keys |-> calls[n].keys, rows |-> calls[n].rows,
         todo |-> calls[n].todo \ {c}]
  <2>1. n \in 1..n
    BY <1>1
  <2> DEFINE f == calls[n]
  <2>2. f = [table |-> f.table, keys |-> f.keys, rows |-> f.rows, todo |-> f.todo]
    BY <1>2, <2>1
  <2> DEFINE a == f.table
             b == f.keys
             d == f.rows
             e == f.todo
  <2> HIDE DEF f
  <2>3. f = [table |-> a, keys |-> b, rows |-> d, todo |-> e] /\ f.todo = e
    BY <2>2
  <2> HIDE DEF a, b, d, e
  <2>4. \A g : [f EXCEPT !.todo = g] = [table |-> a, keys |-> b, rows |-> d, todo |-> g]
    BY <2>3
  <2> QED BY <2>4 DEF f, a, b, d, e
<1>5. Comes(c) = x
  BY ZenonT(60), <1>2, <1>3, <1>4
<1>6. Len(x) = n
  <2> HIDE DEF n
  <2> QED BY <1>1
<1>7. ASSUME NEW i \in 1..n
      PROVE  /\ Comes(c)[i].table = calls[i].table /\ Comes(c)[i].keys = calls[i].keys
             /\ Comes(c)[i].rows = calls[i].rows
             /\ Comes(c)[i].todo = IF i = n THEN calls[i].todo \ {c} ELSE calls[i].todo
  <2> DEFINE f == Comes(c)[i]
             e == IF i = n THEN calls[i].todo \ {c} ELSE calls[i].todo
  <2>1. f = [table |-> calls[i].table, keys |-> calls[i].keys, rows |-> calls[i].rows, todo |-> e]
    BY <1>5
  <2> HIDE DEF f, e, n
  <2>2. f.table = calls[i].table /\ f.keys = calls[i].keys /\ f.rows = calls[i].rows /\ f.todo = e
    BY <2>1
  <2> QED BY <2>2 DEF f, e
<1> HIDE DEF n
<1> QED BY <1>5, <1>6, <1>7 DEF n

\* The fields of the calls say what they nest.
LEMMA NestedAfter ==
  ASSUME NEW rank, Nested(rank), UNCHANGED <<stmt, onDelete>>,
         calls' = [i \in 1..Len(calls) |-> calls'[i]], Len(calls') = Len(calls),
         \A i \in 1..Len(calls) : calls'[i].table = calls[i].table
  PROVE  Nested(rank)' /\ Under' = Under
<1>1. Len(calls) \in Nat \ {0}
  BY DEF Nested
<1>2. \A i \in 2..Len(calls) : i \in 1..Len(calls) /\ i - 1 \in 1..Len(calls)
  BY <1>1
<1>3. Nested(rank)'
  BY <1>1, <1>2 DEF Nested
<1>4. DOMAIN calls = 1..Len(calls) /\ DOMAIN calls' = 1..Len(calls)
  BY DEF Nested
<1> QED BY <1>3, <1>4 DEF Under

LEMMA Unaltered ==
  ASSUME NEW rank, IInv(rank), UNCHANGED <<declared, mem, disk, stage, torn>>
  PROVE  /\ IsDatabase(mem)' /\ IsDatabase(disk)' /\ torn' \in BOOLEAN /\ stage' \in 0..2
         /\ onDelete' \in [{u \in Tables : Parent[u] # NoTable} -> Actions] /\ onUpdate' \in Actions
BY DEF IInv, IsDatabase, declared

LEMMA NoMatchStep ==
  ASSUME NEW rank, Acyclic(rank), IInv(rank), NEW c \in Tables, NoMatch(c)
  PROVE  IInv(rank)'
<1>1. /\ ForeignKey(c) /\ Matching(c) = {} /\ calls' = Comes(c)
      /\ UNCHANGED <<declared, mem, disk, stmt, hits, stage, torn, phase, visited, batch>>
  BY DEF NoMatch, UnchangedOnDelete
<1>2. /\ ~torn /\ phase = "actions" /\ StmtOK /\ StoreOK /\ DeleteActs(rank) /\ batch = NoBatch
      /\ batch.table = NoTable /\ Matching(c) = Found(c) /\ c # stmt.table
      /\ mem[c] = stmt.before[c]
      /\ \A i \in 1..Len(calls) : c \in calls[i].todo => i = Len(calls)
  BY <1>1, AtForeignKey DEF Waiting
<1>3. Nested(rank) /\ LaterOK /\ stmt.op = "delete" /\ \A i \in 1..Len(calls) : CallOK(calls[i])
  BY <1>2 DEF DeleteActs
<1>4. /\ calls' = [i \in 1..Len(calls) |-> calls'[i]] /\ Len(calls') = Len(calls)
      /\ \A i \in 1..Len(calls) :
           calls'[i] = [table |-> calls[i].table, keys |-> calls[i].keys, rows |-> calls[i].rows,
                        todo |-> IF i = Len(calls) THEN calls[i].todo \ {c} ELSE calls[i].todo]
  BY <1>1, <1>3, ComesFacts
<1>5. \A i \in 1..Len(calls) :
        /\ calls'[i].table = calls[i].table /\ calls'[i].keys = calls[i].keys
        /\ calls'[i].rows = calls[i].rows
        /\ calls'[i].todo = IF i = Len(calls) THEN calls[i].todo \ {c} ELSE calls[i].todo
  <2>1. calls' = Comes(c)
    BY <1>1
  <2> QED BY <1>3, <2>1, ComesFacts, Zenon
<1>6. Goal' = Goal /\ StmtOK' /\ \A t : GoneKeys(t)' = GoneKeys(t)
  BY <1>1, <1>2, SameStatement
<1>7. Nested(rank)' /\ Under' = Under
  BY <1>1, <1>3, <1>4, <1>5, NestedAfter DEF declared
<1>8. Later' = Later /\ \A t : Waiting(t)' = Waiting(t)
  BY <1>1, <1>6, <1>7 DEF Later, Waiting
<1>9. c \notin Later
  BY <1>1, <1>2, <1>3, DeleteChanges, AtForeignKey DEF Later
<1>10. LaterOK'
  <2>1. ASSUME NEW t \in Later, NEW i \in 1..Len(calls), t \in calls[i].todo
        PROVE  t \in calls'[i].todo
    BY <1>5, <1>9, <2>1
  <2> QED BY <1>3, <1>4, <1>8, <2>1 DEF LaterOK
<1>11. ASSUME NEW i \in 1..Len(calls) PROVE CallOK(calls[i])'
  <2>1. CallOK(calls[i])
    BY <1>3
  <2>2. calls'[i] = [table |-> calls'[i].table, keys |-> calls'[i].keys, rows |-> calls'[i].rows,
                     todo |-> calls'[i].todo]
    BY <1>4, <1>5
  <2>3. calls'[i].todo \subseteq calls[i].todo
    BY <1>5
  <2>4. calls'[i].keys = GoneKeys(calls[i].table)
    BY <1>5, <2>1 DEF CallOK
  <2>5. (GoneKeys(calls[i].table))' = GoneKeys(calls[i].table)
    BY <1>1, <1>5, SameStatement DEF GoneKeys
  <2> QED BY <1>1, <1>5, <1>8, <2>1, <2>2, <2>3, <2>4, <2>5 DEF CallOK
<1>12. DeleteActs(rank)'
  <2>1. batch'.table = NoTable
    BY <1>1, <1>2
  <2>2. \A t \in Tables : mem'[t] = Goal'[t] /\ Goal'[t] # stmt'.before[t] => onDelete'[t] # "RESTRICT"
    BY <1>1, <1>2, <1>6 DEF DeleteActs, declared
  <2>3. hits' = {} /\ stmt'.op = "delete"
    BY <1>1, <1>2 DEF DeleteActs
  <2> QED BY <1>4, <1>7, <1>10, <1>11, <2>1, <2>2, <2>3 DEF DeleteActs
<1>13. StoreOK'
  BY <1>1, <1>2, BatchTable DEF StoreOK
<1> QED BY <1>1, <1>2, <1>6, <1>12, <1>13, Unaltered DEF IInv, InActions

LEMMA RestrictStep ==
  ASSUME NEW rank, Acyclic(rank), IInv(rank), NEW c \in Tables, Restrict(c)
  PROVE  IInv(rank)'
<1>1. /\ ForeignKey(c) /\ Matching(c) # {} /\ onDelete[c] = "RESTRICT"
      /\ phase' = "refused" /\ calls' = <<>> /\ visited' = {}
      /\ UNCHANGED <<declared, mem, disk, stmt, hits, stage, torn, batch>>
  BY DEF Restrict, UnchangedOnDelete
<1>2. /\ ~torn /\ StmtOK /\ DeleteActs(rank) /\ batch = NoBatch /\ stage = 0 /\ disk = mem
      /\ IsDatabase(mem) /\ Matching(c) = Found(c)
  BY <1>1, AtForeignKey
<1>3. Refusable
  <2>1. PICK k \in IdsOf[c] : Refers(stmt.before, <<c, k>>, Gone)
    BY <1>1, <1>2 DEF Found
  <2>2. stmt.before[c][k] # NoRow /\ IsDatabase(stmt.before) /\ <<c, k>>[1] = c
    BY <1>2, <2>1 DEF Refers, StmtOK
  <2>3. <<c, k>> \in RowsIn(stmt.before)
    BY <2>2, RowsInPairs
  <2> QED BY <1>1, <2>1, <2>2, <2>3 DEF Refusable
<1>4. StmtOK' /\ Refusable'
  BY <1>1, <1>2, <1>3, SameStatement
<1>5. Sound(mem) /\ stmt.op = "delete" /\ hits = {}
  BY <1>2, DeleteSound DEF DeleteActs
<1>6. Sound(mem)'
  BY <1>1, <1>5 DEF Sound, Orphans
<1>7. Quiet' /\ Refused'
  BY <1>1, <1>2, <1>4, <1>5, <1>6 DEF Quiet, NoWork, Refused
<1> QED BY <1>1, <1>7, Unaltered DEF IInv

\* A table that waits goes on waiting while the DELETE turns to another.
LEMMA WaitsOn ==
  ASSUME NEW c, UNCHANGED <<mem, stmt>>, Under' \subseteq Under \cup {c},
         batch'.table \in {NoTable, c}, NEW S, visited' \subseteq visited \cup ({c} \X S),
         NEW t \in Tables, t # c, Waiting(t)
  PROVE  Waiting(t)'
<1>1. t # NoTable
  BY ParentAssumption
<1>2. \A r \in {c} \X S : r[1] = c
  OBVIOUS
<1> QED BY <1>1, <1>2 DEF Waiting

LEMMA SetNullStep ==
  ASSUME NEW rank, Acyclic(rank), IInv(rank), NEW c \in Tables, SetNull(c)
  PROVE  IInv(rank)'
<1>1. /\ ForeignKey(c) /\ Matching(c) # {} /\ onDelete[c] = "SET NULL" /\ calls' = Comes(c)
      /\ batch' = Batch(c, SetRefs(mem[c], Matching(c), NULL), Matching(c))
      /\ UNCHANGED <<declared, mem, disk, stmt, hits, stage, torn, phase, visited>>
  BY DEF SetNull, UnchangedOnDelete
<1>2. /\ ~torn /\ phase = "actions" /\ StmtOK /\ StoreOK /\ DeleteActs(rank)
      /\ batch.table = NoTable /\ Matching(c) = Found(c) /\ c # stmt.table /\ stage = 0 /\ disk = mem
      /\ mem[c] = stmt.before[c] /\ Waiting(c) /\ c \notin Under /\ Parent[c] = Top.table
      /\ \A i \in 1..Len(calls) : c \in calls[i].todo => i = Len(calls)
  BY <1>1, AtForeignKey DEF Waiting
<1>3. Nested(rank) /\ LaterOK /\ stmt.op = "delete" /\ \A i \in 1..Len(calls) : CallOK(calls[i])
  BY <1>2 DEF DeleteActs
<1>4. calls' = Comes(c)
  BY <1>1
<1>5. /\ calls' = [i \in 1..Len(calls) |-> calls'[i]] /\ Len(calls') = Len(calls)
      /\ \A i \in 1..Len(calls) :
           calls'[i] = [table |-> calls[i].table, keys |-> calls[i].keys, rows |-> calls[i].rows,
                        todo |-> IF i = Len(calls) THEN calls[i].todo \ {c} ELSE calls[i].todo]
  BY <1>4, <1>3, ComesFacts
<1>6. \A i \in 1..Len(calls) :
        /\ calls'[i].table = calls[i].table /\ calls'[i].keys = calls[i].keys
        /\ calls'[i].rows = calls[i].rows
        /\ calls'[i].todo = IF i = Len(calls) THEN calls[i].todo \ {c} ELSE calls[i].todo
  BY <1>4, <1>3, ComesFacts, Zenon
<1>7. Goal' = Goal /\ StmtOK' /\ \A t : GoneKeys(t)' = GoneKeys(t)
  BY <1>1, <1>2, SameStatement
<1>8. Nested(rank)' /\ Under' = Under
  BY <1>1, <1>3, <1>5, <1>6, NestedAfter DEF declared
<1>9. GoneKeys(c) = {} /\ Goal[c] = SetRefs(stmt.before[c], Found(c), NULL)
  BY <1>1, <1>2, <1>3, DeleteChanges
<1>10. StoreOK' /\ batch'.table = c
  <2>1. batch' = Batch(c, Goal'[c], Found(c))
    BY <1>1, <1>2, <1>7, <1>9
  <2>2. Found(c) \subseteq IdsOf[c]
    BY DEF Found
  <2>3. DOMAIN stmt.before[c] = IdsOf[c]
    BY <1>2, DatabaseRows DEF StmtOK
  <2>4. \A k \in IdsOf[c] \ Found(c) : Goal'[c][k] = stmt'.before[c][k]
    BY <1>1, <1>7, <1>9, <2>3 DEF SetRefs
  <2>5. \A k \in IdsOf[c] : disk'[c][k] = stmt'.before[c][k]
    BY <1>1, <1>2
  <2>6. stage' = 0 /\ \A u \in Tables : u # c => disk'[u] = mem'[u]
    BY <1>1, <1>2
  <2> QED BY Zenon, <2>1, <2>2, <2>4, <2>5, <2>6, BatchBegins
<1>11. \A t \in Tables : t # c /\ Waiting(t) => Waiting(t)'
  BY <1>1, <1>8, <1>10, WaitsOn
<1>12. Later' = Later \ {c}
  BY <1>1, <1>2, <1>7, <1>8, <1>10, ParentAssumption DEF Later
<1>13. LaterOK'
  <2>1. ASSUME NEW t \in Later, t # c
        PROVE  Parent[t] \in Later \ {c} \/ \E i \in 1..Len(calls) : t \in calls'[i].todo
    <3>1. CASE Parent[t] \in Later
      <4>1. ASSUME Parent[t] = c PROVE FALSE
        <5>1. t \in Tables /\ t \notin Under /\ mem[t] = stmt.before[t] /\ mem[t] # Goal[t]
          BY <1>3 DEF LaterOK, Waiting, Later
        <5>2. stmt.table \in Under
          BY <1>3 DEF Nested, Under
        <5>3. Found(t) # {}
          BY <1>2, <1>3, <5>1, <5>2, DeleteChanges
        <5>4. GoneKeys(Parent[t]) # {}
          BY <1>2, <1>3, <5>1, <5>3, DeleteChanges
        <5> QED BY <1>9, <4>1, <5>4
      <4> QED BY <3>1, <4>1
    <3>2. CASE \E i \in 1..Len(calls) : t \in calls[i].todo
      BY <1>6, <2>1, <3>2
    <3> QED BY <1>3, <3>1, <3>2 DEF LaterOK
  <2>2. \A t \in Later \ {c} : Waiting(t)'
    BY <1>3, <1>11 DEF LaterOK, Later
  <2>3. ASSUME NEW t \in Tables, Parent[t] \in Later PROVE Waiting(t)'
    <3>1. Parent[c] \notin Later
      BY <1>2, <1>3, TopCall DEF Later
    <3> QED BY <1>3, <1>11, <2>3, <3>1 DEF LaterOK
  <2> QED BY <1>5, <1>12, <2>1, <2>2, <2>3 DEF LaterOK
<1>14. ASSUME NEW i \in 1..Len(calls) PROVE CallOK(calls[i])'
  <2>1. CallOK(calls[i]) /\ calls[i].table \in Under
    BY <1>3, TopCall
  <2>2. calls'[i] = [table |-> calls'[i].table, keys |-> calls'[i].keys, rows |-> calls'[i].rows,
                     todo |-> calls'[i].todo]
    BY <1>5, <1>6
  <2>3. calls'[i].todo \subseteq calls[i].todo /\ c \notin calls'[i].todo
    BY <1>2, <1>6
  <2>4. \A t \in calls'[i].todo : Waiting(t)'
    BY <1>11, <2>1, <2>3 DEF CallOK, ChildrenOf
  <2>5. calls'[i].keys = GoneKeys(calls[i].table)
    BY <1>6, <2>1 DEF CallOK
  <2>6. (GoneKeys(calls[i].table))' = GoneKeys(calls[i].table)
    BY <1>1, SameStatement, <1>6 DEF GoneKeys
  <2>7. (calls[i].keys = GoneKeys(calls[i].table))'
    BY <1>6, <2>5, <2>6 DEF GoneKeys
  <2>8. calls'[i].table = calls[i].table /\ calls'[i].rows = calls[i].rows
    BY <1>6
  <2>9. calls'[i].table # c /\ mem' = mem /\ stmt' = stmt
    BY <1>1, <1>2, <2>1, <2>8
  <2> QED BY <1>10, <2>1, <2>2, <2>3, <2>4, <2>7, <2>8, <2>9 DEF CallOK
<1>15. DeleteActs(rank)'
  <2>1. Top'.table = Top.table
    BY <1>3, <1>5, <1>6, TopCall DEF Top
  <2>2. \A t \in Tables : mem'[t] = Goal'[t] /\ Goal'[t] # stmt'.before[t] => onDelete'[t] # "RESTRICT"
    BY <1>1, <1>2, <1>7 DEF DeleteActs, declared
  <2>3. hits' = {} /\ stmt'.op = "delete" /\ onDelete'[c] # "RESTRICT"
    BY <1>1, <1>2 DEF DeleteActs, declared
  <2> QED BY <1>1, <1>2, <1>5, <1>8, <1>10, <1>13, <1>14, <2>1, <2>2, <2>3 DEF DeleteActs
<1> QED BY <1>1, <1>2, <1>7, <1>10, <1>15, Unaltered DEF IInv, InActions

LEMMA CascadeStep ==
  ASSUME NEW rank, Acyclic(rank), IInv(rank), NEW c \in Tables, Cascade(c)
  PROVE  IInv(rank)'
<1> DEFINE n == Len(calls)
           f == Call(c, Fresh(c), mem[c])
<1>1. /\ ForeignKey(c) /\ Matching(c) # {} /\ onDelete[c] = "CASCADE"
      /\ visited' = visited \cup ({c} \X Fresh(c))
      /\ UNCHANGED <<declared, mem, disk, stmt, hits, stage, torn, phase, batch>>
  BY DEF Cascade, UnchangedOnDelete
<1>2. calls' = Append(Comes(c), f)
  BY DEF Cascade
<1>3. /\ ~torn /\ phase = "actions" /\ StmtOK /\ StoreOK /\ DeleteActs(rank) /\ batch = NoBatch
      /\ batch.table = NoTable /\ Matching(c) = Found(c) /\ c # stmt.table
      /\ Waiting(c) /\ mem[c] = stmt.before[c] /\ c \notin Under /\ \A r \in visited : r[1] # c
      /\ Parent[c] = Top.table /\ Top.table \in Tables
      /\ \A i \in 1..Len(calls) : c \in calls[i].todo => i = Len(calls)
  BY <1>1, AtForeignKey DEF Waiting
<1>4. Nested(rank) /\ LaterOK /\ stmt.op = "delete" /\ \A i \in 1..n : CallOK(calls[i])
  BY <1>3 DEF DeleteActs
<1>5. n \in Nat \ {0} /\ n \in 1..n /\ Top = calls[n] /\ Top.table \in Under
  BY <1>4, TopCall DEF Nested, Top
<1>6. Fresh(c) = Found(c)
  <2>1. \A k : <<c, k>> \notin visited
    <3>1. \A k : <<c, k>>[1] = c
      OBVIOUS
    <3> QED BY <1>3, <3>1
  <2>2. \A k : k \in Fresh(c) <=> k \in Matching(c)
    BY <2>1 DEF Fresh
  <2> QED BY <1>3, <2>2
<1>7. Goal' = Goal /\ StmtOK' /\ \A t : GoneKeys(t)' = GoneKeys(t)
  BY <1>1, <1>3, SameStatement
<1>8. GoneKeys(c) = Found(c) /\ Goal[c] # mem[c]
  BY <1>1, <1>3, <1>4, DeleteChanges
<1>9. f.table = c /\ f.keys = GoneKeys(c) /\ f.rows = mem[c] /\ f.todo = ChildrenOf(c)
      /\ f = [table |-> f.table, keys |-> f.keys, rows |-> f.rows, todo |-> f.todo]
  BY <1>1, <1>3, <1>6, <1>8 DEF Call
<1> HIDE DEF f
<1>10. /\ Comes(c) = [i \in 1..Len(calls) |-> Comes(c)[i]] /\ Len(Comes(c)) = Len(calls)
       /\ \A i \in 1..Len(calls) :
            Comes(c)[i] = [table |-> calls[i].table, keys |-> calls[i].keys, rows |-> calls[i].rows,
                           todo |-> IF i = Len(calls) THEN calls[i].todo \ {c} ELSE calls[i].todo]
  BY <1>4, ComesFacts
<1>11. \A i \in 1..Len(calls) :
         /\ Comes(c)[i].table = calls[i].table /\ Comes(c)[i].keys = calls[i].keys
         /\ Comes(c)[i].rows = calls[i].rows
         /\ Comes(c)[i].todo = IF i = Len(calls) THEN calls[i].todo \ {c} ELSE calls[i].todo
  BY <1>4, ComesFacts
<1>12. /\ calls' = [i \in 1..n + 1 |-> calls'[i]] /\ Len(calls') = n + 1 /\ calls'[n + 1] = f
       /\ \A i \in 1..n : calls'[i] = Comes(c)[i]
  <2> DEFINE x == Comes(c)
  <2>1. x = [i \in 1..n |-> x[i]] /\ Len(x) = n
    BY <1>10
  <2> HIDE DEF x
  <2>2. Append(x, f) = [i \in 1..n + 1 |-> IF i = n + 1 THEN f ELSE x[i]]
    BY <2>1
  <2> HIDE DEF n
  <2>3. \A i \in 1..n : i # n + 1 /\ i \in 1..n + 1
    BY <1>5
  <2>4. n + 1 \in 1..n + 1
    BY <1>5
  <2>5. Len(Append(x, f)) = n + 1
    BY <1>5, <2>2
  <2> QED BY <1>2, <2>2, <2>3, <2>4, <2>5 DEF x
<1>13. \A i \in 1..n + 1 : i \in 1..n \/ i = n + 1
  BY <1>5
<1>14. \A i \in 1..n : i \in 1..n + 1 /\ calls'[i].table = calls[i].table
  <2>1. \A i \in 1..n : i \in 1..n + 1
    BY <1>5
  <2>2. \A i \in 1..n : calls'[i].table = Comes(c)[i].table
    BY <1>12
  <2> QED BY <1>11, <2>1, <2>2
<1>15. Under' = Under \cup {c}
  <2>1. DOMAIN calls' = 1..n + 1 /\ DOMAIN calls = 1..n
    BY <1>4, <1>12 DEF Nested
  <2>2. \A t : t \in Under' <=> \E i \in 1..n + 1 : t = calls'[i].table
    BY <2>1 DEF Under
  <2>3. \A t : t \in Under <=> \E i \in 1..n : t = calls[i].table
    BY <2>1 DEF Under
  <2>4. calls'[n + 1].table = c /\ n + 1 \in 1..n + 1
    BY <1>5, <1>9, <1>12
  <2> QED BY <1>13, <1>14, <2>2, <2>3, <2>4
<1>16. batch'.table = NoTable
  BY <1>1, <1>3
<1>17. \A t \in Tables : t # c /\ Waiting(t) => Waiting(t)'
  BY <1>1, <1>15, <1>16, WaitsOn
<1>18. Later' = Later \ {c} /\ c \in Later
  BY <1>1, <1>3, <1>7, <1>8, <1>15, <1>16, ParentAssumption DEF Later
<1>19. rank[Top.table] < rank[c] /\ \A i \in 1..n : rank[calls[i].table] < rank[c]
  <2>1. rank[Top.table] < rank[c] /\ rank[Top.table] \in Nat /\ rank[c] \in Nat
    BY <1>3, ParentAssumption DEF Acyclic
  <2>2. ASSUME NEW i \in 1..n PROVE rank[calls[i].table] < rank[c]
    <3>1. i = n \/ rank[calls[i].table] < rank[calls[n].table]
      BY <1>4, <1>5 DEF Nested
    <3>2. rank[calls[i].table] \in Nat
      BY <1>4 DEF CallOK, Acyclic
    <3> QED BY <1>5, <2>1, <3>1, <3>2
  <2> QED BY <2>1, <2>2
<1>20. Nested(rank)'
  <2>1. \A i \in 2..n : i \in 1..n /\ i - 1 \in 1..n
    BY <1>5
  <2>2. ASSUME NEW i \in 2..n + 1
        PROVE  Parent[calls'[i].table] = calls'[i - 1].table /\ onDelete'[calls'[i].table] = "CASCADE"
    <3>1. CASE i \in 2..n
      BY <1>1, <1>4, <1>14, <2>1, <3>1 DEF Nested, declared
    <3>2. CASE i = n + 1
      BY <1>1, <1>3, <1>5, <1>9, <1>12, <1>14, <3>2 DEF declared
    <3> QED BY <1>5, <3>1, <3>2
  <2>3. ASSUME NEW i \in 1..n + 1, NEW j \in 1..n + 1, i < j
        PROVE  rank[calls'[i].table] < rank[calls'[j].table]
    <3>1. CASE j \in 1..n
      <4>1. i \in 1..n
        BY <1>5, <2>3, <3>1
      <4> QED BY <1>4, <1>14, <2>3, <3>1, <4>1 DEF Nested
    <3>2. CASE j = n + 1
      <4>1. i \in 1..n
        BY <1>5, <2>3, <3>2
      <4> QED BY <1>9, <1>12, <1>14, <1>19, <3>2, <4>1
    <3> QED BY <1>13, <3>1, <3>2
  <2>4. 1 \in 1..n /\ n + 1 \in Nat \ {0}
    BY <1>5
  <2>5. calls'[1].table = stmt'.table
    BY <1>1, <1>4, <1>14, <2>4 DEF Nested
  <2> QED BY <1>12, <2>2, <2>3, <2>4, <2>5 DEF Nested
<1>21. LaterOK'
  <2>1. ASSUME NEW t \in Later, t # c
        PROVE  Parent[t] \in Later \ {c} \/ \E i \in 1..n + 1 : t \in calls'[i].todo
    <3>1. CASE Parent[t] = c
      <4>1. t \in ChildrenOf(c)
        BY <3>1 DEF Later, ChildrenOf
      <4> QED BY <1>5, <1>9, <1>12, <4>1
    <3>2. CASE Parent[t] \in Later /\ Parent[t] # c
      BY <3>2
    <3>3. CASE \E i \in 1..n : t \in calls[i].todo
      <4>1. PICK i \in 1..n : t \in calls[i].todo
        BY <3>3
      <4>2. t \in Comes(c)[i].todo
        BY <1>11, <2>1, <4>1
      <4> QED BY <1>12, <1>14, <4>2
    <3> QED BY <1>4, <3>1, <3>2, <3>3 DEF LaterOK
  <2>2. \A t \in Later \ {c} : Waiting(t)'
    BY <1>4, <1>17 DEF LaterOK, Later
  <2>3. ASSUME NEW t \in Tables, Parent[t] \in Later PROVE Waiting(t)'
    <3>1. Parent[c] \notin Later
      BY <1>3, <1>5 DEF Later
    <3> QED BY <1>4, <1>17, <2>3, <3>1 DEF LaterOK
  <2> QED BY <1>12, <1>18, <2>1, <2>2, <2>3 DEF LaterOK
<1>22. ASSUME NEW i \in 1..n PROVE CallOK(calls[i])'
  <2>1. CallOK(calls[i]) /\ calls[i].table \in Under
    BY <1>4, TopCall
  <2>2. calls'[i] = [table |-> calls'[i].table, keys |-> calls'[i].keys, rows |-> calls'[i].rows,
                     todo |-> calls'[i].todo]
    BY <1>10, <1>11, <1>12
  <2>3. calls'[i].todo \subseteq calls[i].todo /\ c \notin calls'[i].todo
    BY ZenonT(60), <1>3, <1>11, <1>12
  <2>4. \A t \in calls'[i].todo : Waiting(t)'
    BY <1>17, <2>1, <2>3 DEF CallOK, ChildrenOf
  <2>5. calls'[i].keys = GoneKeys(calls[i].table)
    BY <1>11, <1>12, <2>1 DEF CallOK
  <2>6. (GoneKeys(calls[i].table))' = GoneKeys(calls[i].table)
    BY <1>1, SameStatement, <1>14 DEF GoneKeys
  <2>7. (calls[i].keys = GoneKeys(calls[i].table))'
    BY <1>14, <2>5, <2>6 DEF GoneKeys
  <2>8. calls'[i].table = calls[i].table /\ calls'[i].rows = calls[i].rows
    BY <1>11, <1>12
  <2>9. calls'[i].table # batch'.table /\ mem' = mem /\ stmt' = stmt
    BY <1>1, <2>1, <2>8 DEF CallOK
  <2> QED BY <2>1, <2>2, <2>3, <2>4, <2>7, <2>8, <2>9 DEF CallOK
<1>23. ASSUME NEW j, j = n + 1 PROVE CallOK(calls[j])'
  <2>1. calls'[j] = [table |-> calls'[j].table, keys |-> calls'[j].keys,
                         rows |-> calls'[j].rows, todo |-> calls'[j].todo]
    BY <1>9, <1>12, <1>23
  <2>2. /\ calls'[j].table = c /\ calls'[j].rows = mem[c] /\ calls'[j].todo = ChildrenOf(c)
        /\ calls'[j].keys = GoneKeys(c)
    BY <1>9, <1>12, <1>23
  <2>3. (GoneKeys(calls[j].table))' = GoneKeys(c)
    BY <1>1, SameStatement, <2>2 DEF GoneKeys
  <2>4. (calls[j].keys = GoneKeys(calls[j].table))'
    BY <2>2, <2>3 DEF GoneKeys
  <2>5. ASSUME NEW t \in ChildrenOf(c) PROVE Waiting(t)'
    <3>1. t \in Tables /\ Parent[t] = c
      BY DEF ChildrenOf
    <3>2. rank[c] < rank[t] /\ rank[c] \in Nat
      BY <3>1, ParentAssumption DEF Acyclic
    <3>3. t # c
      BY <3>2
    <3> QED BY <1>4, <1>17, <1>18, <3>1, <3>3 DEF LaterOK
  <2>6. c # batch'.table /\ mem'[c] = stmt'.before[c] /\ mem' = mem
    BY <1>1, <1>3, <1>16, ParentAssumption
  <2> QED BY <2>1, <2>2, <2>4, <2>5, <2>6 DEF CallOK
<1>24. DeleteActs(rank)'
  <2>1. \A i \in 1..Len(calls') : CallOK(calls[i])'
    BY <1>12, <1>13, <1>22, <1>23
  <2>2. \A t \in Tables : mem'[t] = Goal'[t] /\ Goal'[t] # stmt'.before[t] => onDelete'[t] # "RESTRICT"
    BY <1>1, <1>3, <1>7 DEF DeleteActs, declared
  <2>3. hits' = {} /\ stmt'.op = "delete"
    BY <1>1, <1>3 DEF DeleteActs
  <2> QED BY <1>16, <1>20, <1>21, <2>1, <2>2, <2>3 DEF DeleteActs
<1>25. StoreOK'
  BY <1>1, <1>3, BatchTable DEF StoreOK
<1> QED BY <1>1, <1>3, <1>7, <1>24, <1>25, Unaltered DEF IInv, InActions

LEMMA ReturnStep ==
  ASSUME NEW rank, Acyclic(rank), IInv(rank), Return
  PROVE  IInv(rank)'
<1>1. /\ phase = "actions" /\ stmt.op = "delete" /\ batch = NoBatch
      /\ Top.todo = {} /\ Len(calls) > 1
      /\ UNCHANGED <<declared, mem, disk, stmt, hits, stage, torn, phase, visited>>
  BY DEF Return, Acting, UnchangedOnDelete
<1>2. ~torn /\ StmtOK /\ StoreOK /\ DeleteActs(rank) /\ IsDatabase(mem) /\ IsDatabase(disk)
  BY <1>1 DEF IInv, InActions, UpdateActs
<1>3. Nested(rank) /\ LaterOK /\ \A i \in 1..Len(calls) : CallOK(calls[i])
  BY <1>2 DEF DeleteActs
<1> DEFINE n == Len(calls)
           m == n - 1
           c == Top.table
<1>4. n \in Nat \ {0} /\ n > 1 /\ m \in Nat \ {0} /\ m \in 1..n /\ n \in 1..n /\ n \in 2..n /\ Top = calls[n]
  BY <1>1, <1>3 DEF Nested, Top
<1>5. batch.table = NoTable /\ stage = 0
  BY <1>1, <1>2, BatchTable
<1>6. /\ c \in Tables /\ Top.rows = mem[c] /\ mem[c] = stmt.before[c] /\ Top.keys = GoneKeys(c)
  BY <1>3, <1>4 DEF CallOK
<1>7. Parent[c] = calls[m].table /\ onDelete[c] = "CASCADE"
  BY <1>3, <1>4 DEF Nested
<1>8. /\ calls' = [i \in 1..m |-> calls[i]] /\ Len(calls') = m
      /\ \A i \in 1..m : calls'[i] = calls[i] /\ i \in 1..n
  <2>1. calls' = SubSeq(calls, 1, m)
    BY DEF Return
  <2>2. SubSeq(calls, 1, m) = [i \in 1..m |-> calls[i]]
    <3>1. calls = [i \in 1..n |-> calls[i]]
      BY <1>3 DEF Nested
    <3> HIDE DEF n, m
    <3>2. SubSeq(calls, 1, m) = [i \in 1..m |-> calls[i]]
      BY <1>4
    <3> QED BY <3>2
  <2>3. \A i \in 1..m : i \in 1..n
    BY <1>4
  <2> HIDE DEF m
  <2> QED BY <1>4, <2>1, <2>2, <2>3
<1>9. \A i \in 1..m : rank[calls[i].table] < rank[c]
  BY <1>3, <1>4 DEF Nested
<1>10. \A i \in 1..m : calls[i].table # c
  <2>1. rank[c] \in Nat
    BY <1>6 DEF Acyclic
  <2> QED BY <1>9, <2>1
<1>11. Under' = Under \ {c} /\ c \in Under
  <2>1. DOMAIN calls' = 1..m /\ DOMAIN calls = 1..n
    BY <1>3, <1>8 DEF Nested
  <2>2. \A t : t \in Under' <=> \E i \in 1..m : t = calls[i].table
    BY <1>8, <2>1 DEF Under
  <2>3. \A t : t \in Under <=> \E i \in 1..n : t = calls[i].table
    BY <2>1 DEF Under
  <2>4. \A i \in 1..n : i \in 1..m \/ calls[i].table = c
    BY <1>4
  <2> QED BY SMTT(60), <1>4, <1>8, <1>10, <2>2, <2>3, <2>4
<1>12. Goal' = Goal /\ StmtOK' /\ \A t : GoneKeys(t)' = GoneKeys(t)
  BY <1>1, <1>2, SameStatement
<1>13. c # stmt.table
  BY <1>3, <1>4, <1>10 DEF Nested
<1>14. Goal[c] = RemoveRows(stmt.before[c], GoneKeys(c))
  BY <1>1, <1>2, <1>6, <1>7, <1>13, DeleteChanges
<1>15. StoreOK' /\ batch'.table = c
  <2>1. batch' = Batch(c, Goal'[c], GoneKeys(c))
    BY <1>6, <1>12, <1>14 DEF Return
  <2>2. GoneKeys(c) \subseteq IdsOf[c]
    BY DEF GoneKeys
  <2>3. DOMAIN stmt.before[c] = IdsOf[c]
    BY <1>2, <1>6, DatabaseRows DEF StmtOK
  <2>4. \A k \in IdsOf[c] \ GoneKeys(c) : Goal'[c][k] = stmt'.before[c][k]
    BY <1>1, <1>12, <1>14, <2>3 DEF RemoveRows
  <2>5. \A k \in IdsOf[c] : disk'[c][k] = stmt'.before[c][k]
    BY <1>1, <1>2, <1>5, <1>6, ParentAssumption DEF StoreOK
  <2>6. stage' = 0 /\ \A u \in Tables : u # c => disk'[u] = mem'[u]
    BY <1>1, <1>2, <1>5, ParentAssumption DEF StoreOK
  <2> HIDE DEF c
  <2> QED BY Zenon, <1>6, <2>1, <2>2, <2>4, <2>5, <2>6, BatchBegins
<1>16. \A t \in Tables : Waiting(t) => Waiting(t)' /\ t # c
  BY <1>1, <1>11, <1>15 DEF Waiting
<1>17. Later' = Later
  BY <1>1, <1>5, <1>11, <1>12, <1>15, ParentAssumption DEF Later
<1>18. LaterOK'
  <2>1. ASSUME NEW t, NEW i \in 1..n, t \in calls[i].todo
        PROVE  \E j \in 1..m : t \in calls'[j].todo
    <3>1. i # n
      BY <1>1, <1>4, <2>1
    <3>2. i \in 1..m
      BY <1>4, <3>1
    <3> QED BY <1>8, <2>1, <3>2
  <2>2. \A t \in Later : t \in Tables
    BY DEF Later
  <2> QED BY <1>3, <1>8, <1>16, <1>17, <2>1, <2>2 DEF LaterOK
<1>19. Nested(rank)'
  <2>1. \A i \in 2..m : i \in 2..n /\ i \in 1..m /\ i - 1 \in 1..m
    BY <1>4
  <2>2. 1 \in 1..m
    BY <1>4
  <2>3. calls'[1].table = stmt'.table
    BY <1>1, <1>3, <1>8, <2>2 DEF Nested
  <2>4. \A i \in 2..m : Parent[calls'[i].table] = calls'[i - 1].table /\ onDelete'[calls'[i].table] = "CASCADE"
    BY <1>1, <1>3, <1>8, <2>1 DEF Nested, declared
  <2>5. \A i, j \in 1..m : i < j => rank[calls'[i].table] < rank[calls'[j].table]
    BY <1>3, <1>8 DEF Nested
  <2>6. calls' = [i \in 1..m |-> calls'[i]]
    BY <1>8
  <2> QED BY <1>4, <1>8, <2>3, <2>4, <2>5, <2>6 DEF Nested
<1>20. ASSUME NEW i \in 1..m PROVE CallOK(calls[i])'
  <2>1. CallOK(calls[i]) /\ calls'[i] = calls[i] /\ calls[i].table # c
    BY <1>3, <1>8, <1>10
  <2>2. (GoneKeys(calls[i].table))' = GoneKeys(calls[i].table)
    BY <1>1, SameStatement, <2>1 DEF GoneKeys
  <2>3. (calls[i].keys = GoneKeys(calls[i].table))'
    BY <2>1, <2>2 DEF CallOK, GoneKeys
  <2>4. \A t \in calls[i].todo : Waiting(t)'
    BY <1>16, <2>1 DEF CallOK, ChildrenOf
  <2>5. mem' = mem /\ stmt' = stmt
    BY <1>1
  <2> QED BY <1>15, <2>1, <2>3, <2>4, <2>5 DEF CallOK
<1>21. DeleteActs(rank)'
  <2>1. \A i \in 1..Len(calls') : CallOK(calls[i])'
    BY <1>8, <1>20
  <2>2. \A t \in Tables : mem'[t] = Goal'[t] /\ Goal'[t] # stmt'.before[t] => onDelete'[t] # "RESTRICT"
    BY <1>1, <1>2, <1>12 DEF DeleteActs, declared
  <2>3. hits' = {} /\ stmt'.op = "delete"
    BY <1>1, <1>2 DEF DeleteActs
  <2>4. /\ Parent[c] = Top'.table /\ mem'[c] = stmt'.before[c]
        /\ c \notin Under' /\ onDelete'[c] # "RESTRICT"
    <3>1. m \in 1..m
      BY <1>4
    <3>2. Top' = calls'[m]
      BY <1>8 DEF Top
    <3>3. Top'.table = calls[m].table
      BY <1>8, <3>1, <3>2
    <3> QED BY <1>1, <1>6, <1>7, <1>11, <3>3 DEF declared
  <2> HIDE DEF c
  <2> QED BY <1>15, <1>18, <1>19, <2>1, <2>2, <2>3, <2>4 DEF DeleteActs
<1> QED BY <1>1, <1>2, <1>12, <1>15, <1>21, Unaltered DEF IInv, InActions

LEMMA RewriteStep ==
  ASSUME NEW rank, Acyclic(rank), IInv(rank), NEW c \in Tables, Rewrite(c)
  PROVE  IInv(rank)'
<1>1. /\ phase = "actions" /\ stmt.op = "update" /\ batch = NoBatch /\ c \in hits /\ hits' = hits \ {c}
      /\ batch' = Batch(c, Moved(mem[c], stmt), Live(mem[c]))
      /\ UNCHANGED <<declared, mem, disk, phase, stmt, calls, visited, stage, torn>>
  BY DEF Rewrite, Acting
<1>2. ~torn /\ StmtOK /\ StoreOK /\ UpdateActs /\ IsDatabase(mem) /\ IsDatabase(disk)
  BY <1>1 DEF IInv, InActions, DeleteActs
<1>3. batch.table = NoTable /\ stage = 0
  BY <1>1, <1>2, BatchTable
<1>4. Moving /\ Parent[c] = stmt.table /\ c # stmt.table /\ mem[c] = stmt.before[c]
      /\ hits \subseteq ChildrenOf(stmt.table) /\ calls = <<>> /\ visited = {} /\ stmt.table \notin hits
  BY <1>1, <1>2 DEF UpdateActs, ChildrenOf
<1>5. Goal' = Goal /\ StmtOK' /\ Moving'
  BY <1>1, <1>2, <1>4, SameStatement
<1>6. Goal[c] = Moved(mem[c], stmt)
  BY <1>1, <1>4 DEF Goal
<1>7. DOMAIN mem[c] = IdsOf[c] /\ Live(mem[c]) \subseteq IdsOf[c]
  BY <1>2, DatabaseRows
<1>8. StoreOK' /\ batch'.table = c
  <2>1. batch' = Batch(c, Goal'[c], Live(mem[c]))
    BY <1>1, <1>5, <1>6
  <2>2. \A k \in IdsOf[c] \ Live(mem[c]) : Goal'[c][k] = stmt'.before[c][k]
    BY <1>1, <1>4, <1>5, <1>6, <1>7 DEF Moved, SetRefs
  <2>3. \A u \in Tables : disk'[u] = mem'[u]
    BY <1>1, <1>2, <1>3, ParentAssumption DEF StoreOK
  <2>4. \A k \in IdsOf[c] : disk'[c][k] = stmt'.before[c][k]
    BY <1>1, <1>4, <2>3
  <2>5. stage' = 0 /\ \A u \in Tables : u # c => disk'[u] = mem'[u]
    BY <1>1, <1>3, <2>3
  <2> QED BY Zenon, <1>7, <2>1, <2>2, <2>4, <2>5, BatchBegins
<1>9. UpdateActs'
  <2>1. ASSUME NEW t \in Tables
        PROVE  IF t = stmt'.table \/ t = c \/ t \in hits' THEN mem'[t] = stmt'.before[t] ELSE mem'[t] = Goal'[t]
    BY <1>1, <1>2, <1>3, <1>4, <1>5, ParentAssumption DEF UpdateActs
  <2>2. c \in ChildrenOf(stmt'.table)
    BY <1>1, <1>4 DEF ChildrenOf
  <2>3. c # NoTable
    BY ParentAssumption
  <2> QED BY <1>1, <1>4, <1>5, <1>8, <2>1, <2>2, <2>3 DEF UpdateActs
<1> QED BY <1>1, <1>2, <1>5, <1>8, <1>9, Unaltered DEF IInv, InActions

\* The outermost call is done: every other table is as the DELETE leaves it.
LEMMA DeleteDone ==
  ASSUME NEW rank, Acyclic(rank), StmtOK, DeleteActs(rank), batch.table = NoTable,
         Len(calls) = 1, Top.todo = {}
  PROVE  /\ \A t \in Tables : t # stmt.table => mem[t] = Goal[t]
         /\ mem[stmt.table] = stmt.before[stmt.table] /\ ~Refusable
<1>1. Nested(rank) /\ LaterOK /\ stmt.op = "delete" /\ \A i \in 1..Len(calls) : CallOK(calls[i])
  BY DEF DeleteActs
<1>2. calls[1].todo = {} /\ calls[1].table = stmt.table /\ \A i \in 1..Len(calls) : i = 1
  BY <1>1 DEF Nested, Top
<1>3. Under = {stmt.table}
  BY <1>1, <1>2, TopCall
<1>4. Later = {}
  <2>1. SUFFICES ASSUME Later # {} PROVE FALSE
    OBVIOUS
  <2>2. Later \subseteq Tables
    BY DEF Later
  <2>3. PICK t \in Later : \A u \in Later : ~(rank[u] < rank[t])
    BY <2>1, <2>2, LowestRank
  <2>4. Parent[t] \in Later
    BY <1>1, <1>2 DEF LaterOK
  <2>5. rank[Parent[t]] < rank[t]
    BY <2>2, <2>4, ParentAssumption DEF Acyclic
  <2> QED BY <2>3, <2>4, <2>5
<1>5. \A t \in Tables : t # stmt.table => mem[t] = Goal[t]
  BY <1>3, <1>4, ParentAssumption DEF Later
<1>6. mem[stmt.table] = stmt.before[stmt.table]
  <2>1. 1 \in 1..Len(calls)
    OBVIOUS
  <2> QED BY <1>1, <1>2, <2>1 DEF CallOK
<1>7. ASSUME NEW r \in RowsIn(stmt.before), Refers(stmt.before, r, Gone), onDelete[r[1]] = "RESTRICT"
      PROVE  FALSE
  <2>1. IsDatabase(stmt.before)
    BY DEF StmtOK
  <2>2. PICK t \in Tables : \E k \in IdsOf[t] : r = <<t, k>>
    BY <2>1, RowsInPairs
  <2>3. PICK k \in IdsOf[t] : r = <<t, k>>
    BY <2>2
  <2>4. k \in Found(t) /\ onDelete[t] = "RESTRICT"
    BY <1>7, <2>3 DEF Found
  <2>5. t # stmt.table /\ Goal[t] # stmt.before[t]
    BY <1>1, <2>4, DeleteChanges
  <2> QED BY <1>5, <2>4, <2>5 DEF DeleteActs
<1> QED BY <1>5, <1>6, <1>7 DEF Refusable

LEMMA OwnRowsStep ==
  ASSUME NEW rank, Acyclic(rank), IInv(rank), OwnRows
  PROVE  IInv(rank)'
<1> DEFINE p == stmt.table
<1>1. /\ phase = "actions" /\ batch = NoBatch
      /\ \/ stmt.op = "delete" /\ Len(calls) = 1 /\ Top.todo = {}
         \/ stmt.op = "update" /\ hits = {}
      /\ phase' = "own" /\ calls' = <<>> /\ visited' = {}
      /\ mem' = [mem EXCEPT ![p] = stmt.next] /\ batch' = Batch(p, stmt.next, stmt.keys)
      /\ UNCHANGED <<declared, disk, stmt, hits, stage, torn>>
  BY DEF OwnRows, Acting
<1>2. ~torn /\ StmtOK /\ StoreOK /\ (UpdateActs \/ DeleteActs(rank)) /\ IsDatabase(mem) /\ IsDatabase(disk)
      /\ torn \in BOOLEAN /\ onUpdate \in Actions
      /\ onDelete \in [{u \in Tables : Parent[u] # NoTable} -> Actions]
  BY <1>1 DEF IInv, InActions
<1>3. batch.table = NoTable /\ stage = 0
  BY <1>1, <1>2, BatchTable
<1>4. p \in Tables /\ stmt.next \in RowsOf(p) /\ IsDatabase(Goal) /\ Goal[p] = stmt.next
  <2>1. StmtOK /\ onUpdate \in Actions
    BY <1>2
  <2> QED BY <2>1, GoalFacts DEF StmtOK
<1>5. /\ \A t \in Tables : t # p => mem[t] = Goal[t]
      /\ mem[p] = stmt.before[p] /\ hits = {} /\ (stmt.op = "delete" => ~Refusable)
  <2>1. CASE stmt.op = "delete"
    <3>1. DeleteActs(rank) /\ Len(calls) = 1 /\ Top.todo = {}
      BY <1>1, <1>2, <2>1 DEF UpdateActs
    <3> QED BY <1>2, <1>3, <3>1, DeleteDone DEF DeleteActs
  <2>2. CASE stmt.op = "update"
    <3>1. UpdateActs /\ hits = {}
      BY <1>1, <1>2, <2>2 DEF DeleteActs
    <3> QED BY <1>3, <1>4, <2>2, <3>1, ParentAssumption DEF UpdateActs
  <2> QED BY <1>1, <2>1, <2>2
<1>6. \A k \in IdsOf[p] \ stmt.keys : Goal[p][k] = stmt.before[p][k]
  <2>1. DOMAIN stmt.before[p] = IdsOf[p] /\ Live(stmt.before[p]) \subseteq IdsOf[p]
    BY <1>2, <1>4, DatabaseRows DEF StmtOK
  <2>2. CASE stmt.op = "delete"
    BY <1>2, <1>4, <2>1, <2>2 DEF StmtOK, DeleteOK, RemoveRows
  <2>3. CASE stmt.op = "update"
    <3>1. PutOK(stmt)
      BY <1>2, <2>3 DEF StmtOK
    <3> HIDE DEF p
    <3>2. /\ stmt.from \in IdsOf[p] /\ stmt.to \in IdsOf[p] /\ stmt.keys = {stmt.from, stmt.to}
          /\ \A k \in IdsOf[p] :
               stmt.next[k] = IF k = stmt.to THEN stmt.next[stmt.to] ELSE IF k = stmt.from THEN NoRow
                              ELSE stmt.before[p][k]
      BY <3>1 DEF PutOK, p
    <3> QED BY <1>4, <3>2
  <2> QED BY <1>1, <2>2, <2>3
<1>7. stmt.keys \subseteq IdsOf[p]
  <2>1. CASE stmt.op = "delete"
    <3>1. Live(stmt.before[p]) \subseteq IdsOf[p]
      BY <1>2, <1>4, DatabaseRows DEF StmtOK
    <3> QED BY <1>2, <2>1, <3>1 DEF StmtOK, DeleteOK
  <2>2. CASE stmt.op = "update"
    BY <1>2, <2>2 DEF StmtOK, PutOK
  <2> QED BY <1>1, <2>1, <2>2
<1>8. Goal' = Goal /\ StmtOK' /\ Refusable' = Refusable
  BY <1>1, <1>2, SameStatement
<1>9. IsDatabase(mem') /\ mem'[p] = stmt.next /\ \A u \in Tables : u # p => mem'[u] = mem[u]
  <2> DEFINE x == stmt.next
             q == p
  <2>1. q \in Tables /\ x \in RowsOf(q) /\ IsDatabase(mem) /\ mem' = [mem EXCEPT ![q] = x]
    BY <1>1, <1>2, <1>4
  <2> HIDE DEF x, q
  <2>2. DOMAIN mem = Tables
    BY <2>1, DatabaseRows
  <2>3. /\ mem' = [u \in Tables |-> mem'[u]] /\ mem'[q] = x
        /\ \A u \in Tables : u # q => mem'[u] = mem[u]
    BY <2>1, <2>2
  <2>4. \A u \in Tables : mem'[u] \in RowsOf(u)
    BY <2>1, <2>3 DEF IsDatabase
  <2> QED BY <2>3, <2>4 DEF IsDatabase, x, q
<1>10. mem' = Goal'
  <2>1. \A u \in Tables : mem'[u] = Goal[u]
    BY <1>4, <1>5, <1>9
  <2> QED BY <1>4, <1>8, <1>9, <2>1, SameDatabase
<1>11. StoreOK' /\ batch'.table = p
  <2>1. batch' = Batch(p, Goal'[p], stmt.keys)
    BY <1>1, <1>4, <1>8
  <2>2. \A k \in IdsOf[p] \ stmt.keys : Goal'[p][k] = stmt'.before[p][k]
    BY <1>1, <1>6, <1>8
  <2>3. \A u \in Tables : disk'[u] = mem[u]
    BY <1>1, <1>2, <1>3, ParentAssumption DEF StoreOK
  <2>4. \A k \in IdsOf[p] : disk'[p][k] = stmt'.before[p][k]
    BY <1>1, <1>4, <1>5, <2>3
  <2>5. stage' = 0 /\ \A u \in Tables : u # p => disk'[u] = mem'[u]
    BY <1>1, <1>3, <1>9, <2>3
  <2> HIDE DEF p
  <2> QED BY Zenon, <1>4, <1>7, <2>1, <2>2, <2>4, <2>5, BatchBegins
<1>12. Own'
  <2>1. NoWork'
    BY <1>1, <1>5 DEF NoWork
  <2> QED BY <1>1, <1>2, <1>5, <1>8, <1>10, <1>11, <2>1 DEF Own
<1>13. IsDatabase(mem)' /\ IsDatabase(disk)' /\ torn' \in BOOLEAN /\ stage' \in 0..2 /\ phase' = "own"
       /\ onDelete' \in [{u \in Tables : Parent[u] # NoTable} -> Actions] /\ onUpdate' \in Actions
  BY <1>1, <1>2, <1>3, <1>9 DEF IsDatabase, declared
<1> QED BY <1>12, <1>13 DEF IInv

\* The rows are written in one order.
LEMMA FirstUnique ==
  ASSUME BatchOK, NEW j \in batch.left, NEW k \in batch.left, First(j), First(k)
  PROVE  j = k
<1>1. j \in Nat /\ k \in Nat
  BY IdsAssumption DEF BatchOK
<1>2. SUFFICES ASSUME j # k PROVE FALSE
  OBVIOUS
<1>3. /\ IF (batch.rows[j] = NoRow) = (batch.rows[k] = NoRow) THEN k < j ELSE batch.rows[k] = NoRow
      /\ IF (batch.rows[k] = NoRow) = (batch.rows[j] = NoRow) THEN j < k ELSE batch.rows[j] = NoRow
  BY <1>2 DEF First
<1>4. CASE (batch.rows[j] = NoRow) = (batch.rows[k] = NoRow)
  <2>1. k < j /\ j < k
    BY <1>3, <1>4
  <2> QED BY <1>1, <2>1
<1>5. CASE (batch.rows[j] = NoRow) # (batch.rows[k] = NoRow)
  BY <1>3, <1>5
<1> QED BY <1>4, <1>5

\* A command for the first row of a batch.
LEMMA BatchAdvances ==
  ASSUME StoreOK, stage \in 0..2, IsDatabase(disk), IsDatabase(Goal), UNCHANGED <<stmt, declared, mem>>,
         NEW k \in batch.left, First(k), RemoveRow(k) \/ PersistRow(k)
  PROVE  StoreOK' /\ batch'.table = batch.table /\ IsDatabase(disk)' /\ stage' \in 0..2
<1> DEFINE t == batch.table
           rows == batch.rows
           left == batch.left
<1>1. BatchOK /\ t \in Tables
  BY BatchTable
<1>2. /\ batch = Batch(t, rows, left) /\ rows = Goal[t] /\ left \subseteq IdsOf[t] /\ k \in IdsOf[t]
      /\ \A j \in IdsOf[t] \ left : disk[t][j] = rows[j]
  BY <1>1 DEF BatchOK
<1>3. \A j \in left : j # k => disk[t][j] = stmt.before[t][j]
  <2>1. \A j \in left : j # k => ~First(j)
    BY <1>1, FirstUnique
  <2> QED BY <1>1, <2>1 DEF BatchOK
<1> DEFINE Writes(v) ==
             /\ disk' = [disk EXCEPT ![t][k] = v]
             /\ \/ v = rows[k] /\ batch' = [batch EXCEPT !.left = @ \ {k}] /\ stage' = 0
                \/ v \in {NULL, NoRow} /\ batch' = batch /\ stage' \in 1..2 /\ rows[k] # NoRow
<1>4. PICK v : Writes(v)
  <2>1. CASE RemoveRow(k)
    <3>1. Writes(rows[k])
      BY <2>1 DEF RemoveRow, Put, Done
    <3> QED BY <3>1
  <2>2. CASE PersistRow(k)
    <3>1. rows[k] # NoRow
      BY <2>2 DEF PersistRow
    <3>2. CASE stage = 0 /\ Put(k, NoRow) /\ stage' = 1 /\ UNCHANGED batch
      <4>1. Writes(NoRow)
        BY <3>1, <3>2 DEF Put
      <4> QED BY <4>1
    <3>3. CASE stage = 1 /\ Put(k, NULL) /\ stage' = 2 /\ UNCHANGED batch
      <4>1. Writes(NULL)
        BY <3>1, <3>3 DEF Put
      <4> QED BY <4>1
    <3>4. CASE stage = 2 /\ Put(k, batch.rows[k]) /\ Done(k)
      <4>1. Writes(rows[k])
        BY <3>4 DEF Put, Done
      <4> QED BY <4>1
    <3> QED BY <2>2, <3>2, <3>3, <3>4 DEF PersistRow
  <2> QED BY <2>1, <2>2
<1>5. rows \in RowsOf(t) /\ rows[k] \in Refs(t) \cup {NoRow} /\ NULL \in Refs(t)
  <2>1. rows \in RowsOf(t)
    BY <1>1, <1>2 DEF IsDatabase
  <2> QED BY <1>2, <2>1 DEF RowsOf, Refs
<1>6. v \in Refs(t) \cup {NoRow} /\ stage' \in 0..2
  BY <1>4, <1>5
<1>7. DOMAIN disk = Tables /\ disk[t] \in RowsOf(t) /\ DOMAIN disk[t] = IdsOf[t]
  BY <1>1, DatabaseRows DEF IsDatabase
<1> HIDE DEF t, rows, left
<1>8. /\ disk' = [u \in Tables |-> disk'[u]] /\ disk'[t] = [disk[t] EXCEPT ![k] = v]
      /\ \A u \in Tables : u # t => disk'[u] = disk[u]
  BY <1>1, <1>4, <1>7
<1>9. disk'[t] \in RowsOf(t) /\ disk'[t][k] = v /\ \A j \in IdsOf[t] : j # k => disk'[t][j] = disk[t][j]
  BY <1>2, <1>6, <1>7, <1>8 DEF RowsOf
<1>10. IsDatabase(disk)'
  <2>1. \A u \in Tables : disk'[u] \in RowsOf(u)
    BY <1>8, <1>9 DEF IsDatabase
  <2>2. IsDatabase(disk')
    BY <1>8, <2>1 DEF IsDatabase
  <2> QED BY <2>2 DEF IsDatabase
<1>11. Goal' = Goal /\ stmt' = stmt /\ mem' = mem
  BY SameStatement
<1>12. \A u \in Tables : u # t => disk'[u] = mem'[u]
  BY <1>8, <1>11 DEF StoreOK, t
<1>13. CASE v = rows[k] /\ batch' = [batch EXCEPT !.left = @ \ {k}] /\ stage' = 0
  <2>1. batch' = Batch(t, rows, left \ {k})
    BY <1>2, <1>13 DEF Batch, left
  <2>2. batch'.table = t /\ batch'.rows = rows /\ batch'.left = left \ {k}
    BY <2>1 DEF Batch
  <2>3. \A j \in IdsOf[t] \ (left \ {k}) : disk'[t][j] = rows[j]
    BY <1>2, <1>9, <1>13
  <2>4. \A j \in left \ {k} : disk'[t][j] = stmt'.before[t][j]
    BY <1>2, <1>3, <1>9, <1>11
  <2>5. rows = Goal'[t] /\ left \ {k} \subseteq IdsOf[t] /\ t \in Tables /\ stage' = 0
    BY <1>1, <1>2, <1>11, <1>13
  <2>6. batch' = Batch(batch'.table, batch'.rows, batch'.left)
    BY <2>1, <2>2
  <2>7. BatchOK'
    BY <2>2, <2>3, <2>4, <2>6, <2>5 DEF BatchOK
  <2> QED BY <1>6, <1>10, <1>12, <2>2, <2>7 DEF StoreOK, t
<1>14. CASE batch' = batch /\ stage' \in 1..2 /\ rows[k] # NoRow
  <2>1. batch'.table = t /\ batch'.rows = rows /\ batch'.left = left /\ stage' # 0
    BY <1>14 DEF t, rows, left
  <2>2. First(k)' /\ k \in left
    BY <1>14 DEF First, left
  <2>3. \A j \in IdsOf[t] \ left : disk'[t][j] = rows[j]
    BY <1>2, <1>9, <2>2
  <2>4. \A j \in left : disk'[t][j] = stmt'.before[t][j] \/ (stage' # 0 /\ First(j)')
    <3> SUFFICES ASSUME NEW j \in left PROVE disk'[t][j] = stmt'.before[t][j] \/ (stage' # 0 /\ First(j)')
      OBVIOUS
    <3>1. CASE j = k
      BY <2>1, <2>2, <3>1
    <3>2. CASE j # k
      BY <1>2, <1>3, <1>9, <1>11, <3>2
    <3> QED BY <3>1, <3>2
  <2>5. batch' = Batch(t, rows, left)
    BY <1>2, <1>14
  <2>6. \E j \in left : First(j)' /\ rows[j] # NoRow
    BY <1>14, <2>2
  <2>7. rows = Goal'[t] /\ left \subseteq IdsOf[t] /\ t \in Tables
    BY <1>1, <1>2, <1>11
  <2>8. BatchOK'
    BY <2>1, <2>3, <2>4, <2>5, <2>6, <2>7 DEF BatchOK
  <2> QED BY <1>6, <1>10, <1>12, <2>1, <2>8 DEF StoreOK, t
<1> QED BY <1>4, <1>13, <1>14

\* The writing of rows leaves the referential actions where they are.
LEMMA SameActs ==
  ASSUME NEW rank, UNCHANGED <<declared, mem, stmt, working>>, batch'.table = batch.table
  PROVE  UpdateActs' = UpdateActs /\ DeleteActs(rank)' = DeleteActs(rank)
<1>1. /\ calls' = calls /\ visited' = visited /\ hits' = hits /\ mem' = mem /\ stmt' = stmt
      /\ onDelete' = onDelete /\ Goal' = Goal /\ Moving' = Moving /\ Top' = Top
      /\ batch'.table = batch.table
  BY SameStatement DEF declared, working, Top
<1>2. UpdateActs' = UpdateActs
  BY <1>1 DEF UpdateActs
<1>3. Under' = Under
  BY <1>1 DEF Under
<1>4. Later' = Later /\ \A t : Waiting(t)' = Waiting(t)
  BY <1>1, <1>3 DEF Later, Waiting
<1>5. Nested(rank)' = Nested(rank) /\ LaterOK' = LaterOK
  BY <1>1, <1>4 DEF Nested, LaterOK
<1>6. ASSUME NEW i PROVE CallOK(calls[i])' = CallOK(calls[i])
  <2>1. (GoneKeys(calls[i].table))' = GoneKeys(calls[i].table)
    BY <1>1, SameStatement DEF GoneKeys
  <2>2. (calls[i].keys = GoneKeys(calls[i].table))' = (calls[i].keys = GoneKeys(calls[i].table))
    BY <1>1, <2>1 DEF GoneKeys
  <2> QED BY <1>1, <1>4, <2>2 DEF CallOK
<1> QED BY <1>1, <1>2, <1>3, <1>5, <1>6 DEF DeleteActs

LEMMA PersistStep ==
  ASSUME NEW rank, Acyclic(rank), IInv(rank), NEW k \in batch.left, Persist(k)
  PROVE  IInv(rank)'
<1>1. /\ First(k) /\ (RemoveRow(k) \/ PersistRow(k))
      /\ UNCHANGED <<declared, mem, phase, stmt, working, torn>>
  BY DEF Persist
<1>2. batch # NoBatch
  BY DEF NoBatch, Batch
<1>3. /\ IsDatabase(mem) /\ IsDatabase(disk) /\ stage \in 0..2 /\ torn \in BOOLEAN
      /\ onDelete \in [{t \in Tables : Parent[t] # NoTable} -> Actions] /\ onUpdate \in Actions
      /\ (phase = "actions" /\ InActions(rank)) \/ (phase = "own" /\ Own)
  BY <1>2 DEF IInv, Quiet
<1>4. StoreOK /\ StmtOK /\ IsDatabase(Goal)
  <2>1. StoreOK /\ StmtOK /\ onUpdate \in Actions
    BY <1>3 DEF InActions, Own
  <2> QED BY <2>1, GoalFacts
<1>5. StoreOK' /\ batch'.table = batch.table /\ IsDatabase(disk)' /\ stage' \in 0..2
  BY <1>1, <1>3, <1>4, BatchAdvances
<1>6. StmtOK' /\ Goal' = Goal /\ Refusable' = Refusable
  BY <1>1, <1>4, SameStatement
<1>7. IsDatabase(mem)' /\ torn' \in BOOLEAN /\ phase' = phase
      /\ onDelete' \in [{t \in Tables : Parent[t] # NoTable} -> Actions] /\ onUpdate' \in Actions
  BY <1>1, <1>3 DEF IsDatabase, declared
<1>8. (phase' = "actions" /\ InActions(rank)') \/ (phase' = "own" /\ Own')
  <2>1. CASE phase = "actions" /\ InActions(rank)
    <3>1. UpdateActs' = UpdateActs /\ DeleteActs(rank)' = DeleteActs(rank)
      BY <1>1, <1>5, SameActs
    <3> QED BY <1>1, <1>5, <1>6, <2>1, <3>1 DEF InActions
  <2>2. CASE phase = "own" /\ Own
    BY <1>1, <1>5, <1>6, <2>2 DEF Own, NoWork, working
  <2> QED BY <1>3, <2>1, <2>2
<1> QED BY <1>5, <1>7, <1>8 DEF IInv

\* The rows of a batch are all written: the store holds the table as it will be.
LEMMA BatchWritten ==
  ASSUME BatchOK, batch.left = {}, IsDatabase(disk), IsDatabase(Goal)
  PROVE  stage = 0 /\ disk[batch.table] = Goal[batch.table] /\ batch.table \in Tables
<1>1. stage = 0 /\ batch.table \in Tables
  BY DEF BatchOK
<1>2. \A k \in IdsOf[batch.table] : disk[batch.table][k] = Goal[batch.table][k]
  BY DEF BatchOK
<1> QED BY <1>1, <1>2, SameRows

LEMMA InstallStep ==
  ASSUME NEW rank, Acyclic(rank), IInv(rank), Install
  PROVE  IInv(rank)'
<1> DEFINE b == batch.table
<1>1. /\ phase = "actions" /\ batch # NoBatch /\ batch.left = {}
      /\ mem' = [mem EXCEPT ![b] = batch.rows] /\ batch' = NoBatch
      /\ UNCHANGED <<declared, disk, phase, stmt, working, stage, torn>>
  BY DEF Install
<1>2. /\ ~torn /\ StmtOK /\ StoreOK /\ (UpdateActs \/ DeleteActs(rank))
      /\ IsDatabase(mem) /\ IsDatabase(disk) /\ onUpdate \in Actions /\ torn \in BOOLEAN
      /\ onDelete \in [{t \in Tables : Parent[t] # NoTable} -> Actions]
  BY <1>1 DEF IInv, InActions
<1>3. BatchOK /\ b \in Tables /\ batch.rows = Goal[b]
  BY <1>1, <1>2, BatchTable DEF BatchOK
<1>4. IsDatabase(Goal)
  BY <1>2, GoalFacts
<1>5. stage = 0 /\ disk[b] = Goal[b]
  BY <1>1, <1>2, <1>3, <1>4, BatchWritten
<1>6. /\ Goal' = Goal /\ StmtOK' /\ Moving' = Moving /\ calls' = calls /\ visited' = visited
      /\ hits' = hits /\ stmt' = stmt /\ onDelete' = onDelete /\ disk' = disk
  BY <1>1, <1>2, SameStatement DEF declared, working
<1>7. batch' = NoBatch /\ batch'.table = NoTable /\ b # NoTable /\ NoTable \notin Tables
  BY <1>1, <1>3, ParentAssumption DEF NoBatch, Batch
<1> HIDE DEF b
<1>8. DOMAIN mem = Tables /\ Goal[b] \in RowsOf(b)
  BY <1>2, <1>3, <1>4, DatabaseRows DEF IsDatabase
<1>9. /\ mem' = [u \in Tables |-> mem'[u]] /\ mem'[b] = Goal[b]
      /\ \A u \in Tables : u # b => mem'[u] = mem[u]
  BY <1>1, <1>3, <1>8
<1>10. IsDatabase(mem)'
  <2>1. \A u \in Tables : mem'[u] \in RowsOf(u)
    BY <1>2, <1>8, <1>9 DEF IsDatabase
  <2>2. IsDatabase(mem')
    BY <1>9, <2>1 DEF IsDatabase
  <2> QED BY <2>2 DEF IsDatabase
<1>11. StoreOK'
  <2>1. ASSUME NEW u \in Tables PROVE disk'[u] = mem'[u]
    <3>1. CASE u = b
      BY <1>5, <1>6, <1>9, <3>1
    <3>2. CASE u # b
      BY <1>2, <1>6, <1>9, <3>2 DEF StoreOK, b
    <3> QED BY <3>1, <3>2
  <2>2. stage' = 0
    BY <1>1, <1>5
  <2> QED BY <1>7, <2>1, <2>2 DEF StoreOK
<1>12. ASSUME UpdateActs PROVE UpdateActs'
  <2>1. ASSUME NEW u \in Tables
        PROVE  IF u = stmt.table \/ u \in hits THEN mem'[u] = stmt.before[u] ELSE mem'[u] = Goal[u]
    <3>1. CASE u = b
      BY <1>9, <1>12, <3>1 DEF UpdateActs, b
    <3>2. CASE u # b
      BY <1>9, <1>12, <3>2 DEF UpdateActs, b
    <3> QED BY <3>1, <3>2
  <2>2. /\ hits \subseteq ChildrenOf(stmt.table) /\ stmt.table \notin hits /\ (~Moving => hits = {})
        /\ stmt.op = "update" /\ calls = <<>> /\ visited = {}
    BY <1>12 DEF UpdateActs
  <2>3. NoTable # stmt.table /\ NoTable \notin hits
    BY <1>2, <1>7, <2>2 DEF StmtOK, ChildrenOf
  <2>4. ASSUME NEW u \in Tables
        PROVE  IF u = stmt'.table \/ u = batch'.table \/ u \in hits'
               THEN mem'[u] = stmt'.before[u] ELSE mem'[u] = Goal'[u]
    BY <1>6, <1>7, <2>1
  <2>5. /\ hits' \subseteq ChildrenOf(stmt'.table) /\ stmt'.table \notin hits' /\ (~Moving' => hits' = {})
        /\ stmt'.op = "update" /\ calls' = <<>> /\ visited' = {}
    BY <1>6, <2>2
  <2>6. batch'.table # stmt'.table /\ batch'.table \notin hits'
    BY <1>6, <1>7, <2>3
  <2> QED BY <1>7, <2>4, <2>5, <2>6 DEF UpdateActs
<1>13. ASSUME DeleteActs(rank) PROVE DeleteActs(rank)'
  <2>1. /\ Nested(rank) /\ LaterOK /\ stmt.op = "delete" /\ hits = {}
        /\ \A i \in 1..Len(calls) : CallOK(calls[i])
        /\ onDelete[b] # "RESTRICT"
    BY <1>7, <1>13 DEF DeleteActs, b
  <2>2. Under' = Under /\ Nested(rank)'
    BY <1>6, <2>1 DEF Under, Nested
  <2>3. Later' = Later
    BY <1>6, <1>7, <1>9, <2>2 DEF Later, b
  <2>4. ASSUME NEW t \in Tables, Waiting(t) PROVE Waiting(t)'
    BY <1>6, <1>7, <1>9, <2>2, <2>4 DEF Waiting, b
  <2>5. LaterOK'
    BY <1>6, <2>1, <2>3, <2>4 DEF LaterOK, Later
  <2>6. ASSUME NEW i \in 1..Len(calls) PROVE CallOK(calls[i])'
    <3>1. CallOK(calls[i]) /\ calls'[i] = calls[i]
      BY <1>6, <2>1
    <3>2. (GoneKeys(calls[i].table))' = GoneKeys(calls[i].table)
      BY <1>1, SameStatement, <3>1 DEF GoneKeys
    <3>3. (calls[i].keys = GoneKeys(calls[i].table))'
      BY <3>1, <3>2 DEF CallOK, GoneKeys
    <3>4. \A t \in calls[i].todo : Waiting(t)'
      BY <2>4, <3>1 DEF CallOK, ChildrenOf
    <3>5. calls[i].table \in Tables /\ calls[i].table # b
      BY <3>1 DEF CallOK, b
    <3>6. mem'[calls[i].table] = mem[calls[i].table] /\ calls[i].table # batch'.table
      BY <1>7, <1>9, <3>5
    <3> QED BY <1>6, <3>1, <3>3, <3>4, <3>6 DEF CallOK
  <2>7. ASSUME NEW t \in Tables, mem'[t] = Goal[t], Goal[t] # stmt.before[t]
        PROVE  onDelete[t] # "RESTRICT"
    <3>1. CASE t = b
      BY <2>1, <3>1
    <3>2. CASE t # b
      BY <1>9, <1>13, <2>7, <3>2 DEF DeleteActs
    <3> QED BY <3>1, <3>2
  <2>8. \A t \in Tables : mem'[t] = Goal'[t] /\ Goal'[t] # stmt'.before[t] => onDelete'[t] # "RESTRICT"
    BY <1>6, <2>7
  <2>9. stmt'.op = "delete" /\ hits' = {}
    BY <1>6, <2>1
  <2>10. \A i \in 1..Len(calls') : CallOK(calls[i])'
    BY <1>6, <2>6
  <2> QED BY <1>7, <2>2, <2>5, <2>8, <2>9, <2>10 DEF DeleteActs
<1>14. IsDatabase(disk)' /\ torn' \in BOOLEAN /\ stage' \in 0..2 /\ phase' = "actions" /\ ~torn'
       /\ onDelete' \in [{u \in Tables : Parent[u] # NoTable} -> Actions] /\ onUpdate' \in Actions
  BY <1>1, <1>2, <1>5, <1>6 DEF IsDatabase, declared
<1>15. InActions(rank)'
  <2>1. UpdateActs' \/ DeleteActs(rank)'
    BY <1>2, <1>12, <1>13
  <2> QED BY <1>6, <1>11, <1>14, <2>1 DEF InActions
<1> QED BY <1>10, <1>14, <1>15 DEF IInv

LEMMA AnswerStep ==
  ASSUME NEW rank, Acyclic(rank), IInv(rank), Answer
  PROVE  IInv(rank)'
<1>1. /\ phase \in {"own", "refused"} /\ batch.left = {}
      /\ phase' = "idle" /\ stmt' = NoStatement /\ batch' = NoBatch
      /\ UNCHANGED <<declared, mem, disk, working, stage, torn>>
  BY DEF Answer
<1>2. IsDatabase(mem) /\ IsDatabase(disk) /\ onUpdate \in Actions
  BY DEF IInv
<1>3. disk = mem /\ stage = 0 /\ NoWork /\ (~torn => Sound(mem))
  <2>1. CASE phase = "refused"
    BY <2>1 DEF IInv, Quiet
  <2>2. CASE phase = "own"
    <3>1. StmtOK /\ StoreOK /\ mem = Goal /\ NoWork /\ batch.table = stmt.table
      BY <2>2 DEF IInv, Own
    <3>2. IsDatabase(Goal) /\ Sound(Goal)
      BY <1>2, <3>1, GoalFacts
    <3>3. batch # NoBatch /\ BatchOK
      BY <3>1, BatchTable, ParentAssumption DEF StmtOK
    <3>4. stage = 0 /\ disk[batch.table] = Goal[batch.table]
      BY <1>1, <1>2, <3>2, <3>3, BatchWritten
    <3>5. \A t \in Tables : disk[t] = mem[t]
      BY <3>1, <3>4 DEF StoreOK
    <3>6. disk = mem
      BY <1>2, <3>5, SameDatabase
    <3> QED BY <3>1, <3>2, <3>4, <3>6
  <2> QED BY <1>1, <2>1, <2>2
<1>4. Quiet'
  BY <1>1, <1>3 DEF Quiet, NoWork, working, Sound, Orphans
<1> QED BY <1>1, <1>4, Unaltered DEF IInv

LEMMA ReopenStep ==
  ASSUME NEW rank, IInv(rank), Reopen
  PROVE  IInv(rank)'
<1>1. /\ mem' = disk /\ torn' = (torn \/ ~Sound(disk))
      /\ phase' = "idle" /\ stmt' = NoStatement /\ batch' = NoBatch /\ stage' = 0
      /\ calls' = <<>> /\ visited' = {} /\ hits' = {}
      /\ UNCHANGED <<declared, disk>>
  BY DEF Reopen
<1>2. /\ IsDatabase(disk) /\ torn \in BOOLEAN
      /\ onDelete \in [{t \in Tables : Parent[t] # NoTable} -> Actions] /\ onUpdate \in Actions
  BY DEF IInv
<1>3. IsDatabase(mem)' /\ IsDatabase(disk)'
  BY <1>1, <1>2 DEF IsDatabase
<1>4. torn' \in BOOLEAN /\ (~torn' => Sound(disk))
  BY <1>1, <1>2
<1>5. (Sound(disk) => Sound(mem)')
  BY <1>1 DEF Sound, Orphans
<1>6. Quiet'
  BY <1>1, <1>4, <1>5 DEF Quiet, NoWork
<1>7. onDelete' \in [{u \in Tables : Parent[u] # NoTable} -> Actions] /\ onUpdate' \in Actions /\ stage' \in 0..2
  BY <1>1, <1>2 DEF declared
<1> QED BY <1>1, <1>3, <1>4, <1>6, <1>7 DEF IInv

LEMMA InitHolds ==
  ASSUME NEW rank, Init
  PROVE  IInv(rank)
<1>1. mem = EmptyDatabase /\ disk = mem
  BY DEF Init
<1>2. IsDatabase(EmptyDatabase)
  BY DEF EmptyDatabase, IsDatabase, RowsOf
<1>3. Sound(EmptyDatabase)
  BY DEF EmptyDatabase, Sound, Orphans, Live
<1>4. Quiet /\ phase = "idle" /\ stmt = NoStatement
  BY <1>1, <1>3 DEF Init, Quiet, NoWork
<1>5. onUpdate \in Actions /\ onDelete \in [{u \in Tables : Parent[u] # NoTable} -> Actions]
  BY DEF Init
<1>6. torn \in BOOLEAN
  BY Zenon DEF Init
<1>7. stage \in 0..2
  BY DEF Init
<1>8. IsDatabase(mem) /\ IsDatabase(disk)
  BY <1>1, <1>2
<1> QED BY <1>4, <1>5, <1>6, <1>8, <1>7 DEF IInv

LEMMA StepHolds ==
  ASSUME NEW rank, Acyclic(rank), IInv(rank), [Next]_vars
  PROVE  IInv(rank)'
<1>1. CASE UNCHANGED vars
  <2>1. UNCHANGED <<declared, mem, disk, stage, torn, stmt, working, batch, phase>>
    BY <1>1 DEF vars
  <2>2. batch'.table = batch.table
    BY <2>1
  <2>3. UpdateActs' = UpdateActs /\ DeleteActs(rank)' = DeleteActs(rank)
    BY <2>1, <2>2, SameActs
  <2>4. Goal' = Goal /\ StmtOK' = StmtOK /\ Refusable' = Refusable
    BY <2>1, SameStatement
  <2>5. BatchOK' = BatchOK
    BY <2>1, <2>4 DEF BatchOK, First
  <2>6. StoreOK' = StoreOK
    BY <2>1, <2>5 DEF StoreOK
  <2>7. NoWork' = NoWork
    BY <2>1 DEF NoWork, working
  <2>8. Sound(mem)' = Sound(mem)
    BY <2>1 DEF Sound, Orphans
  <2>9. Quiet' = Quiet /\ InActions(rank)' = InActions(rank) /\ Own' = Own /\ Refused' = Refused
    BY <2>1, <2>3, <2>4, <2>6, <2>7, <2>8 DEF Quiet, InActions, Own, Refused
  <2> QED BY <2>1, <2>9, Unaltered DEF IInv
<1>2. CASE Next
  <2>1. ASSUME NEW t \in Tables, NEW k \in IdsOf[t], NEW ref \in Refs(t), InsertRow(t, k, ref)
        PROVE  IInv(rank)'
    BY <2>1, InsertStep
  <2>2. ASSUME NEW t \in Tables, NEW S \in SUBSET Live(mem[t]), Delete(t, S)
        PROVE  IInv(rank)'
    BY <2>2, DeleteStep
  <2>3. ASSUME NEW t \in Tables, NEW k \in IdsOf[t], NEW nk \in IdsOf[t], NEW ref \in Refs(t),
               Update(t, k, nk, ref)
        PROVE  IInv(rank)'
    BY <2>3, UpdateStep
  <2>4. ASSUME NEW t \in Tables, NoMatch(t) \/ Restrict(t) \/ SetNull(t) \/ Cascade(t) \/ Rewrite(t)
        PROVE  IInv(rank)'
    BY <2>4, NoMatchStep, RestrictStep, SetNullStep, CascadeStep, RewriteStep
  <2>5. CASE Return
    BY <2>5, ReturnStep
  <2>6. CASE OwnRows
    BY <2>6, OwnRowsStep
  <2>7. ASSUME NEW k \in batch.left, Persist(k) PROVE IInv(rank)'
    BY <2>7, PersistStep
  <2>8. CASE Install \/ Answer \/ Reopen
    BY <2>8, InstallStep, AnswerStep, ReopenStep
  <2> QED BY <1>2, <2>1, <2>2, <2>3, <2>4, <2>5, <2>6, <2>7, <2>8 DEF Next
<1> QED BY <1>1, <1>2

-----------------------------------------------------------------------------
(* What holds of every behaviour                                           *)

LEMMA RowsHaveType ==
  ASSUME NEW rank, Acyclic(rank), IInv(rank)
  PROVE  TypeOK
<1>1. \A t \in Tables : mem[t] \in RowsOf(t) /\ disk[t] \in RowsOf(t)
  BY DEF IInv, IsDatabase
<1>2. ASSUME batch.table \in Tables PROVE batch.rows \in RowsOf(batch.table)
  <2>1. batch # NoBatch
    BY <1>2, ParentAssumption DEF NoBatch, Batch
  <2>2. StmtOK /\ StoreOK /\ onUpdate \in Actions
    BY <2>1 DEF IInv, Quiet, InActions, Own
  <2>3. batch.rows = Goal[batch.table]
    BY <2>1, <2>2, BatchTable DEF BatchOK
  <2>4. IsDatabase(Goal)
    BY <2>2, GoalFacts
  <2> QED BY <1>2, <2>3, <2>4 DEF IsDatabase
<1>3. phase \in {"idle", "actions", "own", "refused"} /\ stage \in 0..2 /\ torn \in BOOLEAN
  BY DEF IInv
<1> QED BY <1>1, <1>2, <1>3 DEF TypeOK

\* An UPDATE that keeps the key has nothing to do before its own rows.
LEMMA KeptSound ==
  ASSUME NEW rank, Acyclic(rank), StmtOK, StoreOK, UpdateActs, ~Moving,
         IsDatabase(mem), IsDatabase(disk), onUpdate \in Actions
  PROVE  Sound(mem) /\ disk = mem
<1>1. batch.table = NoTable /\ hits = {} /\ stmt.op # "delete"
  BY DEF UpdateActs
<1>2. \A t \in Tables : mem[t] \in {stmt.before[t], Goal[t]}
  BY <1>1 DEF UpdateActs
<1>3. \A t \in Tables : \A k \in IdsOf[t] : mem[t][k] \in {stmt.before[t][k], Goal[t][k]}
  BY <1>2
<1>4. Sound(mem)
  BY <1>1, <1>3, PutMix
<1>5. \A t \in Tables : disk[t] = mem[t]
  BY <1>1, ParentAssumption DEF StoreOK
<1> QED BY <1>4, <1>5, SameDatabase

LEMMA MemorySound ==
  ASSUME NEW rank, Acyclic(rank), IInv(rank)
  PROVE  NoDangling
<1>1. SUFFICES ASSUME ~torn, ~(phase = "actions" /\ Moving) PROVE Sound(mem)
  BY DEF NoDangling
<1>2. IsDatabase(mem) /\ IsDatabase(disk) /\ onUpdate \in Actions
  BY DEF IInv
<1>3. CASE Quiet
  BY <1>1, <1>3 DEF Quiet
<1>4. CASE phase = "actions" /\ InActions(rank)
  <2>1. StmtOK /\ StoreOK /\ (UpdateActs \/ DeleteActs(rank)) /\ ~Moving
    BY <1>1, <1>4 DEF InActions
  <2>2. CASE UpdateActs
    BY <1>2, <2>1, <2>2, KeptSound
  <2>3. CASE DeleteActs(rank)
    BY <1>2, <2>1, <2>3, DeleteSound
  <2> QED BY <2>1, <2>2, <2>3
<1>5. CASE Own
  <2>1. StmtOK /\ mem = Goal
    BY <1>5 DEF Own
  <2>2. Sound(Goal)
    BY <1>2, <2>1, GoalFacts
  <2> QED BY <2>1, <2>2
<1> QED BY <1>3, <1>4, <1>5 DEF IInv

LEMMA StoreSound ==
  ASSUME NEW rank, Acyclic(rank), IInv(rank)
  PROVE  CrashKeepsReferences
<1>1. SUFFICES ASSUME ~torn, stage = 0, ~Moving PROVE Sound(disk)
  BY DEF CrashKeepsReferences
<1>2. IsDatabase(mem) /\ IsDatabase(disk) /\ onUpdate \in Actions
  BY DEF IInv
<1>3. CASE Quiet
  BY <1>1, <1>3 DEF Quiet
<1>4. CASE phase = "actions" /\ InActions(rank)
  <2>1. StmtOK /\ StoreOK /\ (UpdateActs \/ DeleteActs(rank))
    BY <1>4 DEF InActions
  <2>2. CASE UpdateActs
    <3>1. Sound(mem) /\ disk = mem
      BY <1>1, <1>2, <2>1, <2>2, KeptSound
    <3> QED BY <3>1
  <2>3. CASE DeleteActs(rank)
    BY <1>1, <1>2, <2>1, <2>3, DeleteDiskSound
  <2> QED BY <2>1, <2>2, <2>3
<1>5. CASE Own
  BY <1>1, <1>2, <1>5, OwnDiskSound
<1> QED BY <1>3, <1>4, <1>5 DEF IInv

LEMMA DeleteExact ==
  ASSUME NEW rank, Acyclic(rank), IInv(rank)
  PROVE  DeleteIsCascade
<1>1. SUFFICES ASSUME ~torn, stmt.op = "delete", phase \in {"own", "refused"}
               PROVE  /\ phase = "refused" <=> Refusable
                      /\ phase = "own" => mem = Without(stmt.before, Gone)
  BY DEF DeleteIsCascade, Refusable, Gone
<1>2. CASE phase = "own"
  <2>1. Own
    BY <1>2 DEF IInv
  <2> QED BY <1>1, <1>2, <2>1 DEF Own, Goal
<1>3. CASE phase = "refused"
  <2>1. Refused
    BY <1>3 DEF IInv
  <2> QED BY <1>3, <2>1 DEF Refused
<1> QED BY <1>1, <1>2, <1>3

\* IInv holds in every state of every behaviour, whatever the tables, their foreign keys,
\* the declared actions, the keys and the statements, if the foreign keys form no cycle.
THEOREM Invariant ==
  ASSUME NEW CONSTANT rank, Acyclic(rank)
  PROVE  Spec => []IInv(rank)
<1>1. Init => IInv(rank)
  BY InitHolds
<1>2. IInv(rank) /\ [Next]_vars => IInv(rank)'
  BY StepHolds
<1> QED BY <1>1, <1>2, PTL DEF Spec

\* The rows in memory, in the store and on their way there are rows of their tables.
THEOREM TypeCorrect ==
  ASSUME NEW CONSTANT rank, Acyclic(rank)
  PROVE  Spec => []TypeOK
<1>1. IInv(rank) => TypeOK
  BY RowsHaveType
<1> QED BY <1>1, Invariant, PTL

\* No step of a DELETE (apply_parent_delete_actions), a refused one included, and no
\* completed INSERT or UPDATE leaves a row in memory whose parent is gone.
THEOREM ReferencesHold ==
  ASSUME NEW CONSTANT rank, Acyclic(rank)
  PROVE  Spec => []NoDangling
<1>1. IInv(rank) => NoDangling
  BY MemorySound
<1> QED BY <1>1, Invariant, PTL

\* When a statement has been answered, refused or not, the store holds what memory
\* holds, in every table that its referential actions have come to.
THEOREM StoreKeepsUp ==
  ASSUME NEW CONSTANT rank, Acyclic(rank)
  PROVE  Spec => []StoreFollows
<1>1. IInv(rank) => StoreFollows
  BY DEF IInv, Quiet, StoreFollows
<1> QED BY <1>1, Invariant, PTL

\* A crash between two rows that an INSERT, a DELETE with all its actions or an UPDATE
\* that keeps the key writes leaves no row in the store without its parent.
THEOREM CrashIsSafe ==
  ASSUME NEW CONSTANT rank, Acyclic(rank)
  PROVE  Spec => []CrashKeepsReferences
<1>1. IInv(rank) => CrashKeepsReferences
  BY StoreSound
<1> QED BY <1>1, Invariant, PTL

\* A DELETE removes the least set closed under its CASCADE references, clears the SET
\* NULL references to it, leaves the rest, and is refused if a RESTRICT reference points
\* into that set, in whatever order apply_parent_delete_actions_inner visits the tables.
THEOREM DeleteCascades ==
  ASSUME NEW CONSTANT rank, Acyclic(rank)
  PROVE  Spec => []DeleteIsCascade
<1>1. IInv(rank) => DeleteIsCascade
  BY DeleteExact
<1> QED BY <1>1, Invariant, PTL
=============================================================================
