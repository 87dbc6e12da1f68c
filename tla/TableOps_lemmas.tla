--------------------------- MODULE TableOps_lemmas ---------------------------
(***************************************************************************)
(* Facts about the operators of TableOps, for every set of keys and of     *)
(* values: what they return, and how the lookup and the index follow a     *)
(* table from which rows are removed and to which one is added.            *)
(***************************************************************************)
EXTENDS TableOps, TLAPS

\* Every table operator returns a table.
LEMMA TableTypes ==
  /\ EmptyTable \in Table
  /\ \A t \in Table, S \in SUBSET Keys : Without(t, S) \in Table
  /\ \A t \in Table, k \in Keys, r \in Row \cup {NoRow} : Put(t, k, r) \in Table
BY DEF EmptyTable, Table, Without, Put

\* Live keys are keys, and the row under one is a row.
LEMMA LiveRows ==
  ASSUME NEW t \in Table
  PROVE  /\ Live(t) \subseteq Keys
         /\ \A k \in Live(t) : t[k] \in Row
BY DEF Live, Table

\* Removing rows leaves the other live keys with their rows.
LEMMA LiveWithout ==
  ASSUME NEW t \in Table, NEW S \in SUBSET Keys
  PROVE  /\ Live(Without(t, S)) = Live(t) \ S
         /\ \A k \in Keys \ S : Without(t, S)[k] = t[k]
BY DEF Live, Table, Without

\* Storing a row adds its key to the live ones and leaves the other rows.
LEMMA LivePut ==
  ASSUME NEW t \in Table, NEW k \in Keys, NEW r \in Row
  PROVE  /\ Live(Put(t, k, r)) = Live(t) \cup {k}
         /\ Put(t, k, r)[k] = r
         /\ \A j \in Keys \ {k} : Put(t, k, r)[j] = t[j]
BY NoRowAssumption DEF Live, Table, Put

\* The empty table has no live key.
LEMMA LiveEmpty == Live(EmptyTable) = {}
BY DEF Live, EmptyTable

\* The lookup operators return lookups.
LEMMA LookupTypes ==
  /\ \A t \in Table : BuildLookup(t) \in Lookup
  /\ \A l \in Lookup, k \in Keys, r \in Row : AddToLookup(l, k, r) \in Lookup
  /\ \A l \in Lookup, t \in Table, S \in SUBSET Keys :
       RemoveFromLookup(l, t, S) \in Lookup
<1>1. \A t \in Table : BuildLookup(t) \in Lookup
  BY DEF BuildLookup, Lookup, Holders, Live
<1>2. \A l \in Lookup, k \in Keys, r \in Row : AddToLookup(l, k, r) \in Lookup
  BY DEF AddToLookup, Lookup
<1>3. \A l \in Lookup, t \in Table, S \in SUBSET Keys :
        RemoveFromLookup(l, t, S) \in Lookup
  BY DEF RemoveFromLookup, Lookup
<1> QED BY <1>1, <1>2, <1>3

\* The index operators return indexes.
LEMMA IndexTypes ==
  /\ \A t \in Table : BuildIndex(t) \in Index
  /\ \A ix \in Index, t \in Table, S \in SUBSET Keys : AddToIndex(ix, t, S) \in Index
  /\ \A ix \in Index, t \in Table, S \in SUBSET Keys : RemoveFromIndex(ix, t, S) \in Index
<1>1. \A t \in Table : BuildIndex(t) \in Index
  BY DEF BuildIndex, Index, Holders, Live
<1>2. \A ix \in Index, t \in Table, S \in SUBSET Keys : AddToIndex(ix, t, S) \in Index
  BY DEF AddToIndex, Index
<1>3. \A ix \in Index, t \in Table, S \in SUBSET Keys : RemoveFromIndex(ix, t, S) \in Index
  BY DEF RemoveFromIndex, Index
<1> QED BY <1>1, <1>2, <1>3

\* A row an assignment rewrites is a row.
LEMMA RewritesTypes == \A r \in Row : \A cols : Rewrites(r, cols) \subseteq Row
BY DEF Rewrites

\* The rows in conflict are keys.
LEMMA ConflictTypes ==
  /\ \A t \in Table, l \in Lookup, k \in Keys, r \in Row : ConflictKeys(t, l, k, r) \subseteq Keys
  /\ \A t \in Table, k \in Keys, r \in Row : ConflictsIn(t, k, r) \subseteq Keys
<1>1. \A t \in Table, l \in Lookup, k \in Keys, r \in Row : ConflictKeys(t, l, k, r) \subseteq Keys
  BY DEF ConflictKeys, Lookup
<1>2. \A t \in Table, k \in Keys, r \in Row : ConflictsIn(t, k, r) \subseteq Keys
  BY DEF ConflictsIn, Holders, Live
<1> QED BY <1>1, <1>2

-----------------------------------------------------------------------------
\* The holders of a value after a removal.
LEMMA HoldersWithout ==
  ASSUME NEW t \in Table, NEW S \in SUBSET Keys, NEW v
  PROVE  Holders(Without(t, S), v) = Holders(t, v) \ S
BY LiveWithout, LiveRows DEF Holders

\* The holders of a value after a row is stored under a key.
LEMMA HoldersPut ==
  ASSUME NEW t \in Table, NEW k \in Keys, NEW r \in Row, NEW v
  PROVE  Holders(Put(t, k, r), v) =
           (Holders(t, v) \ {k}) \cup (IF r.u = v THEN {k} ELSE {})
BY LivePut, LiveRows DEF Holders

\* The lookup a statement carries stays the lookup of the table when rows make
\* way for one row (remove_from_unique_lookup, add_to_unique_lookup).
LEMMA LookupFollows ==
  ASSUME NEW t \in Table, NEW S \in SUBSET Keys, NEW k \in Keys, NEW r \in Row,
         k \in Live(t) => k \in S
  PROVE  AddToLookup(RemoveFromLookup(BuildLookup(t), t, S), k, r)
           = BuildLookup(Put(Without(t, S), k, r))
<1> DEFINE n == Put(Without(t, S), k, r)
<1>1. Without(t, S) \in Table
  BY TableTypes
<1>2. \A v : Holders(n, v) = ((Holders(t, v) \ S) \ {k}) \cup (IF r.u = v THEN {k} ELSE {})
  BY <1>1, HoldersWithout, HoldersPut
<1>3. \A v : (Holders(t, v) \ S) \ {k} = Holders(t, v) \ S
  BY DEF Holders
<1>4. \A v \in UVals : (Holders(t, v) \ (S \cap Holders(t, v))) = Holders(t, v) \ S
  OBVIOUS
<1> QED BY <1>2, <1>3, <1>4 DEF AddToLookup, RemoveFromLookup, BuildLookup

\* Storing a row whose key and unique value nobody holds keeps values unique.
LEMMA UniqueAfterPut ==
  ASSUME NEW t \in Table, NEW k \in Keys, NEW r \in Row, UniqueOK(t),
         r.u = NULL \/ Holders(t, r.u) \subseteq {k}
  PROVE  UniqueOK(Put(t, k, r))
<1> SUFFICES ASSUME NEW i \in Live(Put(t, k, r)), NEW j \in Live(Put(t, k, r)),
                    Put(t, k, r)[i].u = Put(t, k, r)[j].u, Put(t, k, r)[i].u # NULL
             PROVE  i = j
  BY DEF UniqueOK
<1>1. CASE i = k /\ j # k
  BY <1>1, LivePut DEF Holders, Live
<1>2. CASE i # k /\ j = k
  BY <1>2, LivePut DEF Holders, Live
<1>3. CASE i # k /\ j # k
  BY <1>3, LivePut DEF UniqueOK, Live
<1> QED BY <1>1, <1>2, <1>3

\* Removing rows keeps values unique.
LEMMA UniqueAfterWithout ==
  ASSUME NEW t \in Table, NEW S \in SUBSET Keys, UniqueOK(t)
  PROVE  UniqueOK(Without(t, S))
BY LiveWithout, LiveRows DEF UniqueOK

\* With the row's conflicts out of the way, storing it keeps values unique.
LEMMA UniqueAfterReplace ==
  ASSUME NEW t \in Table, NEW k \in Keys, NEW r \in Row, UniqueOK(t)
  PROVE  UniqueOK(Put(Without(t, ConflictKeys(t, BuildLookup(t), k, r) \cap Live(t)), k, r))
<1> DEFINE C == ConflictKeys(t, BuildLookup(t), k, r) \cap Live(t)
           n == Without(t, C)
<1>1. C \in SUBSET Keys
  BY LiveRows
<1>2. n \in Table /\ UniqueOK(n)
  BY <1>1, TableTypes, UniqueAfterWithout
<1>3. r.u = NULL \/ Holders(n, r.u) \subseteq {k}
  <2>1. SUFFICES ASSUME r.u \in UVals
                 PROVE  Holders(n, r.u) \subseteq {k}
    BY DEF Row
  <2>2. Holders(t, r.u) \subseteq C
    BY <2>1 DEF ConflictKeys, BuildLookup, Holders
  <2> QED BY <1>1, <2>2, HoldersWithout
<1> QED BY <1>2, <1>3, UniqueAfterPut
=============================================================================
