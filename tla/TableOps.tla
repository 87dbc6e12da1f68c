------------------------------ MODULE TableOps ------------------------------
(***************************************************************************)
(* The pure part of the DML code (src/sql/engine/dml.rs) on one table with *)
(* a single-column integer PRIMARY KEY, one UNIQUE nullable column u that  *)
(* has a single-column index, and one plain column w.                      *)
(*                                                                         *)
(* A stored row is keyed by the text of its primary key; the text is       *)
(* abstracted to the number itself (Keys), whose order stands for the      *)
(* order of the BTreeMap keys.  A table maps every key to its row, or to   *)
(* NoRow when the map has no entry.                                        *)
(***************************************************************************)
EXTENDS Integers

CONSTANTS
  Keys,       \* primary-key values, also the row keys
  UVals,      \* non-NULL values of the UNIQUE column
  Payloads,   \* values of the column that is not in any key
  NULL,       \* SQL NULL
  NoRow       \* "the row map has no entry under this key"

Row == [u : UVals \cup {NULL}, w : Payloads]

ASSUME KeysAssumption == Keys \subseteq Nat \ {0}
ASSUME NullAssumption == NULL \notin UVals
ASSUME NoRowAssumption == NoRow \notin Row

Table == [Keys -> Row \cup {NoRow}]
EmptyTable == [k \in Keys |-> NoRow]
Live(t) == {k \in Keys : t[k] # NoRow}

\* The keys of t whose unique column holds v (v may be NULL).
Holders(t, v) == {k \in Live(t) : t[k].u = v}

-----------------------------------------------------------------------------
(* UniqueLookup: value of the unique column -> keys of the rows holding it. *)
(* NULL gives no unique key (unique_key_with_prefixes), so it has no entry. *)

Lookup == [UVals -> SUBSET Keys]

\* build_unique_lookup
BuildLookup(t) == [v \in UVals |-> Holders(t, v)]

\* add_to_unique_lookup for row r under key k
AddToLookup(l, k, r) ==
  [v \in UVals |-> IF r.u = v THEN l[v] \cup {k} ELSE l[v]]

\* remove_from_unique_lookup for the rows of t under the keys S
RemoveFromLookup(l, t, S) == [v \in UVals |-> l[v] \ (S \cap Holders(t, v))]

\* find_conflict_keys_with_lookup: the primary key is checked against the live
\* rows t, the unique column against the lookup the statement carries.
ConflictKeys(t, l, k, r) ==
  ({k} \cap Live(t)) \cup (IF r.u \in UVals THEN l[r.u] ELSE {})

\* find_conflict_keys: both are checked against t (the UPDATE path).
ConflictsIn(t, k, r) ==
  ({k} \cap Live(t)) \cup (IF r.u \in UVals THEN Holders(t, r.u) ELSE {})

\* validate_unique_constraints finds nothing to report in t.
UniqueOK(t) ==
  \A j, k \in Live(t) : t[j].u = t[k].u /\ t[j].u # NULL => j = k

-----------------------------------------------------------------------------
(* The secondary index on u: value, NULL included, -> keys.                *)

Index == [UVals \cup {NULL} -> SUBSET Keys]

\* rebuild_indexes
BuildIndex(t) == [v \in UVals \cup {NULL} |-> Holders(t, v)]

\* remove_row_from_indexes for the rows of t under the keys S
RemoveFromIndex(ix, t, S) ==
  [v \in UVals \cup {NULL} |-> ix[v] \ (S \cap Holders(t, v))]

\* add_row_to_indexes for every row of t under the keys S
AddToIndex(ix, t, S) ==
  [v \in UVals \cup {NULL} |-> ix[v] \cup (S \cap Holders(t, v))]

-----------------------------------------------------------------------------
\* The table without the rows under S; the table with r stored under k.
Without(t, S) == [k \in Keys |-> IF k \in S THEN NoRow ELSE t[k]]
Put(t, k, r) == [t EXCEPT ![k] = r]

\* k comes first among the keys S in BTreeMap order.
IsFirst(k, S) == k \in S /\ \A j \in S : k <= j

\* The row r may become when an UPDATE or an ON DUPLICATE KEY UPDATE assigns
\* only columns of cols.
Rewrites(r, cols) ==
  {x \in Row : /\ "u" \notin cols => x.u = r.u
               /\ "w" \notin cols => x.w = r.w}
=============================================================================
