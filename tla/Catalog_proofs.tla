--------------------------- MODULE Catalog_proofs ---------------------------
(***************************************************************************)
(* Proofs about Catalog, for any tables, columns, CREATE and ALTER         *)
(* statements.                                                             *)
(*                                                                         *)
(* A list is computed along another one (Only, Extended, Altered, InTurn)  *)
(* by a function of positions; Recursion shows that there is one, and what *)
(* it has is shown of all positions by Along.                              *)
(*                                                                         *)
(* StoredAtRest and CrashSafe speak of a table without and with commands   *)
(* in hand.  Both follow from DiskInv: the commands that are left lead the *)
(* keys of a table, one after the other (Reaches), to keys from which a    *)
(* reopen makes what the statement made, through keys that a crash may     *)
(* leave.  A statement begins at rest, and its commands are followed row   *)
(* by row and part of the schema by part; when it is finished, or at a     *)
(* reopen after any of its commands, the way begins again at its end.      *)
(*                                                                         *)
(* A crash may tear a schema, so the types have two kinds of them: what    *)
(* the parts in the store can make (GoodSchema), and what statements make  *)
(* of a table that no crash tore (Schemas(TRUE)), whose lists name its     *)
(* columns.  UniqueHolds is inductive beside the types and DiskInv;        *)
(* ViewsDescribe, of CatalogViews, follows from the types.                 *)
(***************************************************************************)
EXTENDS CatalogViews, SequenceTheorems, FiniteSetTheorems, WellFoundedInduction, TLAPS

-----------------------------------------------------------------------------
(* Recursion along a list                                                  *)

\* Induction on the natural numbers, for a set of them.
LEMMA SetInduction ==
  ASSUME NEW S, 0 \in S, \A n \in Nat : n \in S => n + 1 \in S
  PROVE  Nat \subseteq S
<1> DEFINE R == OpToRel(<, Nat)
           T == Nat \ S
<1>0. IsWellFoundedOn(R, Nat)
  BY NatLessThanWellFounded
<1> HIDE DEF R
<1>1. SUFFICES ASSUME T # {} PROVE FALSE
  OBVIOUS
<1>2. PICK x \in T : \A y \in T : ~ (<<y, x>> \in R)
  <2>1. T \subseteq Nat OBVIOUS
  <2> HIDE DEF T
  <2> QED BY <1>0, <1>1, <2>1, WFMin
<1>3. x # 0 /\ x \in Nat /\ x - 1 \in Nat /\ x - 1 \notin S
  BY <1>2
<1>4. <<x - 1, x>> \in R
  BY <1>3 DEF R, OpToRel
<1> QED BY <1>2, <1>3, <1>4

\* The same for the positions 0..n of a list.
LEMMA Along ==
  ASSUME NEW n \in Nat, NEW S, 0 \in S, \A i \in 1..n : i - 1 \in S => i \in S
  PROVE  0..n \subseteq S
<1> DEFINE T == {i \in Nat : i <= n => i \in S}
<1>1. 0 \in T OBVIOUS
<1>2. \A i \in Nat : i \in T => i + 1 \in T
  <2>1. TAKE i \in Nat
  <2>2. HAVE i \in T
  <2>3. SUFFICES ASSUME i + 1 <= n PROVE i + 1 \in S
    OBVIOUS
  <2>4. i \in S /\ i + 1 \in 1..n /\ (i + 1) - 1 = i
    BY <2>2, <2>3
  <2> QED BY <2>4
<1> HIDE DEF T
<1>3. Nat \subseteq T
  BY <1>1, <1>2, SetInduction
<1>4. \A i \in 0..n : i \in Nat /\ i <= n
  OBVIOUS
<1> QED BY <1>3, <1>4 DEF T

\* The functions with a first value and, for each position, a step G[i] on the set
\* V of values.
Chains(V, b, n, G) == {f \in [0..n -> V] : f[0] = b /\ \A i \in 1..n : f[i] = G[i][f[i - 1]]}

\* There is one.
LEMMA Recursion ==
  ASSUME NEW V, NEW b \in V, NEW n \in Nat, NEW G \in [1..n -> [V -> V]]
  PROVE  Chains(V, b, n, G) # {}
<1> DEFINE P == {m \in 0..n : \E f \in [0..m -> V] : f[0] = b /\ \A i \in 1..m : f[i] = G[i][f[i - 1]]}
<1>1. 0 \in P
  <2> DEFINE g == [i \in 0..0 |-> b]
  <2>1. g \in [0..0 -> V] /\ g[0] = b /\ 0 \in 0..n
    OBVIOUS
  <2>2. \A i \in 1..0 : g[i] = G[i][g[i - 1]]
    OBVIOUS
  <2> HIDE DEF g
  <2> QED BY <2>1, <2>2
<1>2. ASSUME NEW m \in 1..n, m - 1 \in P PROVE m \in P
  <2>1. PICK f \in [0..(m - 1) -> V] : f[0] = b /\ \A i \in 1..(m - 1) : f[i] = G[i][f[i - 1]]
    BY <1>2
  <2> DEFINE g == [i \in 0..m |-> IF i = m THEN G[m][f[m - 1]] ELSE f[i]]
  <2>2. f[m - 1] \in V /\ G[m][f[m - 1]] \in V
    <3>1. m - 1 \in 0..(m - 1) /\ m \in 1..n OBVIOUS
    <3> QED BY <3>1, <2>1
  <2>3. \A i \in 0..m : i # m => i \in 0..(m - 1)
    OBVIOUS
  <2>4. g \in [0..m -> V]
    BY <2>1, <2>2, <2>3
  <2>5. g[0] = b
    <3>1. 0 \in 0..m /\ 0 # m OBVIOUS
    <3> QED BY <3>1, <2>1
  <2>6. ASSUME NEW i \in 1..m PROVE g[i] = G[i][g[i - 1]]
    <3>1. i \in 0..m /\ i - 1 \in 0..m /\ i - 1 # m OBVIOUS
    <3>2. g[i - 1] = f[i - 1] BY <3>1
    <3>3. CASE i = m BY <3>1, <3>2, <3>3
    <3>4. CASE i # m
      <4>1. i \in 1..(m - 1) BY <3>4
      <4> QED BY <3>1, <3>2, <3>4, <4>1, <2>1
    <3> QED BY <3>3, <3>4
  <2> HIDE DEF g
  <2>7. m \in 0..n OBVIOUS
  <2> QED BY <2>4, <2>5, <2>6, <2>7
<1>3. n \in P
  <2> HIDE DEF P
  <2>1. 0..n \subseteq P BY <1>1, <1>2, Along
  <2> QED BY <2>1
<1> QED BY <1>3 DEF Chains

\* There is only one.
LEMMA SameChain ==
  ASSUME NEW n \in Nat, NEW f, NEW g, f[0] = g[0],
         \A i \in 1..n : f[i - 1] = g[i - 1] => f[i] = g[i]
  PROVE  \A i \in 0..n : f[i] = g[i]
<1> DEFINE S == {i \in 0..n : f[i] = g[i]}
<1>1. 0 \in S OBVIOUS
<1>2. \A i \in 1..n : i - 1 \in S => i \in S OBVIOUS
<1> HIDE DEF S
<1>3. 0..n \subseteq S BY <1>1, <1>2, Along
<1> QED BY <1>3 DEF S

\* What Only computes, position by position.
LEMMA OnlyDef ==
  ASSUME NEW X, NEW list \in Seq(X), NEW S
  PROVE  \E f \in [0..Len(list) -> Seq(X)] :
           /\ Only(list, S) = f[Len(list)] /\ f[0] = <<>>
           /\ \A i \in 1..Len(list) : f[i] = IF list[i] \in S THEN Append(f[i - 1], list[i]) ELSE f[i - 1]
<1> DEFINE n == Len(list)
           V == Seq(X)
           G == [i \in 1..n |-> [v \in V |-> IF list[i] \in S THEN Append(v, list[i]) ELSE v]]
           Step(f) == [i \in 0..n |-> IF i = 0 THEN <<>> ELSE IF list[i] \in S THEN Append(f[i - 1], list[i]) ELSE f[i - 1]]
<1>1. n \in Nat /\ <<>> \in V /\ \A i \in 1..n : list[i] \in X
  OBVIOUS
<1>2. G \in [1..n -> [V -> V]]
  BY <1>1
<1>3. PICK f \in [0..n -> V] : f[0] = <<>> /\ \A i \in 1..n : f[i] = G[i][f[i - 1]]
  <2>1. n \in Nat /\ <<>> \in V BY <1>1
  <2> HIDE DEF G, n, V
  <2>2. Chains(V, <<>>, n, G) # {} BY <2>1, <1>2, Recursion
  <2> QED BY <2>2 DEF Chains
<1>4. ASSUME NEW i \in 1..n
      PROVE  f[i] = IF list[i] \in S THEN Append(f[i - 1], list[i]) ELSE f[i - 1]
  <2>1. i - 1 \in 0..n OBVIOUS
  <2> QED BY <2>1, <1>3
<1>5. f = Step(f)
  <2>1. ASSUME NEW i \in 0..n PROVE f[i] = Step(f)[i]
    <3>1. CASE i = 0 BY <3>1, <1>3
    <3>2. CASE i # 0
      <4>1. i \in 1..n BY <3>2
      <4> HIDE DEF n, G
      <4> QED BY <4>1, <3>2, <1>4
    <3> QED BY <3>1, <3>2
  <2> HIDE DEF n, G
  <2> QED BY <2>1
<1>6. \E g : g = Step(g) BY <1>5
<1>7. PICK g : g = Step(g) /\ g = CHOOSE h : h = Step(h)
  BY <1>6, Zenon
<1>8. \A i \in 0..n : g[i] = f[i]
  <2>1. g[0] = f[0] BY <1>3, <1>7
  <2>2. ASSUME NEW i \in 1..n, g[i - 1] = f[i - 1] PROVE g[i] = f[i]
    <3>1. i \in 0..n /\ i # 0 OBVIOUS
    <3>2. g[i] = IF list[i] \in S THEN Append(g[i - 1], list[i]) ELSE g[i - 1]
      <4>1. Step(g)[i] = IF list[i] \in S THEN Append(g[i - 1], list[i]) ELSE g[i - 1]
        BY <3>1
      <4> HIDE DEF n, Step
      <4> QED BY <4>1, <1>7
    <3> QED BY <3>2, <2>2, <1>4
  <2> HIDE DEF n, Step
  <2> QED BY ZenonT(60), <1>1, <2>1, <2>2, SameChain
<1>9. Only(list, S) = g[Len(list)]
  BY <1>7, Zenon DEF Only
<1> QED
  <2>1. n \in 0..n OBVIOUS
  <2> QED BY <1>3, <1>4, <1>8, <1>9, <2>1

-----------------------------------------------------------------------------
(* Lists of columns                                                        *)

\* Append adds one element, and repeats none if it is new.
LEMMA AppendRange ==
  ASSUME NEW X, NEW list \in Seq(X), NEW x \in X
  PROVE  Range(Append(list, x)) = Range(list) \cup {x}
<1>1. Append(list, x) \in Seq(X) /\ DOMAIN Append(list, x) = 1..(Len(list) + 1) /\ DOMAIN list = 1..Len(list)
  OBVIOUS
<1>2. \A i \in 1..Len(list) : Append(list, x)[i] = list[i] /\ i \in 1..(Len(list) + 1)
  OBVIOUS
<1>3. Append(list, x)[Len(list) + 1] = x /\ Len(list) + 1 \in 1..(Len(list) + 1)
  OBVIOUS
<1>4. \A i \in 1..(Len(list) + 1) : i \in 1..Len(list) \/ i = Len(list) + 1
  OBVIOUS
<1> QED BY <1>1, <1>2, <1>3, <1>4 DEF Range

\* A list with a new element after it.
LEMMA AppendNew ==
  ASSUME NEW X, NEW list \in Seq(X), NEW x \in X, IsInjective(list), x \notin Range(list)
  PROVE  IsInjective(Append(list, x))
<1>1. PICK g : g = Append(list, x)
  OBVIOUS
<1>2. DOMAIN g = 1..(Len(list) + 1) /\ DOMAIN list = 1..Len(list) /\ g[Len(list) + 1] = x
  BY <1>1
<1>3. \A i \in 1..Len(list) : g[i] = list[i]
  BY <1>1
<1>4. \A i \in 1..Len(list) : g[i] # x
  BY <1>2, <1>3 DEF Range
<1>5. \A i \in 1..(Len(list) + 1) : i \in 1..Len(list) \/ i = Len(list) + 1
  OBVIOUS
<1>6. \A i, j \in 1..(Len(list) + 1) : g[i] = g[j] => i = j
  BY <1>2, <1>3, <1>4, <1>5 DEF IsInjective
<1>7. IsInjective(g)
  BY <1>2, <1>6 DEF IsInjective
<1> QED BY <1>1, <1>7

\* The columns of a list that are in a set: those, each once if the list has
\* them once, whatever else the set has.
LEMMA OnlyFacts ==
  ASSUME NEW X, NEW list \in Seq(X), NEW S
  PROVE  /\ Only(list, S) \in Seq(X)
         /\ Range(Only(list, S)) = Range(list) \cap S
         /\ IsInjective(list) => IsInjective(Only(list, S))
<1> DEFINE n == Len(list)
<1>1. PICK f \in [0..n -> Seq(X)] :
        /\ Only(list, S) = f[n] /\ f[0] = <<>>
        /\ \A i \in 1..n : f[i] = IF list[i] \in S THEN Append(f[i - 1], list[i]) ELSE f[i - 1]
  BY SMTT(60), OnlyDef
<1>2. n \in Nat /\ n \in 0..n /\ DOMAIN list = 1..n
  OBVIOUS
<1> HIDE DEF n
<1> DEFINE Early(i) == {list[j] : j \in 1..i}
           P == {i \in 0..n : /\ Range(f[i]) = Early(i) \cap S
                              /\ IsInjective(list) => IsInjective(f[i])}
<1>3. 0 \in P
  <2>1. Range(f[0]) = {} /\ Early(0) = {} /\ IsInjective(f[0])
    BY <1>1 DEF Range, IsInjective
  <2> QED BY <2>1, <1>2
<1>4. ASSUME NEW i \in 1..n, i - 1 \in P PROVE i \in P
  <2>1. i - 1 \in 0..n /\ i \in 0..n /\ f[i - 1] \in Seq(X)
    BY <1>1, <1>2
  <2>2. Early(i) = Early(i - 1) \cup {list[i]}
    <3>1. 1..i = 1..(i - 1) \cup {i} BY <1>2
    <3> QED BY <3>1
  <2>3. CASE list[i] \notin S
    <3>1. f[i] = f[i - 1] BY <1>1, <2>3
    <3> QED BY <3>1, <2>1, <2>2, <2>3, <1>4
  <2>4. CASE list[i] \in S
    <3>1. f[i] = Append(f[i - 1], list[i]) BY <1>1, <2>4
    <3>2. Range(f[i]) = Range(f[i - 1]) \cup {list[i]}
      BY SMTT(60), <3>1, <2>1, AppendRange
    <3>3. ASSUME IsInjective(list) PROVE list[i] \notin Range(f[i - 1])
      <4>1. SUFFICES ASSUME list[i] \in Early(i - 1) PROVE FALSE
        BY <1>4
      <4>2. PICK j \in 1..(i - 1) : list[i] = list[j] BY <4>1
      <4>3. j \in DOMAIN list /\ i \in DOMAIN list /\ i # j BY <1>2
      <4> QED BY <4>2, <4>3, <3>3 DEF IsInjective
    <3>4. ASSUME IsInjective(list) PROVE IsInjective(f[i])
      <4>1. IsInjective(f[i - 1]) /\ list[i] \notin Range(f[i - 1]) /\ list[i] \in X
        BY <3>3, <3>4, <1>2, <1>4
      <4>2. IsInjective(Append(f[i - 1], list[i]))
        <5> HIDE DEF P, Early
        <5> QED BY <4>1, <2>1, AppendNew
      <4> QED BY <4>2, <3>1
    <3> HIDE DEF Early
    <3> QED BY <3>2, <3>4, <2>1, <2>2, <2>4, <1>4
  <2> QED BY <2>3, <2>4
<1>5. n \in P
  <2> HIDE DEF P
  <2>1. 0..n \subseteq P BY <1>2, <1>3, <1>4, Along
  <2> QED BY <2>1, <1>2
<1>6. Early(n) = Range(list)
  BY <1>2 DEF Range
<1> QED BY <1>1, <1>2, <1>5, <1>6

\* A list in the order of the columns: the same columns; and sorting it again
\* changes nothing.
LEMMA SortedFacts ==
  ASSUME NEW list \in Seq(Cols)
  PROVE  /\ SortedList(list) \in Seq(Cols) /\ Range(SortedList(list)) = Range(list)
         /\ IsInjective(SortedList(list))
         /\ SortedList(SortedList(list)) = SortedList(list)
<1>1. SortedList(list) \in Seq(Cols) /\ IsInjective(SortedList(list))
  BY OnlyFacts, SortedAssumption DEF SortedList
<1>2. Range(SortedList(list)) = Range(list)
  <2>1. Range(list) \subseteq Range(Sorted) BY SortedAssumption, RangeOfSeq
  <2>2. Range(SortedList(list)) = Range(Sorted) \cap Range(list)
    BY OnlyFacts, SortedAssumption DEF SortedList
  <2> QED BY <2>1, <2>2
<1>3. SortedList(SortedList(list)) = SortedList(list)
  BY <1>2 DEF SortedList
<1> QED BY <1>1, <1>2, <1>3

\* No columns, in any order.
LEMMA SortedEmpty == SortedList(<<>>) = <<>>
<1>1. <<>> \in Seq(Cols) OBVIOUS
<1>2. Range(SortedList(<<>>)) = {} /\ SortedList(<<>>) \in Seq(Cols)
  <2>1. \A l \in Seq(Cols) : Range(SortedList(l)) = Range(l) /\ SortedList(l) \in Seq(Cols)
    BY SortedFacts
  <2>2. Range(<<>>) = {} BY DEF Range
  <2> QED BY <1>1, <2>1, <2>2, Zenon
<1>3. PICK l \in Seq(Cols) : l = SortedList(<<>>) BY <1>2
<1>4. 1 \notin DOMAIN l BY <1>2, <1>3 DEF Range
<1>5. l = <<>> BY <1>4
<1> QED BY <1>3, <1>5

\* A list without a column.
LEMMA LessFacts ==
  ASSUME NEW list \in Seq(Cols), NEW c
  PROVE  /\ Less(list, c) \in Seq(Cols) /\ Range(Less(list, c)) = Range(list) \ {c}
         /\ IsInjective(list) => IsInjective(Less(list, c))
BY OnlyFacts DEF Less

\* A list with a column under a new name.
LEMMA RenamedFacts ==
  ASSUME NEW list \in Seq(Cols), NEW old \in Cols, NEW new \in Cols
  PROVE  /\ Renamed(list, old, new) \in Seq(Cols) /\ Len(Renamed(list, old, new)) = Len(list)
         /\ Range(Renamed(list, old, new)) =
              IF old \in Range(list) THEN (Range(list) \ {old}) \cup {new} ELSE Range(list)
         /\ IsInjective(list) /\ new \notin Range(list) \ {old} => IsInjective(Renamed(list, old, new))
<1> DEFINE r == Renamed(list, old, new)
<1>1. DOMAIN list = 1..Len(list) /\ Len(list) \in Nat /\ \A i \in 1..Len(list) : list[i] \in Cols
  OBVIOUS
<1>2. DOMAIN r = 1..Len(list) /\ \A i \in 1..Len(list) : r[i] = IF list[i] = old THEN new ELSE list[i]
  BY <1>1 DEF Renamed
<1>3. r \in Seq(Cols) /\ Len(r) = Len(list)
  BY <1>1 DEF Renamed
<1> HIDE DEF r
<1>4. Range(r) = IF old \in Range(list) THEN (Range(list) \ {old}) \cup {new} ELSE Range(list)
  BY <1>1, <1>2 DEF Range
<1>5. ASSUME IsInjective(list), new \notin Range(list) \ {old} PROVE IsInjective(r)
  <2>1. \A i, j \in 1..Len(list) : r[i] = r[j] => list[i] = list[j]
    BY <1>1, <1>2, <1>5 DEF Range
  <2> QED BY <2>1, <1>1, <1>2, <1>5 DEF IsInjective
<1> QED BY <1>3, <1>4, <1>5 DEF r

\* What Extended computes, position by position.
LEMMA ExtendedDef ==
  ASSUME NEW list \in Seq(Cols), NEW cols \in Seq(Cols)
  PROVE  \E f \in [0..Len(cols) -> Seq(Cols)] :
           /\ Extended(list, cols) = f[Len(cols)] /\ f[0] = list
           /\ \A i \in 1..Len(cols) :
                f[i] = IF cols[i] \in Range(f[i - 1]) THEN f[i - 1] ELSE Append(f[i - 1], cols[i])
<1> DEFINE n == Len(cols)
           V == Seq(Cols)
           G == [i \in 1..n |-> [v \in V |-> IF cols[i] \in Range(v) THEN v ELSE Append(v, cols[i])]]
           Step(f) == [i \in 0..n |-> IF i = 0 THEN list
                                      ELSE IF cols[i] \in Range(f[i - 1]) THEN f[i - 1] ELSE Append(f[i - 1], cols[i])]
<1>1. n \in Nat /\ list \in V /\ n \in 0..n /\ \A i \in 1..n : cols[i] \in Cols
  OBVIOUS
<1>2. G \in [1..n -> [V -> V]]
  BY <1>1
<1>3. PICK f \in [0..n -> V] : f[0] = list /\ \A i \in 1..n : f[i] = G[i][f[i - 1]]
  <2>1. n \in Nat /\ list \in V BY <1>1
  <2> HIDE DEF G, n, V
  <2>2. Chains(V, list, n, G) # {} BY <2>1, <1>2, Recursion
  <2> QED BY <2>2 DEF Chains
<1>4. ASSUME NEW i \in 1..n
      PROVE  f[i] = IF cols[i] \in Range(f[i - 1]) THEN f[i - 1] ELSE Append(f[i - 1], cols[i])
  <2>1. i - 1 \in 0..n OBVIOUS
  <2> QED BY <2>1, <1>3
<1>5. f = Step(f)
  <2>1. ASSUME NEW i \in 0..n PROVE f[i] = Step(f)[i]
    <3>1. CASE i = 0 BY <3>1, <1>3
    <3>2. CASE i # 0
      <4>1. i \in 1..n BY <3>2
      <4> HIDE DEF n, G
      <4> QED BY <4>1, <3>2, <1>4
    <3> QED BY <3>1, <3>2
  <2> HIDE DEF n, G
  <2> QED BY <2>1
<1>6. \E g : g = Step(g) BY <1>5
<1>7. PICK g : g = Step(g) /\ g = CHOOSE h : h = Step(h)
  BY <1>6, Zenon
<1>8. \A i \in 0..n : g[i] = f[i]
  <2>1. g[0] = f[0] BY <1>3, <1>7
  <2>2. ASSUME NEW i \in 1..n, g[i - 1] = f[i - 1] PROVE g[i] = f[i]
    <3>1. i \in 0..n /\ i # 0 OBVIOUS
    <3>2. Step(g)[i] = IF cols[i] \in Range(g[i - 1]) THEN g[i - 1] ELSE Append(g[i - 1], cols[i])
      BY <3>1
    <3> HIDE DEF n, Step
    <3>3. g[i] = IF cols[i] \in Range(g[i - 1]) THEN g[i - 1] ELSE Append(g[i - 1], cols[i])
      BY <3>2, <1>7
    <3> QED BY <3>3, <2>2, <1>4
  <2>3. n \in Nat OBVIOUS
  <2> HIDE DEF n, Step
  <2> QED BY ZenonT(60), <2>1, <2>2, <2>3, SameChain
<1>9. Extended(list, cols) = g[n]
  BY <1>7, Zenon DEF Extended
<1>10. Extended(list, cols) = f[n]
  BY <1>1, <1>8, <1>9
<1> QED BY <1>3, <1>4, <1>10

\* A list extended by others has the columns of both, each once if it had.
LEMMA ExtendedFacts ==
  ASSUME NEW list \in Seq(Cols), NEW cols \in Seq(Cols)
  PROVE  /\ Extended(list, cols) \in Seq(Cols)
         /\ Range(Extended(list, cols)) = Range(list) \cup Range(cols)
         /\ IsInjective(list) => IsInjective(Extended(list, cols))
         /\ cols # <<>> => Extended(list, cols) # <<>>
<1> DEFINE n == Len(cols)
<1>1. PICK f \in [0..n -> Seq(Cols)] :
        /\ Extended(list, cols) = f[n] /\ f[0] = list
        /\ \A i \in 1..n : f[i] = IF cols[i] \in Range(f[i - 1]) THEN f[i - 1] ELSE Append(f[i - 1], cols[i])
  BY ExtendedDef
<1>2. n \in Nat /\ n \in 0..n /\ 0 \in 0..n /\ DOMAIN cols = 1..n /\ \A i \in 1..n : cols[i] \in Cols
  OBVIOUS
<1> HIDE DEF n
<1> DEFINE Early(i) == {cols[j] : j \in 1..i}
           P == {i \in 0..n : /\ Range(f[i]) = Range(list) \cup Early(i)
                              /\ IsInjective(list) => IsInjective(f[i])}
<1>3. 0 \in P
  BY <1>1, <1>2
<1>4. ASSUME NEW i \in 1..n, i - 1 \in P PROVE i \in P
  <2>1. i - 1 \in 0..n /\ i \in 0..n /\ f[i - 1] \in Seq(Cols)
    BY <1>1, <1>2
  <2>2. Early(i) = Early(i - 1) \cup {cols[i]}
    <3>1. 1..i = 1..(i - 1) \cup {i} BY <1>2
    <3> QED BY <3>1
  <2>3. CASE cols[i] \in Range(f[i - 1])
    <3>1. f[i] = f[i - 1] BY <1>1, <2>3
    <3> QED BY <3>1, <2>1, <2>2, <2>3, <1>4
  <2>4. CASE cols[i] \notin Range(f[i - 1])
    <3>1. f[i] = Append(f[i - 1], cols[i]) BY <1>1, <2>4
    <3>2. Range(f[i]) = Range(f[i - 1]) \cup {cols[i]}
      BY <3>1, <2>1, <1>2, AppendRange
    <3>3. ASSUME IsInjective(list) PROVE IsInjective(f[i])
      <4>1. IsInjective(f[i - 1]) BY <3>3, <1>4
      <4>2. IsInjective(Append(f[i - 1], cols[i])) BY <4>1, <2>1, <2>4, <1>2, AppendNew
      <4> QED BY <4>2, <3>1
    <3> HIDE DEF Early
    <3> QED BY <3>2, <3>3, <2>1, <2>2, <1>4
  <2> QED BY <2>3, <2>4
<1>5. n \in P
  <2> HIDE DEF P
  <2>1. 0..n \subseteq P BY <1>2, <1>3, <1>4, Along
  <2> QED BY <2>1, <1>2
<1>6. Early(n) = Range(cols)
  BY <1>2 DEF Range
<1>7. ASSUME cols # <<>> PROVE Extended(list, cols) # <<>>
  <2>1. cols[1] \in Range(cols) BY <1>7 DEF Range
  <2>2. Range(Extended(list, cols)) # {} BY <2>1, <1>1, <1>5, <1>6
  <2> QED BY <2>2 DEF Range
<1> QED BY <1>1, <1>2, <1>5, <1>6, <1>7

\* A list with a new column put at a place.
LEMMA InsertFacts ==
  ASSUME NEW list \in Seq(Cols), NEW c \in Cols, NEW i \in 1..(Len(list) + 1)
  PROVE  /\ InsertAt(list, i, c) \in Seq(Cols)
         /\ Range(InsertAt(list, i, c)) = Range(list) \cup {c}
         /\ IsInjective(list) /\ c \notin Range(list) => IsInjective(InsertAt(list, i, c))
<1> DEFINE n == Len(list)
<1>1. n \in Nat /\ DOMAIN list = 1..n /\ \A j \in 1..n : list[j] \in Cols
  OBVIOUS
<1>2. PICK l : l = SubSeq(list, 1, i - 1) BY Zenon
<1>3. l \in Seq(Cols) /\ Len(l) = i - 1 /\ \A j \in 1..(i - 1) : l[j] = list[j]
  BY <1>1, <1>2
<1>4. PICK r : r = SubSeq(list, i, n) BY Zenon
<1>5. r \in Seq(Cols) /\ Len(r) = n - i + 1 /\ \A j \in 1..(n - i + 1) : r[j] = list[i + j - 1]
  BY <1>1, <1>4
<1>6. PICK g : g = l \o <<c>> \o r BY Zenon
<1>7. g \in Seq(Cols) /\ Len(g) = n + 1 /\ DOMAIN g = 1..(n + 1)
  BY <1>1, <1>3, <1>5, <1>6
<1>8. /\ \A j \in 1..(i - 1) : g[j] = list[j]
      /\ g[i] = c
      /\ \A j \in (i + 1)..(n + 1) : g[j] = list[j - 1]
  <2>1. PICK h : h = l \o <<c>> BY Zenon
  <2>2. h \in Seq(Cols) /\ Len(h) = i /\ h[i] = c /\ \A j \in 1..(i - 1) : h[j] = list[j]
    BY <2>1, <1>3
  <2>3. g = h \o r BY <2>1, <1>6
  <2>4. \A j \in 1..(n + 1) : g[j] = IF j <= i THEN h[j] ELSE r[j - i]
    BY <2>2, <2>3, <1>5
  <2>5. \A j \in (i + 1)..(n + 1) : j - i \in 1..(n - i + 1) /\ i + (j - i) - 1 = j - 1
    OBVIOUS
  <2> HIDE DEF n
  <2> QED BY <2>2, <2>4, <2>5, <1>1, <1>5
<1>9. g = InsertAt(list, i, c)
  BY <1>2, <1>4, <1>6, Zenon DEF InsertAt
<1> HIDE DEF n
<1>10. \A j \in 1..(n + 1) : j \in 1..(i - 1) \/ j = i \/ j \in (i + 1)..(n + 1)
  BY <1>1
<1>11. \A j \in 1..n : (j \in 1..(i - 1) /\ j \in 1..(n + 1)) \/ (j + 1 \in (i + 1)..(n + 1) /\ (j + 1) - 1 = j /\ j + 1 \in 1..(n + 1))
  BY <1>1
<1>12. \A j \in (i + 1)..(n + 1) : j - 1 \in 1..n
  BY <1>1
<1>13. \A j \in 1..(i - 1) : j \in 1..n
  BY <1>1 DEF n
<1>14. i \in 1..(n + 1) BY DEF n
<1>15. Range(g) = Range(list) \cup {c}
  <2>1. Range(g) \subseteq Range(list) \cup {c}
    BY ZenonT(60), <1>1, <1>7, <1>8, <1>10, <1>12, <1>13 DEF Range
  <2>2. \A j \in 1..n : list[j] \in Range(g)
    BY <1>7, <1>8, <1>11 DEF Range
  <2>3. c \in Range(g)
    BY <1>7, <1>8, <1>14 DEF Range
  <2> QED BY <2>1, <2>2, <2>3, <1>1 DEF Range
<1>16. ASSUME IsInjective(list), c \notin Range(list) PROVE IsInjective(g)
  <2>1. SUFFICES ASSUME NEW j \in 1..(n + 1), NEW k \in 1..(n + 1), g[j] = g[k] PROVE j = k
    BY <1>7 DEF IsInjective
  <2>2. \A m \in 1..n : list[m] # c BY <1>1, <1>16 DEF Range
  <2>3. \A m, p \in 1..n : list[m] = list[p] => m = p BY <1>1, <1>16 DEF IsInjective
  <2>4. CASE j = i BY <2>1, <2>2, <2>4, <1>8, <1>10, <1>12, <1>13
  <2>5. CASE k = i BY <2>1, <2>2, <2>5, <1>8, <1>10, <1>12, <1>13
  <2>6. CASE j # i /\ k # i
    <3>1. (j \in 1..(i - 1) \/ j \in (i + 1)..(n + 1)) /\ (k \in 1..(i - 1) \/ k \in (i + 1)..(n + 1))
      BY <2>6, <1>10
    <3>2. CASE j \in 1..(i - 1) /\ k \in 1..(i - 1) BY <3>2, <2>1, <2>3, <1>8, <1>13
    <3>3. CASE j \in 1..(i - 1) /\ k \in (i + 1)..(n + 1)
      <4>1. j = k - 1 BY <3>3, <2>1, <2>3, <1>8, <1>12, <1>13
      <4> QED BY <4>1, <3>3, <1>1
    <3>4. CASE k \in 1..(i - 1) /\ j \in (i + 1)..(n + 1)
      <4>1. k = j - 1 BY <3>4, <2>1, <2>3, <1>8, <1>12, <1>13
      <4> QED BY <4>1, <3>4, <1>1
    <3>5. CASE j \in (i + 1)..(n + 1) /\ k \in (i + 1)..(n + 1)
      <4>1. j - 1 = k - 1 BY <3>5, <2>1, <2>3, <1>8, <1>12
      <4> QED BY <4>1, <1>1
    <3> QED BY <3>1, <3>2, <3>3, <3>4, <3>5
  <2> QED BY <2>4, <2>5, <2>6
<1> QED BY <1>7, <1>9, <1>15, <1>16

-----------------------------------------------------------------------------
(* Types                                                                   *)

Index == [name : Names, cols : ColumnLists, unique : BOOLEAN]
Schema ==
  [order : Seq(Cols), pk : Seq(Cols), unique : SUBSET ColumnLists, indexes : SUBSET Index, fks : SUBSET Foreign]

\* The lists are finitely many; and, if the schema is whole, the foreign keys have a
\* name each, and an index PRIMARY is over the columns of the primary key.
IndexedKey(s) == \A x \in s.indexes : x.name = Primary => Range(x.cols) = Range(s.pk)
Orderly(s, whole) ==
  /\ IsFiniteSet(s.unique) /\ IsFiniteSet(s.indexes) /\ IsFiniteSet(s.fks)
  /\ whole => \A f, g \in s.fks : f.name = g.name => f = g
  /\ whole /\ PrimaryIsReserved => IndexedKey(s)
Paired(s) == \A f \in s.fks : Len(f.cols) = Len(f.refcols)

\* The schemas that statements make; and, if not whole, those that a crash leaves.
Schemas(whole) ==
  {s \in Schema : /\ IsInjective(s.order) /\ Orderly(s, whole) /\ Paired(s)
                  /\ whole /\ PlainKeys => NamesColumns(s)}
GoodSchema == Schemas(FALSE)

Key == Seq(Nat \cup {Absent})
Row == [Cols -> Vals \cup {Absent}]
Rowset == {r \in UNION {[K -> Row] : K \in SUBSET Key} : IsFiniteSet(DOMAIN r)}

\* What a part of a schema is a set of.
Members(p) ==
  CASE p = "order" -> {o \in Seq(Cols) : IsInjective(o)} [] p \in {"columns", "pk"} -> Cols
    [] p = "unique" -> ColumnLists [] p = "indexes" -> Index [] p = "fks" -> {f \in Foreign : Len(f.cols) = Len(f.refcols)}
Fin(S) == {F \in SUBSET S : IsFiniteSet(F)}
Partset ==
  {p \in [Range(Parts) -> UNION {Fin(Members(q)) : q \in Range(Parts)}] :
     \A q \in Range(Parts) : p[q] \in Fin(Members(q))}

Table == [schema : GoodSchema, rows : Rowset]
Entry == [known : BOOLEAN, parts : Partset, keys : SUBSET Key, rows : Rowset]
Command ==
  [op : {"know", "forget", "unfile"}, table : Tables]
  \cup [op : {"delete"}, table : Tables, part : Range(Parts)]
  \cup {w \in [op : {"add"}, table : Tables, part : Range(Parts), member : UNION {Members(q) : q \in Range(Parts)}] :
          w.member \in Members(w.part)}
  \cup [op : {"file", "clear", "begin"}, table : Tables, key : Key]
  \cup [op : {"field"}, table : Tables, key : Key, col : Cols, value : Vals \cup {Absent}]

\* The schemas of the tables that no crash tore are whole.
Untorn == \A t \in Tables \ torn : \A n \in {mem[t], before[t]} : n # None => n.schema \in Schemas(TRUE)

TypeInv ==
  /\ mem \in [Tables -> Table \cup {None}] /\ before \in [Tables -> Table \cup {None}]
  /\ store \in [Tables -> Entry] /\ todo \in Seq(Command)
  /\ Untorn

\* A schema that is whole is one that a crash may leave.
LEMMA GoodOfWhole ==
  ASSUME NEW w
  PROVE  Schemas(w) \subseteq GoodSchema
BY DEF GoodSchema, Schemas, Orderly

\* None is not a schema, a table or a name of a list.
LEMMA NoneFacts ==
  /\ \A s \in Schema : s # None
  /\ \A m \in Table : m # None
<1>1. DOMAIN None = {"none"} BY DEF None
<1>2. \A s \in Schema : "order" \in DOMAIN s BY DEF Schema
<1>3. \A m \in Table : "rows" \in DOMAIN m BY DEF Table
<1>4. "order" # "none" /\ "rows" # "none" OBVIOUS
<1> QED BY <1>1, <1>2, <1>3, <1>4

\* A list of columns is one of at least one column.
LEMMA ListFacts ==
  ASSUME NEW l \in ColumnLists
  PROVE  l \in Seq(Cols) /\ l # <<>> /\ Len(l) # 0 /\ l[1] \in Cols /\ Range(l) \subseteq Cols
BY RangeOfSeq DEF ColumnLists

\* What the operations on a schema change of it, and what they leave.
LEMMA AddIndexFacts ==
  ASSUME NEW s \in Schema, NEW x \in Index
  PROVE  LET a == AddIndex(s, x)
         IN a \in Schema /\ a.order = s.order /\ a.pk = s.pk /\ a.unique = s.unique /\ a.fks = s.fks
            /\ a.indexes \subseteq s.indexes \cup {x}
BY DEF AddIndex, Schema

LEMMA AddUniqueFacts ==
  ASSUME NEW s \in Schema, NEW name \in Names \cup {None}, NEW cols \in ColumnLists
  PROVE  LET a == AddUnique(s, name, cols)
         IN a \in Schema /\ a.order = s.order /\ a.pk = s.pk /\ a.fks = s.fks
            /\ a.unique = s.unique \cup {cols}
            /\ \A x \in a.indexes : x \in s.indexes \/ x.cols = cols
<1> DEFINE x == [name |-> IF name = None THEN cols[1] ELSE name, cols |-> cols, unique |-> TRUE]
           b == [s EXCEPT !.unique = @ \cup {cols}]
<1>1. x \in Index
  BY ListFacts, BoundsAssumption DEF Index
<1>2. b \in Schema /\ b.order = s.order /\ b.pk = s.pk /\ b.fks = s.fks /\ b.unique = s.unique \cup {cols}
      /\ b.indexes = s.indexes
  BY DEF Schema
<1>3. x.cols = cols OBVIOUS
<1>4. AddUnique(s, name, cols) = AddIndex(b, x)
  BY DEF AddUnique
<1> HIDE DEF x, b
<1> QED BY <1>1, <1>2, <1>3, <1>4, AddIndexFacts

LEMMA AddPrimaryFacts ==
  ASSUME NEW s \in Schema, NEW cols \in Seq(Cols)
  PROVE  LET a == AddPrimary(s, cols)
         IN a \in Schema /\ a.order = s.order /\ a.pk = Extended(s.pk, cols) /\ a.fks = s.fks
            /\ a.unique = s.unique /\ \A x \in a.indexes : x \in s.indexes \/ x.cols = a.pk
<1> DEFINE pk == Extended(s.pk, cols)
           t == [s EXCEPT !.pk = pk, !.indexes = {x \in @ : x.name # Primary}]
           x == [name |-> Primary, cols |-> pk, unique |-> TRUE]
<1>1. s.pk \in Seq(Cols) BY DEF Schema
<1>2. pk \in Seq(Cols) BY <1>1, ExtendedFacts
<1> HIDE DEF pk
<1>3. t \in Schema /\ t.order = s.order /\ t.pk = pk /\ t.fks = s.fks /\ t.unique = s.unique
      /\ t.indexes \subseteq s.indexes
  BY <1>2 DEF Schema
<1>4. ASSUME pk # <<>> PROVE x \in Index
  BY <1>2, <1>4, BoundsAssumption DEF Index, ColumnLists
<1>5. AddPrimary(s, cols) = IF pk = <<>> THEN t ELSE AddIndex(t, x)
  BY DEF AddPrimary, pk
<1>6. x.cols = pk OBVIOUS
<1> HIDE DEF t, x
<1> QED BY <1>3, <1>4, <1>5, <1>6, AddIndexFacts DEF pk

LEMMA AddForeignFacts ==
  ASSUME NEW s \in Schema, NEW f \in Foreign
  PROVE  LET a == AddForeign(s, f)
         IN a \in Schema /\ a.order = s.order /\ a.pk = s.pk /\ a.unique = s.unique /\ a.indexes = s.indexes
BY DEF AddForeign, Schema

\* Dropping makes the metadata less.
LEMMA DropPrimaryFacts ==
  ASSUME NEW s \in Schema
  PROVE  LET d == DropPrimary(s)
         IN d \in Schema /\ d.order = s.order /\ d.pk = <<>> /\ d.unique = s.unique
            /\ d.indexes \subseteq s.indexes /\ d.fks = s.fks
<1>1. PICK e \in Seq(Cols) : e = <<>>
  <2>1. <<>> \in Seq(Cols) OBVIOUS
  <2> QED BY <2>1, Zenon
<1>2. DropPrimary(s) = [s EXCEPT !.pk = e, !.indexes = {x \in @ : x.name # Primary}]
  BY <1>1 DEF DropPrimary
<1>3. LET d == DropPrimary(s)
      IN d \in Schema /\ d.order = s.order /\ d.pk = e /\ d.unique = s.unique
         /\ d.indexes \subseteq s.indexes /\ d.fks = s.fks
  BY <1>2 DEF Schema
<1> QED BY <1>1, <1>3

LEMMA DropUniqueFacts ==
  ASSUME NEW s \in Schema, NEW name
  PROVE  LET d == DropUnique(s, name)
         IN d \in Schema /\ d.order = s.order /\ d.pk = s.pk /\ d.unique \subseteq s.unique
            /\ d.indexes \subseteq s.indexes /\ d.fks = s.fks
BY DEF DropUnique, Schema

LEMMA DropForeignFacts ==
  ASSUME NEW s \in Schema, NEW name
  PROVE  LET d == DropForeign(s, name)
         IN d \in Schema /\ d.order = s.order /\ d.pk = s.pk /\ d.unique = s.unique
            /\ d.indexes = s.indexes /\ d.fks \subseteq s.fks
BY DEF DropForeign, Schema

LEMMA DropColumnFacts ==
  ASSUME NEW s \in Schema, NEW c
  PROVE  LET d == DropColumn(s, c)
         IN d \in Schema /\ d.order = Less(s.order, c) /\ d.pk = Less(s.pk, c)
<1>1. Less(s.order, c) \in Seq(Cols) /\ Less(s.pk, c) \in Seq(Cols)
  BY LessFacts DEF Schema
<1>2. {Less(u, c) : u \in s.unique} \ {<<>>} \in SUBSET ColumnLists
  <2>1. \A u \in s.unique : u \in Seq(Cols) BY ListFacts DEF Schema
  <2> QED BY <2>1, LessFacts DEF ColumnLists
<1>3. {x \in {[x EXCEPT !.cols = Less(@, c)] : x \in s.indexes} : x.cols # <<>>} \in SUBSET Index
  <2>1. SUFFICES ASSUME NEW x \in s.indexes, Less(x.cols, c) # <<>>
                 PROVE  [x EXCEPT !.cols = Less(@, c)] \in Index
    BY DEF Schema, Index
  <2>2. x \in Index /\ x.cols \in Seq(Cols) BY ListFacts DEF Schema, Index
  <2>3. Less(x.cols, c) \in ColumnLists BY <2>1, <2>2, LessFacts DEF ColumnLists
  <2> QED BY <2>2, <2>3 DEF Index
<1>4. {f \in {[f EXCEPT !.cols = Less(@, c)] : f \in s.fks} : f.cols # <<>>} \in SUBSET Foreign
  <2>1. SUFFICES ASSUME NEW f \in s.fks, Less(f.cols, c) # <<>>
                 PROVE  [f EXCEPT !.cols = Less(@, c)] \in Foreign
    BY DEF Schema, Foreign
  <2>2. f \in Foreign /\ f.cols \in Seq(Cols) BY ListFacts DEF Schema, Foreign
  <2>3. Less(f.cols, c) \in ColumnLists BY <2>1, <2>2, LessFacts DEF ColumnLists
  <2> QED BY <2>2, <2>3 DEF Foreign
<1> QED BY <1>1, <1>2, <1>3, <1>4 DEF DropColumn, Schema

LEMMA RenameColumnFacts ==
  ASSUME NEW s \in Schema, NEW old \in Cols, NEW new \in Cols
  PROVE  LET r == RenameColumn(s, old, new)
         IN r \in Schema /\ r.order = Renamed(s.order, old, new) /\ r.pk = Renamed(s.pk, old, new)
<1>1. Renamed(s.order, old, new) \in Seq(Cols) /\ Renamed(s.pk, old, new) \in Seq(Cols)
  BY RenamedFacts DEF Schema
<1>2. \A l \in ColumnLists : Renamed(l, old, new) \in ColumnLists
  <2>1. SUFFICES ASSUME NEW l \in ColumnLists PROVE Renamed(l, old, new) \in ColumnLists OBVIOUS
  <2>2. PICK r : r = Renamed(l, old, new) OBVIOUS
  <2>3. r \in Seq(Cols) /\ Len(r) # 0 BY <2>2, ListFacts, RenamedFacts
  <2> QED BY <2>2, <2>3 DEF ColumnLists
<1>3. {Renamed(u, old, new) : u \in s.unique} \in SUBSET ColumnLists
  BY <1>2 DEF Schema
<1>4. {[x EXCEPT !.cols = Renamed(@, old, new)] : x \in s.indexes} \in SUBSET Index
  BY <1>2 DEF Schema, Index
<1>5. {[f EXCEPT !.cols = Renamed(@, old, new)] : f \in s.fks} \in SUBSET Foreign
  BY <1>2 DEF Schema, Foreign
<1> QED BY <1>1, <1>3, <1>4, <1>5 DEF RenameColumn, Schema

\* A column at its new place: the order has the same columns.
LEMMA PlacedFacts ==
  ASSUME NEW s \in Schema, NEW c \in Columns(s), NEW pos, Places(s, c, pos)
  PROVE  LET p == Placed(s, c, pos)
         IN /\ p \in Schema /\ p.pk = s.pk /\ p.unique = s.unique /\ p.indexes = s.indexes /\ p.fks = s.fks
            /\ Columns(p) = Columns(s)
            /\ IsInjective(s.order) => IsInjective(p.order)
<1> DEFINE others == Less(s.order, c)
           at == CHOOSE i \in 1..Len(others) : others[i] = pos
<1>1. s.order \in Seq(Cols) /\ c \in Range(s.order) /\ c \in Cols
  BY RangeOfSeq DEF Schema, Columns
<1>2. others \in Seq(Cols) /\ Range(others) = Columns(s) \ {c} /\ (IsInjective(s.order) => IsInjective(others))
  BY <1>1, LessFacts DEF Columns
<1>3. CASE pos = "end"
  <2>1. Placed(s, c, pos) = s BY <1>3 DEF Placed
  <2> QED BY <2>1
<1>4. CASE pos # "end" /\ pos = "first"
  <2>1. PICK l : l = <<c>> \o others BY Zenon
  <2>2. Placed(s, c, pos) = [s EXCEPT !.order = l] BY <1>4, <2>1 DEF Placed
  <2>3. l = InsertAt(others, 1, c)
    <3>1. InsertAt(others, 1, c) = SubSeq(others, 1, 0) \o <<c>> \o SubSeq(others, 1, Len(others))
      BY DEF InsertAt
    <3>2. SubSeq(others, 1, 0) = <<>> /\ SubSeq(others, 1, Len(others)) = others
      <4> HIDE DEF others
      <4> QED BY <1>2, SubSeqFull, SubSeqEmpty
    <3>3. <<>> \o <<c>> = <<c>> BY <1>1
    <3> QED BY <3>1, <3>2, <3>3, <2>1, Zenon
  <2>4. l \in Seq(Cols) /\ Range(l) = Range(others) \cup {c} /\ (IsInjective(others) => IsInjective(l))
    <3> HIDE DEF others
    <3>1. 1 \in 1..(Len(others) + 1) BY <1>2
    <3> QED BY <3>1, <2>3, <1>1, <1>2, InsertFacts
  <2> HIDE DEF others
  <2> QED BY <2>2, <2>4, <1>1, <1>2 DEF Schema, Columns
<1>5. CASE pos # "end" /\ pos # "first"
  <2>1. pos \in Range(others) BY <1>2, <1>5 DEF Places
  <2>2. \E i \in 1..Len(others) : others[i] = pos
    <3> HIDE DEF others
    <3> QED BY <2>1, <1>2 DEF Range
  <2>3. at \in 1..Len(others) BY <2>2
  <2> HIDE DEF at, others
  <2>4. at + 1 \in 1..(Len(others) + 1) BY <2>3, <1>2
  <2>5. PICK l : l = InsertAt(others, at + 1, c) BY Zenon
  <2>6. Placed(s, c, pos) = [s EXCEPT !.order = l] BY <1>5, <2>5 DEF Placed, at, others
  <2>7. l \in Seq(Cols) /\ Range(l) = Range(others) \cup {c} /\ (IsInjective(others) => IsInjective(l))
    BY <2>4, <2>5, <1>1, <1>2, InsertFacts
  <2> QED BY <2>6, <2>7, <1>1, <1>2 DEF Schema, Columns
<1> QED BY <1>3, <1>4, <1>5

\* The elements of a finite set in a list, each once.
LEMMA SetToSeqFacts ==
  ASSUME NEW S, IsFiniteSet(S)
  PROVE  /\ SetToSeq(S) \in Seq(S) /\ IsInjective(SetToSeq(S)) /\ Range(SetToSeq(S)) = S
         /\ Len(SetToSeq(S)) = Cardinality(S)
<1> DEFINE n == Cardinality(S)
<1>1. n \in Nat /\ ExistsBijection(1..n, S)
  BY FS_CardinalityType
<1>2. \E f \in [1..n -> S] : IsInjective(f)
  BY <1>1 DEF ExistsBijection, Bijection, Injection
<1>3. PICK f : f = SetToSeq(S) OBVIOUS
<1>4. f \in [1..n -> S] /\ IsInjective(f)
  BY <1>2, <1>3, Zenon DEF SetToSeq
<1> HIDE DEF n
<1>5. f \in Seq(S) /\ Len(f) = n /\ DOMAIN f = 1..n
  BY <1>1, <1>4
<1>6. IsFiniteSet(1..n) /\ Cardinality(1..n) = n
  BY <1>1, FS_Interval
<1>7. f \in Injection(1..n, S)
  BY <1>4 DEF Injection
<1>8. f \in Surjection(1..n, S)
  BY <1>6, <1>7, FS_Injection DEF n
<1>9. Range(f) = S
  BY <1>4, <1>8 DEF Surjection, Range
<1> QED BY <1>3, <1>4, <1>5, <1>9 DEF n

\* What InTurn computes, part by part.
LEMMA InTurnDef ==
  ASSUME NEW X, NEW parts \in Seq(Seq(X))
  PROVE  \E f \in [0..Len(parts) -> Seq(X)] :
           /\ InTurn(parts) = f[Len(parts)] /\ f[0] = <<>>
           /\ \A i \in 1..Len(parts) : f[i] = f[i - 1] \o parts[i]
<1> DEFINE n == Len(parts)
           V == Seq(X)
           G == [i \in 1..n |-> [v \in V |-> v \o parts[i]]]
           Step(f) == [i \in 0..n |-> IF i = 0 THEN <<>> ELSE f[i - 1] \o parts[i]]
<1>1. n \in Nat /\ <<>> \in V /\ n \in 0..n /\ \A i \in 1..n : parts[i] \in V
  OBVIOUS
<1>2. G \in [1..n -> [V -> V]]
  <2>1. \A i \in 1..n : \A v \in V : v \o parts[i] \in V
    BY <1>1, ConcatProperties
  <2> HIDE DEF V, n
  <2> QED BY <2>1
<1>3. PICK f \in [0..n -> V] : f[0] = <<>> /\ \A i \in 1..n : f[i] = G[i][f[i - 1]]
  <2>1. n \in Nat /\ <<>> \in V BY <1>1
  <2> HIDE DEF G, n, V
  <2>2. Chains(V, <<>>, n, G) # {} BY <2>1, <1>2, Recursion
  <2> QED BY <2>2 DEF Chains
<1>4. ASSUME NEW i \in 1..n PROVE f[i] = f[i - 1] \o parts[i]
  <2>1. i - 1 \in 0..n OBVIOUS
  <2>2. f[i - 1] \in V BY <2>1
  <2> HIDE DEF V, n
  <2> QED BY <2>2, <1>3
<1>5. f = Step(f)
  <2>1. ASSUME NEW i \in 0..n PROVE f[i] = Step(f)[i]
    <3>1. CASE i = 0 BY <3>1, <1>3
    <3>2. CASE i # 0
      <4>1. i \in 1..n BY <3>2
      <4>2. Step(f)[i] = f[i - 1] \o parts[i] BY <3>2
      <4> HIDE DEF n, G, Step
      <4> QED BY <4>1, <4>2, <1>4
    <3> QED BY <3>1, <3>2
  <2> HIDE DEF n, G
  <2> QED BY <2>1
<1>6. \E g : g = Step(g) BY <1>5
<1>7. PICK g : g = Step(g) /\ g = CHOOSE h : h = Step(h)
  BY <1>6, Zenon
<1>8. \A i \in 0..n : g[i] = f[i]
  <2>1. g[0] = f[0] BY <1>3, <1>7
  <2>2. ASSUME NEW i \in 1..n, g[i - 1] = f[i - 1] PROVE g[i] = f[i]
    <3>1. i \in 0..n /\ i # 0 OBVIOUS
    <3>2. Step(g)[i] = g[i - 1] \o parts[i] BY <3>1
    <3> HIDE DEF n, Step
    <3>3. g[i] = g[i - 1] \o parts[i] BY <3>2, <1>7
    <3> QED BY <3>3, <2>2, <1>4
  <2>3. n \in Nat OBVIOUS
  <2> HIDE DEF n, Step
  <2> QED BY ZenonT(60), <2>1, <2>2, <2>3, SameChain
<1>9. InTurn(parts) = g[n]
  BY <1>7, Zenon DEF InTurn
<1>10. InTurn(parts) = f[n]
  BY <1>1, <1>8, <1>9
<1> QED BY <1>3, <1>4, <1>10

-----------------------------------------------------------------------------
(* What a sequence of commands makes of the keys of a table                *)

\* The keys x of table t after the command w, which may be another table's.
Done(x, t, w) == IF w.table = t THEN Sent(x, w) ELSE x

\* The commands ws lead from x to y, and all the way the keys of t are in P.
Leads(x, t, ws, y, P) ==
  \E f \in [0..Len(ws) -> P] :
    f[0] = x /\ f[Len(ws)] = y /\ \A i \in 1..Len(ws) : f[i] = Done(f[i - 1], t, ws[i])

\* Commands of other tables lead nowhere.
LEMMA LeadsNone ==
  ASSUME NEW P, NEW x \in P, NEW t, NEW X, NEW ws \in Seq(X), \A i \in 1..Len(ws) : ws[i].table # t
  PROVE  Leads(x, t, ws, x, P)
<1> DEFINE f == [i \in 0..Len(ws) |-> x]
<1>1. f \in [0..Len(ws) -> P] /\ f[0] = x /\ f[Len(ws)] = x OBVIOUS
<1>2. \A i \in 1..Len(ws) : f[i] = Done(f[i - 1], t, ws[i]) BY DEF Done
<1> HIDE DEF f
<1> QED BY <1>1, <1>2 DEF Leads

\* A larger set of keys on the way.
LEMMA LeadsMore ==
  ASSUME NEW x, NEW y, NEW t, NEW ws, NEW P, NEW Q, P \subseteq Q, Leads(x, t, ws, y, P)
  PROVE  Leads(x, t, ws, y, Q)
<1>1. PICK f \in [0..Len(ws) -> P] :
        f[0] = x /\ f[Len(ws)] = y /\ \A i \in 1..Len(ws) : f[i] = Done(f[i - 1], t, ws[i])
  BY DEF Leads
<1>2. f \in [0..Len(ws) -> Q] OBVIOUS
<1> QED BY <1>1, <1>2 DEF Leads

\* Both ends are on the way.
LEMMA LeadsEnds ==
  ASSUME NEW x, NEW y, NEW t, NEW X, NEW ws \in Seq(X), NEW P, Leads(x, t, ws, y, P)
  PROVE  x \in P /\ y \in P /\ (ws = <<>> => x = y)
<1>1. PICK f \in [0..Len(ws) -> P] : f[0] = x /\ f[Len(ws)] = y
  BY DEF Leads
<1>2. 0 \in 0..Len(ws) /\ Len(ws) \in 0..Len(ws) /\ (ws = <<>> => Len(ws) = 0) OBVIOUS
<1> QED BY <1>1, <1>2

\* One command.
LEMMA LeadsOne ==
  ASSUME NEW P, NEW x \in P, NEW t, NEW w, Done(x, t, w) \in P
  PROVE  Leads(x, t, <<w>>, Done(x, t, w), P)
<1> DEFINE f == [i \in 0..1 |-> IF i = 0 THEN x ELSE Done(x, t, w)]
<1>1. Len(<<w>>) = 1 /\ <<w>>[1] = w OBVIOUS
<1>2. f \in [0..1 -> P] /\ f[0] = x /\ f[1] = Done(x, t, w) OBVIOUS
<1>3. \A i \in 1..1 : f[i] = Done(f[i - 1], t, <<w>>[i])
  <2>1. \A i \in 1..1 : i = 1 /\ i - 1 = 0 OBVIOUS
  <2> HIDE DEF f
  <2> QED BY <2>1, <1>1, <1>2
<1> HIDE DEF f
<1> QED BY <1>1, <1>2, <1>3 DEF Leads

\* Two commands.
LEMMA LeadsTwo ==
  ASSUME NEW P, NEW x \in P, NEW t, NEW v, NEW w,
         Done(x, t, v) \in P, Done(Done(x, t, v), t, w) \in P
  PROVE  Leads(x, t, <<v, w>>, Done(Done(x, t, v), t, w), P)
<1> DEFINE y == Done(x, t, v)
           z == Done(y, t, w)
           f == [i \in 0..2 |-> IF i = 0 THEN x ELSE IF i = 1 THEN y ELSE z]
<1>1. Len(<<v, w>>) = 2 /\ <<v, w>>[1] = v /\ <<v, w>>[2] = w OBVIOUS
<1>2. f \in [0..2 -> P] /\ f[0] = x /\ f[1] = y /\ f[2] = z OBVIOUS
<1>3. \A i \in 1..2 : f[i] = Done(f[i - 1], t, <<v, w>>[i])
  <2>1. \A i \in 1..2 : (i = 1 /\ i - 1 = 0) \/ (i = 2 /\ i - 1 = 1) OBVIOUS
  <2> HIDE DEF f
  <2> QED BY <2>1, <1>1, <1>2
<1> HIDE DEF f
<1> QED BY <1>1, <1>2, <1>3 DEF Leads

\* Two lists of commands.
LEMMA LeadsConcat ==
  ASSUME NEW x, NEW y, NEW z, NEW t, NEW X, NEW u \in Seq(X), NEW v \in Seq(X), NEW P,
         Leads(x, t, u, y, P), Leads(y, t, v, z, P)
  PROVE  Leads(x, t, u \o v, z, P)
<1>1. PICK f \in [0..Len(u) -> P] :
        f[0] = x /\ f[Len(u)] = y /\ \A i \in 1..Len(u) : f[i] = Done(f[i - 1], t, u[i])
  BY DEF Leads
<1>2. PICK g \in [0..Len(v) -> P] :
        g[0] = y /\ g[Len(v)] = z /\ \A i \in 1..Len(v) : g[i] = Done(g[i - 1], t, v[i])
  BY DEF Leads
<1> DEFINE m == Len(u)
           n == Len(v)
<1>3. PICK ws : ws = u \o v OBVIOUS
<1>4. m \in Nat /\ n \in Nat /\ Len(ws) = m + n
      /\ \A i \in 1..(m + n) : ws[i] = IF i <= m THEN u[i] ELSE v[i - m]
  BY <1>3, ConcatProperties
<1> HIDE DEF m, n
<1> DEFINE h == [i \in 0..(m + n) |-> IF i <= m THEN f[i] ELSE g[i - m]]
<1>5. h \in [0..(m + n) -> P]
  <2>1. \A i \in 0..(m + n) : IF i <= m THEN i \in 0..m ELSE i - m \in 0..n BY <1>4
  <2>2. f \in [0..m -> P] /\ g \in [0..n -> P] BY DEF m, n
  <2> QED BY <2>1, <2>2
<1>6. h[0] = x BY <1>1, <1>4
<1>7. h[m + n] = z
  <2>1. CASE n = 0
    <3>1. h[m + n] = f[m] BY <2>1, <1>4
    <3> QED BY <3>1, <2>1, <1>1, <1>2 DEF m, n
  <2>2. CASE n # 0
    <3>1. h[m + n] = g[n] BY <2>2, <1>4
    <3> QED BY <3>1, <1>2 DEF n
  <2> QED BY <2>1, <2>2
<1>8. ASSUME NEW i \in 1..(m + n) PROVE h[i] = Done(h[i - 1], t, ws[i])
  <2>1. CASE i <= m
    <3>1. h[i] = f[i] /\ h[i - 1] = f[i - 1] /\ ws[i] = u[i] BY <2>1, <1>4
    <3>2. i \in 1..m BY <2>1, <1>4
    <3> HIDE DEF h
    <3> QED BY <3>1, <3>2, <1>1 DEF m
  <2>2. CASE i = m + 1
    <3>1. h[i] = g[1] /\ h[i - 1] = f[m] /\ ws[i] = v[1] BY <2>2, <1>4
    <3>2. 1 \in 1..n /\ 1 - 1 = 0 BY <2>2, <1>4
    <3>3. g[1] = Done(g[0], t, v[1]) BY <3>2, <1>2 DEF n
    <3> HIDE DEF h
    <3> QED BY <3>1, <3>3, <1>1, <1>2 DEF m
  <2>3. CASE i > m + 1
    <3>1. h[i] = g[i - m] /\ h[i - 1] = g[(i - m) - 1] /\ ws[i] = v[i - m] BY <2>3, <1>4
    <3>2. i - m \in 1..n BY <2>3, <1>4
    <3> HIDE DEF h
    <3> QED BY <3>1, <3>2, <1>2 DEF n
  <2> QED BY <2>1, <2>2, <2>3, <1>4
<1> HIDE DEF h
<1> QED BY <1>3, <1>4, <1>5, <1>6, <1>7, <1>8 DEF Leads

\* Commands one after the other, by what the keys are when some of them are done.
LEMMA LeadsEach ==
  ASSUME NEW X, NEW ws \in Seq(X), NEW t, NEW P, NEW Y \in [0..Len(ws) -> SUBSET P], NEW x \in Y[0],
         \A i \in 1..Len(ws) : \A y \in Y[i - 1] : Done(y, t, ws[i]) \in Y[i]
  PROVE  \E y \in Y[Len(ws)] : Leads(x, t, ws, y, P)
<1> DEFINE n == Len(ws)
           G == [i \in 1..n |-> [v \in P |-> IF Done(v, t, ws[i]) \in P THEN Done(v, t, ws[i]) ELSE v]]
<1>1. n \in Nat /\ n \in 0..n /\ 0 \in 0..n OBVIOUS
<1>2. \A i \in 1..n : i \in 0..n /\ i - 1 \in 0..n /\ \A y \in Y[i - 1] : Done(y, t, ws[i]) \in Y[i]
  OBVIOUS
<1>3. Y \in [0..n -> SUBSET P] /\ x \in P BY <1>1
<1>4. G \in [1..n -> [P -> P]] OBVIOUS
<1>5. \A i \in 1..n, v \in P : G[i][v] = IF Done(v, t, ws[i]) \in P THEN Done(v, t, ws[i]) ELSE v OBVIOUS
<1> HIDE DEF n, G
<1>6. PICK f \in [0..n -> P] : f[0] = x /\ \A i \in 1..n : f[i] = G[i][f[i - 1]]
  <2>1. Chains(P, x, n, G) # {} BY <1>1, <1>3, <1>4, Recursion
  <2> QED BY <2>1 DEF Chains
<1> DEFINE S == {i \in 0..n : f[i] \in Y[i]}
<1>7. ASSUME NEW i \in 1..n, f[i - 1] \in Y[i - 1] PROVE f[i] = Done(f[i - 1], t, ws[i]) /\ f[i] \in Y[i]
  <2>1. Done(f[i - 1], t, ws[i]) \in Y[i] /\ Y[i] \subseteq P /\ f[i - 1] \in P BY <1>2, <1>3, <1>6, <1>7
  <2> QED BY <2>1, <1>5, <1>6
<1>8. \A i \in 1..n : i - 1 \in S => i \in S BY <1>2, <1>7
<1>9. 0 \in S BY <1>1, <1>6
<1>10. \A i \in 0..n : f[i] \in Y[i]
  <2> HIDE DEF S
  <2>1. 0..n \subseteq S BY <1>1, <1>8, <1>9, Along
  <2> QED BY <2>1 DEF S
<1>11. \A i \in 1..n : f[i] = Done(f[i - 1], t, ws[i]) BY <1>2, <1>7, <1>10
<1>12. Leads(x, t, ws, f[n], P) BY <1>6, <1>11 DEF Leads, n
<1>13. f[n] \in Y[n] BY <1>1, <1>10
<1> QED BY <1>12, <1>13 DEF n

\* Parts in turn, by what the keys are when some of them are done.
LEMMA LeadsInTurn ==
  ASSUME NEW X, NEW parts \in Seq(Seq(X)), NEW t, NEW P, NEW Y \in [0..Len(parts) -> SUBSET P], NEW x \in Y[0],
         \A i \in 1..Len(parts) : \A y \in Y[i - 1] : \E z \in Y[i] : Leads(y, t, parts[i], z, P)
  PROVE  \E y \in Y[Len(parts)] : Leads(x, t, InTurn(parts), y, P)
<1> DEFINE n == Len(parts)
<1>1. PICK f \in [0..n -> Seq(X)] :
        InTurn(parts) = f[n] /\ f[0] = <<>> /\ \A i \in 1..n : f[i] = f[i - 1] \o parts[i]
  BY InTurnDef
<1>2. n \in Nat /\ n \in 0..n /\ 0 \in 0..n /\ \A i \in 1..n : parts[i] \in Seq(X)
  OBVIOUS
<1>3. \A i \in 1..n : \A y \in Y[i - 1] : \E z \in Y[i] : Leads(y, t, parts[i], z, P)
  OBVIOUS
<1>4. \A i \in 0..n : Y[i] \subseteq P OBVIOUS
<1> HIDE DEF n
<1> DEFINE S == {i \in 0..n : \E y \in Y[i] : Leads(x, t, f[i], y, P)}
<1>5. 0 \in S
  <2>1. x \in P BY <1>2, <1>4
  <2>2. PICK e \in Seq(X) : e = f[0] BY <1>1, <1>2
  <2>3. Len(e) = 0 BY <2>2, <1>1
  <2>4. \A i \in 1..Len(e) : e[i].table # t BY <2>3
  <2>5. Leads(x, t, e, x, P) BY <2>1, <2>4, LeadsNone
  <2> QED BY <2>2, <2>5, <1>2
<1>6. ASSUME NEW i \in 1..n, i - 1 \in S PROVE i \in S
  <2>1. i - 1 \in 0..n /\ i \in 0..n BY <1>2
  <2>2. PICK y \in Y[i - 1] : Leads(x, t, f[i - 1], y, P) BY <1>6
  <2>3. PICK z \in Y[i] : Leads(y, t, parts[i], z, P) BY <1>3
  <2>4. f[i - 1] \in Seq(X) /\ parts[i] \in Seq(X) BY <2>1, <1>1, <1>2
  <2>5. Leads(x, t, f[i - 1] \o parts[i], z, P)
    BY <2>2, <2>3, <2>4, LeadsConcat
  <2> QED BY <2>1, <2>5, <1>1
<1>7. n \in S
  <2> HIDE DEF S
  <2>1. 0..n \subseteq S BY <1>2, <1>5, <1>6, Along
  <2> QED BY <2>1, <1>2
<1> QED BY <1>1, <1>7 DEF n

-----------------------------------------------------------------------------
(* Rows                                                                    *)

\* Sets of rows.
LEMMA RowsetIntro ==
  ASSUME NEW K \in SUBSET Key, IsFiniteSet(K), NEW r \in [K -> Row]
  PROVE  r \in Rowset /\ DOMAIN r = K
BY DEF Rowset

LEMMA RowsetElim ==
  ASSUME NEW r \in Rowset
  PROVE  r \in [DOMAIN r -> Row] /\ DOMAIN r \subseteq Key /\ IsFiniteSet(DOMAIN r)
BY DEF Rowset

LEMMA RowsetFacts ==
  ASSUME NEW r \in Rowset, NEW k \in Key, NEW d \in Row
  PROVE  /\ NoRows \in Rowset /\ DOMAIN NoRows = {}
         /\ Add(r, k, d) \in Rowset /\ DOMAIN Add(r, k, d) = DOMAIN r \cup {k}
         /\ Drop1(r, k) \in Rowset /\ DOMAIN Drop1(r, k) = DOMAIN r \ {k}
<1>1. NoRows \in Rowset /\ DOMAIN NoRows = {}
  <2>1. NoRows \in [{} -> Row] BY DEF NoRows
  <2> QED BY <2>1, FS_EmptySet, RowsetIntro
<1>2. Add(r, k, d) \in Rowset /\ DOMAIN Add(r, k, d) = DOMAIN r \cup {k}
  <2>1. Add(r, k, d) \in [DOMAIN r \cup {k} -> Row] BY RowsetElim DEF Add
  <2>2. IsFiniteSet(DOMAIN r \cup {k}) /\ DOMAIN r \cup {k} \in SUBSET Key BY RowsetElim, FS_AddElement
  <2> QED BY <2>1, <2>2, RowsetIntro
<1>3. Drop1(r, k) \in Rowset /\ DOMAIN Drop1(r, k) = DOMAIN r \ {k}
  <2>1. Drop1(r, k) \in [DOMAIN r \ {k} -> Row] BY RowsetElim DEF Drop1
  <2>2. IsFiniteSet(DOMAIN r \ {k}) /\ DOMAIN r \ {k} \in SUBSET Key BY RowsetElim, FS_RemoveElement
  <2> QED BY <2>1, <2>2, RowsetIntro
<1> QED BY <1>1, <1>2, <1>3

\* Row sets are equal if they have the same keys and the same rows.
LEMMA RowsetEqual ==
  ASSUME NEW p \in Rowset, NEW r \in Rowset, DOMAIN p = DOMAIN r, \A k \in DOMAIN p : p[k] = r[k]
  PROVE  p = r
BY RowsetElim

LEMMA NoRowsIsEmpty ==
  ASSUME NEW r \in Rowset, DOMAIN r = {}
  PROVE  r = NoRows
BY RowsetElim DEF NoRows

-----------------------------------------------------------------------------
(* The commands for rows                                                   *)

\* The commands about a table; and those that leave it in the set of tables.
Of(t) == {w \in Command : w.table = t}
Own(t) == {w \in Of(t) : w.op # "forget"}

\* Commands in turn are of the types of their parts.
LEMMA InTurnType ==
  ASSUME NEW X, NEW parts \in Seq(Seq(X))
  PROVE  InTurn(parts) \in Seq(X)
<1>1. PICK f \in [0..Len(parts) -> Seq(X)] : InTurn(parts) = f[Len(parts)]
  BY InTurnDef
<1>2. Len(parts) \in 0..Len(parts) OBVIOUS
<1> QED BY <1>1, <1>2

\* A list of commands about a table is one of commands.
LEMMA OwnIsOf ==
  ASSUME NEW t
  PROVE  \A ws \in Seq(Own(t)) :
           /\ ws \in Seq(Of(t)) /\ ws \in Seq(Command)
           /\ \A i \in 1..Len(ws) : ws[i].table = t /\ ws[i].op # "forget"
<1>1. Own(t) \subseteq Of(t) /\ Own(t) \subseteq Command BY DEF Own, Of
<1>2. \A w \in Own(t) : w.table = t /\ w.op # "forget" BY DEF Own, Of
<1> HIDE DEF Own, Of
<1> QED BY <1>1, <1>2

LEMMA OfIsCommand ==
  ASSUME NEW t
  PROVE  \A ws \in Seq(Of(t)) : ws \in Seq(Command) /\ \A i \in 1..Len(ws) : ws[i].table = t
<1>1. Of(t) \subseteq Command BY DEF Of
<1>2. \A w \in Of(t) : w.table = t BY DEF Of
<1> HIDE DEF Of
<1> QED BY <1>1, <1>2

\* The columns of a row that have a value, in the order of the columns.
Given(d) == Only(Sorted, {c \in Cols : d[c] # Absent})

LEMMA GivenFacts ==
  ASSUME NEW d \in Row
  PROVE  Given(d) \in Seq(Cols) /\ Range(Given(d)) = {c \in Cols : d[c] # Absent}
BY OnlyFacts, SortedAssumption DEF Given

\* A row is written with commands about its table.
LEMMA RowCommand ==
  ASSUME NEW t \in Tables, NEW k \in Key, NEW d \in Row
  PROVE  /\ \A op \in {"file", "clear", "begin"} : [op |-> op, table |-> t, key |-> k] \in Own(t)
         /\ \A c \in Cols : [op |-> "field", table |-> t, key |-> k, col |-> c, value |-> d[c]] \in Own(t)
<1>1. \A op \in {"file", "clear", "begin"} : [op |-> op, table |-> t, key |-> k] \in Own(t)
  BY DEF Own, Of, Command
<1>2. \A c \in Cols : [op |-> "field", table |-> t, key |-> k, col |-> c, value |-> d[c]] \in Own(t)
  BY DEF Own, Of, Command, Row
<1> QED BY <1>1, <1>2

LEMMA RowCommands ==
  ASSUME NEW t \in Tables, NEW k \in Key, NEW d \in Row
  PROVE  ClearRow(t, k) \in Seq(Own(t)) /\ FillRow(t, k, d) \in Seq(Own(t)) /\ PutRow(t, k, d) \in Seq(Own(t))
<1>1. \A op \in {"file", "clear", "begin"} : [op |-> op, table |-> t, key |-> k] \in Own(t)
  BY RowCommand
<1>2. \A c \in Cols : [op |-> "field", table |-> t, key |-> k, col |-> c, value |-> d[c]] \in Own(t)
  BY RowCommand
<1> HIDE DEF Own
<1>3. ClearRow(t, k) \in Seq(Own(t))
  <2>1. PICK v \in Own(t) : v = [op |-> "file", table |-> t, key |-> k] BY <1>1
  <2>2. PICK w \in Own(t) : w = [op |-> "clear", table |-> t, key |-> k] BY <1>1
  <2>3. ClearRow(t, k) = <<v, w>> BY <2>1, <2>2, Zenon DEF ClearRow
  <2>4. <<v, w>> \in Seq(Own(t)) OBVIOUS
  <2> QED BY <2>3, <2>4, Zenon
<1>4. FillRow(t, k, d) \in Seq(Own(t))
  <2>1. PICK cols \in Seq(Cols) : cols = Given(d) BY GivenFacts
  <2>2. PICK b \in Own(t) : b = [op |-> "begin", table |-> t, key |-> k] BY <1>1
  <2>3. PICK fs : fs = [i \in DOMAIN cols |->
                        [op |-> "field", table |-> t, key |-> k, col |-> cols[i], value |-> d[cols[i]]]]
    OBVIOUS
  <2>4. \A i \in 1..Len(cols) : fs[i] \in Own(t) BY <2>3, <1>2
  <2>5. fs \in Seq(Own(t))
    <3>1. DOMAIN fs = 1..Len(cols) /\ fs = [i \in 1..Len(cols) |-> fs[i]] BY <2>3
    <3> QED BY <2>4, <3>1
  <2>6. FillRow(t, k, d) = <<b>> \o fs BY <2>1, <2>2, <2>3, Zenon DEF FillRow, Given
  <2>7. <<b>> \in Seq(Own(t)) OBVIOUS
  <2>8. <<b>> \o fs \in Seq(Own(t)) BY <2>5, <2>7, ConcatProperties
  <2> QED BY <2>6, <2>8, Zenon
<1>5. PutRow(t, k, d) \in Seq(Own(t))
  <2>1. ClearRow(t, k) \o FillRow(t, k, d) \in Seq(Own(t)) BY <1>3, <1>4, ConcatProperties
  <2> QED BY <2>1, Zenon DEF PutRow
<1> QED BY <1>3, <1>4, <1>5

\* The rows of PutRows in the order in which they are written.
Filing(t, r) == LET keys == SetToSeq(DOMAIN r) IN [i \in DOMAIN keys |-> PutRow(t, keys[i], r[keys[i]])]

LEMMA FilingFacts ==
  ASSUME NEW t \in Tables, NEW r \in Rowset
  PROVE  /\ Filing(t, r) \in Seq(Seq(Own(t))) /\ PutRows(t, r) = InTurn(Filing(t, r))
         /\ PutRows(t, r) \in Seq(Own(t))
         /\ Len(Filing(t, r)) = Len(SetToSeq(DOMAIN r))
         /\ \A i \in 1..Len(SetToSeq(DOMAIN r)) :
              Filing(t, r)[i] = PutRow(t, SetToSeq(DOMAIN r)[i], r[SetToSeq(DOMAIN r)[i]])
<1>1. PICK keys \in Seq(DOMAIN r) : keys = SetToSeq(DOMAIN r) BY RowsetElim, SetToSeqFacts
<1>2. \A k \in DOMAIN r : k \in Key /\ r[k] \in Row BY RowsetElim
<1>3. PICK parts : parts = [i \in 1..Len(keys) |-> PutRow(t, keys[i], r[keys[i]])] OBVIOUS
<1>4. parts = Filing(t, r)
  <2>1. DOMAIN keys = 1..Len(keys) OBVIOUS
  <2> QED BY <1>1, <1>3, <2>1, Zenon DEF Filing
<1>5. ASSUME NEW i \in 1..Len(keys) PROVE parts[i] \in Seq(Own(t))
  <2>1. PICK k \in DOMAIN r : k = keys[i] OBVIOUS
  <2>2. parts[i] = PutRow(t, k, r[k]) BY <1>3, <2>1
  <2> QED BY <1>2, <2>2, RowCommands
<1>6. parts \in Seq(Seq(Own(t))) /\ Len(parts) = Len(keys)
  <2>1. PICK Z : Z = Seq(Own(t)) OBVIOUS
  <2>2. parts \in [1..Len(keys) -> Z] BY <1>3, <1>5, <2>1
  <2>3. parts \in Seq(Z) /\ Len(parts) = Len(keys) BY <2>2
  <2> QED BY <2>1, <2>3
<1>7. PutRows(t, r) = InTurn(parts) BY <1>4, Zenon DEF PutRows, Filing
<1>8. InTurn(parts) \in Seq(Own(t)) BY <1>6, InTurnType
<1> QED BY <1>1, <1>3, <1>4, <1>6, <1>7, <1>8

\* The rows of which the store has the keys.
Filed(x) == DOMAIN x.rows \subseteq x.keys

\* The keys that differ from x in rows, which are in Z, and in the set of their keys.
RowsOn(x, Z) ==
  {y \in Entry : y.known = x.known /\ y.parts = x.parts /\ y.rows \in Z /\ (Filed(x) => Filed(y))}

\* A row with some of the values of d; the rows while the row d is written under k,
\* and while the rows r are written over the rows p.
Partial(d) == {e \in Row : \A c \in Cols : e[c] \in {d[c], Absent}}
Writing(p, k, d) ==
  {z \in Rowset : /\ DOMAIN p \ {k} \subseteq DOMAIN z /\ DOMAIN z \subseteq DOMAIN p \cup {k}
                  /\ \A j \in DOMAIN z : (j \in DOMAIN p /\ z[j] = p[j]) \/ (j = k /\ z[j] \in Partial(d))}
Merged(p, r) == [k \in DOMAIN p \cup DOMAIN r |-> IF k \in DOMAIN r THEN r[k] ELSE p[k]]
Sound(z, p, r, j) == j \in DOMAIN z /\ (z[j] = p[j] \/ (j \in DOMAIN r /\ z[j] = r[j]))
Halfway(p, r) ==
  {z \in Rowset : /\ \A j, k \in DOMAIN p : Sound(z, p, r, j) \/ Sound(z, p, r, k) \/ j = k
                  /\ \A k \in DOMAIN z : (k \in DOMAIN p /\ z[k] = p[k]) \/ (k \in DOMAIN r /\ z[k] \in Partial(r[k]))}

\* What commands about rows do.
LEMMA RowSent ==
  ASSUME NEW x \in Entry, NEW t, NEW k \in Key, NEW w, NEW y, y = Done(x, t, w)
  PROVE  /\ w = [op |-> "file", table |-> t, key |-> k] =>
              y \in Entry /\ y.known = x.known /\ y.parts = x.parts /\ y.keys = x.keys \cup {k} /\ y.rows = x.rows
         /\ w = [op |-> "clear", table |-> t, key |-> k] =>
              /\ y \in Entry /\ y.known = x.known /\ y.parts = x.parts /\ y.keys = x.keys
              /\ y.rows = Drop1(x.rows, k)
         /\ w = [op |-> "begin", table |-> t, key |-> k] =>
              /\ y \in Entry /\ y.known = x.known /\ y.parts = x.parts /\ y.keys = x.keys
              /\ y.rows = Add(x.rows, k, NoData)
         /\ w = [op |-> "unfile", table |-> t] =>
              y \in Entry /\ y.known = x.known /\ y.parts = x.parts /\ y.keys = {} /\ y.rows = x.rows
<1>0. x.rows \in Rowset /\ x.keys \in SUBSET Key BY DEF Entry
<1>1. NoData \in Row BY DEF NoData, Row
<1>2. Drop1(x.rows, k) \in Rowset /\ Add(x.rows, k, NoData) \in Rowset BY <1>0, <1>1, RowsetFacts
<1>3. ASSUME w = [op |-> "file", table |-> t, key |-> k]
      PROVE  y \in Entry /\ y.known = x.known /\ y.parts = x.parts /\ y.keys = x.keys \cup {k} /\ y.rows = x.rows
  <2>1. y = [x EXCEPT !.keys = @ \cup {k}] BY <1>3 DEF Done, Sent
  <2>2. x.keys \cup {k} \in SUBSET Key BY <1>0
  <2> HIDE DEF Key
  <2> QED BY <2>1, <2>2 DEF Entry
<1>4. ASSUME w = [op |-> "clear", table |-> t, key |-> k]
      PROVE  y \in Entry /\ y.known = x.known /\ y.parts = x.parts /\ y.keys = x.keys /\ y.rows = Drop1(x.rows, k)
  <2>1. y = [x EXCEPT !.rows = Drop1(x.rows, k)] BY <1>4 DEF Done, Sent
  <2> QED BY <2>1, <1>2 DEF Entry
<1>5. ASSUME w = [op |-> "begin", table |-> t, key |-> k]
      PROVE  y \in Entry /\ y.known = x.known /\ y.parts = x.parts /\ y.keys = x.keys /\ y.rows = Add(x.rows, k, NoData)
  <2>1. y = [x EXCEPT !.rows = Add(x.rows, k, NoData)] BY <1>5 DEF Done, Sent
  <2> QED BY <2>1, <1>2 DEF Entry
<1>6. ASSUME w = [op |-> "unfile", table |-> t]
      PROVE  y \in Entry /\ y.known = x.known /\ y.parts = x.parts /\ y.keys = {} /\ y.rows = x.rows
  <2>1. y = [x EXCEPT !.keys = {}] BY <1>6 DEF Done, Sent
  <2> QED BY <2>1 DEF Entry
<1> QED BY <1>3, <1>4, <1>5, <1>6

LEMMA FieldSent ==
  ASSUME NEW x \in Entry, NEW t, NEW k \in Key, k \in DOMAIN x.rows, NEW c \in Cols, NEW v \in Vals \cup {Absent},
         NEW y, y = Done(x, t, [op |-> "field", table |-> t, key |-> k, col |-> c, value |-> v])
  PROVE  y \in Entry /\ y.known = x.known /\ y.parts = x.parts /\ y.keys = x.keys
         /\ y.rows = Add(x.rows, k, Put(x.rows[k], c, v))
<1>0. x.rows \in Rowset BY DEF Entry
<1>1. PICK r : r = Add(x.rows, k, Put(x.rows[k], c, v)) OBVIOUS
<1>2. y = [x EXCEPT !.rows = r] BY <1>1 DEF Done, Sent
<1>3. x.rows[k] \in Row BY <1>0, RowsetElim
<1>4. Put(x.rows[k], c, v) \in Row BY <1>3 DEF Put, Row
<1>5. r \in Rowset BY <1>1, <1>4, <1>0, RowsetFacts
<1> QED BY <1>1, <1>2, <1>5 DEF Entry

\* The values of a row that its first fields give.
Taken(d, cols, i) == [c \in Cols |-> IF \E j \in 1..i : cols[j] = c THEN d[c] ELSE Absent]

LEMMA TakenFacts ==
  ASSUME NEW d \in Row, NEW cols, cols = Given(d)
  PROVE  /\ Taken(d, cols, 0) = NoData /\ Taken(d, cols, Len(cols)) = d
         /\ \A i \in 1..Len(cols) : Put(Taken(d, cols, i - 1), cols[i], d[cols[i]]) = Taken(d, cols, i)
         /\ \A i \in 0..Len(cols) : Taken(d, cols, i) \in Partial(d)
<1>1. cols \in Seq(Cols) /\ Range(cols) = {c \in Cols : d[c] # Absent} BY GivenFacts
<1>2. \A c \in Cols : (\E j \in 1..Len(cols) : cols[j] = c) <=> d[c] # Absent BY <1>1 DEF Range
<1>3. Taken(d, cols, 0) = NoData BY DEF Taken, NoData
<1>4. Taken(d, cols, Len(cols)) = d
  <2>1. \A c \in Cols : Taken(d, cols, Len(cols))[c] = d[c] BY <1>2 DEF Taken
  <2> QED BY <2>1 DEF Taken, Row
<1>5. ASSUME NEW i \in 1..Len(cols) PROVE Put(Taken(d, cols, i - 1), cols[i], d[cols[i]]) = Taken(d, cols, i)
  <2>1. 1..i = 1..(i - 1) \cup {i} /\ cols[i] \in Cols BY <1>1
  <2> QED BY <2>1 DEF Put, Taken
<1>6. \A i \in 0..Len(cols) : Taken(d, cols, i) \in Partial(d) BY DEF Taken, Partial, Row
<1> QED BY <1>3, <1>4, <1>5, <1>6

\* While a row is written.
LEMMA AfterDrop ==
  ASSUME NEW p, NEW k, NEW e
  PROVE  /\ DOMAIN Drop1(p, k) = DOMAIN p \ {k} /\ DOMAIN Add(Drop1(p, k), k, e) = DOMAIN p \cup {k}
         /\ Add(Drop1(p, k), k, e)[k] = e
BY DEF Add, Drop1

LEMMA AgainAdded ==
  ASSUME NEW p, NEW k, NEW e, NEW f
  PROVE  Add(Drop1(p, k), k, e) = Add(p, k, e) /\ Add(Add(Drop1(p, k), k, e), k, f) = Add(Drop1(p, k), k, f)
BY DEF Add, Drop1

LEMMA WritingFacts ==
  ASSUME NEW p \in Rowset, NEW k \in Key, NEW d \in Row
  PROVE  /\ Drop1(p, k) \in Rowset /\ p \in Writing(p, k, d) /\ Drop1(p, k) \in Writing(p, k, d)
         /\ \A e \in Partial(d) : Add(Drop1(p, k), k, e) \in Writing(p, k, d)
<1>1. p \in Writing(p, k, d) BY DEF Writing
<1>2. PICK q \in Rowset : q = Drop1(p, k) /\ DOMAIN q = DOMAIN p \ {k}
  <2>1. Drop1(p, k) \in Rowset /\ DOMAIN Drop1(p, k) = DOMAIN p \ {k} BY RowsetFacts
  <2> QED BY <2>1
<1>3. \A j \in DOMAIN p \ {k} : q[j] = p[j] BY <1>2 DEF Drop1
<1>4. q \in Writing(p, k, d) BY <1>2, <1>3 DEF Writing
<1>5. ASSUME NEW e \in Partial(d) PROVE Add(q, k, e) \in Writing(p, k, d)
  <2>1. e \in Row BY DEF Partial
  <2>2. Add(q, k, e) \in Rowset /\ DOMAIN Add(q, k, e) = DOMAIN q \cup {k} BY <2>1, RowsetFacts
  <2>3. PICK z \in Rowset : z = Add(q, k, e) /\ DOMAIN z = DOMAIN q \cup {k} BY <2>2
  <2>4. \A j \in DOMAIN z : z[j] = IF j = k THEN e ELSE q[j] BY <2>3 DEF Add
  <2>5. z \in Writing(p, k, d) BY <1>2, <1>3, <2>3, <2>4 DEF Writing
  <2> QED BY <2>3, <2>5
<1> QED BY <1>1, <1>2, <1>4, <1>5

\* A row is written value by value.
LEMMA PutRowLeads ==
  ASSUME NEW t \in Tables, NEW x \in Entry, NEW k \in Key, NEW d \in Row
  PROVE  \E y \in RowsOn(x, {Add(x.rows, k, d)}) :
           k \in y.keys /\ Leads(x, t, PutRow(t, k, d), y, RowsOn(x, Writing(x.rows, k, d)))
<1>0. PICK p \in Rowset : p = x.rows BY DEF Entry
<1>1. PICK q \in Rowset : q = Drop1(p, k) /\ DOMAIN q = DOMAIN p \ {k}
  <2>1. Drop1(p, k) \in Rowset BY WritingFacts
  <2> QED BY <2>1, AfterDrop
<1>26. \A e, f : k \in DOMAIN Add(q, k, e) /\ Add(q, k, e)[k] = e /\ Add(Add(q, k, e), k, f) = Add(q, k, f)
  BY DEF Add
<1> DEFINE P == RowsOn(x, Writing(p, k, d))
<1>2. x \in P BY <1>0, WritingFacts DEF RowsOn
<1>3. PICK v : v = [op |-> "file", table |-> t, key |-> k] OBVIOUS
<1>4. PICK a : a = Done(x, t, v) OBVIOUS
<1>5. a \in Entry /\ a.known = x.known /\ a.parts = x.parts /\ a.keys = x.keys \cup {k} /\ a.rows = x.rows
  BY <1>3, <1>4, RowSent
<1>6. a \in P BY <1>0, <1>5, WritingFacts DEF RowsOn, Filed
<1>7. PICK w : w = [op |-> "clear", table |-> t, key |-> k] OBVIOUS
<1>8. PICK b : b = Done(a, t, w) OBVIOUS
<1>9. b \in Entry /\ b.known = x.known /\ b.parts = x.parts /\ b.keys = x.keys \cup {k} /\ b.rows = q
  <2>1. b \in Entry /\ b.known = a.known /\ b.parts = a.parts /\ b.keys = a.keys /\ b.rows = Drop1(a.rows, k)
    BY <1>5, <1>7, <1>8, RowSent
  <2> QED BY <2>1, <1>0, <1>1, <1>5
<1>10. b \in P BY <1>0, <1>1, <1>9, WritingFacts DEF RowsOn, Filed
<1>11. Leads(x, t, ClearRow(t, k), b, P)
  <2>1. ClearRow(t, k) = <<v, w>> BY <1>3, <1>7, Zenon DEF ClearRow
  <2> HIDE DEF P
  <2>2. Leads(x, t, <<v, w>>, Done(Done(x, t, v), t, w), P) BY <1>2, <1>4, <1>6, <1>8, <1>10, LeadsTwo
  <2> QED BY <2>1, <2>2, <1>4, <1>8, Zenon
<1>12. PICK u : u = [op |-> "begin", table |-> t, key |-> k] OBVIOUS
<1>13. PICK c : c = Done(b, t, u) OBVIOUS
<1>14. c \in Entry /\ c.known = x.known /\ c.parts = x.parts /\ c.keys = x.keys \cup {k} /\ c.rows = Add(q, k, NoData)
  BY <1>9, <1>12, <1>13, RowSent
<1>15. PICK cols \in Seq(Cols) : cols = Given(d) BY GivenFacts
<1> DEFINE Stage(i) == {y \in Entry : /\ y.known = x.known /\ y.parts = x.parts /\ y.keys = x.keys \cup {k}
                                      /\ y.rows = Add(q, k, Taken(d, cols, i))}
<1>16. ASSUME NEW i \in 0..Len(cols) PROVE Stage(i) \subseteq P
  <2>1. PICK e \in Partial(d) : e = Taken(d, cols, i) BY <1>15, TakenFacts
  <2>2. PICK z : z = Add(Drop1(p, k), k, e) OBVIOUS
  <2>3. z \in Writing(p, k, d) /\ DOMAIN z = DOMAIN p \cup {k} BY <2>2, AfterDrop, WritingFacts
  <2> QED BY <2>1, <2>2, <2>3, <1>0, <1>1 DEF RowsOn, Filed
<1>17. c \in Stage(0) BY <1>14, <1>15, TakenFacts
<1>18. Leads(b, t, <<u>>, c, P)
  <2>1. c \in P
    <3>1. 0 \in 0..Len(cols) OBVIOUS
    <3> HIDE DEF Stage, P
    <3> QED BY <3>1, <1>16, <1>17
  <2> HIDE DEF P
  <2> QED BY <2>1, <1>10, <1>13, LeadsOne
<1>19. PICK fs : fs = [i \in DOMAIN cols |->
                       [op |-> "field", table |-> t, key |-> k, col |-> cols[i], value |-> d[cols[i]]]]
  OBVIOUS
<1>20. Len(fs) = Len(cols) /\ \A i \in 1..Len(cols) :
         fs[i] = [op |-> "field", table |-> t, key |-> k, col |-> cols[i], value |-> d[cols[i]]]
  BY <1>19
<1>21. fs \in Seq(Own(t)) /\ <<u>> \in Seq(Own(t)) /\ ClearRow(t, k) \in Seq(Own(t))
  <2>1. u \in Own(t) BY <1>12, RowCommand
  <2>2. ASSUME NEW i \in 1..Len(cols) PROVE fs[i] \in Own(t)
    <3>1. cols[i] \in Cols OBVIOUS
    <3> HIDE DEF Own
    <3> QED BY <3>1, <1>20, RowCommand
  <2>3. DOMAIN fs = 1..Len(cols) /\ fs = [i \in 1..Len(cols) |-> fs[i]] BY <1>19
  <2> HIDE DEF Own
  <2>4. fs \in Seq(Own(t)) BY <2>2, <2>3
  <2> QED BY <2>1, <2>4, RowCommands
<1>22. ASSUME NEW i \in 1..Len(fs), NEW y \in Stage(i - 1) PROVE Done(y, t, fs[i]) \in Stage(i)
  <2>1. i \in 1..Len(cols) /\ cols[i] \in Cols /\ d[cols[i]] \in Vals \cup {Absent} BY <1>20 DEF Row
  <2>2. PICK z : z = Done(y, t, fs[i]) OBVIOUS
  <2>3. z = Done(y, t, [op |-> "field", table |-> t, key |-> k, col |-> cols[i], value |-> d[cols[i]]])
    BY <2>1, <2>2, <1>20
  <2>4. PICK e \in Partial(d) : e = Taken(d, cols, i - 1)
    <3>1. i - 1 \in 0..Len(cols) BY <2>1
    <3> QED BY <3>1, <1>15, TakenFacts
  <2>5. y \in Entry /\ y.rows = Add(q, k, e) BY <2>4
  <2>9. k \in DOMAIN y.rows /\ y.rows[k] = e /\ \A f : Add(y.rows, k, f) = Add(q, k, f)
    <3> HIDE DEF Stage, P
    <3> QED BY <2>5, <1>26
  <2>6. z \in Entry /\ z.known = y.known /\ z.parts = y.parts /\ z.keys = y.keys
        /\ z.rows = Add(y.rows, k, Put(y.rows[k], cols[i], d[cols[i]]))
    BY <2>1, <2>3, <2>5, <2>9, FieldSent
  <2>7. Put(e, cols[i], d[cols[i]]) = Taken(d, cols, i) BY <2>1, <2>4, <1>15, TakenFacts
  <2>8. z.rows = Add(q, k, Taken(d, cols, i)) BY <2>6, <2>7, <2>9
  <2> QED BY <2>2, <2>6, <2>8
<1>23. PICK y \in Stage(Len(cols)) : Leads(c, t, fs, y, P)
  <2>1. PICK Y : Y = [i \in 0..Len(fs) |-> Stage(i)] OBVIOUS
  <2> HIDE DEF Stage, P
  <2>2. Y \in [0..Len(fs) -> SUBSET P] BY <2>1, <1>16, <1>20
  <2>3. c \in Y[0]
    <3>1. 0 \in 0..Len(fs) BY <1>20
    <3> QED BY <3>1, <2>1, <1>17
  <2>4. \A i \in 1..Len(fs) : \A y \in Y[i - 1] : Done(y, t, fs[i]) \in Y[i]
    <3>1. \A i \in 1..Len(fs) : i \in 0..Len(fs) /\ i - 1 \in 0..Len(fs) BY <1>20
    <3> QED BY <3>1, <2>1, <1>22
  <2>5. \E y \in Y[Len(fs)] : Leads(c, t, fs, y, P) BY <2>2, <2>3, <2>4, <1>21, LeadsEach
  <2>6. Y[Len(fs)] = Stage(Len(cols))
    <3>1. Len(cols) \in 0..Len(fs) BY <1>20
    <3> QED BY <3>1, <2>1, <1>20
  <2> QED BY <2>5, <2>6
<1>24. y \in RowsOn(x, {Add(x.rows, k, d)}) /\ k \in y.keys
  <2>1. y.rows = Add(x.rows, k, d)
    <3>1. y.rows = Add(q, k, Taken(d, cols, Len(cols))) OBVIOUS
    <3>2. y.rows = Add(q, k, d) BY <3>1, <1>15, TakenFacts
    <3>3. Add(q, k, d) = Add(p, k, d)
      <4>1. Add(Drop1(p, k), k, d) = Add(p, k, d) BY AgainAdded
      <4> QED BY <4>1, <1>1, Zenon
    <3> QED BY <3>2, <3>3, <1>0
  <2>2. y \in P
    <3>1. Len(cols) \in 0..Len(cols) OBVIOUS
    <3> HIDE DEF Stage, P
    <3> QED BY <3>1, <1>16, <1>23
  <2> QED BY <2>1, <2>2 DEF RowsOn
<1>25. Leads(x, t, PutRow(t, k, d), y, P)
  <2> HIDE DEF Stage, P
  <2>1. Leads(b, t, <<u>> \o fs, y, P) BY <1>18, <1>21, <1>23, LeadsConcat
  <2>2. FillRow(t, k, d) = <<u>> \o fs BY <1>12, <1>15, <1>19, Zenon DEF FillRow, Given
  <2>3. <<u>> \o fs \in Seq(Own(t)) BY <1>21, ConcatProperties
  <2>4. Leads(x, t, ClearRow(t, k) \o (<<u>> \o fs), y, P) BY <2>1, <2>3, <1>11, <1>21, LeadsConcat
  <2> QED BY <2>2, <2>4, Zenon DEF PutRow
<1> QED BY <1>0, <1>24, <1>25

\* The rows r over p, those of the first i keys.
Over(p, r, keys, i) ==
  [k \in DOMAIN p \cup {keys[j] : j \in 1..i} |-> IF \E j \in 1..i : keys[j] = k THEN r[k] ELSE p[k]]

LEMMA OverFacts ==
  ASSUME NEW p \in Rowset, NEW r \in Rowset, NEW keys, keys = SetToSeq(DOMAIN r)
  PROVE  /\ Over(p, r, keys, 0) = p /\ Over(p, r, keys, Len(keys)) = Merged(p, r)
         /\ \A i \in 0..Len(keys) : Over(p, r, keys, i) \in Rowset
         /\ \A i \in 1..Len(keys) : /\ keys[i] \in DOMAIN r
                                    /\ Add(Over(p, r, keys, i - 1), keys[i], r[keys[i]]) = Over(p, r, keys, i)
<1>1. keys \in Seq(DOMAIN r) /\ Range(keys) = DOMAIN r BY RowsetElim, SetToSeqFacts
<1>2. \A k : k \in DOMAIN r <=> \E j \in 1..Len(keys) : keys[j] = k BY <1>1 DEF Range
<1>3. Over(p, r, keys, 0) = p
  <2>1. Over(p, r, keys, 0) = [k \in DOMAIN p |-> p[k]] BY DEF Over
  <2> QED BY <2>1, RowsetElim
<1>4. Over(p, r, keys, Len(keys)) = Merged(p, r)
  <2>1. {keys[j] : j \in 1..Len(keys)} = DOMAIN r BY <1>2
  <2> QED BY <2>1, <1>2 DEF Over, Merged
<1>5. ASSUME NEW i \in 0..Len(keys) PROVE Over(p, r, keys, i) \in Rowset
  <2>1. \A j \in 1..i : keys[j] \in DOMAIN r BY <1>1
  <2>2. PICK K : K = DOMAIN p \cup {keys[j] : j \in 1..i} OBVIOUS
  <2>3. K \subseteq DOMAIN p \cup DOMAIN r BY <2>1, <2>2
  <2>4. K \in SUBSET Key BY <2>3, RowsetElim
  <2>5. IsFiniteSet(K) BY <2>3, RowsetElim, FS_Union, FS_Subset
  <2>6. Over(p, r, keys, i) \in [K -> Row]
    <3>1. \A k \in DOMAIN p : p[k] \in Row BY RowsetElim
    <3>2. \A k \in DOMAIN r : r[k] \in Row BY RowsetElim
    <3>3. \A k \in K : (IF \E j \in 1..i : keys[j] = k THEN r[k] ELSE p[k]) \in Row BY <3>1, <3>2, <2>1, <2>2
    <3> HIDE DEF Row
    <3> QED BY <3>3, <2>2 DEF Over
  <2> QED BY <2>4, <2>5, <2>6, RowsetIntro
<1>6. ASSUME NEW i \in 1..Len(keys)
      PROVE  keys[i] \in DOMAIN r /\ Add(Over(p, r, keys, i - 1), keys[i], r[keys[i]]) = Over(p, r, keys, i)
  <2>1. 1..i = 1..(i - 1) \cup {i} /\ keys[i] \in DOMAIN r BY <1>1
  <2>2. PICK q : q = Over(p, r, keys, i - 1) OBVIOUS
  <2>3. DOMAIN q = DOMAIN p \cup {keys[j] : j \in 1..(i - 1)} BY <2>2 DEF Over
  <2>4. \A k \in DOMAIN q : q[k] = IF \E j \in 1..(i - 1) : keys[j] = k THEN r[k] ELSE p[k] BY <2>2 DEF Over
  <2>5. DOMAIN q \cup {keys[i]} = DOMAIN p \cup {keys[j] : j \in 1..i} BY <2>1, <2>3
  <2>6. \A k \in DOMAIN q \cup {keys[i]} :
          (IF k = keys[i] THEN r[keys[i]] ELSE q[k]) = (IF \E j \in 1..i : keys[j] = k THEN r[k] ELSE p[k])
    BY <2>1, <2>4
  <2>7. Add(q, keys[i], r[keys[i]]) = Over(p, r, keys, i) BY <2>5, <2>6 DEF Add, Over
  <2> QED BY <2>1, <2>2, <2>7
<1> QED BY <1>3, <1>4, <1>5, <1>6

\* While one of the rows r is written the others are sound.
LEMMA OverHalfway ==
  ASSUME NEW p \in Rowset, NEW r \in Rowset, NEW keys, keys = SetToSeq(DOMAIN r), NEW i \in 1..Len(keys),
         NEW z \in Writing(Over(p, r, keys, i - 1), keys[i], r[keys[i]])
  PROVE  z \in Halfway(p, r)
<1>1. keys \in Seq(DOMAIN r) BY RowsetElim, SetToSeqFacts
<1>2. PICK k : k = keys[i] OBVIOUS
<1>3. PICK q : q = Over(p, r, keys, i - 1) OBVIOUS
<1>4. DOMAIN p \subseteq DOMAIN q
      /\ \A j \in DOMAIN q : (j \in DOMAIN p /\ q[j] = p[j]) \/ (j \in DOMAIN r /\ q[j] = r[j])
  <2>1. DOMAIN q = DOMAIN p \cup {keys[j] : j \in 1..(i - 1)} BY <1>3 DEF Over
  <2>2. \A j \in DOMAIN q : q[j] = IF \E l \in 1..(i - 1) : keys[l] = j THEN r[j] ELSE p[j] BY <1>3 DEF Over
  <2>3. \A l \in 1..(i - 1) : keys[l] \in DOMAIN r BY <1>1
  <2> QED BY <2>1, <2>2, <2>3
<1>5. k \in DOMAIN r BY <1>1, <1>2
<1>6. /\ z \in Rowset /\ DOMAIN q \ {k} \subseteq DOMAIN z
      /\ \A j \in DOMAIN z : (j \in DOMAIN q /\ z[j] = q[j]) \/ (j = k /\ z[j] \in Partial(r[k]))
  BY <1>2, <1>3 DEF Writing
<1>7. \A j \in DOMAIN p : j # k => Sound(z, p, r, j) BY <1>4, <1>6 DEF Sound
<1>8. \A j \in DOMAIN r : r[j] \in Partial(r[j]) BY RowsetElim DEF Partial
<1>9. \A j \in DOMAIN z : (j \in DOMAIN p /\ z[j] = p[j]) \/ (j \in DOMAIN r /\ z[j] \in Partial(r[j]))
  BY <1>4, <1>5, <1>6, <1>8
<1> QED BY <1>6, <1>7, <1>9 DEF Halfway

\* Rows are written one after the other.
LEMMA PutRowsLeads ==
  ASSUME NEW t \in Tables, NEW x \in Entry, NEW r \in Rowset
  PROVE  \E y \in RowsOn(x, {Merged(x.rows, r)}) :
           Leads(x, t, PutRows(t, r), y, RowsOn(x, Halfway(x.rows, r)))
<1>0. PICK p \in Rowset : p = x.rows BY DEF Entry
<1>1. PICK keys \in Seq(DOMAIN r) : keys = SetToSeq(DOMAIN r) BY RowsetElim, SetToSeqFacts
<1>2. PICK parts \in Seq(Seq(Own(t))) :
        /\ PutRows(t, r) = InTurn(parts) /\ Len(parts) = Len(keys)
        /\ \A i \in 1..Len(keys) : parts[i] = PutRow(t, keys[i], r[keys[i]])
  BY <1>1, FilingFacts
<1> DEFINE P == RowsOn(x, Halfway(p, r))
           Stage(i) == RowsOn(x, {Over(p, r, keys, i)})
<1>3. ASSUME NEW i \in 0..Len(keys) PROVE Stage(i) \subseteq P
  <2>1. Over(p, r, keys, i) \in Rowset BY <1>1, OverFacts
  <2>2. PICK z \in Rowset : z = Over(p, r, keys, i) BY <2>1
  <2>3. DOMAIN p \subseteq DOMAIN z
        /\ \A j \in DOMAIN z : (j \in DOMAIN p /\ z[j] = p[j]) \/ (j \in DOMAIN r /\ z[j] = r[j])
    <3>1. DOMAIN z = DOMAIN p \cup {keys[j] : j \in 1..i} BY <2>2 DEF Over
    <3>2. \A j \in DOMAIN z : z[j] = IF \E l \in 1..i : keys[l] = j THEN r[j] ELSE p[j] BY <2>2 DEF Over
    <3>3. \A l \in 1..i : keys[l] \in DOMAIN r BY <1>1
    <3> QED BY <3>1, <3>2, <3>3
  <2>4. \A j \in DOMAIN r : r[j] \in Partial(r[j]) BY RowsetElim DEF Partial
  <2>5. \A j \in DOMAIN p : Sound(z, p, r, j) BY <2>3 DEF Sound
  <2>6. z \in Halfway(p, r) BY <2>3, <2>4, <2>5 DEF Halfway
  <2> QED BY <2>2, <2>6 DEF RowsOn
<1>4. x \in Stage(0)
  <2>1. Over(p, r, keys, 0) = p BY <1>1, OverFacts
  <2> QED BY <2>1, <1>0 DEF RowsOn
<1>5. ASSUME NEW i \in 1..Len(keys), NEW y \in Stage(i - 1)
      PROVE  \E z \in Stage(i) : Leads(y, t, parts[i], z, P)
  <2>1. PICK k \in Key : k = keys[i] /\ r[k] \in Row
    <3>1. keys[i] \in DOMAIN r OBVIOUS
    <3> QED BY <3>1, RowsetElim
  <2>2. y \in Entry /\ y.rows = Over(p, r, keys, i - 1) BY DEF RowsOn
  <2>3. PICK z \in RowsOn(y, {Add(y.rows, k, r[k])}) :
          Leads(y, t, PutRow(t, k, r[k]), z, RowsOn(y, Writing(y.rows, k, r[k])))
    BY <2>1, <2>2, PutRowLeads
  <2>4. Add(y.rows, k, r[k]) = Over(p, r, keys, i)
    <3>1. Add(Over(p, r, keys, i - 1), keys[i], r[keys[i]]) = Over(p, r, keys, i) BY <1>1, OverFacts
    <3> QED BY <3>1, <2>1, <2>2
  <2>5. RowsOn(y, Writing(y.rows, k, r[k])) \subseteq P
    <3>1. \A q \in Writing(y.rows, k, r[k]) : q \in Halfway(p, r) BY <2>1, <2>2, <1>1, OverHalfway
    <3> QED BY <3>1 DEF RowsOn
  <2>6. z \in Stage(i) BY <2>3, <2>4 DEF RowsOn
  <2>7. parts[i] = PutRow(t, k, r[k]) BY <2>1, <1>2
  <2> HIDE DEF P, Stage
  <2> QED BY <2>3, <2>5, <2>6, <2>7, LeadsMore
<1>6. PICK Y : Y = [i \in 0..Len(parts) |-> Stage(i)] OBVIOUS
<1> HIDE DEF P, Stage
<1>7. Y \in [0..Len(parts) -> SUBSET P] BY <1>2, <1>3, <1>6
<1>8. x \in Y[0]
  <2>1. 0 \in 0..Len(parts) OBVIOUS
  <2> QED BY <2>1, <1>4, <1>6
<1>9. \A i \in 1..Len(parts) : \A y \in Y[i - 1] : \E z \in Y[i] : Leads(y, t, parts[i], z, P)
  <2>1. \A i \in 1..Len(parts) : i \in 0..Len(parts) /\ i - 1 \in 0..Len(parts) OBVIOUS
  <2> QED BY <2>1, <1>2, <1>5, <1>6
<1>10. PICK y \in Y[Len(parts)] : Leads(x, t, InTurn(parts), y, P) BY <1>7, <1>8, <1>9, LeadsInTurn
<1>11. y \in Stage(Len(keys)) /\ Over(p, r, keys, Len(keys)) = Merged(p, r)
  <2>1. Len(parts) \in 0..Len(parts) OBVIOUS
  <2> QED BY <2>1, <1>1, <1>2, <1>6, OverFacts
<1> QED BY <1>0, <1>2, <1>10, <1>11 DEF P, Stage

\* Rows are deleted one after the other, and then the set of their keys.
Clears(t, keys) == [i \in DOMAIN keys |-> [op |-> "clear", table |-> t, key |-> keys[i]]]

LEMMA ClearsFacts ==
  ASSUME NEW t \in Tables, NEW keys \in Seq(Key)
  PROVE  /\ Clears(t, keys) \in Seq(Own(t)) /\ Len(Clears(t, keys)) = Len(keys)
         /\ \A i \in 1..Len(keys) : Clears(t, keys)[i] = [op |-> "clear", table |-> t, key |-> keys[i]]
         /\ <<[op |-> "unfile", table |-> t]>> \in Seq(Own(t))
<1>1. PICK cs : cs = Clears(t, keys) OBVIOUS
<1>2. cs = [i \in 1..Len(keys) |-> [op |-> "clear", table |-> t, key |-> keys[i]]] BY <1>1 DEF Clears
<1>3. ASSUME NEW i \in 1..Len(keys) PROVE [op |-> "clear", table |-> t, key |-> keys[i]] \in Own(t)
  <2>1. NoData \in Row BY DEF NoData, Row
  <2>2. keys[i] \in Key OBVIOUS
  <2> QED BY <2>1, <2>2, RowCommand
<1>4. [op |-> "unfile", table |-> t] \in Own(t) BY DEF Own, Of, Command
<1> HIDE DEF Own, Key
<1>5. cs \in [1..Len(keys) -> Own(t)] BY <1>2, <1>3
<1>6. cs \in Seq(Own(t)) /\ Len(cs) = Len(keys) BY <1>5
<1>7. <<[op |-> "unfile", table |-> t]>> \in Seq(Own(t)) BY <1>4
<1> QED BY <1>1, <1>2, <1>6, <1>7

LEMMA DeleteRowsDef ==
  ASSUME NEW t \in Tables, store[t] \in Entry
  PROVE  \E keys \in Seq(Key) :
           /\ Range(keys) = DOMAIN store[t].rows
           /\ DeleteRows(t) = Clears(t, keys) \o <<[op |-> "unfile", table |-> t]>>
           /\ DeleteRows(t) \in Seq(Own(t))
<1>1. PICK r \in Rowset : r = store[t].rows BY DEF Entry
<1>2. PICK keys : keys = SetToSeq(DOMAIN r) OBVIOUS
<1>3. keys \in Seq(DOMAIN r) /\ Range(keys) = DOMAIN r BY <1>2, RowsetElim, SetToSeqFacts
<1>4. keys \in Seq(Key)
  <2>1. DOMAIN r \subseteq Key BY RowsetElim
  <2> HIDE DEF Key
  <2> QED BY <2>1, <1>3
<1>5. DeleteRows(t) = Clears(t, keys) \o <<[op |-> "unfile", table |-> t]>>
  BY <1>1, <1>2, Zenon DEF DeleteRows, Clears
<1>6. Clears(t, keys) \o <<[op |-> "unfile", table |-> t]>> \in Seq(Own(t))
  BY <1>4, ClearsFacts, ConcatProperties
<1> QED BY <1>1, <1>3, <1>4, <1>5, <1>6, Zenon

LEMMA DeleteRowsLeads ==
  ASSUME NEW t \in Tables, store[t] \in Entry, NEW x \in Entry, x.rows = store[t].rows
  PROVE  \E y \in RowsOn(x, {NoRows}) : Leads(x, t, DeleteRows(t), y, RowsOn(x, Rowset))
<1>1. PICK keys \in Seq(Key) :
        /\ Range(keys) = DOMAIN x.rows
        /\ DeleteRows(t) = Clears(t, keys) \o <<[op |-> "unfile", table |-> t]>>
  BY DeleteRowsDef
<1>2. PICK cs \in Seq(Own(t)) : cs = Clears(t, keys) BY ClearsFacts
<1>3. Len(cs) = Len(keys) /\ \A i \in 1..Len(keys) : cs[i] = [op |-> "clear", table |-> t, key |-> keys[i]]
  BY <1>2, ClearsFacts
<1> DEFINE P == RowsOn(x, Rowset)
           Left(i) == DOMAIN x.rows \ {keys[j] : j \in 1..i}
           Stage(i) == RowsOn(x, {z \in Rowset : DOMAIN z = Left(i)})
<1>4. ASSUME NEW i \in 0..Len(keys) PROVE Stage(i) \subseteq P BY DEF RowsOn
<1>5. x \in Stage(0)
  <2>1. Left(0) = DOMAIN x.rows /\ x.rows \in Rowset BY DEF Entry
  <2> QED BY <2>1 DEF RowsOn
<1>6. ASSUME NEW i \in 1..Len(cs), NEW y \in Stage(i - 1) PROVE Done(y, t, cs[i]) \in Stage(i)
  <2>1. PICK k \in Key : k = keys[i] BY <1>3
  <2>2. PICK z : z = Done(y, t, cs[i]) OBVIOUS
  <2>3. cs[i] = [op |-> "clear", table |-> t, key |-> k] BY <2>1, <1>3
  <2>4. y \in Entry BY DEF RowsOn
  <2>5. /\ z \in Entry /\ z.known = y.known /\ z.parts = y.parts /\ z.keys = y.keys
        /\ z.rows = Drop1(y.rows, k)
    BY <2>2, <2>3, <2>4, RowSent
  <2>6. y.rows \in Rowset BY <2>4 DEF Entry
  <2>7. z.rows \in Rowset /\ DOMAIN z.rows = DOMAIN y.rows \ {k} 
    <3>1. NoData \in Row BY DEF NoData, Row
    <3> QED BY <3>1, <2>5, <2>6, WritingFacts, AfterDrop
  <2>8. Left(i) = Left(i - 1) \ {k}
    <3>1. 1..i = 1..(i - 1) \cup {i} OBVIOUS
    <3> QED BY <3>1, <2>1
  <2>9. DOMAIN y.rows = Left(i - 1) BY DEF RowsOn
  <2> HIDE DEF Left
  <2> QED BY <2>2, <2>5, <2>7, <2>8, <2>9 DEF RowsOn, Filed
<1>7. PICK y \in Stage(Len(keys)) : Leads(x, t, cs, y, P)
  <2>1. PICK Y : Y = [i \in 0..Len(cs) |-> Stage(i)] OBVIOUS
  <2> HIDE DEF Stage, P
  <2>2. Y \in [0..Len(cs) -> SUBSET P] BY <2>1, <1>3, <1>4
  <2>3. x \in Y[0]
    <3>1. 0 \in 0..Len(cs) OBVIOUS
    <3> QED BY <3>1, <2>1, <1>5
  <2>4. \A i \in 1..Len(cs) : \A y \in Y[i - 1] : Done(y, t, cs[i]) \in Y[i]
    <3>1. \A i \in 1..Len(cs) : i \in 0..Len(cs) /\ i - 1 \in 0..Len(cs) OBVIOUS
    <3> QED BY <3>1, <2>1, <1>6
  <2>5. \E y \in Y[Len(cs)] : Leads(x, t, cs, y, P) BY <2>2, <2>3, <2>4, LeadsEach
  <2>6. Len(cs) \in 0..Len(cs) OBVIOUS
  <2> QED BY <2>1, <2>5, <2>6, <1>3
<1>8. y \in Entry /\ y.rows = NoRows
  <2>1. y \in Entry /\ y.rows \in Rowset /\ DOMAIN y.rows = Left(Len(keys)) BY DEF RowsOn
  <2>2. Left(Len(keys)) = {} BY <1>1 DEF Range
  <2> QED BY <2>1, <2>2, NoRowsIsEmpty
<1>9. PICK u : u = [op |-> "unfile", table |-> t] OBVIOUS
<1>10. PICK z : z = Done(y, t, u) OBVIOUS
<1>11. z \in Entry /\ z.known = y.known /\ z.parts = y.parts /\ z.keys = {} /\ z.rows = NoRows
  <2>1. <<>> \in Key BY DEF Key
  <2> QED BY <2>1, <1>8, <1>9, <1>10, RowSent
<1>12. z \in RowsOn(x, {NoRows}) /\ z \in P /\ y \in P
  <2>1. Len(keys) \in 0..Len(keys) OBVIOUS
  <2>2. y \in P
    <3> HIDE DEF Stage, P
    <3> QED BY <2>1, <1>4, <1>7
  <2>3. NoRows \in Rowset /\ DOMAIN NoRows = {}
    <3>1. NoRows \in Rowset BY <1>8 DEF Entry
    <3> QED BY <3>1 DEF NoRows
  <2> QED BY <2>2, <2>3, <1>11 DEF RowsOn, Filed
<1>13. Leads(x, t, DeleteRows(t), z, P)
  <2> HIDE DEF Stage, P
  <2>1. Leads(y, t, <<u>>, z, P) BY <1>10, <1>12, LeadsOne
  <2>2. <<u>> \in Seq(Own(t)) BY <1>9, ClearsFacts
  <2>3. Leads(x, t, cs \o <<u>>, z, P) BY <2>1, <2>2, <1>7, LeadsConcat
  <2> QED BY <2>3, <1>1, <1>2, <1>9, Zenon
<1> QED BY <1>12, <1>13

-----------------------------------------------------------------------------
(* The commands for schemas                                                *)

\* A function of the first numbers is a list.
LEMMA FunctionIsSeq ==
  ASSUME NEW S, NEW n \in Nat, NEW f \in [1..n -> S]
  PROVE  f \in Seq(S) /\ Len(f) = n
OBVIOUS

LEMMA PartsFacts ==
  /\ DOMAIN Parts = 1..6 /\ Len(Parts) = 6 /\ \A i \in 1..6 : Parts[i] \in Range(Parts)
  /\ Parts[1] = "order" /\ Parts[2] = "columns" /\ Parts[3] = "pk" /\ Parts[4] = "unique" /\ Parts[5] = "indexes"
  /\ Parts[6] = "fks" /\ Range(Parts) = {"order", "columns", "pk", "unique", "indexes", "fks"}
<1>1. /\ DOMAIN Parts = 1..6 /\ Len(Parts) = 6
      /\ Parts[1] = "order" /\ Parts[2] = "columns" /\ Parts[3] = "pk" /\ Parts[4] = "unique"
      /\ Parts[5] = "indexes" /\ Parts[6] = "fks"
  BY DEF Parts
<1>2. 1..6 = {1, 2, 3, 4, 5, 6} OBVIOUS
<1>3. Range(Parts) = {Parts[i] : i \in 1..6} BY <1>1 DEF Range
<1>4. {Parts[i] : i \in {1, 2, 3, 4, 5, 6}} = {Parts[1], Parts[2], Parts[3], Parts[4], Parts[5], Parts[6]}
  BY ZenonT(60)
<1>5. Range(Parts) = {Parts[1], Parts[2], Parts[3], Parts[4], Parts[5], Parts[6]} BY <1>2, <1>3, <1>4, Zenon
<1> QED BY <1>1, <1>3, <1>5

LEMMA PartsApart ==
  ASSUME NEW i \in 1..6, NEW j \in 1..6, Parts[i] = Parts[j]
  PROVE  i = j
<1>1. i \in {1, 2, 3, 4, 5, 6} /\ j \in {1, 2, 3, 4, 5, 6} OBVIOUS
<1> QED BY <1>1, PartsFacts

LEMMA PartsetIntro ==
  ASSUME NEW p, DOMAIN p = Range(Parts), p = [q \in Range(Parts) |-> p[q]],
         \A q \in Range(Parts) : p[q] \in Fin(Members(q))
  PROVE  p \in Partset
<1> HIDE DEF Fin, Members, Parts
<1> QED BY DEF Partset

LEMMA PartsetElim ==
  ASSUME NEW p \in Partset
  PROVE  /\ DOMAIN p = Range(Parts) /\ p = [q \in Range(Parts) |-> p[q]]
         /\ \A q \in Range(Parts) : p[q] \in Fin(Members(q))
<1> HIDE DEF Fin, Members, Parts
<1> QED BY DEF Partset

\* The parts p with another set S as part q.
PartPut(p, q, S) == [p EXCEPT ![q] = S]

LEMMA PartsetPut ==
  ASSUME NEW p \in Partset, NEW q \in Range(Parts), NEW S \in Fin(Members(q))
  PROVE  /\ PartPut(p, q, S) \in Partset /\ PartPut(p, q, S)[q] = S
         /\ \A r \in Range(Parts) \ {q} : PartPut(p, q, S)[r] = p[r]
<1>1. PICK e : e = PartPut(p, q, S) OBVIOUS
<1> HIDE DEF Fin, Members, Parts
<1>2. DOMAIN e = Range(Parts) /\ e = [r \in Range(Parts) |-> e[r]] /\ e[q] = S
      /\ \A r \in Range(Parts) \ {q} : e[r] = p[r]
  BY <1>1, PartsetElim DEF PartPut
<1>3. \A r \in Range(Parts) : e[r] \in Fin(Members(r)) BY <1>2, PartsetElim
<1>4. e \in Partset BY <1>2, <1>3, PartsetIntro
<1> QED BY <1>1, <1>2, <1>4

\* Parts are equal if they have the same sets.
LEMMA PartsetEqual ==
  ASSUME NEW p \in Partset, NEW r \in Partset, \A i \in 1..6 : p[Parts[i]] = r[Parts[i]]
  PROVE  p = r
<1>1. \A q \in Range(Parts) : \E i \in 1..6 : q = Parts[i] BY PartsFacts DEF Range
<1> HIDE DEF Parts
<1> QED BY <1>1, PartsetElim

LEMMA NoPartsFacts == NoParts \in Partset /\ \A i \in 1..6 : NoParts[Parts[i]] = {}
<1>1. \A q \in Range(Parts) : {} \in Fin(Members(q)) BY FS_EmptySet DEF Fin
<1>2. PICK p : p = NoParts OBVIOUS
<1>3. DOMAIN p = Range(Parts) /\ p = [q \in Range(Parts) |-> p[q]] /\ \A q \in Range(Parts) : p[q] = {}
  BY <1>2 DEF NoParts
<1> HIDE DEF Fin, Members, Parts
<1>4. p \in Partset BY <1>1, <1>3, PartsetIntro
<1> QED BY <1>2, <1>3, <1>4, PartsFacts

\* A list of columns without repetition is an order; a schema is kept in its parts.
LEMMA PartsOfFacts ==
  ASSUME NEW s \in GoodSchema
  PROVE  /\ PartsOf(s) \in Partset
         /\ PartsOf(s)["order"] = {s.order} /\ PartsOf(s)["columns"] = Columns(s) /\ PartsOf(s)["pk"] = Range(s.pk)
         /\ PartsOf(s)["unique"] = s.unique /\ PartsOf(s)["indexes"] = s.indexes /\ PartsOf(s)["fks"] = s.fks
<1>1. s \in Schema /\ IsInjective(s.order) /\ IsFiniteSet(s.unique) /\ IsFiniteSet(s.indexes) /\ IsFiniteSet(s.fks)
      /\ Paired(s)
  BY DEF GoodSchema, Schemas, Orderly
<1>2. s.order \in Seq(Cols) /\ s.pk \in Seq(Cols) /\ s.unique \subseteq ColumnLists /\ s.indexes \subseteq Index
      /\ s.fks \subseteq Foreign
  BY <1>1 DEF Schema
<1>3. PICK p : p = PartsOf(s) OBVIOUS
<1>4. /\ DOMAIN p = Range(Parts) /\ p = [q \in Range(Parts) |-> p[q]]
      /\ p["order"] = {s.order} /\ p["columns"] = Columns(s) /\ p["pk"] = Range(s.pk)
      /\ p["unique"] = s.unique /\ p["indexes"] = s.indexes /\ p["fks"] = s.fks
  BY <1>3, PartsFacts DEF PartsOf
<1>5. \A l \in Seq(Cols) : Range(l) \in Fin(Cols)
  <2>1. SUFFICES ASSUME NEW l \in Seq(Cols) PROVE Range(l) \in Fin(Cols) OBVIOUS
  <2>2. IsFiniteSet(1..Len(l)) BY FS_Interval
  <2>3. Range(l) = {l[i] : i \in 1..Len(l)} BY DEF Range
  <2>4. \A i \in 1..Len(l) : l[i] \in Range(l) BY <2>3
  <2>5. l \in Surjection(1..Len(l), Range(l)) BY <2>3, <2>4 DEF Surjection
  <2>6. IsFiniteSet(Range(l)) BY <2>2, <2>5, FS_Surjection
  <2> QED BY <2>6, RangeOfSeq DEF Fin
<1>6. {s.order} \in Fin(Members("order"))
  <2>1. IsFiniteSet({s.order}) BY FS_Singleton
  <2> QED BY <2>1, <1>1, <1>2 DEF Fin, Members
<1>7. Columns(s) \in Fin(Members("columns")) /\ Range(s.pk) \in Fin(Members("pk"))
  BY <1>2, <1>5 DEF Members, Columns
<1>8. s.unique \in Fin(Members("unique")) /\ s.indexes \in Fin(Members("indexes")) /\ s.fks \in Fin(Members("fks"))
  BY <1>1, <1>2 DEF Members, Fin, Paired
<1>9. \A q \in Range(Parts) : p[q] \in Fin(Members(q)) BY <1>4, <1>6, <1>7, <1>8, PartsFacts
<1>10. p \in Partset BY <1>4, <1>9, PartsetIntro
<1> QED BY <1>3, <1>4, <1>10

\* Commands for schemas are commands about the table.
LEMMA SchemaCommand ==
  ASSUME NEW t \in Tables, NEW q \in Range(Parts)
  PROVE  /\ [op |-> "delete", table |-> t, part |-> q] \in Own(t)
         /\ \A m \in Members(q) : [op |-> "add", table |-> t, part |-> q, member |-> m] \in Own(t)
         /\ [op |-> "know", table |-> t] \in Own(t)
<1> HIDE DEF Members, Parts
<1> QED BY DEF Own, Of, Command

LEMMA WritePartType ==
  ASSUME NEW t \in Tables, NEW q \in Range(Parts), NEW S \in Fin(Members(q))
  PROVE  /\ WritePart(t, q, S) \in Seq(Own(t)) /\ Len(WritePart(t, q, S)) = Len(SetToSeq(S))
         /\ SetToSeq(S) \in Seq(S) /\ Range(SetToSeq(S)) = S
         /\ \A i \in 1..Len(SetToSeq(S)) :
              WritePart(t, q, S)[i] = [op |-> "add", table |-> t, part |-> q, member |-> SetToSeq(S)[i]]
<1>1. S \subseteq Members(q) /\ IsFiniteSet(S) BY DEF Fin
<1>2. PICK ms \in Seq(S) : ms = SetToSeq(S) /\ Range(ms) = S BY <1>1, SetToSeqFacts
<1>3. PICK ws : ws = WritePart(t, q, S) OBVIOUS
<1>4. ws = [i \in 1..Len(ms) |-> [op |-> "add", table |-> t, part |-> q, member |-> ms[i]]]
  <2>1. DOMAIN ms = 1..Len(ms) OBVIOUS
  <2> QED BY <2>1, <1>2, <1>3, Zenon DEF WritePart
<1>5. ASSUME NEW i \in 1..Len(ms) PROVE [op |-> "add", table |-> t, part |-> q, member |-> ms[i]] \in Own(t)
  <2>1. ms[i] \in Members(q) BY <1>1
  <2> QED BY <2>1, SchemaCommand
<1> HIDE DEF Own, Members
<1>6. ws \in [1..Len(ms) -> Own(t)] BY <1>4, <1>5
<1>7. ws \in Seq(Own(t)) /\ Len(ws) = Len(ms) BY <1>6
<1> QED BY <1>2, <1>3, <1>4, <1>7

\* The sets of a schema that are written one after the other.
Brought(t, s) == [i \in DOMAIN Parts |-> WritePart(t, Parts[i], PartsOf(s)[Parts[i]])]

LEMMA SchemaCommands ==
  ASSUME NEW t \in Tables, NEW s \in GoodSchema
  PROVE  /\ DeleteSchema(t) \in Seq(Own(t)) /\ Len(DeleteSchema(t)) = 6
         /\ \A i \in 1..6 : DeleteSchema(t)[i] = [op |-> "delete", table |-> t, part |-> Parts[i]]
         /\ Brought(t, s) \in Seq(Seq(Own(t))) /\ Len(Brought(t, s)) = 6
         /\ \A i \in 1..6 : Brought(t, s)[i] = WritePart(t, Parts[i], PartsOf(s)[Parts[i]])
         /\ InTurn(Brought(t, s)) \in Seq(Own(t)) /\ <<[op |-> "know", table |-> t]>> \in Seq(Own(t))
         /\ PutSchema(t, s) = DeleteSchema(t) \o <<[op |-> "know", table |-> t]>> \o InTurn(Brought(t, s))
         /\ PutSchema(t, s) \in Seq(Own(t))
<1>1. PICK ds : ds = DeleteSchema(t) OBVIOUS
<1>2. ds = [i \in 1..6 |-> [op |-> "delete", table |-> t, part |-> Parts[i]]]
  BY <1>1, PartsFacts, Zenon DEF DeleteSchema
<1>3. \A i \in 1..6 : [op |-> "delete", table |-> t, part |-> Parts[i]] \in Own(t) BY PartsFacts, SchemaCommand
<1>4. PICK parts : parts = Brought(t, s) OBVIOUS
<1>5. parts = [i \in 1..6 |-> WritePart(t, Parts[i], PartsOf(s)[Parts[i]])]
  BY <1>4, PartsFacts, Zenon DEF Brought
<1>6. ASSUME NEW i \in 1..6 PROVE WritePart(t, Parts[i], PartsOf(s)[Parts[i]]) \in Seq(Own(t))
  <2>1. PartsOf(s)[Parts[i]] \in Fin(Members(Parts[i])) BY PartsFacts, PartsOfFacts, PartsetElim
  <2> QED BY <2>1, PartsFacts, WritePartType
<1>7. PICK k \in Own(t) : k = [op |-> "know", table |-> t]
  <2>1. [op |-> "know", table |-> t] \in Own(t) BY PartsFacts, SchemaCommand
  <2> QED BY <2>1
<1> HIDE DEF Own, Parts
<1>8. ds \in Seq(Own(t)) /\ Len(ds) = 6
  <2>1. PICK n \in Nat : n = 6 OBVIOUS
  <2>2. ds \in [1..n -> Own(t)] BY <1>2, <1>3, <2>1
  <2> QED BY <2>1, <2>2, FunctionIsSeq
<1>9. parts \in Seq(Seq(Own(t))) /\ Len(parts) = 6
  <2>1. PICK Z : Z = Seq(Own(t)) OBVIOUS
  <2>2. PICK n \in Nat : n = 6 OBVIOUS
  <2>3. parts \in [1..n -> Z] BY <2>1, <2>2, <1>5, <1>6
  <2> QED BY <2>1, <2>2, <2>3, FunctionIsSeq
<1>10. InTurn(parts) \in Seq(Own(t)) BY <1>9, InTurnType
<1>11. <<k>> \in Seq(Own(t)) OBVIOUS
<1>12. PutSchema(t, s) = ds \o <<k>> \o InTurn(parts) BY <1>1, <1>4, <1>7, Zenon DEF PutSchema, Brought
<1>13. ds \o <<k>> \o InTurn(parts) \in Seq(Own(t)) BY <1>8, <1>10, <1>11, ConcatProperties
<1>14. PutSchema(t, s) \in Seq(Own(t)) BY <1>12, <1>13, Zenon
<1>15. \A i \in 1..6 : ds[i] = [op |-> "delete", table |-> t, part |-> Parts[i]] BY <1>2
<1>16. \A i \in 1..6 : parts[i] = WritePart(t, Parts[i], PartsOf(s)[Parts[i]]) BY <1>5
<1> QED BY <1>1, <1>4, <1>7, <1>8, <1>9, <1>10, <1>11, <1>12, <1>14, <1>15, <1>16, Zenon

\* What commands for schemas do.
LEMMA PartSent ==
  ASSUME NEW x \in Entry, NEW t, NEW q \in Range(Parts), NEW w, NEW y, y = Done(x, t, w)
  PROVE  /\ w = [op |-> "delete", table |-> t, part |-> q] =>
              /\ y \in Entry /\ y.known = x.known /\ y.keys = x.keys /\ y.rows = x.rows
              /\ y.parts = PartPut(x.parts, q, {})
         /\ w = [op |-> "know", table |-> t] =>
              y \in Entry /\ y.known /\ y.keys = x.keys /\ y.rows = x.rows /\ y.parts = x.parts
         /\ w = [op |-> "forget", table |-> t] =>
              y \in Entry /\ ~y.known /\ y.keys = x.keys /\ y.rows = x.rows /\ y.parts = x.parts
<1>1. ASSUME w = [op |-> "delete", table |-> t, part |-> q]
      PROVE  /\ y \in Entry /\ y.known = x.known /\ y.keys = x.keys /\ y.rows = x.rows
             /\ y.parts = PartPut(x.parts, q, {})
  <2>1. PICK p : p = PartPut(x.parts, q, {}) OBVIOUS
  <2>2. p \in Partset
    <3>1. x.parts \in Partset BY DEF Entry
    <3>2. {} \in Fin(Members(q)) BY FS_EmptySet DEF Fin
    <3> QED BY <2>1, <3>1, <3>2, PartsetPut
  <2>3. y = [x EXCEPT !.parts = p] BY <1>1, <2>1 DEF Done, Sent, PartPut
  <2> HIDE DEF Parts
  <2> QED BY <2>1, <2>2, <2>3 DEF Entry
<1>2. ASSUME w = [op |-> "know", table |-> t]
      PROVE  y \in Entry /\ y.known /\ y.keys = x.keys /\ y.rows = x.rows /\ y.parts = x.parts
  <2>1. y = [x EXCEPT !.known = TRUE] BY <1>2 DEF Done, Sent
  <2> QED BY <2>1 DEF Entry
<1>3. ASSUME w = [op |-> "forget", table |-> t]
      PROVE  y \in Entry /\ ~y.known /\ y.keys = x.keys /\ y.rows = x.rows /\ y.parts = x.parts
  <2>1. y = [x EXCEPT !.known = FALSE] BY <1>3 DEF Done, Sent
  <2> QED BY <2>1 DEF Entry
<1> QED BY <1>1, <1>2, <1>3

AddMember(t, q, m) == [op |-> "add", table |-> t, part |-> q, member |-> m]
PartAdd(p, q, m) == [p EXCEPT ![q] = @ \cup {m}]

LEMMA MemberSent ==
  ASSUME NEW x \in Entry, NEW t, NEW q \in Range(Parts), NEW m \in Members(q)
  PROVE  /\ Done(x, t, AddMember(t, q, m)) \in Entry /\ Done(x, t, AddMember(t, q, m)).known = x.known
         /\ Done(x, t, AddMember(t, q, m)).keys = x.keys /\ Done(x, t, AddMember(t, q, m)).rows = x.rows
         /\ Done(x, t, AddMember(t, q, m)).parts = PartAdd(x.parts, q, m)
<1>1. PICK S : S = x.parts[q] \cup {m} OBVIOUS
<1>2. x.parts \in Partset BY DEF Entry
<1>3. S \in Fin(Members(q))
  <2>1. x.parts[q] \in Fin(Members(q)) BY <1>2, PartsetElim
  <2> QED BY <2>1, <1>1, FS_AddElement DEF Fin
<1>4. PICK p \in Partset : p = PartPut(x.parts, q, S) BY <1>2, <1>3, PartsetPut
<1>5. p = PartAdd(x.parts, q, m) BY <1>1, <1>4 DEF PartPut, PartAdd
<1>6. PICK y : y = Done(x, t, AddMember(t, q, m)) OBVIOUS
<1>7. y = [x EXCEPT !.parts = p] BY <1>5, <1>6 DEF Done, Sent, AddMember, PartAdd
<1>8. y \in Entry /\ y.known = x.known /\ y.keys = x.keys /\ y.rows = x.rows /\ y.parts = p BY <1>7 DEF Entry
<1> QED BY <1>5, <1>6, <1>8

\* The keys that differ from x in the parts of the schema, which are in F.
PartsOn(x, F) ==
  {y \in Entry : y.known = x.known /\ y.keys = x.keys /\ y.rows = x.rows /\ y.parts \in F}

\* The parts of a schema as they are deleted, and as they are written.
Cut(p, f, n) == \A i \in 1..6 : f[Parts[i]] = IF i <= n THEN {} ELSE p[Parts[i]]
Cuts(p) == {f \in Partset : \E n \in 0..6 : Cut(p, f, n)}
Fill(p, f, n) ==
  \A i \in 1..6 : /\ i < n => f[Parts[i]] = p[Parts[i]]
                  /\ i = n => f[Parts[i]] \subseteq p[Parts[i]]
                  /\ i > n => f[Parts[i]] = {}
Fills(p) == {f \in Partset : \E n \in 0..6 : Fill(p, f, n)}

\* A schema is deleted part by part.
LEMMA DeleteSchemaLeads ==
  ASSUME NEW t \in Tables, NEW x \in Entry, NEW s \in GoodSchema
  PROVE  \E y \in PartsOn(x, {NoParts}) : Leads(x, t, DeleteSchema(t), y, PartsOn(x, Cuts(x.parts)))
<1>1. PICK p \in Partset : p = x.parts BY DEF Entry
<1>2. PICK ds \in Seq(Own(t)) : /\ ds = DeleteSchema(t) /\ Len(ds) = 6
                               /\ \A i \in 1..6 : ds[i] = [op |-> "delete", table |-> t, part |-> Parts[i]]
  BY SchemaCommands
<1> DEFINE P == PartsOn(x, Cuts(p))
           Stage(i) == PartsOn(x, {f \in Partset : Cut(p, f, i)})
<1>3. ASSUME NEW i \in 0..6 PROVE Stage(i) \subseteq P BY DEF PartsOn, Cuts
<1>4. x \in Stage(0)
  <2>1. Cut(p, p, 0) BY DEF Cut
  <2> QED BY <2>1, <1>1 DEF PartsOn
<1>5. ASSUME NEW i \in 1..6, NEW y \in Stage(i - 1) PROVE Done(y, t, ds[i]) \in Stage(i)
  <2>1. PICK q \in Range(Parts) : q = Parts[i] BY PartsFacts
  <2>2. PICK z : z = Done(y, t, ds[i]) OBVIOUS
  <2>3. ds[i] = [op |-> "delete", table |-> t, part |-> q] BY <2>1, <1>2
  <2>4. y \in Entry /\ y.parts \in Partset /\ Cut(p, y.parts, i - 1) BY DEF PartsOn
  <2>5. /\ z \in Entry /\ z.known = y.known /\ z.keys = y.keys /\ z.rows = y.rows
        /\ z.parts = PartPut(y.parts, q, {})
    <3> HIDE DEF Stage, P
    <3> QED BY <2>2, <2>3, <2>4, PartSent
  <2>6. {} \in Fin(Members(q)) BY FS_EmptySet DEF Fin
  <2>7. /\ z.parts \in Partset /\ z.parts[q] = {} /\ \A r \in Range(Parts) \ {q} : z.parts[r] = y.parts[r]
    <3> HIDE DEF Stage, P
    <3> QED BY <2>4, <2>5, <2>6, PartsetPut
  <2>8. Cut(p, z.parts, i)
    <3>1. SUFFICES ASSUME NEW j \in 1..6 PROVE z.parts[Parts[j]] = IF j <= i THEN {} ELSE p[Parts[j]]
      BY DEF Cut
    <3>2. CASE j = i BY <3>2, <2>1, <2>7
    <3>3. CASE j # i
      <4>1. Parts[j] \in Range(Parts) \ {q} BY <3>3, <2>1, PartsFacts, PartsApart
      <4>2. z.parts[Parts[j]] = y.parts[Parts[j]] BY <4>1, <2>7
      <4>3. y.parts[Parts[j]] = IF j <= i - 1 THEN {} ELSE p[Parts[j]] BY <2>4 DEF Cut
      <4>4. j <= i <=> j <= i - 1 BY <3>3
      <4> QED BY <4>2, <4>3, <4>4
    <3> QED BY <3>2, <3>3
  <2> QED BY <2>2, <2>4, <2>5, <2>7, <2>8 DEF PartsOn
<1>6. PICK y \in Stage(6) : Leads(x, t, ds, y, P)
  <2>1. PICK Y : Y = [i \in 0..6 |-> Stage(i)] OBVIOUS
  <2> HIDE DEF Stage, P
  <2>2. Y \in [0..6 -> SUBSET P] BY <2>1, <1>3
  <2>3. x \in Y[0]
    <3>1. 0 \in 0..6 OBVIOUS
    <3> QED BY <3>1, <2>1, <1>4
  <2>4. \A i \in 1..6 : \A y \in Y[i - 1] : Done(y, t, ds[i]) \in Y[i]
    <3>1. \A i \in 1..6 : i \in 0..6 /\ i - 1 \in 0..6 OBVIOUS
    <3> QED BY <3>1, <2>1, <1>5
  <2>5. Y \in [0..Len(ds) -> SUBSET P] /\ (\A i \in 1..Len(ds) : \A y \in Y[i - 1] : Done(y, t, ds[i]) \in Y[i])
    BY <2>2, <2>4, <1>2
  <2>6. \E y \in Y[Len(ds)] : Leads(x, t, ds, y, P) BY <2>3, <2>5, LeadsEach
  <2>7. 6 \in 0..6 OBVIOUS
  <2> QED BY <2>1, <2>6, <2>7, <1>2
<1>7. y.parts = NoParts
  <2>1. y.parts \in Partset /\ Cut(p, y.parts, 6) BY DEF PartsOn
  <2>2. \A i \in 1..6 : y.parts[Parts[i]] = {} BY <2>1 DEF Cut
  <2> HIDE DEF Stage, P
  <2>3. PICK f \in Partset : f = y.parts BY <2>1
  <2>4. PICK g \in Partset : g = NoParts BY NoPartsFacts
  <2>5. \A i \in 1..6 : f[Parts[i]] = g[Parts[i]] BY <2>2, <2>3, <2>4, NoPartsFacts
  <2> QED BY <2>3, <2>4, <2>5, PartsetEqual
<1>8. y \in PartsOn(x, {NoParts}) BY <1>7 DEF PartsOn
<1> QED BY <1>1, <1>2, <1>6, <1>8

\* A part of a schema is written member by member.
LEMMA WritePartLeads ==
  ASSUME NEW t \in Tables, NEW x \in Entry, NEW q \in Range(Parts), NEW S \in Fin(Members(q)), x.parts[q] = {}
  PROVE  \E y \in PartsOn(x, {PartPut(x.parts, q, S)}) :
           Leads(x, t, WritePart(t, q, S), y, PartsOn(x, {PartPut(x.parts, q, T) : T \in SUBSET S}))
<1>1. PICK p \in Partset : p = x.parts BY DEF Entry
<1>2. PICK ws \in Seq(Own(t)) : ws = WritePart(t, q, S) BY WritePartType
<1>3. PICK ms \in Seq(S) : ms = SetToSeq(S) /\ Range(ms) = S BY WritePartType
<1>4. Len(ws) = Len(ms) /\ \A i \in 1..Len(ms) : ws[i] = [op |-> "add", table |-> t, part |-> q, member |-> ms[i]]
  BY <1>2, <1>3, WritePartType
<1> DEFINE P == PartsOn(x, {PartPut(p, q, T) : T \in SUBSET S})
           First(i) == {ms[j] : j \in 1..i}
           Stage(i) == PartsOn(x, {PartPut(p, q, First(i))})
<1>5. ASSUME NEW i \in 0..Len(ms) PROVE Stage(i) \subseteq P
  <2>1. First(i) \in SUBSET S OBVIOUS
  <2> HIDE DEF First
  <2> QED BY <2>1 DEF PartsOn
<1>6. x \in Stage(0)
  <2>1. First(0) = {} OBVIOUS
  <2>2. p[q] = {} BY <1>1
  <2>3. p = PartPut(p, q, {})
    <3> HIDE DEF Stage, P, First
    <3>1. {} \in Fin(Members(q)) BY FS_EmptySet DEF Fin
    <3>5. PICK T \in Fin(Members(q)) : T = {} BY <3>1
    <3>2. PICK e : e = PartPut(p, q, T) OBVIOUS
    <3>3. e \in Partset /\ e[q] = T /\ \A r \in Range(Parts) \ {q} : e[r] = p[r] BY <3>2, PartsetPut
    <3>4. \A i \in 1..6 : p[Parts[i]] = e[Parts[i]] BY <3>3, <3>5, <2>2, PartsFacts
    <3> QED BY <3>2, <3>3, <3>4, <3>5, PartsetEqual
  <2> HIDE DEF First
  <2> QED BY <2>1, <2>3, <1>1 DEF PartsOn
<1>7. ASSUME NEW i \in 1..Len(ms), NEW y \in Stage(i - 1) PROVE Done(y, t, ws[i]) \in Stage(i)
  <2>1. PICK m \in Members(q) : m = ms[i]
    <3>1. S \subseteq Members(q) /\ ms[i] \in S BY DEF Fin
    <3> HIDE DEF Members
    <3> QED BY <3>1
  <2>2. PICK z : z = Done(y, t, ws[i]) OBVIOUS
  <2>3. z = Done(y, t, AddMember(t, q, m)) BY <2>1, <2>2, <1>4 DEF AddMember
  <2>4. y \in Entry /\ y.parts = PartPut(p, q, First(i - 1)) BY DEF PartsOn
  <2>5. z \in Entry /\ z.known = y.known /\ z.keys = y.keys /\ z.rows = y.rows
        /\ z.parts = PartAdd(y.parts, q, m)
    <3> HIDE DEF Stage, P, First
    <3> QED BY <2>3, <2>4, MemberSent
  <2>6. First(i) = First(i - 1) \cup {m}
    <3>1. 1..i = 1..(i - 1) \cup {i} OBVIOUS
    <3> QED BY <3>1, <2>1
  <2>7. z.parts = PartPut(p, q, First(i))
    <3> HIDE DEF First
    <3>1. q \in DOMAIN p BY PartsetElim
    <3>2. PICK F : F = First(i - 1) OBVIOUS
    <3>3. PartAdd(PartPut(p, q, F), q, m) = PartPut(p, q, F \cup {m}) BY <3>1 DEF PartPut, PartAdd
    <3> QED BY <3>2, <3>3, <2>4, <2>5, <2>6
  <2> QED BY <2>2, <2>5, <2>7 DEF PartsOn
<1>8. PICK y \in Stage(Len(ms)) : Leads(x, t, ws, y, P)
  <2>1. PICK Y : Y = [i \in 0..Len(ws) |-> Stage(i)] OBVIOUS
  <2> HIDE DEF Stage, P
  <2>2. Y \in [0..Len(ws) -> SUBSET P] BY <2>1, <1>4, <1>5
  <2>3. x \in Y[0]
    <3>1. 0 \in 0..Len(ws) OBVIOUS
    <3> QED BY <3>1, <2>1, <1>6
  <2>4. \A i \in 1..Len(ws) : \A y \in Y[i - 1] : Done(y, t, ws[i]) \in Y[i]
    <3>1. \A i \in 1..Len(ws) : i \in 0..Len(ws) /\ i - 1 \in 0..Len(ws) OBVIOUS
    <3> QED BY <3>1, <2>1, <1>4, <1>7
  <2>5. \E y \in Y[Len(ws)] : Leads(x, t, ws, y, P) BY <2>2, <2>3, <2>4, LeadsEach
  <2>6. Len(ws) \in 0..Len(ws) OBVIOUS
  <2> QED BY <2>1, <2>5, <2>6, <1>4
<1>9. First(Len(ms)) = S BY <1>3 DEF Range
<1>10. y \in PartsOn(x, {PartPut(x.parts, q, S)})
  <2> HIDE DEF First
  <2> QED BY <1>1, <1>8, <1>9 DEF PartsOn
<1> QED BY <1>1, <1>2, <1>8, <1>10

\* The sets of a schema are written one after the other.
Whole(p, f, n) == \A i \in 1..6 : f[Parts[i]] = IF i <= n THEN p[Parts[i]] ELSE {}

LEMMA WritePartsLeads ==
  ASSUME NEW t \in Tables, NEW x \in Entry, x.parts = NoParts, NEW s \in GoodSchema
  PROVE  \E y \in PartsOn(x, {PartsOf(s)}) :
           Leads(x, t, InTurn(Brought(t, s)), y, PartsOn(x, Fills(PartsOf(s))))
<1>1. PICK p \in Partset : p = PartsOf(s) BY PartsOfFacts
<1>2. PICK parts \in Seq(Seq(Own(t))) : /\ parts = Brought(t, s) /\ Len(parts) = 6
                                       /\ \A i \in 1..6 : parts[i] = WritePart(t, Parts[i], p[Parts[i]])
  BY <1>1, SchemaCommands
<1> DEFINE P == PartsOn(x, Fills(p))
           Stage(i) == PartsOn(x, {f \in Partset : Whole(p, f, i)})
<1>3. ASSUME NEW i \in 0..6 PROVE Stage(i) \subseteq P
  <2>1. \A f : Whole(p, f, i) => Fill(p, f, i) BY DEF Whole, Fill
  <2> QED BY <2>1 DEF PartsOn, Fills
<1>4. x \in Stage(0)
  <2>1. Whole(p, NoParts, 0)
    <3>1. \A i \in 1..6 : ~(i <= 0) OBVIOUS
    <3> QED BY <3>1, NoPartsFacts DEF Whole
  <2> QED BY <2>1, NoPartsFacts DEF PartsOn
<1>5. ASSUME NEW i \in 1..6, NEW y \in Stage(i - 1)
      PROVE  \E z \in Stage(i) : Leads(y, t, parts[i], z, P)
  <2>1. PICK q \in Range(Parts) : q = Parts[i] BY PartsFacts
  <2>2. PICK S \in Fin(Members(q)) : S = p[q] BY PartsetElim
  <2>3. PICK f \in Partset : f = y.parts /\ Whole(p, f, i - 1) BY DEF PartsOn
  <2>4. y \in Entry /\ y.known = x.known /\ y.keys = x.keys /\ y.rows = x.rows BY DEF PartsOn
  <2>5. f[q] = {} BY <2>1, <2>3 DEF Whole
  <2>6. ASSUME NEW T \in SUBSET S
        PROVE  /\ PartPut(f, q, T) \in Partset /\ Fill(p, PartPut(f, q, T), i)
               /\ T = S => Whole(p, PartPut(f, q, T), i)
    <3>1. T \in Fin(Members(q)) BY FS_Subset DEF Fin
    <3>2. PICK g : g = PartPut(f, q, T) OBVIOUS
    <3>3. g \in Partset /\ g[q] = T /\ \A r \in Range(Parts) \ {q} : g[r] = f[r] BY <3>1, <3>2, PartsetPut
    <3>4. ASSUME NEW j \in 1..6
          PROVE  g[Parts[j]] = IF j < i THEN p[Parts[j]] ELSE IF j = i THEN T ELSE {}
      <4>1. CASE j = i BY <4>1, <3>3, <2>1
      <4>2. CASE j # i
        <5>1. Parts[j] \in Range(Parts) \ {q} BY <4>2, <2>1, PartsFacts, PartsApart
        <5>2. g[Parts[j]] = f[Parts[j]] BY <5>1, <3>3
        <5>3. f[Parts[j]] = IF j <= i - 1 THEN p[Parts[j]] ELSE {} BY <2>3 DEF Whole
        <5> QED BY <5>2, <5>3, <4>2
      <4> QED BY <4>1, <4>2
    <3>5. Fill(p, g, i) BY <3>4, <2>1, <2>2 DEF Fill
    <3>6. T = S => Whole(p, g, i) BY <3>4, <2>1, <2>2 DEF Whole
    <3> QED BY <3>2, <3>3, <3>5, <3>6
  <2>7. PICK z \in PartsOn(y, {PartPut(f, q, S)}) :
          Leads(y, t, WritePart(t, q, S), z, PartsOn(y, {PartPut(f, q, T) : T \in SUBSET S}))
    <3>1. y.parts[q] = {} BY <2>3, <2>5
    <3>2. \E z \in PartsOn(y, {PartPut(y.parts, q, S)}) :
            Leads(y, t, WritePart(t, q, S), z, PartsOn(y, {PartPut(y.parts, q, T) : T \in SUBSET S}))
      <4> HIDE DEF Stage, P
      <4> QED BY <2>4, <3>1, WritePartLeads
    <3> QED BY <3>2, <2>3
  <2>8. PartsOn(y, {PartPut(f, q, T) : T \in SUBSET S}) \subseteq P BY <2>4, <2>6 DEF PartsOn, Fills
  <2>9. z \in Stage(i) BY <2>4, <2>6, <2>7 DEF PartsOn
  <2>10. parts[i] = WritePart(t, q, S) BY <2>1, <2>2, <1>2
  <2> HIDE DEF P, Stage
  <2> QED BY <2>7, <2>8, <2>9, <2>10, LeadsMore
<1>6. PICK Y : Y = [i \in 0..6 |-> Stage(i)] OBVIOUS
<1> HIDE DEF P, Stage
<1>7. Y \in [0..6 -> SUBSET P] BY <1>3, <1>6
<1>8. x \in Y[0]
  <2>1. 0 \in 0..6 OBVIOUS
  <2> QED BY <2>1, <1>4, <1>6
<1>9. \A i \in 1..6 : \A y \in Y[i - 1] : \E z \in Y[i] : Leads(y, t, parts[i], z, P)
  <2>1. \A i \in 1..6 : i \in 0..6 /\ i - 1 \in 0..6 OBVIOUS
  <2> QED BY <2>1, <1>5, <1>6
<1>10. Y \in [0..Len(parts) -> SUBSET P]
       /\ \A i \in 1..Len(parts) : \A y \in Y[i - 1] : \E z \in Y[i] : Leads(y, t, parts[i], z, P)
  BY <1>2, <1>7, <1>9
<1>11. PICK y \in Y[Len(parts)] : Leads(x, t, InTurn(parts), y, P) BY <1>8, <1>10, LeadsInTurn
<1>12. y \in Stage(6)
  <2>1. 6 \in 0..6 OBVIOUS
  <2> QED BY <2>1, <1>2, <1>6, <1>11
<1>13. y.parts = p
  <2>1. PICK f \in Partset : f = y.parts /\ Whole(p, f, 6) BY <1>12 DEF PartsOn, Stage
  <2>2. \A i \in 1..6 : f[Parts[i]] = p[Parts[i]] BY <2>1 DEF Whole
  <2> QED BY <2>1, <2>2, PartsetEqual
<1>14. y \in PartsOn(x, {PartsOf(s)}) BY <1>1, <1>12, <1>13 DEF PartsOn, Stage
<1> QED BY <1>1, <1>2, <1>11, <1>14 DEF P

\* The keys while a schema is written over another one, and with the schema s.
SchemaWay(x, s) ==
  {z \in Entry : /\ z.keys = x.keys /\ z.rows = x.rows
                 /\ (z.known = x.known /\ z.parts \in Cuts(x.parts)) \/ (z.known /\ z.parts \in Fills(PartsOf(s)))}
SchemaOn(x, s) == {z \in Entry : z.known /\ z.keys = x.keys /\ z.rows = x.rows /\ z.parts = PartsOf(s)}

LEMMA PutSchemaLeads ==
  ASSUME NEW t \in Tables, NEW x \in Entry, NEW s \in GoodSchema
  PROVE  \E y \in SchemaOn(x, s) : Leads(x, t, PutSchema(t, s), y, SchemaWay(x, s))
<1> DEFINE P == SchemaWay(x, s)
<1>1. PICK a \in PartsOn(x, {NoParts}) : Leads(x, t, DeleteSchema(t), a, PartsOn(x, Cuts(x.parts)))
  BY DeleteSchemaLeads
<1>2. Leads(x, t, DeleteSchema(t), a, P)
  <2>1. PartsOn(x, Cuts(x.parts)) \subseteq P BY DEF PartsOn, SchemaWay
  <2> HIDE DEF P
  <2> QED BY <2>1, <1>1, LeadsMore
<1>3. PICK w : w = [op |-> "know", table |-> t] OBVIOUS
<1>4. PICK b : b = Done(a, t, w) OBVIOUS
<1>5. b \in Entry /\ b.known /\ b.keys = x.keys /\ b.rows = x.rows /\ b.parts = NoParts
  <2>1. a \in Entry /\ a.keys = x.keys /\ a.rows = x.rows /\ a.parts = NoParts BY DEF PartsOn
  <2>2. PICK q \in Range(Parts) : q = Parts[1] BY PartsFacts
  <2>3. b \in Entry /\ b.known /\ b.keys = a.keys /\ b.rows = a.rows /\ b.parts = a.parts
    BY <2>1, <2>2, <1>3, <1>4, PartSent
  <2> QED BY <2>1, <2>3
<1>6. a \in P /\ b \in P
  <2>1. Fill(PartsOf(s), NoParts, 0) BY NoPartsFacts DEF Fill
  <2>2. NoParts \in Fills(PartsOf(s))
    <3>1. 0 \in 0..6 OBVIOUS
    <3> QED BY <2>1, <3>1, NoPartsFacts DEF Fills
  <2>3. a \in P
    <3>1. x.parts \in Partset BY DEF Entry
    <3>2. Cut(x.parts, NoParts, 6)
      <4>1. \A i \in 1..6 : i <= 6 OBVIOUS
      <4> QED BY <4>1, NoPartsFacts DEF Cut
    <3>3. NoParts \in Cuts(x.parts)
      <4>1. 6 \in 0..6 OBVIOUS
      <4> QED BY <3>2, <4>1, NoPartsFacts DEF Cuts
    <3> QED BY <3>3, <1>1 DEF PartsOn, SchemaWay
  <2> QED BY <2>2, <2>3, <1>5 DEF SchemaWay
<1>7. Leads(a, t, <<w>>, b, P)
  <2> HIDE DEF P
  <2> QED BY <1>4, <1>6, LeadsOne
<1>8. PICK y \in PartsOn(b, {PartsOf(s)}) :
        Leads(b, t, InTurn(Brought(t, s)), y, PartsOn(b, Fills(PartsOf(s))))
  BY <1>5, WritePartsLeads
<1>9. Leads(b, t, InTurn(Brought(t, s)), y, P)
  <2>1. PartsOn(b, Fills(PartsOf(s))) \subseteq P BY <1>5 DEF PartsOn, SchemaWay
  <2> HIDE DEF P
  <2> QED BY <2>1, <1>8, LeadsMore
<1>10. y \in SchemaOn(x, s) BY <1>5, <1>8 DEF PartsOn, SchemaOn
<1>11. Leads(x, t, PutSchema(t, s), y, P)
  <2> HIDE DEF P
  <2>1. DeleteSchema(t) \in Seq(Own(t)) /\ <<w>> \in Seq(Own(t)) /\ InTurn(Brought(t, s)) \in Seq(Own(t))
    BY <1>3, SchemaCommands
  <2>2. DeleteSchema(t) \o <<w>> \in Seq(Own(t)) BY <2>1, ConcatProperties
  <2>3. Leads(x, t, DeleteSchema(t) \o <<w>>, b, P) BY <2>1, <1>2, <1>7, LeadsConcat
  <2>4. Leads(x, t, (DeleteSchema(t) \o <<w>>) \o InTurn(Brought(t, s)), y, P)
    BY <2>1, <2>2, <2>3, <1>9, LeadsConcat
  <2>5. PutSchema(t, s) = DeleteSchema(t) \o <<w>> \o InTurn(Brought(t, s)) BY <1>3, SchemaCommands
  <2> QED BY <2>4, <2>5, Zenon
<1> QED BY <1>10, <1>11

\* The keys while a table is deleted, and when it is.
GoingWay(x) ==
  {z \in Entry : (z.known => x.known /\ z.parts \in Cuts(x.parts)) /\ (Filed(x) => Filed(z))}
Gone(x) == {z \in Entry : ~z.known /\ z.rows = NoRows /\ (Filed(x) => Filed(z))}

LEMMA DeleteTableLeads ==
  ASSUME NEW t \in Tables, store[t] \in Entry, NEW x \in Entry, x.rows = store[t].rows, NEW s \in GoodSchema
  PROVE  /\ DeleteTable(t) \in Seq(Of(t))
         /\ \E y \in Gone(x) : Leads(x, t, DeleteTable(t), y, GoingWay(x))
<1> DEFINE P == GoingWay(x)
<1>1. PICK a \in RowsOn(x, {NoRows}) : Leads(x, t, DeleteRows(t), a, RowsOn(x, Rowset))
  BY DeleteRowsLeads
<1>2. a \in Entry /\ a.known = x.known /\ a.rows = NoRows /\ a.parts = x.parts /\ (Filed(x) => Filed(a))
  BY DEF RowsOn
<1>3. x.parts \in Cuts(x.parts)
  <2>1. x.parts \in Partset BY DEF Entry
  <2>2. Cut(x.parts, x.parts, 0) BY DEF Cut
  <2>3. 0 \in 0..6 OBVIOUS
  <2> QED BY <2>1, <2>2, <2>3 DEF Cuts
<1>4. Leads(x, t, DeleteRows(t), a, P)
  <2>1. RowsOn(x, Rowset) \subseteq P BY <1>3 DEF RowsOn, GoingWay
  <2> HIDE DEF P
  <2> QED BY <2>1, <1>1, LeadsMore
<1>5. PICK b \in PartsOn(a, {NoParts}) : Leads(a, t, DeleteSchema(t), b, PartsOn(a, Cuts(a.parts)))
  BY <1>2, DeleteSchemaLeads
<1>6. Leads(a, t, DeleteSchema(t), b, P) /\ b \in P
  <2>1. PartsOn(a, Cuts(a.parts)) \subseteq P BY <1>2 DEF PartsOn, GoingWay, Filed
  <2> HIDE DEF P
  <2>2. Leads(a, t, DeleteSchema(t), b, P) BY <2>1, <1>5, LeadsMore
  <2>3. DeleteSchema(t) \in Seq(Own(t)) BY SchemaCommands
  <2> QED BY <2>2, <2>3, LeadsEnds
<1>7. PICK w : w = [op |-> "forget", table |-> t] OBVIOUS
<1>8. PICK y : y = Done(b, t, w) OBVIOUS
<1>9. y \in Entry /\ ~y.known /\ y.keys = b.keys /\ y.rows = NoRows
  <2>1. b \in Entry /\ b.rows = NoRows BY <1>2 DEF PartsOn
  <2>2. PICK q \in Range(Parts) : q = Parts[1] BY PartsFacts
  <2> QED BY <2>1, <2>2, <1>7, <1>8, PartSent
<1>10. y \in Gone(x) /\ y \in P
  <2>1. b.keys = a.keys /\ b.rows = NoRows BY <1>2 DEF PartsOn
  <2> QED BY <2>1, <1>2, <1>9 DEF Gone, GoingWay, Filed
<1>11. Leads(b, t, <<w>>, y, P)
  <2> HIDE DEF P
  <2> QED BY <1>6, <1>8, <1>10, LeadsOne
<1>12. DeleteRows(t) \in Seq(Of(t)) /\ DeleteSchema(t) \in Seq(Of(t)) /\ <<w>> \in Seq(Of(t))
  <2>1. DeleteRows(t) \in Seq(Own(t)) BY DeleteRowsDef, Zenon
  <2>2. DeleteSchema(t) \in Seq(Own(t)) BY SchemaCommands
  <2>3. w \in Of(t) BY <1>7 DEF Of, Command
  <2> HIDE DEF Of
  <2>4. <<w>> \in Seq(Of(t)) BY <2>3
  <2> QED BY <2>1, <2>2, <2>4, OwnIsOf
<1>13. DeleteTable(t) = DeleteRows(t) \o DeleteSchema(t) \o <<w>> BY <1>7, Zenon DEF DeleteTable
<1>14. DeleteRows(t) \o DeleteSchema(t) \in Seq(Of(t)) BY <1>12, ConcatProperties
<1>15. (DeleteRows(t) \o DeleteSchema(t)) \o <<w>> \in Seq(Of(t)) BY <1>12, <1>14, ConcatProperties
<1>16. Leads(x, t, DeleteRows(t) \o DeleteSchema(t), b, P)
  <2> HIDE DEF P
  <2> QED BY <1>4, <1>6, <1>12, LeadsConcat
<1>17. Leads(x, t, (DeleteRows(t) \o DeleteSchema(t)) \o <<w>>, y, P)
  <2> HIDE DEF P
  <2> QED BY <1>11, <1>12, <1>14, <1>16, LeadsConcat
<1> QED BY <1>10, <1>13, <1>15, <1>17, Zenon

-----------------------------------------------------------------------------
(* Schemas that are orderly                                                *)

\* As many values as arguments at most.
LEMMA FiniteImage ==
  ASSUME NEW f, IsFiniteSet(DOMAIN f)
  PROVE  IsFiniteSet({f[x] : x \in DOMAIN f})
<1>1. \A T : T = {f[x] : x \in DOMAIN f} => [x \in DOMAIN f |-> f[x]] \in Surjection(DOMAIN f, T)
  BY DEF Surjection
<1> QED BY <1>1, FS_Surjection

\* A schema of the lists of another, finitely many lists L and indexes X more.
LEMMA OrderlyBy ==
  ASSUME NEW w, NEW s, Orderly(s, w), NEW a, Range(a.pk) = Range(s.pk),
         NEW L, IsFiniteSet(L), a.unique \subseteq s.unique \cup L,
         NEW X, IsFiniteSet(X), a.indexes \subseteq s.indexes \cup X, PrimaryIsReserved => \A x \in X : x.name # Primary,
         a.fks \subseteq s.fks
  PROVE  Orderly(a, w)
<1>1. IsFiniteSet(a.unique)
  BY FS_Union, FS_Subset DEF Orderly
<1>2. IsFiniteSet(a.indexes)
  BY FS_Union, FS_Subset DEF Orderly
<1>3. IsFiniteSet(a.fks) /\ (w => \A f, g \in a.fks : f.name = g.name => f = g)
  BY FS_Subset DEF Orderly
<1>4. w /\ PrimaryIsReserved => IndexedKey(a)
  BY DEF Orderly, IndexedKey
<1> QED BY <1>1, <1>2, <1>3, <1>4 DEF Orderly

\* The same with one more index at most, none of them over the primary key if
\* none was.
LEMMA IndexOrderly ==
  ASSUME NEW w, NEW s \in Schema, Orderly(s, w), NEW x \in Index, PrimaryIsReserved => x.name # Primary
  PROVE  Orderly(AddIndex(s, x), w)
<1>1. PICK a : a = AddIndex(s, x) OBVIOUS
<1>2. a.pk = s.pk /\ a.unique = s.unique /\ a.fks = s.fks /\ a.indexes \subseteq s.indexes \cup {x}
  BY <1>1, AddIndexFacts
<1>3. IsFiniteSet({}) /\ IsFiniteSet({x}) BY FS_EmptySet, FS_Singleton
<1>4. a.unique \subseteq s.unique \cup {} BY <1>2
<1>5. Orderly(a, w) BY <1>2, <1>3, <1>4, OrderlyBy
<1> QED BY <1>1, <1>5

LEMMA UniqueOrderly ==
  ASSUME NEW w, NEW s \in Schema, Orderly(s, w), NEW name \in Names \cup {None}, NEW cols \in ColumnLists,
         PrimaryIsReserved => name # Primary
  PROVE  /\ Orderly(AddUnique(s, name, cols), w)
         /\ \A x \in AddUnique(s, name, cols).indexes : x \in s.indexes \/ (PrimaryIsReserved => x.name # Primary)
<1>1. PICK x \in Index : x = [name |-> IF name = None THEN cols[1] ELSE name, cols |-> cols, unique |-> TRUE]
  BY ListFacts, BoundsAssumption DEF Index
<1>2. PICK b \in Schema : b = [s EXCEPT !.unique = @ \cup {cols}]
  BY DEF Schema
<1>3. b.pk = s.pk /\ b.fks = s.fks /\ b.unique = s.unique \cup {cols} /\ b.indexes = s.indexes
  BY <1>2 DEF Schema
<1>4. IsFiniteSet({}) /\ IsFiniteSet({cols}) BY FS_EmptySet, FS_Singleton
<1>5. b.indexes \subseteq s.indexes \cup {} /\ b.unique \subseteq s.unique \cup {cols} /\ b.fks \subseteq s.fks
      /\ Range(b.pk) = Range(s.pk)
  BY <1>3
<1>6. Orderly(b, w) BY <1>4, <1>5, OrderlyBy
<1>7. PrimaryIsReserved => x.name # Primary
  <2>1. PrimaryIsReserved => cols[1] # Primary BY ListFacts DEF PrimaryIsReserved
  <2>2. x.name = IF name = None THEN cols[1] ELSE name BY <1>1
  <2> QED BY <2>1, <2>2
<1>8. AddUnique(s, name, cols) = AddIndex(b, x) BY <1>1, <1>2 DEF AddUnique
<1>9. AddIndex(b, x).indexes \subseteq s.indexes \cup {x} BY <1>3, AddIndexFacts
<1> QED BY <1>6, <1>7, <1>8, <1>9, IndexOrderly

LEMMA PrimaryOrderly ==
  ASSUME NEW w, NEW s \in Schema, Orderly(s, w), NEW cols \in Seq(Cols)
  PROVE  Orderly(AddPrimary(s, cols), w)
<1>1. PICK pk \in Seq(Cols) : pk = Extended(s.pk, cols)
  <2>1. s.pk \in Seq(Cols) BY DEF Schema
  <2> QED BY <2>1, ExtendedFacts
<1>2. PICK t \in Schema : /\ t = [s EXCEPT !.pk = pk, !.indexes = {x \in @ : x.name # Primary}] /\ t.pk = pk
                          /\ t.unique = s.unique /\ t.indexes = {x \in s.indexes : x.name # Primary} /\ t.fks = s.fks
  <2>1. PICK X \in SUBSET Index : X = {x \in s.indexes : x.name # Primary} BY DEF Schema
  <2>2. PICK t : t = [s EXCEPT !.pk = pk, !.indexes = X] OBVIOUS
  <2>3. t = [s EXCEPT !.pk = pk, !.indexes = {x \in @ : x.name # Primary}] BY <2>1, <2>2
  <2>4. t \in Schema /\ t.pk = pk /\ t.unique = s.unique /\ t.indexes = X /\ t.fks = s.fks
    BY <2>1, <2>2 DEF Schema
  <2> QED BY <2>1, <2>3, <2>4
<1>3. Orderly(t, w)
  <2>1. IsFiniteSet(t.indexes) BY <1>2, FS_Subset DEF Orderly
  <2>2. IndexedKey(t) BY <1>2 DEF IndexedKey
  <2> QED BY <1>2, <2>1, <2>2 DEF Orderly
<1>4. PICK x : x = [name |-> Primary, cols |-> pk, unique |-> TRUE] OBVIOUS
<1>5. AddPrimary(s, cols) = IF pk = <<>> THEN t ELSE AddIndex(t, x)
  BY <1>1, <1>2, <1>4 DEF AddPrimary
<1>6. CASE pk = <<>> BY <1>3, <1>5, <1>6
<1>7. CASE pk # <<>>
  <2>1. x \in Index BY <1>4, <1>7, BoundsAssumption DEF Index, ColumnLists
  <2>2. PICK a \in Schema : a = AddIndex(t, x) /\ a.pk = pk /\ a.unique = s.unique /\ a.fks = s.fks
                            /\ a.indexes \subseteq t.indexes \cup {x}
    <3> HIDE DEF Index, Schema
    <3>1. AddIndex(t, x) \in Schema /\ AddIndex(t, x).pk = t.pk /\ AddIndex(t, x).unique = t.unique
          /\ AddIndex(t, x).fks = t.fks /\ AddIndex(t, x).indexes \subseteq t.indexes \cup {x}
      BY <2>1, AddIndexFacts
    <3> QED BY <3>1, <1>2
  <2>3. IsFiniteSet(a.indexes)
    <3>1. IsFiniteSet(t.indexes \cup {x}) BY <1>3, FS_AddElement DEF Orderly
    <3> QED BY <3>1, <2>2, FS_Subset
  <2>4. IndexedKey(a)
    <3>1. SUFFICES ASSUME NEW y \in a.indexes, y.name = Primary PROVE y.cols = a.pk BY DEF IndexedKey
    <3>2. y \notin t.indexes BY <3>1, <1>2
    <3>3. y = x BY <3>1, <3>2, <2>2
    <3> QED BY <3>3, <2>2, <1>4
  <2>5. Orderly(a, w) BY <2>2, <2>3, <2>4, <1>2, <1>3 DEF Orderly
  <2> QED BY <2>2, <2>5, <1>5, <1>7
<1> QED BY <1>6, <1>7

LEMMA ForeignOrderly ==
  ASSUME NEW w, NEW s \in Schema, Orderly(s, w), NEW f \in Foreign
  PROVE  Orderly(AddForeign(s, f), w)
<1>1. PICK a \in Schema : a = AddForeign(s, f) /\ a.pk = s.pk /\ a.unique = s.unique /\ a.indexes = s.indexes
  BY AddForeignFacts
<1>2. a.fks = s.fks \/ (a.fks = s.fks \cup {f} /\ \A e \in s.fks : e.name # f.name)
  BY <1>1 DEF AddForeign, Schema
<1>3. IsFiniteSet(a.fks) BY <1>2, FS_AddElement DEF Orderly
<1>4. w => \A e, g \in a.fks : e.name = g.name => e = g BY <1>2 DEF Orderly
<1>5. Orderly(a, w) BY <1>1, <1>3, <1>4 DEF Orderly, IndexedKey
<1> QED BY <1>1, <1>5

\* Dropping.
LEMMA LessOrderly ==
  ASSUME NEW w, NEW s, Orderly(s, w), NEW a, Range(a.pk) = Range(s.pk), a.unique \subseteq s.unique,
         a.indexes \subseteq s.indexes, a.fks \subseteq s.fks
  PROVE  Orderly(a, w)
<1>1. IsFiniteSet({}) BY FS_EmptySet
<1>2. a.unique \subseteq s.unique \cup {} /\ a.indexes \subseteq s.indexes \cup {} OBVIOUS
<1> QED BY <1>1, <1>2, OrderlyBy

LEMMA DropPrimaryOrderly ==
  ASSUME NEW w, NEW s \in Schema, Orderly(s, w)
  PROVE  Orderly(DropPrimary(s), w)
<1>1. PICK d \in Schema : d = DropPrimary(s) /\ d.unique = s.unique /\ d.indexes \subseteq s.indexes /\ d.fks = s.fks
  BY DropPrimaryFacts
<1>2. \A x \in d.indexes : x.name # Primary BY <1>1 DEF DropPrimary, Schema
<1>3. IsFiniteSet(d.indexes) BY <1>1, FS_Subset DEF Orderly
<1>4. Orderly(d, w) BY <1>1, <1>2, <1>3 DEF Orderly, IndexedKey
<1> QED BY <1>1, <1>4

\* Lists that become others, as h says: those of one table's columns become one's.
LEMMA MappedOrderly ==
  ASSUME NEW w, NEW s \in Schema, Orderly(s, w), NEW h \in [Seq(Cols) -> Seq(Cols)], NEW a,
         a.unique \subseteq {h[u] : u \in s.unique},
         a.indexes \subseteq {[x EXCEPT !.cols = h[@]] : x \in s.indexes},
         a.fks \subseteq {[f EXCEPT !.cols = h[@]] : f \in s.fks},
         \A l \in ColumnLists : Range(l) = Range(s.pk) => Range(h[l]) = Range(a.pk)
  PROVE  Orderly(a, w)
<1>1. IsFiniteSet(a.unique)
  <2>1. PICK g : g = [u \in s.unique |-> h[u]] OBVIOUS
  <2>2. IsFiniteSet({g[u] : u \in DOMAIN g}) BY <2>1, FiniteImage DEF Orderly
  <2>3. a.unique \subseteq {g[u] : u \in DOMAIN g} BY <2>1
  <2> QED BY <2>2, <2>3, FS_Subset
<1>2. IsFiniteSet(a.indexes)
  <2>1. PICK g : g = [x \in s.indexes |-> [x EXCEPT !.cols = h[@]]] OBVIOUS
  <2>2. DOMAIN g = s.indexes /\ \A x \in s.indexes : g[x] = [x EXCEPT !.cols = h[@]] BY <2>1
  <2>3. IsFiniteSet({g[u] : u \in DOMAIN g})
    <3>1. IsFiniteSet(DOMAIN g) BY <2>2 DEF Orderly
    <3> QED BY <3>1, FiniteImage
  <2>4. ASSUME NEW z \in a.indexes PROVE z \in {g[u] : u \in DOMAIN g}
    <3>1. PICK x \in s.indexes : z = [x EXCEPT !.cols = h[@]] OBVIOUS
    <3>2. z = g[x] BY <3>1, <2>2
    <3> QED BY <3>2, <2>2
  <2> QED BY <2>3, <2>4, FS_Subset
<1>3. IsFiniteSet(a.fks)
  <2>1. PICK g : g = [x \in s.fks |-> [x EXCEPT !.cols = h[@]]] OBVIOUS
  <2>2. DOMAIN g = s.fks /\ \A x \in s.fks : g[x] = [x EXCEPT !.cols = h[@]] BY <2>1
  <2>3. IsFiniteSet({g[u] : u \in DOMAIN g})
    <3>1. IsFiniteSet(DOMAIN g) BY <2>2 DEF Orderly
    <3> QED BY <3>1, FiniteImage
  <2>4. ASSUME NEW z \in a.fks PROVE z \in {g[u] : u \in DOMAIN g}
    <3>1. PICK x \in s.fks : z = [x EXCEPT !.cols = h[@]] OBVIOUS
    <3>2. z = g[x] BY <3>1, <2>2
    <3> QED BY <3>2, <2>2
  <2> QED BY <2>3, <2>4, FS_Subset
<1>4. ASSUME w, NEW f \in a.fks, NEW g \in a.fks, f.name = g.name PROVE f = g
  <2>1. PICK d \in s.fks : f = [d EXCEPT !.cols = h[@]] OBVIOUS
  <2>2. PICK e \in s.fks : g = [e EXCEPT !.cols = h[@]] OBVIOUS
  <2>3. d \in Foreign /\ e \in Foreign BY DEF Schema
  <2>4. f.name = d.name /\ g.name = e.name BY <2>1, <2>2, <2>3 DEF Foreign
  <2>5. d = e BY <2>4, <1>4 DEF Orderly
  <2> QED BY <2>1, <2>2, <2>5
<1>5. ASSUME w, PrimaryIsReserved, NEW x \in a.indexes, x.name = Primary PROVE Range(x.cols) = Range(a.pk)
  <2>1. PICK y \in s.indexes : x = [y EXCEPT !.cols = h[@]] OBVIOUS
  <2>2. y \in Index BY DEF Schema
  <2>3. x.name = y.name /\ x.cols = h[y.cols] /\ y.cols \in ColumnLists BY <2>1, <2>2 DEF Index
  <2>4. Range(y.cols) = Range(s.pk) BY <2>3, <1>5 DEF Orderly, IndexedKey
  <2> QED BY <2>3, <2>4
<1> QED BY <1>1, <1>2, <1>3, <1>4, <1>5 DEF Orderly, IndexedKey

LEMMA DropColumnOrderly ==
  ASSUME NEW w, NEW s \in Schema, Orderly(s, w), NEW c
  PROVE  Orderly(DropColumn(s, c), w)
<1>1. PICK h \in [Seq(Cols) -> Seq(Cols)] : \A l \in Seq(Cols) : h[l] = Less(l, c)
  <2>1. \A l \in Seq(Cols) : Less(l, c) \in Seq(Cols) BY LessFacts
  <2>2. [l \in Seq(Cols) |-> Less(l, c)] \in [Seq(Cols) -> Seq(Cols)] BY <2>1
  <2> QED BY <2>2
<1>2. PICK a : a = DropColumn(s, c) OBVIOUS
<1>3. a.unique \subseteq {h[u] : u \in s.unique}
  <2>1. a.unique = {Less(u, c) : u \in s.unique} \ {<<>>} BY <1>2 DEF DropColumn
  <2>2. \A u \in s.unique : u \in Seq(Cols) BY ListFacts DEF Schema
  <2> QED BY <2>1, <2>2, <1>1
<1>4. a.indexes \subseteq {[x EXCEPT !.cols = h[@]] : x \in s.indexes}
  <2>1. a.indexes = {x \in {[x EXCEPT !.cols = Less(@, c)] : x \in s.indexes} : x.cols # <<>>} BY <1>2 DEF DropColumn
  <2>2. \A x \in s.indexes : x.cols \in Seq(Cols) BY ListFacts DEF Schema, Index
  <2>3. \A x \in s.indexes : [x EXCEPT !.cols = Less(@, c)] = [x EXCEPT !.cols = h[@]] BY <2>2, <1>1
  <2> QED BY <2>1, <2>3
<1>5. a.fks \subseteq {[f EXCEPT !.cols = h[@]] : f \in s.fks}
  <2>1. a.fks = {f \in {[f EXCEPT !.cols = Less(@, c)] : f \in s.fks} : f.cols # <<>>} BY <1>2 DEF DropColumn
  <2>2. \A f \in s.fks : f.cols \in Seq(Cols) BY ListFacts DEF Schema, Foreign
  <2>3. \A f \in s.fks : [f EXCEPT !.cols = Less(@, c)] = [f EXCEPT !.cols = h[@]] BY <2>2, <1>1
  <2> QED BY <2>1, <2>3
<1>6. ASSUME NEW l \in ColumnLists, Range(l) = Range(s.pk) PROVE Range(h[l]) = Range(a.pk)
  <2>1. a.pk = Less(s.pk, c) BY <1>2, DropColumnFacts
  <2>2. s.pk \in Seq(Cols) /\ l \in Seq(Cols) BY ListFacts DEF Schema
  <2>3. Range(Less(s.pk, c)) = Range(s.pk) \ {c} /\ Range(Less(l, c)) = Range(l) \ {c} BY <2>2, LessFacts
  <2> QED BY <2>1, <2>2, <2>3, <1>1, <1>6
<1>7. Orderly(a, w) BY <1>3, <1>4, <1>5, <1>6, MappedOrderly
<1> QED BY <1>2, <1>7

LEMMA RenameColumnOrderly ==
  ASSUME NEW w, NEW s \in Schema, Orderly(s, w), NEW old \in Cols, NEW new \in Cols
  PROVE  Orderly(RenameColumn(s, old, new), w)
<1>1. PICK h \in [Seq(Cols) -> Seq(Cols)] : \A l \in Seq(Cols) : h[l] = Renamed(l, old, new)
  <2>1. \A l \in Seq(Cols) : Renamed(l, old, new) \in Seq(Cols) BY RenamedFacts
  <2>2. [l \in Seq(Cols) |-> Renamed(l, old, new)] \in [Seq(Cols) -> Seq(Cols)] BY <2>1
  <2> QED BY <2>2
<1>2. PICK a : a = RenameColumn(s, old, new) OBVIOUS
<1>3. a.unique \subseteq {h[u] : u \in s.unique}
  <2>1. a.unique = {Renamed(u, old, new) : u \in s.unique} BY <1>2 DEF RenameColumn
  <2>2. \A u \in s.unique : u \in Seq(Cols) BY ListFacts DEF Schema
  <2> QED BY <2>1, <2>2, <1>1
<1>4. a.indexes \subseteq {[x EXCEPT !.cols = h[@]] : x \in s.indexes}
  <2>1. a.indexes = {[x EXCEPT !.cols = Renamed(@, old, new)] : x \in s.indexes} BY <1>2 DEF RenameColumn
  <2>2. \A x \in s.indexes : x.cols \in Seq(Cols) BY ListFacts DEF Schema, Index
  <2>3. \A x \in s.indexes : [x EXCEPT !.cols = Renamed(@, old, new)] = [x EXCEPT !.cols = h[@]] BY <2>2, <1>1
  <2> QED BY <2>1, <2>3
<1>5. a.fks \subseteq {[f EXCEPT !.cols = h[@]] : f \in s.fks}
  <2>1. a.fks = {[f EXCEPT !.cols = Renamed(@, old, new)] : f \in s.fks} BY <1>2 DEF RenameColumn
  <2>2. \A f \in s.fks : f.cols \in Seq(Cols) BY ListFacts DEF Schema, Foreign
  <2>3. \A f \in s.fks : [f EXCEPT !.cols = Renamed(@, old, new)] = [f EXCEPT !.cols = h[@]] BY <2>2, <1>1
  <2> QED BY <2>1, <2>3
<1>6. ASSUME NEW l \in ColumnLists, Range(l) = Range(s.pk) PROVE Range(h[l]) = Range(a.pk)
  <2>1. PICK p \in Seq(Cols) : p = s.pk BY DEF Schema
  <2>2. a.pk = Renamed(p, old, new) BY <1>2, <2>1, RenameColumnFacts
  <2>3. l \in Seq(Cols) BY ListFacts
  <2>4. Range(Renamed(p, old, new)) = (IF old \in Range(p) THEN (Range(p) \ {old}) \cup {new} ELSE Range(p))
    BY RenamedFacts
  <2>5. Range(Renamed(l, old, new)) = (IF old \in Range(l) THEN (Range(l) \ {old}) \cup {new} ELSE Range(l))
    BY <2>3, RenamedFacts
  <2> QED BY <2>1, <2>2, <2>3, <2>4, <2>5, <1>1, <1>6
<1>7. Orderly(a, w) BY <1>3, <1>4, <1>5, <1>6, MappedOrderly
<1> QED BY <1>2, <1>7

-----------------------------------------------------------------------------
(* CREATE TABLE                                                            *)

\* A constraint of CREATE TABLE leaves the columns, and the key unless it is one.
LEMMA ConstrainFacts ==
  ASSUME NEW s \in Schema, NEW c \in Constraint
  PROVE  LET a == Constrain(s, c)
         IN a \in Schema /\ a.order = s.order /\ a.pk = IF c.op = "primary" THEN c.cols ELSE s.pk
<1>1. CASE c.op = "primary"
  <2>1. c.cols \in Seq(Cols) BY <1>1, ListFacts DEF Constraint
  <2>2. Constrain(s, c) = [s EXCEPT !.pk = c.cols] BY <1>1 DEF Constrain
  <2> QED BY <2>1, <2>2, <1>1 DEF Schema
<1>2. CASE c.op = "unique"
  <2>1. c.name \in Names \cup {None} /\ c.cols \in ColumnLists BY <1>2 DEF Constraint
  <2>2. Constrain(s, c) = AddUnique(s, c.name, c.cols) BY <1>2 DEF Constrain
  <2> QED BY <2>1, <2>2, <1>2, AddUniqueFacts
<1>3. CASE c.op = "index"
  <2>1. PICK x \in Index : x = [name |-> c.name, cols |-> c.cols, unique |-> FALSE]
    BY <1>3 DEF Constraint, Index
  <2>2. Constrain(s, c) = [s EXCEPT !.indexes = @ \cup {x}]
    BY <1>3, <2>1 DEF Constrain
  <2>3. PICK a : a = Constrain(s, c) OBVIOUS
  <2>4. a \in Schema /\ a.order = s.order /\ a.pk = s.pk BY <2>1, <2>2, <2>3 DEF Schema
  <2>5. c.op # "primary" BY <1>3
  <2> QED BY <2>3, <2>4, <2>5
<1>4. CASE c.op = "foreign"
  <2> DEFINE own == [name |-> c.fk.cols[1], cols |-> c.fk.cols, unique |-> FALSE]
             lists == {s.pk} \cup s.unique \cup {x.cols : x \in s.indexes}
             led == \E list \in lists : IsPrefix(c.fk.cols, list)
             b == IF led THEN s ELSE AddIndex(s, own)
  <2>1. c.fk \in Foreign BY <1>4 DEF Constraint
  <2>2. own \in Index
    <3>1. c.fk.cols \in ColumnLists BY <2>1 DEF Foreign
    <3>2. c.fk.cols[1] \in Names BY <3>1, ListFacts, BoundsAssumption
    <3> QED BY <3>1, <3>2 DEF Index
  <2> HIDE DEF led, own
  <2>3. b \in Schema /\ b.order = s.order /\ b.pk = s.pk BY <2>2, AddIndexFacts
  <2>4. Constrain(s, c) = AddForeign(b, c.fk) BY <1>4 DEF Constrain, led, own
  <2> HIDE DEF b
  <2> QED BY <2>1, <2>3, <2>4, <1>4, AddForeignFacts
<1> QED BY <1>1, <1>2, <1>3, <1>4 DEF Constraint

\* A constraint that gives no index the name of the primary key's.
FreeName(o) == o.op \in {"unique", "index"} => o.name # Primary
Unindexed(s) == \A x \in s.indexes : x.name # Primary

LEMMA ConstrainOrderly ==
  ASSUME NEW w, NEW s \in Schema, Orderly(s, w), NEW c \in Constraint, PrimaryIsReserved => Unindexed(s) /\ FreeName(c)
  PROVE  Orderly(Constrain(s, c), w) /\ (PrimaryIsReserved => Unindexed(Constrain(s, c)))
<1>1. CASE c.op = "primary"
  <2>1. c.cols \in Seq(Cols) BY <1>1, ListFacts DEF Constraint
  <2>2. PICK a \in Schema : a = Constrain(s, c) /\ a.unique = s.unique /\ a.indexes = s.indexes /\ a.fks = s.fks
    <3>1. Constrain(s, c) = [s EXCEPT !.pk = c.cols] BY <1>1 DEF Constrain
    <3>2. PICK a : a = [s EXCEPT !.pk = c.cols] OBVIOUS
    <3>3. a \in Schema /\ a.unique = s.unique /\ a.indexes = s.indexes /\ a.fks = s.fks
      BY <2>1, <3>2 DEF Schema
    <3> QED BY <3>1, <3>2, <3>3
  <2> QED BY <2>2 DEF Orderly, IndexedKey, Unindexed
<1>2. CASE c.op = "unique"
  <2>1. c.name \in Names \cup {None} /\ c.cols \in ColumnLists BY <1>2 DEF Constraint
  <2>2. Constrain(s, c) = AddUnique(s, c.name, c.cols) BY <1>2 DEF Constrain
  <2>3. PrimaryIsReserved => c.name # Primary BY <1>2 DEF FreeName
  <2>4. /\ Orderly(AddUnique(s, c.name, c.cols), w)
        /\ \A x \in AddUnique(s, c.name, c.cols).indexes : x \in s.indexes \/ (PrimaryIsReserved => x.name # Primary)
    BY <2>1, <2>3, UniqueOrderly
  <2> QED BY <2>2, <2>4 DEF Unindexed
<1>3. CASE c.op = "index"
  <2>1. PICK x \in Index : x = [name |-> c.name, cols |-> c.cols, unique |-> FALSE]
    BY <1>3 DEF Constraint, Index
  <2>2. PICK a \in Schema : /\ a = Constrain(s, c) /\ a.pk = s.pk /\ a.unique = s.unique /\ a.fks = s.fks
                            /\ a.indexes = s.indexes \cup {x}
    <3>1. Constrain(s, c) = [s EXCEPT !.indexes = @ \cup {x}] BY <1>3, <2>1 DEF Constrain
    <3>2. PICK a : a = [s EXCEPT !.indexes = @ \cup {x}] OBVIOUS
    <3>3. a \in Schema /\ a.pk = s.pk /\ a.unique = s.unique /\ a.fks = s.fks /\ a.indexes = s.indexes \cup {x}
      BY <3>2 DEF Schema
    <3> QED BY <3>1, <3>2, <3>3
  <2>3. PrimaryIsReserved => x.name # Primary BY <1>3, <2>1 DEF FreeName
  <2>4. IsFiniteSet({}) /\ IsFiniteSet({x}) BY FS_EmptySet, FS_Singleton
  <2>5. a.unique \subseteq s.unique \cup {} BY <2>2
  <2>6. Orderly(a, w) BY <2>2, <2>3, <2>4, <2>5, OrderlyBy
  <2> QED BY <2>2, <2>3, <2>6 DEF Unindexed
<1>4. CASE c.op = "foreign"
  <2> DEFINE lists == {s.pk} \cup s.unique \cup {x.cols : x \in s.indexes}
             led == \E list \in lists : IsPrefix(c.fk.cols, list)
  <2>1. c.fk \in Foreign /\ c.fk.cols \in ColumnLists BY <1>4 DEF Constraint, Foreign
  <2>2. PICK own \in Index : own = [name |-> c.fk.cols[1], cols |-> c.fk.cols, unique |-> FALSE]
    <3>1. c.fk.cols[1] \in Names BY <2>1, ListFacts, BoundsAssumption
    <3> QED BY <2>1, <3>1 DEF Index
  <2>3. PrimaryIsReserved => own.name # Primary
    <3>1. own.name \in Cols BY <2>1, <2>2, ListFacts
    <3> QED BY <3>1 DEF PrimaryIsReserved
  <2> HIDE DEF led
  <2>4. PICK b \in Schema : /\ b = IF led THEN s ELSE AddIndex(s, own)
                            /\ Orderly(b, w) /\ b.indexes \subseteq s.indexes \cup {own}
    BY <2>3, IndexOrderly, AddIndexFacts
  <2>5. Constrain(s, c) = AddForeign(b, c.fk) BY <1>4, <2>2, <2>4 DEF Constrain, led
  <2>6. Orderly(AddForeign(b, c.fk), w) /\ AddForeign(b, c.fk).indexes = b.indexes
    BY <2>1, <2>4, ForeignOrderly, AddForeignFacts
  <2> QED BY <2>3, <2>4, <2>5, <2>6 DEF Unindexed
<1> QED BY <1>1, <1>2, <1>3, <1>4 DEF Constraint

\* The schemas that the constraints of a CREATE TABLE make, one after the other.
LEMMA CreateDef ==
  ASSUME NEW cols \in Seq(Cols), NEW list \in Seq(Constraint)
  PROVE  \E f \in [0..Len(list) -> Schema] :
           /\ SchemaFromCreate(cols, list) =
                IF f[Len(list)].pk = <<>> THEN f[Len(list)] ELSE AddPrimary(f[Len(list)], f[Len(list)].pk)
           /\ f[0] = [EmptySchema EXCEPT !.order = cols]
           /\ \A i \in 1..Len(list) : f[i] = Constrain(f[i - 1], list[i])
<1> DEFINE n == Len(list)
           V == Schema
           b == [EmptySchema EXCEPT !.order = cols]
           G == [i \in 1..n |-> [v \in V |-> Constrain(v, list[i])]]
           Step(f) == [i \in 0..n |-> IF i = 0 THEN b ELSE Constrain(f[i - 1], list[i])]
<1>1. n \in Nat /\ n \in 0..n /\ \A i \in 1..n : list[i] \in Constraint
  OBVIOUS
<1>2. b \in V
  <2>1. PICK e \in Seq(Cols) : e = <<>>
    <3>1. <<>> \in Seq(Cols) OBVIOUS
    <3> QED BY <3>1, Zenon
  <2>2. EmptySchema = [order |-> e, pk |-> e, unique |-> {}, indexes |-> {}, fks |-> {}]
    BY <2>1, Zenon DEF EmptySchema
  <2> QED BY <2>2 DEF Schema
<1>3. G \in [1..n -> [V -> V]]
  <2>1. \A i \in 1..n : \A v \in V : Constrain(v, list[i]) \in V
    BY <1>1, ConstrainFacts
  <2> HIDE DEF V, n
  <2> QED BY <2>1
<1> HIDE DEF V, b
<1>4. PICK f \in [0..n -> V] : f[0] = b /\ \A i \in 1..n : f[i] = G[i][f[i - 1]]
  <2> HIDE DEF G, n
  <2>2. Chains(V, b, n, G) # {} BY <1>1, <1>2, <1>3, Recursion
  <2> QED BY <2>2 DEF Chains
<1>5. ASSUME NEW i \in 1..n PROVE f[i] = Constrain(f[i - 1], list[i])
  <2>1. i - 1 \in 0..n OBVIOUS
  <2>2. f[i - 1] \in V BY <2>1
  <2> HIDE DEF n
  <2> QED BY <2>2, <1>4
<1>6. f = Step(f)
  <2>1. ASSUME NEW i \in 0..n PROVE f[i] = Step(f)[i]
    <3>1. CASE i = 0 BY <3>1, <1>4
    <3>2. CASE i # 0
      <4>1. i \in 1..n BY <3>2
      <4>2. Step(f)[i] = Constrain(f[i - 1], list[i]) BY <3>2
      <4> HIDE DEF n, G, Step
      <4> QED BY <4>1, <4>2, <1>5
    <3> QED BY <3>1, <3>2
  <2> HIDE DEF n, G
  <2> QED BY <2>1
<1>7. \E g : g = Step(g) BY <1>6
<1>8. PICK g : g = Step(g) /\ g = CHOOSE h : h = Step(h)
  BY <1>7, Zenon
<1>9. \A i \in 0..n : g[i] = f[i]
  <2>1. g[0] = f[0]
    <3>1. Step(g)[0] = b BY <1>1
    <3> HIDE DEF Step
    <3> QED BY <3>1, <1>4, <1>8
  <2>2. ASSUME NEW i \in 1..n, g[i - 1] = f[i - 1] PROVE g[i] = f[i]
    <3>1. i \in 0..n /\ i # 0 OBVIOUS
    <3>2. Step(g)[i] = Constrain(g[i - 1], list[i]) BY <3>1
    <3> HIDE DEF n, Step
    <3>3. g[i] = Constrain(g[i - 1], list[i]) BY <3>2, <1>8
    <3> QED BY <3>3, <2>2, <1>5
  <2>3. n \in Nat OBVIOUS
  <2> HIDE DEF n, Step
  <2> QED BY ZenonT(60), <2>1, <2>2, <2>3, SameChain
<1>10. SchemaFromCreate(cols, list) = IF g[n].pk = <<>> THEN g[n] ELSE AddPrimary(g[n], g[n].pk)
  <2> DEFINE C == CHOOSE h : h = Step(h)
  <2>1. SchemaFromCreate(cols, list) = IF C[n].pk = <<>> THEN C[n] ELSE AddPrimary(C[n], C[n].pk)
    BY Zenon DEF SchemaFromCreate, b
  <2>2. C = g BY <1>8, Zenon
  <2> HIDE DEF C
  <2> QED BY <2>1, <2>2
<1>11. g[n] = f[n] BY <1>1, <1>9
<1>12. \A i \in 1..n : f[i] = Constrain(f[i - 1], list[i]) BY <1>5
<1> QED BY <1>4, <1>10, <1>11, <1>12 DEF V, b

\* The schema of a CREATE TABLE: its columns; a key with each column once if the
\* statement's key is plain; and it is orderly.
LEMMA CreateFacts ==
  ASSUME NEW w, NEW cols \in Seq(Cols), NEW list \in Seq(Constraint)
  PROVE  LET s == SchemaFromCreate(cols, list)
         IN /\ s \in Schema /\ s.order = cols
            /\ (\A k \in Range(list) : k.op = "primary" => IsInjective(k.cols)) => IsInjective(s.pk)
            /\ (PrimaryIsReserved => \A k \in Range(list) : FreeName(k)) => Orderly(s, w)
<1> DEFINE n == Len(list)
           Plain == \A k \in Range(list) : k.op = "primary" => IsInjective(k.cols)
           Free == PrimaryIsReserved => \A k \in Range(list) : FreeName(k)
<1>1. PICK f \in [0..n -> Schema] :
        /\ SchemaFromCreate(cols, list) = IF f[n].pk = <<>> THEN f[n] ELSE AddPrimary(f[n], f[n].pk)
        /\ f[0] = [EmptySchema EXCEPT !.order = cols]
        /\ \A i \in 1..n : f[i] = Constrain(f[i - 1], list[i])
  BY CreateDef
<1>2. n \in Nat /\ n \in 0..n /\ 0 \in 0..n /\ DOMAIN list = 1..n /\ \A i \in 1..n : list[i] \in Constraint
  OBVIOUS
<1> HIDE DEF n
<1> DEFINE Fine(g) == /\ g.order = cols /\ (Plain => IsInjective(g.pk))
                      /\ Free => Orderly(g, w) /\ (PrimaryIsReserved => Unindexed(g))
           S == {i \in 0..n : Fine(f[i])}
<1>3. 0 \in S
  <2>1. f[0].order = cols /\ f[0].pk = <<>> BY <1>1 DEF EmptySchema
  <2>2. IsInjective(<<>>) BY DEF IsInjective
  <2>3. f[0].unique = {} /\ f[0].indexes = {} /\ f[0].fks = {} BY <1>1 DEF EmptySchema
  <2>4. Orderly(f[0], w) /\ Unindexed(f[0]) BY <2>3, FS_EmptySet DEF Orderly, IndexedKey, Unindexed
  <2> QED BY <2>1, <2>2, <2>4, <1>2
<1>4. ASSUME NEW i \in 1..n, i - 1 \in S PROVE i \in S
  <2>1. i - 1 \in 0..n /\ i \in 0..n BY <1>2
  <2>2. PICK g \in Schema : g = f[i - 1] /\ Fine(g)
    <3> HIDE DEF Fine
    <3> QED BY <2>1, <1>4
  <2>3. PICK c \in Constraint : c = list[i] /\ c \in Range(list) BY <1>2 DEF Range
  <2>4. PICK a : a = Constrain(g, c) OBVIOUS
  <2>5. a.order = cols /\ (Plain => IsInjective(a.pk))
    <3>1. a.order = g.order /\ a.pk = IF c.op = "primary" THEN c.cols ELSE g.pk BY <2>4, ConstrainFacts
    <3> QED BY <3>1, <2>2, <2>3
  <2>6. ASSUME Free PROVE Orderly(a, w) /\ (PrimaryIsReserved => Unindexed(a))
    <3>1. PrimaryIsReserved => FreeName(c) BY <2>3, <2>6
    <3>2. Orderly(g, w) /\ (PrimaryIsReserved => Unindexed(g)) BY <2>2, <2>6
    <3> QED BY <3>1, <3>2, <2>4, ConstrainOrderly
  <2>7. Fine(a)
    <3> HIDE DEF Free, Plain
    <3> QED BY <2>5, <2>6
  <2>8. a = f[i] BY <2>2, <2>3, <2>4, <1>1
  <2> HIDE DEF Fine
  <2> QED BY <2>1, <2>7, <2>8
<1>5. n \in S
  <2> HIDE DEF S
  <2>1. 0..n \subseteq S BY <1>2, <1>3, <1>4, Along
  <2> QED BY <2>1, <1>2
<1>6. PICK s \in Schema : s = f[n] /\ s.order = cols /\ (Plain => IsInjective(s.pk)) /\ (Free => Orderly(s, w))
  BY <1>2, <1>5
<1>7. s.pk \in Seq(Cols) BY DEF Schema
<1>8. AddPrimary(s, s.pk) \in Schema /\ AddPrimary(s, s.pk).order = cols
      /\ (Plain => IsInjective(AddPrimary(s, s.pk).pk))
  BY <1>6, <1>7, AddPrimaryFacts, ExtendedFacts
<1>9. Free => Orderly(AddPrimary(s, s.pk), w) BY <1>6, <1>7, PrimaryOrderly
<1> QED BY <1>1, <1>6, <1>8, <1>9

-----------------------------------------------------------------------------
(* ALTER TABLE                                                             *)

\* An ALTER operation on keys, indexes and constraints leaves the columns.
LEMMA FallbackFacts ==
  ASSUME NEW s \in Schema, NEW o \in Operation,
         o.op \notin {"add", "drop", "rename", "change", "modify", "unsupported"}
  PROVE  LET a == Fallback(s, o)
         IN /\ a \in Schema /\ a.order = s.order
            /\ a.pk = IF o.op = "primary" THEN Extended(s.pk, o.cols)
                      ELSE IF o.op = "dropPrimary" THEN <<>> ELSE s.pk
<1>1. CASE o.op = "primary"
  <2>1. o.cols \in Seq(Cols) BY <1>1, ListFacts DEF Operation, Constraint
  <2>2. Fallback(s, o) = AddPrimary(s, o.cols) BY <1>1 DEF Fallback
  <2> QED BY <2>1, <2>2, <1>1, AddPrimaryFacts
<1>2. CASE o.op = "unique"
  <2>1. o.name \in Names \cup {None} /\ o.cols \in ColumnLists BY <1>2 DEF Operation, Constraint
  <2>2. Fallback(s, o) = AddUnique(s, o.name, o.cols) BY <1>2 DEF Fallback
  <2> QED BY <2>1, <2>2, <1>2, AddUniqueFacts
<1>3. CASE o.op = "index"
  <2>1. PICK x \in Index : x = [name |-> o.name, cols |-> o.cols, unique |-> FALSE]
    BY <1>3 DEF Operation, Constraint, Index
  <2>2. Fallback(s, o) = AddIndex(s, x) BY <1>3, <2>1 DEF Fallback
  <2> QED BY <2>2, <1>3, AddIndexFacts
<1>4. CASE o.op = "foreign"
  <2>1. o.fk \in Foreign BY <1>4 DEF Operation, Constraint
  <2>2. Fallback(s, o) = AddForeign(s, o.fk) BY <1>4 DEF Fallback
  <2> QED BY <2>1, <2>2, <1>4, AddForeignFacts
<1>5. CASE o.op = "dropPrimary"
  <2>1. Fallback(s, o) = DropPrimary(s) BY <1>5 DEF Fallback
  <2> QED BY <2>1, <1>5, DropPrimaryFacts
<1>6. CASE o.op = "dropConstraint"
  <2>1. PICK d \in Schema : d = DropUnique(s, o.name) /\ d.order = s.order /\ d.pk = s.pk BY DropUniqueFacts
  <2>2. Fallback(s, o) = DropForeign(d, o.name) BY <2>1, <1>6 DEF Fallback
  <2> QED BY <2>1, <2>2, <1>6, DropForeignFacts
<1>7. CASE o.op = "dropForeign"
  <2>1. Fallback(s, o) = DropForeign(s, o.name) BY <1>7 DEF Fallback
  <2> QED BY <2>1, <1>7, DropForeignFacts
<1>8. o.op \in {"primary", "unique", "index", "foreign", "dropPrimary", "dropConstraint", "dropForeign"}
  BY DEF Operation, Constraint
<1> QED BY <1>1, <1>2, <1>3, <1>4, <1>5, <1>6, <1>7, <1>8

\* The schema that an operation makes of one, and when it does.
Grown(s, o) == [s EXCEPT !.order = Append(@, o.col)]
New(s, o) ==
  CASE o.op = "add" -> IF o.key THEN AddPrimary(Placed(Grown(s, o), o.col, o.pos), <<o.col>>)
                       ELSE Placed(Grown(s, o), o.col, o.pos)
    [] o.op = "drop" -> DropColumn(s, o.col)
    [] o.op = "rename" -> RenameColumn(s, o.old, o.new)
    [] o.op = "change" -> Placed(RenameColumn(s, o.old, o.new), o.new, o.pos)
    [] o.op = "modify" -> Placed(s, o.col, o.pos)
    [] OTHER -> Fallback(s, o)
May(s, o) ==
  CASE o.op = "add" -> o.col \notin Columns(s) /\ Places(s, o.col, o.pos)
    [] o.op = "drop" -> o.col \in Columns(s)
    [] o.op = "rename" -> o.old \in Columns(s) /\ o.new \notin Columns(s)
    [] o.op = "change" -> /\ o.old \in Columns(s) /\ (o.new = o.old \/ o.new \notin Columns(s))
                          /\ Places(RenameColumn(s, o.old, o.new), o.new, o.pos)
    [] o.op = "modify" -> o.col \in Columns(s) /\ Places(s, o.col, o.pos)
    [] OTHER -> o.op # "unsupported"
MovesValues(o) == o.op \in {"rename", "change"}
RowsMoved(rows, o) == [k \in DOMAIN rows |-> Moved(rows[k], o.old, o.new)]

\* Apply, said once more with New and May.
LEMMA ApplyForm ==
  ASSUME NEW t, NEW st, NEW o
  PROVE  Apply(t, st, o) =
           IF ~st.ok THEN st
           ELSE IF ~May(st.schema, o) THEN [st EXCEPT !.ok = FALSE]
           ELSE IF MovesValues(o)
           THEN [st EXCEPT !.schema = New(st.schema, o), !.rows = RowsMoved(st.rows, o), !.moved = TRUE,
                           !.sent = @ \o PutRows(t, RowsMoved(st.rows, o))]
           ELSE [st EXCEPT !.schema = New(st.schema, o)]
<1>1. CASE ~st.ok BY <1>1 DEF Apply
<1>2. CASE st.ok /\ o.op = "add" BY <1>2 DEF Apply, New, May, MovesValues, Grown
<1>3. CASE st.ok /\ o.op = "drop" BY <1>3 DEF Apply, New, May, MovesValues
<1>4. CASE st.ok /\ o.op = "rename" BY <1>4 DEF Apply, New, May, MovesValues, RowsMoved
<1>5. CASE st.ok /\ o.op = "change" BY <1>5 DEF Apply, New, May, MovesValues, RowsMoved
<1>6. CASE st.ok /\ o.op = "modify" BY <1>6 DEF Apply, New, May, MovesValues
<1>7. CASE st.ok /\ o.op \notin {"add", "drop", "rename", "change", "modify"}
  BY <1>7 DEF Apply, New, May, MovesValues
<1> QED BY <1>1, <1>2, <1>3, <1>4, <1>5, <1>6, <1>7

\* The columns of a schema, and of its key, that names it columns or some of a set L.
Plainly(s, L) == IsInjective(s.order) /\ IsInjective(s.pk) /\ Range(s.pk) \subseteq Columns(s) \cup L
Listed(o) == IF o.op = "primary" THEN Range(o.cols) ELSE {}

\* A column more.
LEMMA GrownFacts ==
  ASSUME NEW s \in Schema, NEW o, o.col \in Cols, o.col \notin Columns(s), Places(s, o.col, o.pos)
  PROVE  LET a == Placed(Grown(s, o), o.col, o.pos)
         IN /\ a \in Schema /\ a.pk = s.pk /\ Columns(a) = Columns(s) \cup {o.col}
            /\ IsInjective(s.order) => IsInjective(a.order)
<1>1. s.order \in Seq(Cols) BY DEF Schema
<1>2. PICK l : l = Append(s.order, o.col) /\ l \in Seq(Cols)
  <2>1. PICK c \in Cols : c = o.col OBVIOUS
  <2>2. Append(s.order, c) \in Seq(Cols) BY <1>1
  <2> QED BY <2>1, <2>2
<1>3. Range(l) = Columns(s) \cup {o.col} /\ (IsInjective(s.order) => IsInjective(l))
  BY <1>1, <1>2, AppendRange, AppendNew DEF Columns
<1>4. PICK g \in Schema : g = Grown(s, o) /\ g.order = l /\ g.pk = s.pk
  <2>1. Grown(s, o) = [s EXCEPT !.order = l] BY <1>2 DEF Grown
  <2>2. [s EXCEPT !.order = l] \in Schema /\ [s EXCEPT !.order = l].order = l /\ [s EXCEPT !.order = l].pk = s.pk
    BY <1>2 DEF Schema
  <2> HIDE DEF Schema
  <2> QED BY <2>1, <2>2
<1>5. Places(g, o.col, o.pos) /\ o.col \in Columns(g) BY <1>3, <1>4 DEF Places, Columns
<1>6. Columns(g) = Columns(s) \cup {o.col} BY <1>3, <1>4 DEF Columns
<1> QED BY <1>3, <1>4, <1>5, <1>6, PlacedFacts

\* An operation that is done makes a schema of a schema; and if the key is plain
\* it stays so.
LEMMA NewFacts ==
  ASSUME NEW s \in Schema, NEW o \in Operation, May(s, o)
  PROVE  /\ New(s, o) \in Schema /\ (IsInjective(s.order) => IsInjective(New(s, o).order))
         /\ \A L : /\ Plainly(s, L)
                   /\ MovesValues(o) => o.new = o.old \/ o.new \notin L
                   => Plainly(New(s, o), L \cup Listed(o))
<1>0. s.order \in Seq(Cols) /\ s.pk \in Seq(Cols) BY DEF Schema
<1>1. CASE o.op = "add"
  <2>1. o.col \in Cols /\ o.col \notin Columns(s) /\ Places(s, o.col, o.pos)
    BY <1>1 DEF May, Operation, Constraint
  <2>2. PICK a \in Schema : /\ a = Placed(Grown(s, o), o.col, o.pos) /\ a.pk = s.pk
                            /\ Columns(a) = Columns(s) \cup {o.col}
                            /\ IsInjective(s.order) => IsInjective(a.order)
    BY <2>1, GrownFacts
  <2>3. CASE ~o.key
    <3>1. New(s, o) = a BY <2>2, <2>3, <1>1 DEF New
    <3> QED BY <2>2, <3>1, <1>1 DEF Plainly
  <2>4. CASE o.key
    <3>1. PICK l \in Seq(Cols) : l = <<o.col>>
      <4>1. <<o.col>> \in Seq(Cols) BY <2>1
      <4> QED BY <4>1, Zenon
    <3>2. Range(l) = {o.col} BY <3>1, <2>1 DEF Range
    <3>3. New(s, o) = AddPrimary(a, l) BY <2>2, <2>4, <1>1, <3>1 DEF New
    <3>4. New(s, o) \in Schema /\ New(s, o).order = a.order /\ New(s, o).pk = Extended(s.pk, l)
      BY <2>2, <3>3, AddPrimaryFacts
    <3>5. Range(New(s, o).pk) = Range(s.pk) \cup {o.col} /\ (IsInjective(s.pk) => IsInjective(New(s, o).pk))
      BY <3>2, <3>4, <1>0, ExtendedFacts
    <3>6. Columns(New(s, o)) = Columns(s) \cup {o.col} BY <3>4, <2>2 DEF Columns
    <3> QED BY <3>4, <3>5, <3>6, <2>2 DEF Plainly
  <2> QED BY <2>3, <2>4
<1>2. CASE o.op = "drop"
  <2>1. New(s, o) = DropColumn(s, o.col) BY <1>2 DEF New
  <2>2. PICK a \in Schema : a = New(s, o) /\ a.order = Less(s.order, o.col) /\ a.pk = Less(s.pk, o.col)
    BY <2>1, DropColumnFacts
  <2>3. Columns(a) = Columns(s) \ {o.col} /\ Range(a.pk) = Range(s.pk) \ {o.col}
        /\ (IsInjective(s.order) => IsInjective(a.order)) /\ (IsInjective(s.pk) => IsInjective(a.pk))
    BY <2>2, <1>0, LessFacts DEF Columns
  <2> QED BY <2>2, <2>3 DEF Plainly
<1>3. CASE MovesValues(o)
  <2>1. o.old \in Cols /\ o.new \in Cols /\ o.old \in Columns(s) /\ (o.new = o.old \/ o.new \notin Columns(s))
    BY <1>3 DEF MovesValues, May, Operation, Constraint
  <2>2. PICK r \in Schema : r = RenameColumn(s, o.old, o.new) /\ r.order = Renamed(s.order, o.old, o.new)
                            /\ r.pk = Renamed(s.pk, o.old, o.new)
    BY <2>1, RenameColumnFacts
  <2>3. Columns(r) = (Columns(s) \ {o.old}) \cup {o.new} /\ (IsInjective(s.order) => IsInjective(r.order))
    BY <2>1, <2>2, <1>0, RenamedFacts DEF Columns
  <2>4. PICK a \in Schema : a = New(s, o) /\ a.pk = r.pk /\ Columns(a) = Columns(r)
                            /\ (IsInjective(r.order) => IsInjective(a.order))
    <3>1. CASE o.op = "rename"
      <4>1. New(s, o) = r BY <3>1, <2>2 DEF New
      <4> QED BY <4>1
    <3>2. CASE o.op = "change"
      <4>1. New(s, o) = Placed(r, o.new, o.pos) BY <3>2, <2>2 DEF New
      <4>2. Places(r, o.new, o.pos) BY <3>2, <2>2 DEF May
      <4>3. o.new \in Columns(r) BY <2>3
      <4> QED BY <4>1, <4>2, <4>3, PlacedFacts
    <3> QED BY <3>1, <3>2, <1>3 DEF MovesValues
  <2>5. ASSUME NEW L, Plainly(s, L), o.new = o.old \/ o.new \notin L PROVE Plainly(a, L)
    <3>1. o.new \notin Range(s.pk) \ {o.old} BY <2>1, <2>5 DEF Plainly
    <3>2. IsInjective(r.pk) BY <3>1, <2>1, <2>2, <2>5, <1>0, RenamedFacts DEF Plainly
    <3>3. Range(r.pk) \subseteq Columns(r) \cup L
      <4>1. PICK q \in Seq(Cols) : q = s.pk BY <1>0
      <4>2. Range(Renamed(q, o.old, o.new)) = IF o.old \in Range(q) THEN (Range(q) \ {o.old}) \cup {o.new} ELSE Range(q)
        BY <2>1, RenamedFacts
      <4>3. Range(r.pk) = IF o.old \in Range(s.pk) THEN (Range(s.pk) \ {o.old}) \cup {o.new} ELSE Range(s.pk)
        BY <4>1, <4>2, <2>2
      <4> QED BY <4>3, <2>3, <2>5 DEF Plainly
    <3> QED BY <3>2, <3>3, <2>3, <2>4, <2>5 DEF Plainly
  <2>6. Listed(o) = {} BY <1>3 DEF MovesValues, Listed
  <2> QED BY <2>3, <2>4, <2>5, <2>6, <1>3
<1>4. CASE o.op = "modify"
  <2>1. o.col \in Columns(s) /\ Places(s, o.col, o.pos) BY <1>4 DEF May
  <2>2. New(s, o) = Placed(s, o.col, o.pos) BY <1>4 DEF New
  <2>3. PICK a \in Schema : a = New(s, o) /\ a.pk = s.pk /\ Columns(a) = Columns(s)
                            /\ (IsInjective(s.order) => IsInjective(a.order))
    BY <2>1, <2>2, PlacedFacts
  <2> QED BY <2>3 DEF Plainly
<1>5. CASE o.op \notin {"add", "drop", "rename", "change", "modify"}
  <2>1. New(s, o) = Fallback(s, o) /\ o.op # "unsupported" BY <1>5 DEF New, May
  <2>2. PICK a \in Schema :
          /\ a = New(s, o) /\ a.order = s.order
          /\ a.pk = IF o.op = "primary" THEN Extended(s.pk, o.cols)
                    ELSE IF o.op = "dropPrimary" THEN <<>> ELSE s.pk
    BY <2>1, <1>5, FallbackFacts
  <2>3. Columns(a) = Columns(s) BY <2>2 DEF Columns
  <2>4. CASE o.op = "primary"
    <3>1. o.cols \in Seq(Cols) BY <2>4, ListFacts DEF Operation, Constraint
    <3>2. Range(a.pk) = Range(s.pk) \cup Range(o.cols) /\ (IsInjective(s.pk) => IsInjective(a.pk))
      BY <3>1, <2>2, <2>4, <1>0, ExtendedFacts
    <3>3. Listed(o) = Range(o.cols) BY <2>4 DEF Listed
    <3> QED BY <3>2, <3>3, <2>2, <2>3 DEF Plainly
  <2>5. CASE o.op = "dropPrimary"
    <3>1. a.pk = <<>> BY <2>2, <2>5
    <3>2. Range(a.pk) = {} /\ IsInjective(a.pk) BY <3>1 DEF Range, IsInjective
    <3> QED BY <3>2, <2>2, <2>3 DEF Plainly
  <2>6. CASE o.op \notin {"primary", "dropPrimary"}
    <3>1. a.pk = s.pk BY <2>2, <2>6
    <3> QED BY <3>1, <2>2, <2>3 DEF Plainly
  <2> QED BY <2>4, <2>5, <2>6
<1> QED BY <1>1, <1>2, <1>3, <1>4, <1>5 DEF MovesValues

\* An operation of an ALTER TABLE makes an orderly schema of one.
LEMMA FallbackOrderly ==
  ASSUME NEW w, NEW s \in Schema, Orderly(s, w), NEW o \in Operation, PrimaryIsReserved => FreeName(o),
         o.op \notin {"add", "drop", "rename", "change", "modify", "unsupported"}
  PROVE  Orderly(Fallback(s, o), w)
<1>1. CASE o.op = "primary"
  <2>1. o.cols \in Seq(Cols) BY <1>1, ListFacts DEF Operation, Constraint
  <2>2. Fallback(s, o) = AddPrimary(s, o.cols) BY <1>1 DEF Fallback
  <2> QED BY <2>1, <2>2, PrimaryOrderly
<1>2. CASE o.op = "unique"
  <2>1. o.name \in Names \cup {None} /\ o.cols \in ColumnLists BY <1>2 DEF Operation, Constraint
  <2>2. Fallback(s, o) = AddUnique(s, o.name, o.cols) BY <1>2 DEF Fallback
  <2>3. PrimaryIsReserved => o.name # Primary BY <1>2 DEF FreeName
  <2> QED BY <2>1, <2>2, <2>3, UniqueOrderly
<1>3. CASE o.op = "index"
  <2>1. PICK x \in Index : x = [name |-> o.name, cols |-> o.cols, unique |-> FALSE]
    BY <1>3 DEF Operation, Constraint, Index
  <2>2. Fallback(s, o) = AddIndex(s, x) BY <1>3, <2>1 DEF Fallback
  <2>3. PrimaryIsReserved => x.name # Primary BY <1>3, <2>1 DEF FreeName
  <2> QED BY <2>2, <2>3, IndexOrderly
<1>4. CASE o.op = "foreign"
  <2>1. o.fk \in Foreign BY <1>4 DEF Operation, Constraint
  <2>2. Fallback(s, o) = AddForeign(s, o.fk) BY <1>4 DEF Fallback
  <2> QED BY <2>1, <2>2, ForeignOrderly
<1>5. CASE o.op = "dropPrimary"
  <2>1. Fallback(s, o) = DropPrimary(s) BY <1>5 DEF Fallback
  <2> QED BY <2>1, DropPrimaryOrderly
<1>6. ASSUME NEW d \in Schema, Orderly(d, w) PROVE Orderly(DropForeign(d, o.name), w)
  <2>1. PICK a : a = DropForeign(d, o.name) /\ a.pk = d.pk /\ a.unique = d.unique /\ a.indexes = d.indexes /\ a.fks \subseteq d.fks
    BY DropForeignFacts
  <2>2. Orderly(a, w) BY <2>1, <1>6, LessOrderly
  <2> QED BY <2>1, <2>2
<1>7. CASE o.op = "dropConstraint"
  <2>1. PICK d \in Schema : /\ d = DropUnique(s, o.name) /\ d.pk = s.pk /\ d.unique \subseteq s.unique
                            /\ d.indexes \subseteq s.indexes /\ d.fks = s.fks
    BY DropUniqueFacts
  <2>2. Fallback(s, o) = DropForeign(d, o.name) BY <2>1, <1>7 DEF Fallback
  <2>3. Orderly(d, w) BY <2>1, LessOrderly
  <2> QED BY <2>2, <2>3, <1>6
<1>8. CASE o.op = "dropForeign"
  <2>1. Fallback(s, o) = DropForeign(s, o.name) BY <1>8 DEF Fallback
  <2> QED BY <2>1, <1>6
<1>9. o.op \in {"primary", "unique", "index", "foreign", "dropPrimary", "dropConstraint", "dropForeign"}
  BY DEF Operation, Constraint
<1> QED BY <1>1, <1>2, <1>3, <1>4, <1>5, <1>7, <1>8, <1>9

LEMMA PlacedOrderly ==
  ASSUME NEW w, NEW s \in Schema, Orderly(s, w), NEW c \in Columns(s), NEW pos, Places(s, c, pos)
  PROVE  Orderly(Placed(s, c, pos), w)
<1>1. PICK a : a = Placed(s, c, pos) /\ a.pk = s.pk /\ a.unique = s.unique /\ a.indexes = s.indexes /\ a.fks = s.fks
  BY PlacedFacts
<1>2. Orderly(a, w) BY <1>1, LessOrderly
<1> QED BY <1>1, <1>2

LEMMA NewOrderly ==
  ASSUME NEW w, NEW s \in Schema, Orderly(s, w), NEW o \in Operation, May(s, o), PrimaryIsReserved => FreeName(o)
  PROVE  Orderly(New(s, o), w)
<1>0. s.order \in Seq(Cols) BY DEF Schema
<1>1. CASE o.op = "add"
  <2>1. o.col \in Cols /\ o.col \notin Columns(s) /\ Places(s, o.col, o.pos)
    BY <1>1 DEF May, Operation, Constraint
  <2>2. PICK l \in Seq(Cols) : l = Append(s.order, o.col) /\ Range(l) = Columns(s) \cup {o.col}
    <3>1. PICK c \in Cols : c = o.col BY <2>1
    <3>2. Append(s.order, c) \in Seq(Cols) BY <1>0
    <3>3. Range(Append(s.order, c)) = Range(s.order) \cup {c} BY <1>0, AppendRange
    <3> QED BY <3>1, <3>2, <3>3 DEF Columns
  <2>3. PICK g \in Schema : /\ g = Grown(s, o) /\ g.order = l /\ g.pk = s.pk /\ g.unique = s.unique
                            /\ g.indexes = s.indexes /\ g.fks = s.fks
    <3>1. PICK g : g = [s EXCEPT !.order = l] OBVIOUS
    <3>2. g = Grown(s, o) BY <3>1, <2>2 DEF Grown
    <3>3. g \in Schema /\ g.order = l /\ g.pk = s.pk /\ g.unique = s.unique /\ g.indexes = s.indexes /\ g.fks = s.fks
      BY <3>1 DEF Schema
    <3> QED BY <3>2, <3>3
  <2>4. Orderly(g, w) BY <2>3, LessOrderly
  <2>5. Places(g, o.col, o.pos) /\ o.col \in Columns(g) BY <2>1, <2>2, <2>3 DEF Places, Columns
  <2>6. PICK a \in Schema : a = Placed(g, o.col, o.pos) /\ Orderly(a, w) BY <2>4, <2>5, PlacedFacts, PlacedOrderly
  <2>7. New(s, o) = IF o.key THEN AddPrimary(a, <<o.col>>) ELSE a BY <1>1, <2>3, <2>6 DEF New
  <2>8. PICK q \in Seq(Cols) : q = <<o.col>>
    <3>1. <<o.col>> \in Seq(Cols) BY <2>1
    <3> QED BY <3>1, Zenon
  <2>9. Orderly(AddPrimary(a, q), w) BY <2>6, PrimaryOrderly
  <2> QED BY <2>6, <2>7, <2>8, <2>9
<1>2. CASE o.op = "drop"
  <2>1. New(s, o) = DropColumn(s, o.col) BY <1>2 DEF New
  <2> QED BY <2>1, DropColumnOrderly
<1>3. CASE MovesValues(o)
  <2>1. o.old \in Cols /\ o.new \in Cols /\ o.old \in Columns(s) /\ (o.new = o.old \/ o.new \notin Columns(s))
    BY <1>3 DEF MovesValues, May, Operation, Constraint
  <2>2. PICK r \in Schema : r = RenameColumn(s, o.old, o.new) /\ r.order = Renamed(s.order, o.old, o.new) /\ Orderly(r, w)
    BY <2>1, RenameColumnFacts, RenameColumnOrderly
  <2>3. o.new \in Columns(r) BY <2>1, <2>2, <1>0, RenamedFacts DEF Columns
  <2>4. CASE o.op = "rename"
    <3>1. New(s, o) = r BY <2>4, <2>2 DEF New
    <3> QED BY <3>1, <2>2
  <2>5. CASE o.op = "change"
    <3>1. New(s, o) = Placed(r, o.new, o.pos) BY <2>5, <2>2 DEF New
    <3>2. Places(r, o.new, o.pos) BY <2>5, <2>2 DEF May
    <3> QED BY <3>1, <3>2, <2>2, <2>3, PlacedOrderly
  <2> QED BY <2>4, <2>5, <1>3 DEF MovesValues
<1>4. CASE o.op = "modify"
  <2>1. o.col \in Columns(s) /\ Places(s, o.col, o.pos) BY <1>4 DEF May
  <2>2. New(s, o) = Placed(s, o.col, o.pos) BY <1>4 DEF New
  <2> QED BY <2>1, <2>2, PlacedOrderly
<1>5. CASE o.op \notin {"add", "drop", "rename", "change", "modify"}
  <2>1. New(s, o) = Fallback(s, o) /\ o.op # "unsupported" BY <1>5 DEF New, May
  <2> QED BY <2>1, <1>5, FallbackOrderly
<1> QED BY <1>1, <1>2, <1>3, <1>4, <1>5 DEF MovesValues

\* Moving values keeps the keys of the rows.
LEMMA RowsMovedFacts ==
  ASSUME NEW r \in Rowset, NEW o, o.old \in Cols, o.new \in Cols
  PROVE  RowsMoved(r, o) \in Rowset /\ DOMAIN RowsMoved(r, o) = DOMAIN r
<1>1. \A k \in DOMAIN r : r[k] \in Row /\ Moved(r[k], o.old, o.new) \in Row
  BY RowsetElim DEF Row, Moved
<1>2. RowsMoved(r, o) \in [DOMAIN r -> Row]
  <2> HIDE DEF Row
  <2> QED BY <1>1 DEF RowsMoved
<1> QED BY <1>2, RowsetElim, RowsetIntro

\* What an ALTER TABLE works on.
Work(t) == [schema : Schema, rows : Rowset, sent : Seq(Own(t)), moved : BOOLEAN, ok : BOOLEAN]

\* One operation of an ALTER TABLE: it leaves the rows alone or moves their values
\* and sends them.
LEMMA ApplyFacts ==
  ASSUME NEW t \in Tables, NEW st \in Work(t), NEW o \in Operation
  PROVE  LET a == Apply(t, st, o)
         IN /\ a \in Work(t)
            /\ a.schema = st.schema \/ (May(st.schema, o) /\ a.schema = New(st.schema, o))
            /\ \/ a.rows = st.rows /\ a.sent = st.sent /\ a.moved = st.moved
               \/ /\ MovesValues(o) /\ o.old \in Cols /\ o.new \in Cols /\ a.moved
                  /\ a.rows = RowsMoved(st.rows, o) /\ a.sent = st.sent \o PutRows(t, a.rows)
<1>1. PICK a : a = Apply(t, st, o) OBVIOUS
<1>2. st.schema \in Schema /\ st.rows \in Rowset /\ st.sent \in Seq(Own(t)) /\ st.ok \in BOOLEAN BY DEF Work
<1>3. CASE ~st.ok
  <2>1. a = st BY <1>1, <1>3, ApplyForm
  <2> QED BY <2>1, <1>1
<1>4. CASE st.ok /\ ~May(st.schema, o)
  <2>1. a = [st EXCEPT !.ok = FALSE] BY <1>1, <1>4, ApplyForm
  <2>2. a \in Work(t) /\ a.schema = st.schema /\ a.rows = st.rows /\ a.sent = st.sent /\ a.moved = st.moved
    BY <2>1 DEF Work
  <2> QED BY <2>2, <1>1
<1>5. CASE st.ok /\ May(st.schema, o) /\ ~MovesValues(o)
  <2>1. PICK s \in Schema : s = New(st.schema, o) BY <1>2, <1>5, NewFacts
  <2>2. a = [st EXCEPT !.schema = s] BY <2>1, <1>1, <1>5, ApplyForm
  <2>3. a \in Work(t) /\ a.schema = s /\ a.rows = st.rows /\ a.sent = st.sent /\ a.moved = st.moved
    BY <2>2 DEF Work
  <2> QED BY <2>1, <2>3, <1>1, <1>5
<1>6. CASE st.ok /\ May(st.schema, o) /\ MovesValues(o)
  <2>1. PICK s \in Schema : s = New(st.schema, o) BY <1>2, <1>6, NewFacts
  <2>2. o.old \in Cols /\ o.new \in Cols BY <1>6 DEF MovesValues, Operation, Constraint
  <2>3. PICK r \in Rowset : r = RowsMoved(st.rows, o) BY <1>2, <2>2, RowsMovedFacts
  <2>4. PICK ws \in Seq(Own(t)) : ws = st.sent \o PutRows(t, r)
    <3>1. PutRows(t, r) \in Seq(Own(t)) BY FilingFacts
    <3>2. st.sent \o PutRows(t, r) \in Seq(Own(t)) BY <3>1, <1>2, ConcatProperties
    <3> QED BY <3>2, Zenon
  <2>5. a = [st EXCEPT !.schema = s, !.rows = r, !.moved = TRUE, !.sent = ws]
    <3>1. a = [st EXCEPT !.schema = New(st.schema, o), !.rows = RowsMoved(st.rows, o), !.moved = TRUE,
                         !.sent = @ \o PutRows(t, RowsMoved(st.rows, o))]
      BY <1>1, <1>6, ApplyForm
    <3> QED BY <3>1, <2>1, <2>3, <2>4
  <2>6. a \in Work(t) /\ a.schema = s /\ a.rows = r /\ a.sent = ws /\ a.moved
    BY <2>5 DEF Work
  <2> QED BY <2>1, <2>2, <2>3, <2>4, <2>6, <1>1, <1>6
<1> QED BY <1>3, <1>4, <1>5, <1>6

\* What an ALTER TABLE makes, one operation after the other.
Begun(t) == [schema |-> mem[t].schema, rows |-> mem[t].rows, sent |-> <<>>, moved |-> FALSE, ok |-> TRUE]

\* Altered is computed operation by operation.
LEMMA AlteredDef ==
  ASSUME NEW t \in Tables, mem[t] \in Table, NEW ops \in Seq(Operation)
  PROVE  \E f \in [0..Len(ops) -> Work(t)] :
           /\ Altered(t, ops) = f[Len(ops)] /\ f[0] = Begun(t)
           /\ \A i \in 1..Len(ops) : f[i] = Apply(t, f[i - 1], ops[i])
<1> DEFINE n == Len(ops)
           V == Work(t)
           b == Begun(t)
           G == [i \in 1..n |-> [v \in V |-> Apply(t, v, ops[i])]]
           Step(f) == [i \in 0..n |-> IF i = 0 THEN b ELSE Apply(t, f[i - 1], ops[i])]
<1>1. n \in Nat /\ n \in 0..n /\ \A i \in 1..n : ops[i] \in Operation
  OBVIOUS
<1>2. b \in V
  <2>1. PICK e \in Seq(Own(t)) : e = <<>>
    <3>1. <<>> \in Seq(Own(t)) OBVIOUS
    <3> QED BY <3>1, Zenon
  <2>2. b = [schema |-> mem[t].schema, rows |-> mem[t].rows, sent |-> e, moved |-> FALSE, ok |-> TRUE]
    BY <2>1 DEF Begun
  <2> HIDE DEF b
  <2> QED BY <2>2 DEF Work, Table, GoodSchema, Schemas
<1>3. G \in [1..n -> [V -> V]]
  <2>1. \A i \in 1..n : \A v \in V : Apply(t, v, ops[i]) \in V
    BY <1>1, ApplyFacts
  <2> HIDE DEF V, n
  <2> QED BY <2>1
<1> HIDE DEF V, b
<1>4. PICK f \in [0..n -> V] : f[0] = b /\ \A i \in 1..n : f[i] = G[i][f[i - 1]]
  <2> HIDE DEF G, n
  <2>2. Chains(V, b, n, G) # {} BY <1>1, <1>2, <1>3, Recursion
  <2> QED BY <2>2 DEF Chains
<1>5. ASSUME NEW i \in 1..n PROVE f[i] = Apply(t, f[i - 1], ops[i])
  <2>1. i - 1 \in 0..n OBVIOUS
  <2>2. f[i - 1] \in V BY <2>1
  <2> HIDE DEF n
  <2> QED BY <2>2, <1>4
<1>6. f = Step(f)
  <2>1. ASSUME NEW i \in 0..n PROVE f[i] = Step(f)[i]
    <3>1. CASE i = 0 BY <3>1, <1>4
    <3>2. CASE i # 0
      <4>1. i \in 1..n BY <3>2
      <4>2. Step(f)[i] = Apply(t, f[i - 1], ops[i]) BY <3>2
      <4> HIDE DEF n, G, Step
      <4> QED BY <4>1, <4>2, <1>5
    <3> QED BY <3>1, <3>2
  <2> HIDE DEF n, G
  <2> QED BY <2>1
<1>7. \E g : g = Step(g) BY <1>6
<1>8. PICK g : g = Step(g) /\ g = CHOOSE h : h = Step(h)
  BY <1>7, Zenon
<1>9. \A i \in 0..n : g[i] = f[i]
  <2>1. g[0] = f[0]
    <3>1. Step(g)[0] = b BY <1>1
    <3> HIDE DEF Step
    <3> QED BY <3>1, <1>4, <1>8
  <2>2. ASSUME NEW i \in 1..n, g[i - 1] = f[i - 1] PROVE g[i] = f[i]
    <3>1. i \in 0..n /\ i # 0 OBVIOUS
    <3>2. Step(g)[i] = Apply(t, g[i - 1], ops[i]) BY <3>1
    <3> HIDE DEF n, Step
    <3>3. g[i] = Apply(t, g[i - 1], ops[i]) BY <3>2, <1>8
    <3> QED BY <3>3, <2>2, <1>5
  <2>3. n \in Nat OBVIOUS
  <2> HIDE DEF n, Step
  <2> QED BY ZenonT(60), <2>1, <2>2, <2>3, SameChain
<1>10. Altered(t, ops) = g[n]
  <2> DEFINE C == CHOOSE h : h = Step(h)
  <2>1. Altered(t, ops) = C[n]
    BY Zenon DEF Altered, b, Begun
  <2>2. C = g BY <1>8, Zenon
  <2> HIDE DEF C
  <2> QED BY <2>1, <2>2
<1>11. g[n] = f[n] BY <1>1, <1>9
<1>12. \A i \in 1..n : f[i] = Apply(t, f[i - 1], ops[i]) BY <1>5
<1> QED BY <1>4, <1>10, <1>11, <1>12 DEF V, b

\* The rows that there are on the way from p to r in an ALTER TABLE.
Way(p, r) == {z \in Rowset : OneMove => z \in Halfway(p, r)}

\* The keys x of a table that had the rows p, when they have become r, and on the way.
Arrived(x, p, r) == RowsOn(x, {z \in Rowset : x.rows = p => z = r})
Moving(x, p, r) == RowsOn(x, {z \in Rowset : x.rows = p => z \in Way(p, r)})

\* Rows written over the rows of an entry, of which none is lost: the entry is the
\* same but for its rows.
LEMMA MoveLeads ==
  ASSUME NEW t \in Tables, NEW x \in Entry, NEW p \in Rowset, NEW y \in Entry, NEW r \in Rowset, NEW q \in Rowset,
         NEW ws \in Seq(Own(t)),
         DOMAIN r = DOMAIN p, DOMAIN q = DOMAIN p, OneMove => r = p /\ ws = <<>>,
         y \in Arrived(x, p, r), Leads(x, t, ws, y, Moving(x, p, r))
  PROVE  \E z \in Arrived(x, p, q) : Leads(x, t, ws \o PutRows(t, q), z, Moving(x, p, q))
<1> DEFINE Z == {u \in Rowset : x.rows = p => u \in Way(p, q)}
           End == {u \in Rowset : x.rows = p => u = q}
           P == RowsOn(x, Z)
<1>0. y \in RowsOn(x, {z \in Rowset : x.rows = p => z = r})
      /\ Leads(x, t, ws, y, RowsOn(x, {z \in Rowset : x.rows = p => z \in Way(p, r)}))
  BY DEF Arrived, Moving
<1>1. y.known = x.known /\ y.parts = x.parts /\ y.rows \in Rowset /\ (x.rows = p => y.rows = r) /\ (Filed(x) => Filed(y))
  BY <1>0 DEF RowsOn
<1>2. PICK z \in RowsOn(y, {Merged(y.rows, q)}) : Leads(y, t, PutRows(t, q), z, RowsOn(y, Halfway(y.rows, q)))
  BY PutRowsLeads
<1>3. Merged(r, q) = q
  <2>1. DOMAIN r \cup DOMAIN q = DOMAIN q OBVIOUS
  <2>2. Merged(r, q) = [k \in DOMAIN q |-> q[k]] BY <2>1 DEF Merged
  <2> QED BY <2>2, RowsetElim
<1>4. z \in RowsOn(x, End)
  <2>1. /\ z \in Entry /\ z.known = y.known /\ z.parts = y.parts /\ z.rows = Merged(y.rows, q)
        /\ (Filed(y) => Filed(z))
    BY <1>2 DEF RowsOn
  <2>2. z.rows \in Rowset BY <2>1 DEF Entry
  <2>3. x.rows = p => z.rows = q BY <1>1, <1>3, <2>1
  <2>4. z.rows \in End BY <2>2, <2>3
  <2> HIDE DEF End
  <2> QED BY <1>1, <2>1, <2>4 DEF RowsOn
<1>5. RowsOn(y, Halfway(y.rows, q)) \subseteq P
  <2>1. SUFFICES ASSUME NEW u \in RowsOn(y, Halfway(y.rows, q)) PROVE u \in P OBVIOUS
  <2>2. /\ u \in Entry /\ u.known = y.known /\ u.parts = y.parts /\ u.rows \in Halfway(y.rows, q)
        /\ (Filed(y) => Filed(u))
    BY DEF RowsOn
  <2>3. u.rows \in Rowset BY <2>2 DEF Entry
  <2>4. ASSUME x.rows = p PROVE u.rows \in Way(p, q)
    <3>1. OneMove => y.rows = p BY <1>1, <2>4
    <3> QED BY <3>1, <2>2, <2>3 DEF Way
  <2>5. u.rows \in Z BY <2>3, <2>4
  <2> HIDE DEF Z
  <2> QED BY <1>1, <2>2, <2>5 DEF RowsOn
<1>6. ASSUME ~OneMove PROVE Leads(x, t, ws, y, P)
  <2>1. {u \in Rowset : x.rows = p => u \in Way(p, r)} \subseteq Z BY <1>6 DEF Way
  <2>2. RowsOn(x, {u \in Rowset : x.rows = p => u \in Way(p, r)}) \subseteq P
    <3> HIDE DEF Z
    <3> QED BY <2>1 DEF RowsOn
  <2> HIDE DEF P
  <2> QED BY <1>0, <2>2, LeadsMore
<1>7. PutRows(t, q) \in Seq(Own(t)) BY FilingFacts
<1>8. Leads(y, t, PutRows(t, q), z, P)
  <2> HIDE DEF P
  <2> QED BY <1>2, <1>5, LeadsMore
<1>9. ASSUME OneMove PROVE Leads(x, t, ws, y, P)
  <2>1. PICK e \in Seq(Own(t)) : e = <<>> /\ e = ws BY <1>9
  <2>2. y = x
    <3> HIDE DEF Own
    <3> QED BY <1>0, <2>1, LeadsEnds
  <2>3. x \in P
    <3>1. x.rows \in Rowset BY DEF Entry
    <3>2. p \in Way(p, q) BY DEF Way, Halfway, Sound
    <3>3. x.rows \in Z BY <3>1, <3>2
    <3> HIDE DEF Z
    <3> QED BY <3>3 DEF RowsOn
  <2>4. \A i \in 1..Len(e) : e[i].table # t BY <2>1
  <2> HIDE DEF P, Own
  <2>5. Leads(x, t, e, x, P) BY <2>3, <2>4, LeadsNone
  <2> QED BY <2>1, <2>2, <2>5
<1>10. Leads(x, t, ws \o PutRows(t, q), z, P)
  <2> HIDE DEF P, Own
  <2> QED BY <1>6, <1>7, <1>8, <1>9, LeadsConcat
<1> QED BY <1>4, <1>10 DEF Arrived, Moving

\* What the operations of an ALTER TABLE lead to: the rows keep their keys; if no
\* values moved nothing was sent; the schema names its columns, if the statement
\* is plain; and the commands put the rows under their old keys.
LEMMA AlteredFacts ==
  ASSUME NEW w, NEW t \in Tables, mem[t] \in Table, mem[t].schema \in Schemas(w), NEW ops \in Alters
  PROVE  LET st == Altered(t, ops)
         IN /\ st \in Work(t) /\ DOMAIN st.rows = DOMAIN mem[t].rows
            /\ ~st.moved => st.rows = mem[t].rows /\ st.sent = <<>>
            /\ IsInjective(st.schema.order) /\ (w /\ PlainKeys => IsInjective(st.schema.pk))
            /\ Orderly(st.schema, w)
            /\ \A x \in Entry : \E y \in Arrived(x, mem[t].rows, st.rows) :
                 Leads(x, t, st.sent, y, Moving(x, mem[t].rows, st.rows))
<1> DEFINE n == Len(ops)
           m == mem[t].rows
           L(i) == UNION {Listed(ops[j]) : j \in 1..i}
           Fine(st, i) ==
             /\ DOMAIN st.rows = DOMAIN m
             /\ ~st.moved => st.rows = m /\ st.sent = <<>>
             /\ st.moved => \E j \in 1..i : MovesValues(ops[j])
             /\ IsInjective(st.schema.order)
             /\ w /\ PlainKeys => Plainly(st.schema, L(i))
             /\ Orderly(st.schema, w)
             /\ \A x \in Entry : \E y \in Arrived(x, m, st.rows) :
                  Leads(x, t, st.sent, y, Moving(x, m, st.rows))
<1>1. ops \in Seq(Operation)
  BY StatementsAssumption
<1>2. PICK f \in [0..n -> Work(t)] :
        Altered(t, ops) = f[n] /\ f[0] = Begun(t) /\ \A i \in 1..n : f[i] = Apply(t, f[i - 1], ops[i])
  BY <1>1, AlteredDef
<1>3. n \in Nat /\ n \in 0..n /\ 0 \in 0..n /\ DOMAIN ops = 1..n /\ \A i \in 1..n : ops[i] \in Operation
  BY <1>1
<1>4. /\ m \in Rowset /\ mem[t].schema \in Schema /\ IsInjective(mem[t].schema.order)
      /\ Orderly(mem[t].schema, w) /\ (w /\ PlainKeys => NamesColumns(mem[t].schema))
  BY DEF Table, Schemas
<1> HIDE DEF n, m
<1> DEFINE S == {i \in 0..n : Fine(f[i], i)}
<1>5. 0 \in S
  <2>1. f[0].schema = mem[t].schema /\ f[0].rows = m /\ f[0].sent = <<>> /\ f[0].moved = FALSE
    BY <1>2 DEF Begun, m
  <2>2. L(0) = {} OBVIOUS
  <2>3. w /\ PlainKeys => Plainly(mem[t].schema, {})
    BY <1>4 DEF NamesColumns, Plainly
  <2>4. ASSUME NEW x \in Entry
        PROVE  \E y \in Arrived(x, m, m) : Leads(x, t, f[0].sent, y, Moving(x, m, m))
    <3>1. x.rows \in Rowset BY DEF Entry
    <3>2. m \in Way(m, m) BY <1>4 DEF Way, Halfway, Sound
    <3>3. x.rows = m => x.rows \in Way(m, m) BY <3>2
    <3>4. x \in Arrived(x, m, m) /\ x \in Moving(x, m, m) BY <3>1, <3>3 DEF Arrived, Moving, RowsOn
    <3>5. PICK e \in Seq(Own(t)) : e = <<>>
      <4>1. <<>> \in Seq(Own(t)) OBVIOUS
      <4> QED BY <4>1, Zenon
    <3>6. \A i \in 1..Len(e) : e[i].table # t BY <3>5
    <3> HIDE DEF Own
    <3>7. Leads(x, t, e, x, Moving(x, m, m)) BY <3>4, <3>6, LeadsNone
    <3> QED BY <3>4, <3>5, <3>7, <2>1
  <2>7. Fine(f[0], 0)
    <3> HIDE DEF L
    <3> QED BY <2>1, <2>2, <2>3, <2>4, <1>4
  <2> HIDE DEF Fine
  <2> QED BY <2>7, <1>3
<1>6. ASSUME NEW i \in 1..n, i - 1 \in S PROVE i \in S
  <2>1. i - 1 \in 0..n /\ i \in 0..n /\ ops[i] \in Operation BY <1>3
  <2>2. PICK st \in Work(t) : st = f[i - 1] /\ Fine(st, i - 1)
    <3> HIDE DEF Fine
    <3> QED BY <2>1, <1>6
  <2>3. PICK a \in Work(t) :
          /\ a = f[i]
          /\ a.schema = st.schema \/ (May(st.schema, ops[i]) /\ a.schema = New(st.schema, ops[i]))
          /\ \/ a.rows = st.rows /\ a.sent = st.sent /\ a.moved = st.moved
             \/ /\ MovesValues(ops[i]) /\ ops[i].old \in Cols /\ ops[i].new \in Cols /\ a.moved
                /\ a.rows = RowsMoved(st.rows, ops[i]) /\ a.sent = st.sent \o PutRows(t, a.rows)
    <3>1. PICK a : a = Apply(t, st, ops[i]) OBVIOUS
    <3>2. a = f[i] BY <3>1, <2>2, <1>2
    <3> HIDE DEF Fine
    <3>3. /\ a \in Work(t)
          /\ a.schema = st.schema \/ (May(st.schema, ops[i]) /\ a.schema = New(st.schema, ops[i]))
          /\ \/ a.rows = st.rows /\ a.sent = st.sent /\ a.moved = st.moved
             \/ /\ MovesValues(ops[i]) /\ ops[i].old \in Cols /\ ops[i].new \in Cols /\ a.moved
                /\ a.rows = RowsMoved(st.rows, ops[i]) /\ a.sent = st.sent \o PutRows(t, a.rows)
      <4>1. PICK o \in Operation : o = ops[i] BY <2>1
      <4>2. a = Apply(t, st, o) BY <3>1, <4>1
      <4>3. /\ a \in Work(t)
            /\ a.schema = st.schema \/ (May(st.schema, o) /\ a.schema = New(st.schema, o))
            /\ \/ a.rows = st.rows /\ a.sent = st.sent /\ a.moved = st.moved
               \/ /\ MovesValues(o) /\ o.old \in Cols /\ o.new \in Cols /\ a.moved
                  /\ a.rows = RowsMoved(st.rows, o) /\ a.sent = st.sent \o PutRows(t, a.rows)
        BY <4>2, ApplyFacts
      <4> QED BY <4>1, <4>3
    <3> QED BY <3>2, <3>3
  <2>4. 1..i = 1..(i - 1) \cup {i} BY <1>3
  <2>5. L(i) = L(i - 1) \cup Listed(ops[i]) BY <2>4
  <2>6. ASSUME w, PlainKeys PROVE Plainly(a.schema, L(i))
    <3>1. Plainly(st.schema, L(i - 1)) BY <2>2, <2>6
    <3>2. CASE a.schema = st.schema
      <4> HIDE DEF L
      <4> QED BY <3>1, <3>2, <2>5 DEF Plainly
    <3>3. CASE May(st.schema, ops[i]) /\ a.schema = New(st.schema, ops[i])
      <4>1. ASSUME MovesValues(ops[i]), ops[i].new \in L(i - 1) PROVE ops[i].new = ops[i].old
        <5>1. PICK j \in 1..(i - 1) : ops[i].new \in Listed(ops[j]) BY <4>1
        <5>2. ops[j].op = "primary" /\ ops[i].new \in Range(ops[j].cols) BY <5>1 DEF Listed
        <5>3. j \in DOMAIN ops /\ i \in DOMAIN ops /\ j < i BY <1>3
        <5>4. ops[i].op \in {"rename", "change"} BY <4>1 DEF MovesValues
        <5> QED BY <5>2, <5>3, <5>4, <2>6 DEF PlainKeys
      <4>2. st.schema \in Schema BY DEF Work
      <4> HIDE DEF L
      <4> QED BY <3>1, <3>3, <4>1, <4>2, <2>1, <2>5, NewFacts
    <3> QED BY <3>2, <3>3, <2>3
  <2>7. Orderly(a.schema, w)
    <3>1. Orderly(st.schema, w) /\ st.schema \in Schema BY <2>2 DEF Work
    <3>2. PICK o \in Operation : o = ops[i] BY <2>1
    <3>3. PrimaryIsReserved => FreeName(o)
      <4>1. ops[i] \in Range(ops) BY <1>3 DEF Range
      <4> QED BY <3>2, <4>1 DEF PrimaryIsReserved, FreeName
    <3>4. CASE a.schema = st.schema BY <3>1, <3>4
    <3>5. CASE May(st.schema, o) /\ a.schema = New(st.schema, o) BY <3>1, <3>3, <3>5, NewOrderly
    <3> HIDE DEF Fine
    <3> QED BY <3>2, <3>4, <3>5, <2>3
  <2>8. IsInjective(a.schema.order)
    <3>1. IsInjective(st.schema.order) /\ st.schema \in Schema BY <2>2 DEF Work
    <3>2. PICK o \in Operation : o = ops[i] BY <2>1
    <3>3. May(st.schema, o) => IsInjective(New(st.schema, o).order) BY <3>1, NewFacts
    <3> HIDE DEF Fine
    <3> QED BY <3>1, <3>2, <3>3, <2>3
  <2>9. CASE a.rows = st.rows /\ a.sent = st.sent /\ a.moved = st.moved
    <3>1. a.moved => \E j \in 1..i : MovesValues(ops[j]) BY <2>2, <2>4, <2>9
    <3>2. Fine(a, i)
      <4> HIDE DEF L
      <4> QED BY <2>2, <2>6, <2>9, <2>7, <2>8, <3>1
    <3> HIDE DEF Fine
    <3> QED BY <3>2, <2>1, <2>3
  <2>10. CASE /\ MovesValues(ops[i]) /\ ops[i].old \in Cols /\ ops[i].new \in Cols /\ a.moved
             /\ a.rows = RowsMoved(st.rows, ops[i]) /\ a.sent = st.sent \o PutRows(t, a.rows)
    <3>1. st.rows \in Rowset /\ st.sent \in Seq(Own(t)) /\ a.rows \in Rowset BY DEF Work
    <3>2. DOMAIN a.rows = DOMAIN st.rows /\ DOMAIN st.rows = DOMAIN m
      BY <2>2, <2>10, <3>1, RowsMovedFacts
    <3>3. ASSUME OneMove PROVE st.rows = m
      <4>1. SUFFICES ASSUME st.moved PROVE FALSE BY <2>2
      <4>2. PICK j \in 1..(i - 1) : MovesValues(ops[j]) BY <2>2, <4>1
      <4>3. j \in DOMAIN ops /\ i \in DOMAIN ops /\ j # i BY <1>3
      <4> QED BY <4>2, <4>3, <2>10, <3>3 DEF OneMove, MovesValues
    <3>4. OneMove => st.sent = <<>>
      <4>1. SUFFICES ASSUME OneMove, st.moved PROVE FALSE BY <2>2
      <4>2. PICK j \in 1..(i - 1) : MovesValues(ops[j]) BY <2>2, <4>1
      <4>3. j \in DOMAIN ops /\ i \in DOMAIN ops /\ j # i BY <1>3
      <4> QED BY <4>1, <4>2, <4>3, <2>10 DEF OneMove, MovesValues
    <3>5. ASSUME NEW x \in Entry
          PROVE  \E y \in Arrived(x, m, a.rows) : Leads(x, t, a.sent, y, Moving(x, m, a.rows))
      <4>1. PICK y \in Arrived(x, m, st.rows) : Leads(x, t, st.sent, y, Moving(x, m, st.rows))
        <5> HIDE DEF L
        <5> QED BY <2>2
      <4>2. y \in Entry BY <4>1 DEF Arrived, RowsOn
      <4>3. PICK r \in Rowset : r = st.rows /\ DOMAIN r = DOMAIN m /\ (OneMove => r = m) BY <3>1, <3>2, <3>3
      <4>4. PICK q \in Rowset : q = a.rows /\ DOMAIN q = DOMAIN m BY <3>1, <3>2
      <4>5. PICK ws \in Seq(Own(t)) : ws = st.sent /\ (OneMove => ws = <<>>) BY <3>1, <3>4
      <4>6. y \in Arrived(x, m, r) /\ Leads(x, t, ws, y, Moving(x, m, r)) BY <4>1, <4>3, <4>5
      <4> HIDE DEF Fine, L, Own
      <4>7. \E z \in Arrived(x, m, q) : Leads(x, t, ws \o PutRows(t, q), z, Moving(x, m, q))
        BY <1>4, <4>2, <4>3, <4>4, <4>5, <4>6, MoveLeads
      <4> QED BY <4>4, <4>5, <4>7, <2>10
    <3>7. \E j \in 1..i : MovesValues(ops[j]) BY <2>4, <2>10
    <3>8. Fine(a, i)
      <4> HIDE DEF L
      <4> QED BY <2>6, <2>10, <2>7, <2>8, <3>2, <3>5, <3>7
    <3> HIDE DEF Fine
    <3> QED BY <3>8, <2>1, <2>3
  <2> HIDE DEF S
  <2> QED BY <2>3, <2>9, <2>10
<1>7. n \in S
  <2> HIDE DEF S
  <2>1. 0..n \subseteq S BY <1>3, <1>5, <1>6, Along
  <2> QED BY <2>1, <1>3
<1>8. PICK st \in Work(t) : st = Altered(t, ops) /\ Fine(st, n)
  <2> HIDE DEF Fine
  <2> QED BY <1>2, <1>3, <1>7
<1>9. w /\ PlainKeys => IsInjective(st.schema.pk)
  <2> HIDE DEF L
  <2> QED BY <1>8 DEF Plainly
<1>10. Fine(st, n) BY <1>8
<1> HIDE DEF L
<1> QED BY <1>8, <1>9, <1>10 DEF m

-----------------------------------------------------------------------------
(* Types                                                                   *)

\* A schema whose lists are those of a good one, and perhaps a list l of its columns.
LEMMA GoodBy ==
  ASSUME NEW w, NEW s \in Schemas(w), NEW a \in Schema, NEW l, w /\ PlainKeys => Range(l) \subseteq Columns(s),
         a.order = s.order, a.pk = s.pk, a.unique \subseteq s.unique \cup {l},
         \A x \in a.indexes : x \in s.indexes \/ x.cols = l, a.fks \subseteq s.fks, Orderly(a, w)
  PROVE  a \in Schemas(w)
<1>1. SUFFICES ASSUME w, PlainKeys PROVE NamesColumns(a)
  BY DEF Schemas, Paired
<1>2. NamesColumns(s) /\ Range(l) \subseteq Columns(s) /\ Columns(a) = Columns(s) BY <1>1 DEF Schemas, Columns
<1>3. ASSUME NEW list \in {a.pk} \cup a.unique \cup {x.cols : x \in a.indexes} \cup {f.cols : f \in a.fks}
      PROVE  Range(list) \subseteq Columns(a)
  <2>1. list = l \/ list \in {s.pk} \cup s.unique \cup {x.cols : x \in s.indexes} \cup {f.cols : f \in s.fks}
    BY <1>3
  <2> QED BY <2>1, <1>2 DEF NamesColumns
<1> QED BY <1>2, <1>3 DEF NamesColumns

\* A schema that validate_mysql_schema lets pass.
LEMMA GoodByValid ==
  ASSUME NEW w, NEW s \in Schema, NEW t, Valid(s, t), Orderly(s, w), IsInjective(s.order),
         w /\ PlainKeys => IsInjective(s.pk)
  PROVE  s \in Schemas(w)
BY DEF Schemas, NamesColumns, Valid, Paired

\* A schema with nothing but columns.
LEMMA PlainSchema ==
  ASSUME NEW w, NEW order \in Seq(Cols), IsInjective(order)
  PROVE  [EmptySchema EXCEPT !.order = order] \in Schemas(w)
<1>1. PICK e \in Seq(Cols) : e = <<>>
  <2>1. <<>> \in Seq(Cols) OBVIOUS
  <2> QED BY <2>1, Zenon
<1>2. PICK s : s = [order |-> order, pk |-> e, unique |-> {}, indexes |-> {}, fks |-> {}]
  OBVIOUS
<1>3. [EmptySchema EXCEPT !.order = order] = s
  <2>1. EmptySchema = [order |-> e, pk |-> e, unique |-> {}, indexes |-> {}, fks |-> {}]
    BY <1>1 DEF EmptySchema
  <2>2. PICK z \in Schema : z = EmptySchema
    <3>1. [order |-> e, pk |-> e, unique |-> {}, indexes |-> {}, fks |-> {}] \in Schema BY DEF Schema
    <3> QED BY <3>1, <2>1
  <2>3. z.pk = e /\ z.unique = {} /\ z.indexes = {} /\ z.fks = {} BY <2>1, <2>2
  <2>4. PICK y : y = [z EXCEPT !.order = order] OBVIOUS
  <2>5. y \in Schema BY <2>4 DEF Schema
  <2>6. y.order = order /\ y.pk = e /\ y.unique = {} /\ y.indexes = {} /\ y.fks = {}
    BY <2>3, <2>4 DEF Schema
  <2>7. s \in Schema BY <1>2 DEF Schema
  <2>8. y = s BY <2>5, <2>6, <2>7, <1>2 DEF Schema
  <2> QED BY <2>2, <2>4, <2>8
<1>4. s \in Schema BY <1>2 DEF Schema
<1>5. Range(e) = {} /\ IsInjective(e) BY <1>1 DEF Range, IsInjective
<1>6. NamesColumns(s)
  <2>1. s.pk = e /\ s.unique = {} /\ s.indexes = {} /\ s.fks = {} /\ s.order = order BY <1>2
  <2> QED BY <2>1, <1>5 DEF NamesColumns
<1>7. Orderly(s, w) /\ Paired(s)
  <2>1. s.unique = {} /\ s.indexes = {} /\ s.fks = {} BY <1>2
  <2> QED BY <2>1, FS_EmptySet DEF Orderly, IndexedKey, Paired
<1>8. IsInjective(s.order) BY <1>2
<1> QED BY <1>3, <1>4, <1>6, <1>7, <1>8 DEF Schemas

\* The schema of a table whose schema a crash took away.
LEMMA EmptyGood ==
  ASSUME NEW w
  PROVE  EmptySchema \in Schemas(w)
<1>1. PICK e \in Seq(Cols) : e = <<>>
  <2>1. <<>> \in Seq(Cols) OBVIOUS
  <2> QED BY <2>1, Zenon
<1>2. IsInjective(e) BY <1>1 DEF IsInjective
<1>3. [EmptySchema EXCEPT !.order = e] = EmptySchema BY <1>1 DEF EmptySchema
<1> QED BY <1>2, <1>3, PlainSchema

\* What a reopen makes of a schema.
LEMMA SortedlyFacts ==
  ASSUME NEW w, NEW s \in Schemas(w)
  PROVE  /\ Sortedly(s) \in Schemas(w) /\ Sortedly(Sortedly(s)) = Sortedly(s)
         /\ Sortedly(s).pk = SortedList(s.pk) /\ Sortedly(s).order = s.order
         /\ Sortedly(s).unique = s.unique /\ Sortedly(s).indexes = s.indexes /\ Sortedly(s).fks = s.fks
<1>1. s \in Schema /\ s.pk \in Seq(Cols) BY DEF Schemas, Schema
<1>2. PICK l \in Seq(Cols) : l = SortedList(s.pk) /\ Range(l) = Range(s.pk) /\ IsInjective(l) /\ SortedList(l) = l
  BY <1>1, SortedFacts
<1>3. PICK a \in Schema : /\ a = Sortedly(s) /\ a.pk = l /\ a.order = s.order /\ a.unique = s.unique
                          /\ a.indexes = s.indexes /\ a.fks = s.fks
  <2>1. PICK a : a = [s EXCEPT !.pk = l] OBVIOUS
  <2>2. a = Sortedly(s) BY <2>1, <1>2 DEF Sortedly
  <2>3. /\ a \in Schema /\ a.pk = l /\ a.order = s.order /\ a.unique = s.unique
        /\ a.indexes = s.indexes /\ a.fks = s.fks
    BY <2>1, <1>1 DEF Schema
  <2> QED BY <2>2, <2>3
<1>4. Sortedly(a) = a
  <2>1. Sortedly(a) = [a EXCEPT !.pk = l] BY <1>2, <1>3 DEF Sortedly
  <2> QED BY <2>1, <1>3 DEF Schema
<1>5. ASSUME w, PlainKeys PROVE NamesColumns(a)
  <2>1. NamesColumns(s) BY <1>5 DEF Schemas
  <2>2. Range(a.pk) = Range(s.pk) /\ IsInjective(a.pk) /\ Columns(a) = Columns(s) BY <1>2, <1>3 DEF Columns
  <2>3. ASSUME NEW list \in {a.pk} \cup a.unique \cup {x.cols : x \in a.indexes} \cup {f.cols : f \in a.fks}
        PROVE  Range(list) \subseteq Columns(a)
    <3>1. list = a.pk \/ list \in s.unique \cup {x.cols : x \in s.indexes} \cup {f.cols : f \in s.fks} BY <1>3
    <3> QED BY <3>1, <2>1, <2>2 DEF NamesColumns
  <2> QED BY <2>1, <2>2, <2>3, <1>3 DEF NamesColumns
<1>6. Orderly(a, w) /\ Paired(a)
  <2>1. Orderly(s, w) /\ Paired(s) BY DEF Schemas
  <2>2. Range(a.pk) = Range(s.pk) BY <1>2, <1>3
  <2> QED BY <2>1, <2>2, <1>3, LessOrderly DEF Paired
<1>7. IsInjective(a.order) BY <1>3 DEF Schemas
<1> QED BY <1>2, <1>3, <1>4, <1>5, <1>6, <1>7 DEF Schemas

\* A number that no row is filed under: there are more numbers than rows.
LEMMA FreshFacts ==
  ASSUME NEW r \in Rowset, Cardinality(DOMAIN r) < MaxRows
  PROVE  Fresh(r) \in Key /\ Fresh(r) \notin DOMAIN r
<1> DEFINE N == 1..(MaxRows + 1)
           D == DOMAIN r
           F == [n \in N |-> <<0, 0, n>>]
<1>1. MaxRows \in Nat /\ IsFiniteSet(D) /\ Cardinality(D) \in Nat
  BY BoundsAssumption, RowsetElim, FS_CardinalityType
<1>2. IsFiniteSet(N) /\ Cardinality(N) = MaxRows + 1
  BY <1>1, FS_Interval
<1>3. \E n \in N : <<0, 0, n>> \notin D
  <2>1. SUFFICES ASSUME \A n \in N : <<0, 0, n>> \in D PROVE FALSE
    OBVIOUS
  <2>2. F \in [N -> D] BY <2>1
  <2>3. \A i, j \in N : F[i] = F[j] => i = j
    <3>1. SUFFICES ASSUME NEW i \in N, NEW j \in N, <<0, 0, i>> = <<0, 0, j>> PROVE i = j OBVIOUS
    <3> QED BY <3>1
  <2> HIDE DEF F, N, D
  <2>4. F \in Injection(N, D) BY <2>2, <2>3 DEF Injection, IsInjective
  <2>5. Cardinality(N) <= Cardinality(D) BY <2>4, <1>1, <1>2, FS_Injection
  <2>6. Cardinality(D) < MaxRows BY DEF D
  <2> QED BY <2>5, <2>6, <1>1, <1>2
<1>4. PICK n \in N : Fresh(r) = <<0, 0, n>> /\ <<0, 0, n>> \notin D
  <2> HIDE DEF N
  <2>1. Fresh(r) = <<0, 0, CHOOSE n \in N : <<0, 0, n>> \notin D>> BY DEF Fresh, N
  <2>2. (CHOOSE n \in N : <<0, 0, n>> \notin D) \in N /\ <<0, 0, CHOOSE n \in N : <<0, 0, n>> \notin D>> \notin D
    BY <1>3
  <2> QED BY <2>1, <2>2
<1>5. <<0, 0, n>> \in Key
  <2>1. n \in Nat OBVIOUS
  <2>2. <<0, 0, n>> \in Seq(Nat \cup {Absent}) BY <2>1
  <2> QED BY <2>2 DEF Key
<1> QED BY <1>4, <1>5

\* The key of a row is a key.
LEMMA KeyOfType ==
  ASSUME NEW pk \in Seq(Cols), NEW d \in Row
  PROVE  KeyOf(pk, d) \in Key
<1>1. DOMAIN pk = 1..Len(pk) /\ Len(pk) \in Nat OBVIOUS
<1>2. \A i \in DOMAIN pk : d[pk[i]] \in Nat \cup {Absent}
  <2>1. \A i \in DOMAIN pk : pk[i] \in Cols OBVIOUS
  <2> QED BY <2>1, BoundsAssumption DEF Row
<1>3. PICK n \in Nat : n = Len(pk) BY <1>1
<1>4. KeyOf(pk, d) \in [1..n -> Nat \cup {Absent}]
  BY <1>1, <1>2, <1>3 DEF KeyOf
<1> QED BY <1>4 DEF Key

\* What a SELECT gives is a table.
LEMMA SelectedType ==
  ASSUME NEW u \in Tables, mem[u] \in Table
  PROVE  Selected(u) \in Table /\ Selected(u).schema \in Schemas(TRUE)
<1> DEFINE keys == SetToSeq(DOMAIN mem[u].rows)
           K == {<<i>> : i \in DOMAIN keys}
           cols == Columns(mem[u].schema)
<1>1. mem[u].rows \in Rowset /\ mem[u].schema \in GoodSchema BY DEF Table
<1>2. PICK n \in Nat : DOMAIN keys = 1..n /\ \A i \in 1..n : keys[i] \in DOMAIN mem[u].rows
  <2>1. keys \in Seq(DOMAIN mem[u].rows) BY <1>1, RowsetElim, SetToSeqFacts
  <2> HIDE DEF keys
  <2> QED BY <2>1
<1> HIDE DEF keys, cols
<1>3. K \in SUBSET Key
  <2>1. \A i \in 1..n : <<i>> \in Seq(Nat \cup {Absent}) OBVIOUS
  <2> QED BY <2>1, <1>2 DEF Key
<1>4. IsFiniteSet(K)
  <2>1. IsFiniteSet(1..n) BY FS_Interval
  <2> DEFINE F == [i \in 1..n |-> <<i>>]
  <2>2. F \in Surjection(1..n, K) BY <1>2 DEF Surjection
  <2> HIDE DEF F, K
  <2> QED BY <2>1, <2>2, FS_Surjection
<1>5. \A k \in K : [c \in Cols |-> IF c \in cols THEN mem[u].rows[keys[k[1]]][c] ELSE Absent] \in Row
  <2>1. SUFFICES ASSUME NEW i \in 1..n
                 PROVE  [c \in Cols |-> IF c \in cols THEN mem[u].rows[keys[i]][c] ELSE Absent] \in Row
    BY <1>2
  <2>2. mem[u].rows[keys[i]] \in Row BY <1>1, <1>2, RowsetElim
  <2> QED BY <2>2 DEF Row
<1> DEFINE r == [k \in K |-> [c \in Cols |-> IF c \in cols THEN mem[u].rows[keys[k[1]]][c] ELSE Absent]]
<1>6. r \in Rowset
  <2>1. r \in [K -> Row]
    <3> HIDE DEF K, Row
    <3> QED BY <1>5
  <2> HIDE DEF r, K
  <2> QED BY <2>1, <1>3, <1>4, RowsetIntro
<1>7. [EmptySchema EXCEPT !.order = mem[u].schema.order] \in Schemas(TRUE)
  <2>1. mem[u].schema.order \in Seq(Cols) BY <1>1 DEF GoodSchema, Schemas, Schema
  <2>2. IsInjective(mem[u].schema.order) BY <1>1 DEF GoodSchema, Schemas
  <2> QED BY <2>1, <2>2, PlainSchema
<1>8. Selected(u) = [schema |-> [EmptySchema EXCEPT !.order = mem[u].schema.order], rows |-> r]
  BY DEF Selected, keys, cols
<1>9. Schemas(TRUE) \subseteq GoodSchema BY GoodOfWhole
<1> HIDE DEF r
<1>10. PICK s \in Schemas(TRUE) : s = [EmptySchema EXCEPT !.order = mem[u].schema.order] BY <1>7
<1>11. PICK a : a = Selected(u) OBVIOUS
<1>12. a = [schema |-> s, rows |-> r] BY <1>8, <1>10, <1>11
<1>13. a \in Table /\ a.schema = s BY <1>6, <1>9, <1>12 DEF Table
<1> QED BY <1>11, <1>13

\* Nothing is left out of a list if the set has all of it.
LEMMA OnlyAll ==
  ASSUME NEW X, NEW list \in Seq(X), NEW S, Range(list) \subseteq S
  PROVE  Only(list, S) = list
<1> DEFINE n == Len(list)
<1>1. PICK f \in [0..n -> Seq(X)] :
        /\ Only(list, S) = f[n] /\ f[0] = <<>>
        /\ \A i \in 1..n : f[i] = IF list[i] \in S THEN Append(f[i - 1], list[i]) ELSE f[i - 1]
  BY SMTT(60), OnlyDef
<1>2. n \in Nat /\ n \in 0..n /\ 0 \in 0..n /\ DOMAIN list = 1..n OBVIOUS
<1>3. \A i \in 1..n : list[i] \in S BY <1>2 DEF Range
<1> HIDE DEF n
<1> DEFINE P == {i \in 0..n : Len(f[i]) = i /\ \A j \in 1..i : f[i][j] = list[j]}
<1>4. 0 \in P BY <1>1, <1>2
<1>5. ASSUME NEW i \in 1..n, i - 1 \in P PROVE i \in P
  <2>1. i \in 0..n /\ i - 1 \in 0..n /\ i \in DOMAIN list BY <1>2
  <2>2. PICK g \in Seq(X) : g = f[i - 1] /\ Len(g) = i - 1 /\ \A j \in 1..(i - 1) : g[j] = list[j]
    BY <2>1, <1>1, <1>5
  <2>3. f[i] = Append(g, list[i]) BY <2>2, <1>1, <1>3
  <2>4. PICK e \in X : e = list[i]
    <3>1. list[i] \in X BY <2>1
    <3> QED BY <3>1
  <2>5. PICK h : h = Append(g, e) OBVIOUS
  <2>6. Len(h) = i /\ h[i] = e /\ \A j \in 1..(i - 1) : h[j] = g[j] BY <2>2, <2>5
  <2>7. \A j \in 1..i : j \in 1..(i - 1) \/ j = i OBVIOUS
  <2>8. h = f[i] BY <2>3, <2>4, <2>5
  <2> QED BY <2>1, <2>2, <2>4, <2>6, <2>7, <2>8
<1>6. n \in P
  <2> HIDE DEF P
  <2>1. 0..n \subseteq P BY <1>2, <1>4, <1>5, Along
  <2> QED BY <2>1, <1>2
<1>7. PICK g \in Seq(X) : g = f[n] /\ Len(g) = n /\ \A j \in 1..n : g[j] = list[j] BY <1>1, <1>2, <1>6
<1>8. Len(list) = n BY DEF n
<1>9. g = list BY <1>7, <1>8
<1> QED BY <1>1, <1>7, <1>9

\* Two lists one after the other.
LEMMA ConcatFacts ==
  ASSUME NEW u \in Seq(Cols), NEW v \in Seq(Cols)
  PROVE  /\ u \o v \in Seq(Cols) /\ Range(u \o v) = Range(u) \cup Range(v)
         /\ IsInjective(u) /\ IsInjective(v) /\ Range(u) \cap Range(v) = {} => IsInjective(u \o v)
<1>1. PICK w \in Seq(Cols) : w = u \o v BY ConcatProperties
<1>2. /\ Len(w) = Len(u) + Len(v) /\ Len(u) \in Nat /\ Len(v) \in Nat
      /\ \A i \in 1..(Len(u) + Len(v)) : w[i] = IF i <= Len(u) THEN u[i] ELSE v[i - Len(u)]
  BY <1>1, ConcatProperties
<1>3. PICK m \in Nat : m = Len(u) BY <1>2
<1>4. PICK n \in Nat : n = Len(v) BY <1>2
<1>5. /\ DOMAIN u = 1..m /\ DOMAIN v = 1..n /\ DOMAIN w = 1..(m + n)
      /\ \A i \in 1..m : w[i] = u[i] /\ i \in 1..(m + n)
      /\ \A i \in 1..n : w[m + i] = v[i] /\ m + i \in 1..(m + n)
  <2>1. DOMAIN u = 1..m /\ DOMAIN v = 1..n /\ DOMAIN w = 1..(m + n) BY <1>2, <1>3, <1>4
  <2>2. \A i \in 1..m : i \in 1..(m + n) /\ i <= m BY <1>3, <1>4
  <2>3. \A i \in 1..n : m + i \in 1..(m + n) /\ ~(m + i <= m) /\ (m + i) - m = i BY <1>3, <1>4
  <2>4. \A i \in 1..m : w[i] = u[i] BY <2>2, <1>2, <1>3, <1>4
  <2>5. \A i \in 1..n : w[m + i] = v[i]
    <3>1. TAKE i \in 1..n
    <3>2. w[m + i] = v[(m + i) - m] BY <2>3, <1>2, <1>3, <1>4
    <3> QED BY <2>3, <3>2
  <2> QED BY <2>1, <2>2, <2>3, <2>4, <2>5
<1>6. \A i \in 1..(m + n) : i \in 1..m \/ \E j \in 1..n : i = m + j
  <2>1. TAKE i \in 1..(m + n)
  <2>2. CASE i > m
    <3>1. i - m \in 1..n /\ i = m + (i - m) BY <2>2
    <3> QED BY <3>1
  <2> QED BY <2>2
<1>7. Range(w) = Range(u) \cup Range(v)
  <2>1. Range(w) = {w[i] : i \in 1..(m + n)} /\ Range(u) = {u[i] : i \in 1..m} /\ Range(v) = {v[i] : i \in 1..n}
    BY <1>5 DEF Range
  <2>2. \A i \in 1..(m + n) : w[i] \in Range(u) \cup Range(v) BY <2>1, <1>5, <1>6
  <2>3. \A i \in 1..m : u[i] \in Range(w) BY <2>1, <1>5
  <2>4. \A i \in 1..n : v[i] \in Range(w) BY <2>1, <1>5
  <2> QED BY <2>1, <2>2, <2>3, <2>4
<1>8. ASSUME IsInjective(u), IsInjective(v), Range(u) \cap Range(v) = {} PROVE IsInjective(w)
  <2>1. SUFFICES ASSUME NEW i \in 1..(m + n), NEW j \in 1..(m + n), w[i] = w[j] PROVE i = j
    BY <1>5 DEF IsInjective
  <2>2. CASE i \in 1..m /\ j \in 1..m BY <2>1, <2>2, <1>5, <1>8 DEF IsInjective
  <2>3. CASE (\E k \in 1..n : i = m + k) /\ (\E l \in 1..n : j = m + l)
    <3>1. PICK k \in 1..n : i = m + k BY <2>3
    <3>2. PICK l \in 1..n : j = m + l BY <2>3
    <3>3. v[k] = v[l] BY <3>1, <3>2, <2>1, <1>5
    <3> QED BY <3>1, <3>2, <3>3, <1>5, <1>8 DEF IsInjective
  <2>4. ASSUME NEW a \in 1..m, NEW b \in 1..n, u[a] = v[b] PROVE FALSE
    <3>1. u[a] \in Range(u) /\ v[b] \in Range(v) BY <1>5 DEF Range
    <3> QED BY <3>1, <2>4, <1>8
  <2>5. CASE i \in 1..m /\ \E l \in 1..n : j = m + l
    <3>1. PICK l \in 1..n : j = m + l BY <2>5
    <3>2. u[i] = v[l] BY <3>1, <2>1, <2>5, <1>5
    <3> QED BY <3>2, <2>4, <2>5
  <2>6. CASE j \in 1..m /\ \E l \in 1..n : i = m + l
    <3>1. PICK l \in 1..n : i = m + l BY <2>6
    <3>2. u[j] = v[l] BY <3>1, <2>1, <2>6, <1>5
    <3> QED BY <3>2, <2>4, <2>6
  <2> QED BY <1>6, <2>2, <2>3, <2>5, <2>6
<1> QED BY <1>1, <1>7, <1>8

\* The list of no columns.
LEMMA EmptyList ==
  ASSUME NEW l \in Seq(Cols), Range(l) = {}
  PROVE  l = <<>>
<1>1. 1 \notin DOMAIN l BY DEF Range
<1> QED BY <1>1

\* repair_column_order: a list of the columns that there are, each once; the order
\* that was kept, if it has these columns.
LEMMA RepairedFacts ==
  ASSUME NEW orders \in SUBSET {o \in Seq(Cols) : IsInjective(o)}, NEW columns \in SUBSET Cols
  PROVE  /\ Repaired(orders, columns) \in Seq(Cols) /\ IsInjective(Repaired(orders, columns))
         /\ Range(Repaired(orders, columns)) = columns
         /\ \A o : orders = {o} /\ Range(o) = columns => Repaired(orders, columns) = o
<1>1. PICK order \in Seq(Cols) : /\ order = IF orders = {} THEN <<>> ELSE CHOOSE o \in orders : TRUE
                                 /\ IsInjective(order)
  <2>1. CASE orders = {}
    <3>1. PICK e \in Seq(Cols) : e = <<>>
      <4>1. <<>> \in Seq(Cols) OBVIOUS
      <4> QED BY <4>1, Zenon
    <3>2. IsInjective(e) BY <3>1 DEF IsInjective
    <3> QED BY <2>1, <3>1, <3>2
  <2>2. CASE orders # {}
    <3>1. PICK o : o = CHOOSE z \in orders : TRUE OBVIOUS
    <3>2. o \in orders BY <2>2, <3>1
    <3> QED BY <2>2, <3>1, <3>2
  <2> QED BY <2>1, <2>2
<1>2. PICK placed \in Seq(Cols) : /\ placed = Only(order, columns) /\ IsInjective(placed)
                                  /\ Range(placed) = Range(order) \cap columns
  BY <1>1, OnlyFacts
<1>3. PICK rest \in Seq(Cols) : /\ rest = Only(Sorted, columns \ Range(placed)) /\ IsInjective(rest)
                                /\ Range(rest) = columns \ Range(placed)
  BY SortedAssumption, OnlyFacts
<1>4. Repaired(orders, columns) = placed \o rest BY <1>1, <1>2, <1>3 DEF Repaired
<1>5. /\ placed \o rest \in Seq(Cols) /\ IsInjective(placed \o rest) /\ Range(placed \o rest) = columns
  <2>1. Range(placed) \cap Range(rest) = {} /\ Range(placed) \cup Range(rest) = columns BY <1>2, <1>3
  <2> QED BY <1>2, <1>3, <2>1, ConcatFacts
<1>6. ASSUME NEW o, orders = {o}, Range(o) = columns PROVE placed \o rest = o
  <2>1. order = o BY <1>1, <1>6
  <2>2. placed = o BY <2>1, <1>2, <1>6, OnlyAll
  <2>3. rest = <<>> BY <2>2, <1>3, <1>6, EmptyList
  <2> QED BY <2>2, <2>3
<1> QED BY <1>4, <1>5, <1>6

\* The schema that a reopen gives of the keys x, and the rows.
Form(x) == LoadedSchema(x.parts)
Seen(x) == [k \in x.keys \cap DOMAIN x.rows |-> x.rows[k]]

\* The schema that a reopen gives has the sets of the store; its key is in the order
\* of the columns.
LEMMA LoadedSchemaFacts ==
  ASSUME NEW p \in Partset
  PROVE  LET s == LoadedSchema(p)
         IN /\ s \in GoodSchema /\ Columns(s) = p["columns"] /\ Range(s.pk) = p["pk"] /\ s.unique = p["unique"]
            /\ s.indexes = p["indexes"] /\ s.fks = p["fks"] /\ Sortedly(s) = s
            /\ s.order = Repaired(p["order"], p["columns"]) /\ s.pk = Only(Sorted, p["pk"])
<1>1. PICK s : s = LoadedSchema(p) OBVIOUS
<1>2. /\ "order" \in Range(Parts) /\ "columns" \in Range(Parts) /\ "pk" \in Range(Parts)
      /\ "unique" \in Range(Parts) /\ "indexes" \in Range(Parts) /\ "fks" \in Range(Parts)
  BY PartsFacts
<1>3. /\ p["order"] \in SUBSET {o \in Seq(Cols) : IsInjective(o)} /\ p["columns"] \in SUBSET Cols
      /\ p["pk"] \in SUBSET Cols /\ p["unique"] \in SUBSET ColumnLists /\ IsFiniteSet(p["unique"])
      /\ p["indexes"] \in SUBSET Index /\ IsFiniteSet(p["indexes"])
      /\ p["fks"] \in SUBSET {f \in Foreign : Len(f.cols) = Len(f.refcols)} /\ IsFiniteSet(p["fks"])
  <2>1. \A q \in Range(Parts) : p[q] \in Fin(Members(q)) BY PartsetElim
  <2>2. /\ Members("order") = {o \in Seq(Cols) : IsInjective(o)} /\ Members("columns") = Cols
        /\ Members("pk") = Cols /\ Members("unique") = ColumnLists /\ Members("indexes") = Index
        /\ Members("fks") = {f \in Foreign : Len(f.cols) = Len(f.refcols)}
    BY DEF Members
  <2>3. \A q \in Range(Parts) : p[q] \in SUBSET Members(q) /\ IsFiniteSet(p[q]) BY <2>1 DEF Fin
  <2> QED BY <1>2, <2>2, <2>3
<1>4. PICK o \in Seq(Cols) : o = Repaired(p["order"], p["columns"]) /\ IsInjective(o) /\ Range(o) = p["columns"]
  BY <1>3, RepairedFacts
<1>5. PICK k \in Seq(Cols) : k = Only(Sorted, p["pk"]) /\ IsInjective(k) /\ Range(k) = p["pk"]
  <2>1. PICK S \in SUBSET Cols : S = p["pk"] BY <1>3
  <2>2. Only(Sorted, S) \in Seq(Cols) /\ Range(Only(Sorted, S)) = Cols \cap S /\ IsInjective(Only(Sorted, S))
    BY SortedAssumption, OnlyFacts
  <2> QED BY <2>1, <2>2
<1>6. s = [order |-> o, pk |-> k, unique |-> p["unique"], indexes |-> p["indexes"], fks |-> p["fks"]]
  BY <1>1, <1>4, <1>5 DEF LoadedSchema
<1>7. /\ s \in Schema /\ s.order = o /\ s.pk = k /\ s.unique = p["unique"] /\ s.indexes = p["indexes"]
      /\ s.fks = p["fks"]
  BY <1>3, <1>6 DEF Schema
<1>8. Orderly(s, FALSE) /\ Paired(s) BY <1>3, <1>7 DEF Orderly, Paired
<1>9. s \in GoodSchema BY <1>4, <1>7, <1>8 DEF GoodSchema, Schemas
<1>10. Sortedly(s) = s
  <2>1. SortedList(k) = k BY <1>5 DEF SortedList
  <2>2. Sortedly(s) = [s EXCEPT !.pk = k] BY <2>1, <1>7 DEF Sortedly
  <2> QED BY <2>2, <1>7 DEF Schema
<1> QED BY <1>1, <1>4, <1>5, <1>7, <1>9, <1>10 DEF Columns

\* The parts of a schema give it back, with its key in the order of the columns.
LEMMA PartsFormed ==
  ASSUME NEW s \in GoodSchema
  PROVE  LoadedSchema(PartsOf(s)) = Sortedly(s)
<1>1. /\ PartsOf(s) \in Partset /\ PartsOf(s)["order"] = {s.order} /\ PartsOf(s)["columns"] = Columns(s)
      /\ PartsOf(s)["pk"] = Range(s.pk) /\ PartsOf(s)["unique"] = s.unique /\ PartsOf(s)["indexes"] = s.indexes
      /\ PartsOf(s)["fks"] = s.fks
  BY PartsOfFacts
<1>2. s \in Schema /\ IsInjective(s.order) /\ s.order \in Seq(Cols) /\ Range(s.order) = Columns(s)
  BY DEF GoodSchema, Schemas, Schema, Columns
<1>3. PICK a : a = LoadedSchema(PartsOf(s)) OBVIOUS
<1>4. /\ a \in GoodSchema /\ a.unique = s.unique /\ a.indexes = s.indexes /\ a.fks = s.fks
      /\ a.order = Repaired({s.order}, Columns(s)) /\ a.pk = SortedList(s.pk)
  BY <1>1, <1>3, LoadedSchemaFacts DEF SortedList
<1>5. a.order = s.order
  <2>1. {s.order} \in SUBSET {o \in Seq(Cols) : IsInjective(o)} /\ Columns(s) \in SUBSET Cols
    BY <1>2, RangeOfSeq
  <2> QED BY <2>1, <1>2, <1>4, RepairedFacts
<1>6. PICK b : b = Sortedly(s) OBVIOUS
<1>7. /\ b \in GoodSchema /\ b.pk = SortedList(s.pk) /\ b.order = s.order /\ b.unique = s.unique
      /\ b.indexes = s.indexes /\ b.fks = s.fks
  BY <1>6, SortedlyFacts DEF GoodSchema
<1>8. a \in Schema /\ b \in Schema BY <1>4, <1>7 DEF GoodSchema, Schemas
<1>9. a = b BY <1>4, <1>5, <1>7, <1>8 DEF Schema
<1> QED BY <1>3, <1>6, <1>9

\* What a reopen gives: a table, if the store knows it.
LEMMA LoadedFacts ==
  ASSUME NEW x \in Entry
  PROVE  /\ Loaded(x) = IF ~x.known THEN None ELSE [schema |-> Form(x), rows |-> Seen(x)]
         /\ Loaded(x) \in Table \cup {None} /\ (Loaded(x) = None <=> ~x.known)
         /\ Form(x) \in GoodSchema /\ Sortedly(Form(x)) = Form(x)
         /\ Seen(x) \in Rowset /\ DOMAIN Seen(x) = x.keys \cap DOMAIN x.rows
         /\ \A k \in DOMAIN Seen(x) : Seen(x)[k] = x.rows[k]
         /\ Filed(x) => Seen(x) = x.rows
<1>1. x.rows \in Rowset /\ x.known \in BOOLEAN /\ x.parts \in Partset BY DEF Entry
<1>2. Form(x) \in GoodSchema /\ Sortedly(Form(x)) = Form(x) BY <1>1, LoadedSchemaFacts DEF Form
<1>3. PICK K : K = x.keys \cap DOMAIN x.rows OBVIOUS
<1>4. PICK r : r = Seen(x) OBVIOUS
<1>5. r = [k \in K |-> x.rows[k]] BY <1>3, <1>4 DEF Seen
<1>6. x.rows \in [DOMAIN x.rows -> Row] /\ DOMAIN x.rows \subseteq Key /\ IsFiniteSet(DOMAIN x.rows)
  BY <1>1, RowsetElim
<1>7. r \in Rowset /\ DOMAIN r = K
  <2>1. K \in SUBSET Key /\ IsFiniteSet(K) BY <1>3, <1>6, FS_Subset
  <2>2. \A k \in K : x.rows[k] \in Row BY <1>3, <1>6
  <2>3. r \in [K -> Row]
    <3> HIDE DEF Row
    <3> QED BY <1>5, <2>2
  <2> QED BY <2>1, <2>3, RowsetIntro
<1>8. \A k \in K : r[k] = x.rows[k] BY <1>5
<1>9. ASSUME Filed(x) PROVE r = x.rows
  <2>1. K = DOMAIN x.rows BY <1>3, <1>9 DEF Filed
  <2> QED BY <2>1, <1>1, <1>7, <1>8, RowsetEqual
<1>10. Loaded(x) = IF ~x.known THEN None ELSE [schema |-> Form(x), rows |-> r]
  BY <1>4 DEF Loaded, Form, Seen
<1>11. [schema |-> Form(x), rows |-> r] \in Table BY <1>2, <1>7 DEF Table
<1>12. [schema |-> Form(x), rows |-> r] # None BY <1>11, NoneFacts
<1> QED BY <1>1, <1>2, <1>3, <1>4, <1>7, <1>8, <1>9, <1>10, <1>11, <1>12

\* The sets of a schema, one by one.
LEMMA SetsFacts ==
  ASSUME NEW s
  PROVE  /\ Len(Sets(s)) = 5 /\ DOMAIN Sets(s) = 1..5
         /\ Sets(s)[1] = Columns(s) /\ Sets(s)[2] = Range(s.pk) /\ Sets(s)[3] = s.unique
         /\ Sets(s)[4] = s.indexes /\ Sets(s)[5] = s.fks
BY DEF Sets

\* They are the sets of the store.
LEMMA FormSets ==
  ASSUME NEW p \in Partset, NEW i \in 1..5
  PROVE  Sets(LoadedSchema(p))[i] = p[Parts[i + 1]]
<1>1. PICK s : s = LoadedSchema(p) OBVIOUS
<1>2. /\ Columns(s) = p["columns"] /\ Range(s.pk) = p["pk"] /\ s.unique = p["unique"]
      /\ s.indexes = p["indexes"] /\ s.fks = p["fks"]
  BY <1>1, LoadedSchemaFacts
<1>3. /\ Sets(s)[1] = p[Parts[2]] /\ Sets(s)[2] = p[Parts[3]] /\ Sets(s)[3] = p[Parts[4]]
      /\ Sets(s)[4] = p[Parts[5]] /\ Sets(s)[5] = p[Parts[6]]
  BY <1>2, SetsFacts, PartsFacts
<1>4. i = 1 \/ i = 2 \/ i = 3 \/ i = 4 \/ i = 5 OBVIOUS
<1> HIDE DEF Sets
<1> QED BY <1>1, <1>3, <1>4

\* Sorting the key leaves the sets.
LEMMA SortedSets ==
  ASSUME NEW s \in GoodSchema
  PROVE  Sets(Sortedly(s)) = Sets(s)
<1>1. s \in Schemas(FALSE) /\ s.pk \in Seq(Cols) BY DEF GoodSchema, Schemas, Schema
<1>2. PICK a : a = Sortedly(s) OBVIOUS
<1>3. /\ a.pk = SortedList(s.pk) /\ a.order = s.order /\ a.unique = s.unique /\ a.indexes = s.indexes
      /\ a.fks = s.fks
  BY <1>1, <1>2, SortedlyFacts
<1>4. Range(a.pk) = Range(s.pk) BY <1>1, <1>3, SortedFacts
<1> QED BY <1>2, <1>3, <1>4 DEF Sets, Columns

\* A schema of which parts are gone is a piece of it.
LEMMA PieceOut ==
  ASSUME NEW p \in Partset, NEW f \in Cuts(p), NEW n, Sets(n) = Sets(LoadedSchema(p))
  PROVE  Piece(LoadedSchema(f), n)
<1>1. PICK c \in 0..6 : Cut(p, f, c) BY DEF Cuts
<1>2. f \in Partset BY DEF Cuts
<1>3. PICK P : P = Sets(LoadedSchema(f)) OBVIOUS
<1>4. PICK Q : Q = Sets(n) OBVIOUS
<1>5. \A i \in 1..5 : P[i] = f[Parts[i + 1]] /\ Q[i] = p[Parts[i + 1]] BY <1>2, <1>3, <1>4, FormSets
<1>6. \A i \in 1..5 : i + 1 \in 1..6 OBVIOUS
<1>7. \A i \in 1..5 : P[i] = IF i + 1 <= c THEN {} ELSE Q[i] BY <1>1, <1>5, <1>6 DEF Cut
<1>8. DOMAIN P = 1..5 BY <1>3, SetsFacts
<1>9. \A i \in DOMAIN P : P[i] \in {{}, Q[i]} /\ \A j \in 1..i : P[j] # {} => P[i] = Q[i]
  <2>1. SUFFICES ASSUME NEW i \in 1..5
                 PROVE  P[i] \in {{}, Q[i]} /\ \A j \in 1..i : P[j] # {} => P[i] = Q[i]
    BY <1>8
  <2>2. \A j \in 1..i : j \in 1..5 /\ (i + 1 <= c => j + 1 <= c) OBVIOUS
  <2> QED BY <1>7, <2>2
<1> QED BY <1>3, <1>4, <1>9 DEF Piece

\* A schema of which parts are there is a piece of it.
LEMMA PieceIn ==
  ASSUME NEW p \in Partset, NEW f \in Fills(p), NEW n, Sets(n) = Sets(LoadedSchema(p))
  PROVE  Piece(LoadedSchema(f), n)
<1>1. PICK c \in 0..6 : Fill(p, f, c) BY DEF Fills
<1>2. f \in Partset BY DEF Fills
<1>3. PICK P : P = Sets(LoadedSchema(f)) OBVIOUS
<1>4. PICK Q : Q = Sets(n) OBVIOUS
<1>5. \A i \in 1..5 : P[i] = f[Parts[i + 1]] /\ Q[i] = p[Parts[i + 1]] BY <1>2, <1>3, <1>4, FormSets
<1>6. \A i \in 1..5 : i + 1 \in 1..6 OBVIOUS
<1>7. \A i \in 1..5 : /\ i + 1 < c => P[i] = Q[i]
                      /\ i + 1 = c => P[i] \subseteq Q[i]
                      /\ i + 1 > c => P[i] = {}
  BY <1>1, <1>5, <1>6 DEF Fill
<1>8. DOMAIN P = 1..5 /\ Len(P) = 5 BY <1>3, SetsFacts
<1>9. \A i \in DOMAIN P : P[i] \subseteq Q[i] /\ \A j \in (i + 1)..Len(P) : P[j] # {} => P[i] = Q[i]
  <2>1. SUFFICES ASSUME NEW i \in 1..5
                 PROVE  P[i] \subseteq Q[i] /\ \A j \in (i + 1)..5 : P[j] # {} => P[i] = Q[i]
    BY <1>8
  <2>2. i + 1 < c \/ i + 1 = c \/ i + 1 > c OBVIOUS
  <2>3. P[i] \subseteq Q[i] BY <2>2, <1>7
  <2>4. ASSUME NEW j \in (i + 1)..5, P[j] # {} PROVE P[i] = Q[i]
    <3>1. j \in 1..5 OBVIOUS
    <3>2. ~(j + 1 > c) BY <3>1, <2>4, <1>7
    <3>3. i + 1 < c BY <3>1, <3>2
    <3> QED BY <3>3, <1>7
  <2> QED BY <2>3, <2>4
<1> QED BY <1>3, <1>4, <1>9 DEF Piece

\* The schemas of a table are whole unless it is torn.
LEMMA Kept ==
  ASSUME TypeInv, NEW t \in Tables, mem[t] # None
  PROVE  mem[t] \in Table /\ mem[t].schema \in Schemas(t \notin torn) /\ mem[t].schema \in GoodSchema
<1>1. mem[t] \in Table BY DEF TypeInv
<1>2. mem[t].schema \in GoodSchema BY <1>1 DEF Table
<1>3. CASE t \in torn BY <1>1, <1>2, <1>3 DEF GoodSchema
<1>4. CASE t \notin torn
  <2>1. mem[t].schema \in Schemas(TRUE) BY <1>4 DEF TypeInv, Untorn
  <2> QED BY <1>1, <1>2, <1>4, <2>1
<1> QED BY <1>3, <1>4

\* A whole schema is one of a table that may be torn.
LEMMA SchemasOf ==
  ASSUME NEW w \in BOOLEAN
  PROVE  Schemas(TRUE) \subseteq Schemas(w)
<1>1. Schemas(TRUE) \subseteq Schemas(FALSE) BY GoodOfWhole DEF GoodSchema
<1> QED BY <1>1

\* A table with no rows is one.
LEMMA Emptied ==
  ASSUME NEW m \in Table
  PROVE  [m EXCEPT !.rows = NoRows] \in Table /\ [m EXCEPT !.rows = NoRows].schema = m.schema
         /\ [m EXCEPT !.rows = NoRows].rows = NoRows
<1>1. NoRows \in Rowset BY FS_EmptySet, RowsetIntro DEF NoRows
<1> QED BY <1>1 DEF Table

\* What a statement leaves is of the types, if the schemas that it makes are whole
\* and it calls no torn table whole that it leaves.
LEMMA ExecuteType ==
  ASSUME TypeInv, NEW mem2 \in [Tables -> Table \cup {None}], NEW writes \in Seq(Command), NEW doubts, NEW blind,
         NEW tears, \A t \in Tables : mem2[t] # None => mem2[t].schema \in Schemas(t \notin tears),
         \A t \in Tables : mem[t] # None /\ t \in torn => t \in tears,
         Execute(mem2, writes, doubts, blind, tears)
  PROVE  TypeInv'
<1>1. mem' = mem2 /\ todo' = writes /\ store' = store /\ torn' = tears BY DEF Execute
<1> DEFINE D == {t \in Tables : mem[t] # None /\ \E i \in DOMAIN writes : writes[i].op = "forget" /\ writes[i].table = t}
<1>2. \A t \in Tables :
        t \in D <=> (mem[t] # None /\ \E i \in DOMAIN writes : writes[i].op = "forget" /\ writes[i].table = t)
  OBVIOUS
<1> HIDE DEF D
<1>3. before' = [t \in Tables |-> IF t \in D THEN [mem[t] EXCEPT !.rows = NoRows] ELSE mem[t]]
  <2>1. before' = [t \in Tables |->
                     IF mem[t] # None /\ \E i \in DOMAIN writes : writes[i].op = "forget" /\ writes[i].table = t
                     THEN [mem[t] EXCEPT !.rows = NoRows] ELSE mem[t]]
    BY DEF Execute
  <2> QED BY <1>2, <2>1
<1>4. ASSUME NEW t \in Tables
      PROVE  before'[t] \in Table \cup {None} /\ (before'[t] # None => mem[t] # None /\ before'[t].schema = mem[t].schema)
  <2>1. mem[t] \in Table \cup {None} BY DEF TypeInv
  <2>2. CASE t \in D
    <3>1. mem[t] \in Table /\ mem[t] # None BY <2>1, <2>2, <1>2
    <3>2. before'[t] = [mem[t] EXCEPT !.rows = NoRows] BY <2>2, <1>3
    <3> QED BY <3>1, <3>2, Emptied
  <2>3. CASE t \notin D BY <2>1, <2>3, <1>3
  <2> QED BY <2>2, <2>3
<1>5. before' \in [Tables -> Table \cup {None}]
  <2>1. DOMAIN before' = Tables /\ before' = [t \in Tables |-> before'[t]] BY <1>3
  <2> HIDE DEF Table
  <2> QED BY <2>1, <1>4
<1>6. Untorn'
  <2>1. SUFFICES ASSUME NEW t \in Tables, t \notin tears, NEW n \in {mem2[t], before'[t]}, n # None
                 PROVE  n.schema \in Schemas(TRUE)
    BY <1>1 DEF Untorn
  <2>2. CASE n = mem2[t] BY <2>1, <2>2
  <2>3. CASE n = before'[t]
    <3>1. mem[t] # None /\ n.schema = mem[t].schema BY <2>1, <2>3, <1>4
    <3>2. t \notin torn BY <3>1, <2>1
    <3>3. mem[t].schema \in Schemas(TRUE) BY <3>1, <3>2 DEF TypeInv, Untorn
    <3> QED BY <3>1, <3>3
  <2> QED BY <2>1, <2>2, <2>3
<1> QED BY <1>1, <1>5, <1>6 DEF TypeInv

\* With of the types.
LEMMA WithType ==
  ASSUME TypeInv, NEW t \in Tables, NEW s \in GoodSchema, NEW r \in Rowset
  PROVE  /\ With(t, s, r) \in [Tables -> Table \cup {None}]
         /\ With(t, s, r)[t] = [schema |-> s, rows |-> r] /\ [schema |-> s, rows |-> r] \in Table
         /\ \A u \in Tables \ {t} : With(t, s, r)[u] = mem[u]
<1>1. [schema |-> s, rows |-> r] \in Table BY DEF Table
<1> QED BY <1>1 DEF With, TypeInv

\* What Course computes, command by command.
LEMMA CourseDef ==
  ASSUME NEW P, NEW x \in P, NEW t, NEW X, NEW ws \in Seq(X), NEW y, Leads(x, t, ws, y, P)
  PROVE  Course(x, t, ws)[Len(ws)] = y /\ \A i \in 0..Len(ws) : Course(x, t, ws)[i] \in P
<1> DEFINE n == Len(ws)
           Step(f) == [i \in 0..n |-> IF i = 0 THEN x
                                      ELSE IF ws[i].table = t THEN Sent(f[i - 1], ws[i]) ELSE f[i - 1]]
<1>1. n \in Nat /\ n \in 0..n /\ 0 \in 0..n OBVIOUS
<1>2. PICK f \in [0..n -> P] : f[0] = x /\ f[n] = y /\ \A i \in 1..n : f[i] = Done(f[i - 1], t, ws[i])
  BY DEF Leads
<1>3. f = Step(f)
  <2>1. ASSUME NEW i \in 0..n PROVE f[i] = Step(f)[i]
    <3>1. CASE i = 0 BY <3>1, <1>2
    <3>2. CASE i # 0
      <4>1. i \in 1..n BY <3>2
      <4>2. Step(f)[i] = Done(f[i - 1], t, ws[i]) BY <3>2 DEF Done
      <4> HIDE DEF n, Step
      <4> QED BY <4>1, <4>2, <1>2
    <3> QED BY <3>1, <3>2
  <2> HIDE DEF n
  <2> QED BY <2>1
<1>4. \E g : g = Step(g) BY <1>3
<1>5. PICK g : g = Step(g) /\ g = CHOOSE h : h = Step(h)
  BY <1>4, Zenon
<1>6. \A i \in 0..n : g[i] = f[i]
  <2>1. g[0] = f[0]
    <3>1. Step(g)[0] = x BY <1>1
    <3> HIDE DEF Step
    <3> QED BY <3>1, <1>2, <1>5
  <2>2. ASSUME NEW i \in 1..n, g[i - 1] = f[i - 1] PROVE g[i] = f[i]
    <3>1. i \in 0..n /\ i # 0 OBVIOUS
    <3>2. Step(g)[i] = Done(g[i - 1], t, ws[i]) BY <3>1 DEF Done
    <3> HIDE DEF n, Step
    <3>3. g[i] = Done(g[i - 1], t, ws[i]) BY <3>2, <1>5
    <3> QED BY <3>3, <2>2, <1>2
  <2> HIDE DEF n, Step
  <2> QED BY ZenonT(60), <1>1, <2>1, <2>2, SameChain
<1>7. Course(x, t, ws) = g
  BY <1>5, Zenon DEF Course
<1>8. \A i \in 0..n : f[i] \in P BY <1>2
<1> HIDE DEF Step
<1> QED BY <1>1, <1>2, <1>6, <1>7, <1>8

-----------------------------------------------------------------------------
(* Where a statement's commands lead                                       *)

\* The keys hold what a table that is at rest has; its rows, if no others were left
\* there by a crash (own).
Rest(x, m, own) ==
  /\ Filed(x)
  /\ IF m = None THEN ~x.known ELSE x.known /\ Form(x) = Sortedly(m.schema)
  /\ own => x.rows = IF m = None THEN NoRows ELSE m.rows

\* The rows that a statement keeps.
KeptRows(b, m) == IF b = None \/ m = None THEN {} ELSE DOMAIN b.rows \cap DOMAIN m.rows

\* The keys that a crash may leave of a table that is b before a statement and m
\* after it; all the way of the commands ws from x they are of these, and in the end
\* they hold m.
Part(z, b, m) == \E n \in {b, m} \ {None} : Piece(Form(z), n.schema)
SafeSet(b, m, own) ==
  {z \in Entry :
     /\ Filed(z) /\ (z.known => Part(z, b, m))
     /\ own /\ OneMove /\ KeptRows(b, m) # {} => z.known /\ z.rows \in Halfway(b.rows, m.rows)}
Reaches(x, t, ws, b, m, own) ==
  \E y \in Entry : Leads(x, t, ws, y, SafeSet(b, m, own)) /\ Rest(y, m, own)

\* Keys at rest give the table.
LEMMA HoldsFacts ==
  ASSUME NEW x \in Entry, NEW m \in Table \cup {None}, Rest(x, m, TRUE)
  PROVE  Holds(x, m)
<1>1. CASE m = None BY <1>1, LoadedFacts DEF Rest, Holds
<1>2. CASE m # None
  <2>1. m \in Table /\ x.known /\ Form(x) = Sortedly(m.schema) /\ x.rows = m.rows /\ Filed(x) BY <1>2 DEF Rest
  <2>2. Loaded(x) = [schema |-> Form(x), rows |-> m.rows] BY <2>1, LoadedFacts
  <2>3. PICK s \in GoodSchema : s = Sortedly(m.schema) BY <2>1, SortedlyFacts DEF Table, GoodSchema
  <2>4. [m EXCEPT !.schema = s] = [schema |-> s, rows |-> m.rows] BY <2>1 DEF Table
  <2>5. [m EXCEPT !.schema = Sortedly(@)] = [schema |-> s, rows |-> m.rows] BY <2>3, <2>4
  <2> QED BY <1>2, <2>1, <2>2, <2>3, <2>5 DEF Holds
<1> QED BY <1>1, <1>2

\* A safe set of keys gives what CrashSafe says.
LEMMA SafeBetween ==
  ASSUME NEW b \in Table \cup {None}, NEW m \in Table \cup {None}, NEW z \in SafeSet(b, m, TRUE), OneMove
  PROVE  Between(Loaded(z), b, m)
<1>1. /\ z \in Entry /\ Filed(z) /\ (z.known => Part(z, b, m))
      /\ KeptRows(b, m) # {} => z.known /\ z.rows \in Halfway(b.rows, m.rows)
  BY DEF SafeSet
<1>2. PICK l : l = Loaded(z) OBVIOUS
<1>3. (l = None <=> ~z.known) /\ (z.known => l.schema = Form(z) /\ l.rows = z.rows)
  <2>1. CASE ~z.known BY <2>1, <1>1, <1>2, LoadedFacts
  <2>2. CASE z.known
    <3>1. l = [schema |-> Form(z), rows |-> z.rows] BY <2>2, <1>1, <1>2, LoadedFacts
    <3>2. l # None BY <2>2, <1>1, <1>2, LoadedFacts
    <3>3. l.schema = Form(z) /\ l.rows = z.rows BY <3>1
    <3> QED BY <2>2, <3>2, <3>3
  <2> QED BY <2>1, <2>2
<1>4. PICK kept : kept = KeptRows(b, m) OBVIOUS
<1>5. l # None => \E n \in {b, m} \ {None} : Piece(l.schema, n.schema) BY <1>1, <1>3 DEF Part
<1>6. kept # {} => l # None BY <1>1, <1>3, <1>4
<1>7. ASSUME NEW j \in kept
      PROVE  /\ \A k \in kept : \/ j \in DOMAIN l.rows /\ l.rows[j] \in {b.rows[j], m.rows[j]}
                                \/ k \in DOMAIN l.rows /\ l.rows[k] \in {b.rows[k], m.rows[k]}
                                \/ j = k
             /\ j \in DOMAIN l.rows =>
                  l.rows[j] = b.rows[j] \/ \A c \in Cols : l.rows[j][c] \in {m.rows[j][c], Absent}
  <2>1. kept # {} OBVIOUS
  <2>2. z.known /\ z.rows \in Halfway(b.rows, m.rows) /\ l.rows = z.rows BY <2>1, <1>1, <1>3, <1>4
  <2>3. kept \subseteq DOMAIN b.rows BY <1>4 DEF KeptRows
  <2>4. \A k \in kept : Sound(z.rows, b.rows, m.rows, j) \/ Sound(z.rows, b.rows, m.rows, k) \/ j = k
    BY <2>2, <2>3 DEF Halfway
  <2>5. j \in DOMAIN z.rows => z.rows[j] = b.rows[j] \/ z.rows[j] \in Partial(m.rows[j])
    BY <2>2 DEF Halfway
  <2> QED BY <2>2, <2>4, <2>5 DEF Sound, Partial
<1>8. Between(l, b, m)
  <2>1. kept = IF b = None \/ m = None THEN {} ELSE DOMAIN b.rows \cap DOMAIN m.rows BY <1>4 DEF KeptRows
  <2> QED BY <1>5, <1>6, <1>7, <2>1 DEF Between
<1> QED BY <1>2, <1>8

\* A schema of the sets of another is a piece of it.
LEMMA PieceSelf ==
  ASSUME NEW a, NEW n, Sets(a) = Sets(n)
  PROVE  Piece(a, n)
<1>1. PICK P : P = Sets(a) /\ P = Sets(n) OBVIOUS
<1>2. \A i \in DOMAIN P : P[i] \in {{}, P[i]} /\ \A j \in 1..i : P[j] # {} => P[i] = P[i] OBVIOUS
<1> QED BY <1>1, <1>2 DEF Piece

\* Keys at rest have the sets of the schema.
LEMMA RestSets ==
  ASSUME NEW x, NEW s \in GoodSchema, Form(x) = Sortedly(s)
  PROVE  Sets(Form(x)) = Sets(s) /\ Piece(Form(x), s)
BY SortedSets, PieceSelf

\* A table that is known all the way, with its rows half way at most.
LEMMA SafeKnown ==
  ASSUME NEW z \in Entry, NEW b \in Table, NEW m \in Table, NEW own, Filed(z), z.known,
         Piece(Form(z), b.schema) \/ Piece(Form(z), m.schema), own => z.rows \in Way(b.rows, m.rows)
  PROVE  z \in SafeSet(b, m, own)
<1>1. b # None /\ m # None BY NoneFacts
<1>2. Part(z, b, m) BY <1>1 DEF Part
<1> QED BY <1>2 DEF SafeSet, Way

\* A table of which no row is kept.
Loses(b, m) == b = None \/ m = None \/ b.rows = NoRows \/ m.rows = NoRows
LEMMA SafeNone ==
  ASSUME NEW z \in Entry, NEW b, NEW m, NEW own, Filed(z), Loses(b, m), z.known => Part(z, b, m)
  PROVE  z \in SafeSet(b, m, own)
<1>1. DOMAIN NoRows = {} BY DEF NoRows
<1>2. KeptRows(b, m) = {} BY <1>1 DEF KeptRows, Loses
<1> QED BY <1>2 DEF SafeSet

\* The old rows and the new are on the way, if no row is taken away.
LEMMA SameWay ==
  ASSUME NEW p \in Rowset, NEW r \in Rowset, DOMAIN p \subseteq DOMAIN r
  PROVE  r \in Way(p, r) /\ p \in Way(p, r)
<1>1. \A k \in DOMAIN r : r[k] \in Partial(r[k]) BY RowsetElim DEF Partial
<1> QED BY <1>1 DEF Way, Halfway, Sound

-----------------------------------------------------------------------------
(* Composition                                                             *)

Untouched(ws, t) == \A i \in 1..Len(ws) : ws[i].table # t

\* Two parts, of which the second ends it.
LEMMA ReachConcat ==
  ASSUME NEW t, NEW x, NEW y, NEW b, NEW m, NEW own, NEW u \in Seq(Command), NEW v \in Seq(Command),
         Leads(x, t, u, y, SafeSet(b, m, own)), Reaches(y, t, v, b, m, own)
  PROVE  Reaches(x, t, u \o v, b, m, own)
<1>1. PICK z \in Entry : Leads(y, t, v, z, SafeSet(b, m, own)) /\ Rest(z, m, own) BY DEF Reaches
<1>2. Leads(x, t, u \o v, z, SafeSet(b, m, own)) BY <1>1, LeadsConcat
<1> QED BY <1>1, <1>2 DEF Reaches

\* Commands of other tables after those of t.
LEMMA ReachThen ==
  ASSUME NEW t, NEW x, NEW b, NEW m, NEW own, NEW u \in Seq(Command), NEW v \in Seq(Command),
         Reaches(x, t, u, b, m, own), Untouched(v, t)
  PROVE  Reaches(x, t, u \o v, b, m, own)
<1>1. PICK y \in Entry : Leads(x, t, u, y, SafeSet(b, m, own)) /\ Rest(y, m, own) BY DEF Reaches
<1>2. y \in SafeSet(b, m, own) BY <1>1, LeadsEnds
<1>3. Leads(y, t, v, y, SafeSet(b, m, own)) BY <1>2, LeadsNone DEF Untouched
<1>4. Reaches(y, t, v, b, m, own) BY <1>1, <1>3 DEF Reaches
<1> QED BY <1>1, <1>4, ReachConcat

\* And before.
LEMMA ReachAfter ==
  ASSUME NEW t, NEW x, NEW b, NEW m, NEW own, NEW u \in Seq(Command), NEW v \in Seq(Command),
         Reaches(x, t, v, b, m, own), Untouched(u, t)
  PROVE  Reaches(x, t, u \o v, b, m, own)
<1>1. PICK y \in Entry : Leads(x, t, v, y, SafeSet(b, m, own)) BY DEF Reaches
<1>2. x \in SafeSet(b, m, own) BY <1>1, LeadsEnds
<1>3. Leads(x, t, u, x, SafeSet(b, m, own)) BY <1>2, LeadsNone DEF Untouched
<1> QED BY <1>3, ReachConcat

\* One of several parts is the table's.
LEMMA ReachInTurn ==
  ASSUME NEW t, NEW x, NEW b, NEW m, NEW own, NEW parts \in Seq(Seq(Command)), NEW i0 \in 1..Len(parts),
         Reaches(x, t, parts[i0], b, m, own), \A i \in 1..Len(parts) : i # i0 => Untouched(parts[i], t)
  PROVE  Reaches(x, t, InTurn(parts), b, m, own)
<1> DEFINE n == Len(parts)
           P == SafeSet(b, m, own)
<1>1. PICK y \in Entry : Leads(x, t, parts[i0], y, P) /\ Rest(y, m, own) BY DEF Reaches
<1>2. n \in Nat /\ 0 \in 0..n /\ n \in 0..n /\ \A i \in 1..n : parts[i] \in Seq(Command) OBVIOUS
<1>3. x \in P /\ y \in P BY <1>1, <1>2, LeadsEnds
<1> DEFINE Y == [i \in 0..n |-> IF i < i0 THEN {x} ELSE {y}]
<1> HIDE DEF P
<1>4. Y \in [0..n -> SUBSET P] BY <1>3
<1>5. ASSUME NEW i \in 1..n, NEW u \in Y[i - 1] PROVE \E z \in Y[i] : Leads(u, t, parts[i], z, P)
  <2>1. i \in 0..n /\ i - 1 \in 0..n OBVIOUS
  <2>2. CASE i = i0
    <3>1. Y[i - 1] = {x} /\ Y[i] = {y} BY <2>1, <2>2
    <3> QED BY <3>1, <2>2, <1>1, <1>5
  <2>3. CASE i # i0
    <3>1. Y[i - 1] = Y[i] /\ u \in P
      <4>1. (i < i0 /\ i - 1 < i0) \/ (~(i < i0) /\ ~(i - 1 < i0)) BY <2>3
      <4>2. CASE i < i0 /\ i - 1 < i0
        <5>1. Y[i - 1] = {x} /\ Y[i] = {x} BY <4>2, <2>1
        <5> QED BY <5>1, <1>3, <1>5
      <4>3. CASE ~(i < i0) /\ ~(i - 1 < i0)
        <5>1. Y[i - 1] = {y} /\ Y[i] = {y} BY <4>3, <2>1
        <5> QED BY <5>1, <1>3, <1>5
      <4> QED BY <4>1, <4>2, <4>3
    <3>2. Untouched(parts[i], t) BY <2>3
    <3>3. Leads(u, t, parts[i], u, P)
      <4> HIDE DEF Y, n
      <4> QED BY <3>1, <3>2, <1>2, LeadsNone DEF Untouched
    <3> QED BY <3>1, <3>3
  <2> QED BY <2>2, <2>3
<1>6. Y[0] = {x} /\ Y[n] = {y} BY <1>2
<1>7. \E z \in Y[n] : Leads(x, t, InTurn(parts), z, P)
  <2>1. x \in Y[0] BY <1>6
  <2> HIDE DEF Y
  <2> QED BY <2>1, <1>4, <1>5, LeadsInTurn
<1>8. Leads(x, t, InTurn(parts), y, P) BY <1>6, <1>7
<1> QED BY <1>1, <1>8 DEF P, Reaches

\* The keys of a table that no command touches.
LEMMA ReachRest ==
  ASSUME NEW t, NEW x \in Entry, NEW m \in Table \cup {None}, NEW own, NEW ws \in Seq(Command), Rest(x, m, own),
         Untouched(ws, t)
  PROVE  Reaches(x, t, ws, m, m, own)
<1>1. x \in SafeSet(m, m, own)
  <2>1. CASE m = None
    <3>1. ~x.known /\ Filed(x) BY <2>1 DEF Rest
    <3> QED BY <3>1, <2>1, SafeNone DEF Loses
  <2>2. CASE m # None
    <3>1. m \in Table /\ x.known /\ Filed(x) /\ (own => x.rows = m.rows) /\ Form(x) = Sortedly(m.schema)
      BY <2>2 DEF Rest
    <3>2. m.rows \in Rowset /\ m.schema \in GoodSchema BY <3>1 DEF Table
    <3>3. m.rows \in Way(m.rows, m.rows) BY <3>2, SameWay
    <3>4. Piece(Form(x), m.schema) BY <3>1, <3>2, RestSets
    <3> QED BY <3>1, <3>3, <3>4, SafeKnown
  <2> QED BY <2>1, <2>2
<1>2. Leads(x, t, ws, x, SafeSet(m, m, own)) BY <1>1, LeadsNone DEF Untouched
<1> QED BY <1>2 DEF Reaches

-----------------------------------------------------------------------------
(* The tables that a statement is about                                    *)

\* What the ways of a schema and of a deletion leave is a piece of a schema.
LEMMA CutPart ==
  ASSUME NEW x \in Entry, NEW b \in Table, Form(x) = Sortedly(b.schema), NEW m, NEW z, z.parts \in Cuts(x.parts)
  PROVE  Part(z, b, m)
<1>1. b.schema \in GoodSchema /\ b # None /\ x.parts \in Partset BY NoneFacts DEF Table, Entry
<1>2. Sets(Form(x)) = Sets(b.schema) BY <1>1, RestSets
<1>3. PICK s : s = b.schema OBVIOUS
<1>4. Sets(s) = Sets(LoadedSchema(x.parts)) BY <1>2, <1>3 DEF Form
<1>5. PICK f \in Cuts(x.parts) : f = z.parts OBVIOUS
<1>6. Piece(LoadedSchema(f), s) BY <1>1, <1>4, PieceOut
<1> QED BY <1>1, <1>3, <1>5, <1>6 DEF Part, Form

LEMMA FillPart ==
  ASSUME NEW m \in Table, NEW b, NEW z, z.parts \in Fills(PartsOf(m.schema))
  PROVE  Part(z, b, m)
<1>1. PICK s \in GoodSchema : s = m.schema BY DEF Table
<1>2. PICK p \in Partset : p = PartsOf(s) BY PartsOfFacts
<1>3. Sets(s) = Sets(LoadedSchema(p)) BY <1>2, PartsFormed, SortedSets
<1>4. PICK f \in Fills(p) : f = z.parts BY <1>1, <1>2
<1>5. Piece(LoadedSchema(f), s) BY <1>3, PieceIn
<1>6. m # None BY NoneFacts
<1> QED BY <1>1, <1>4, <1>5, <1>6 DEF Part, Form

\* A schema that is written over another one.
LEMMA SchemaLeads ==
  ASSUME NEW t \in Tables, NEW x \in Entry, Filed(x), NEW b \in Table \cup {None}, NEW m \in Table, NEW own,
         x.known => b # None /\ Form(x) = Sortedly(b.schema),
         Loses(b, m) \/ (b # None /\ x.known /\ (own => x.rows \in Way(b.rows, m.rows)))
  PROVE  \E y \in Entry : /\ Leads(x, t, PutSchema(t, m.schema), y, SafeSet(b, m, own))
                          /\ y.known /\ y.rows = x.rows /\ Filed(y) /\ Form(y) = Sortedly(m.schema)
                          /\ Part(y, b, m)
<1>1. PICK s \in GoodSchema : s = m.schema BY DEF Table
<1>2. PICK y \in SchemaOn(x, s) : Leads(x, t, PutSchema(t, s), y, SchemaWay(x, s))
  BY PutSchemaLeads
<1>3. ASSUME NEW z \in SchemaWay(x, s) PROVE z \in SafeSet(b, m, own) /\ (z.known => Part(z, b, m))
  <2>1. z \in Entry /\ z.rows = x.rows /\ Filed(z)
        /\ ((z.known = x.known /\ z.parts \in Cuts(x.parts)) \/ (z.known /\ z.parts \in Fills(PartsOf(s))))
    BY DEF SchemaWay, Filed
  <2>2. ASSUME z.known PROVE Part(z, b, m)
    <3>1. CASE z.parts \in Fills(PartsOf(s)) BY <3>1, <1>1, FillPart
    <3>2. CASE z.known = x.known /\ z.parts \in Cuts(x.parts)
      <4>1. b \in Table /\ Form(x) = Sortedly(b.schema) BY <3>2, <2>2
      <4> QED BY <4>1, <3>2, CutPart
    <3> QED BY <3>1, <3>2, <2>1
  <2>3. CASE Loses(b, m) BY <2>1, <2>2, <2>3, SafeNone
  <2>4. CASE b # None /\ x.known /\ (own => x.rows \in Way(b.rows, m.rows))
    <3>1. z.known BY <2>1, <2>4
    <3> QED BY <3>1, <2>1, <2>2, <2>4 DEF SafeSet, Way
  <2> QED BY <2>2, <2>3, <2>4
<1>4. SchemaWay(x, s) \subseteq SafeSet(b, m, own) BY <1>3
<1>5. Leads(x, t, PutSchema(t, s), y, SafeSet(b, m, own)) BY <1>2, <1>4, LeadsMore
<1>6. y \in Entry /\ y.known /\ y.rows = x.rows /\ Filed(y) /\ y.parts = PartsOf(s) BY DEF SchemaOn, Filed
<1>7. Form(y) = Sortedly(s) BY <1>6, PartsFormed DEF Form
<1>8. y \in SchemaWay(x, s)
  <2>1. PutSchema(t, s) \in Seq(Own(t)) BY SchemaCommands
  <2> QED BY <2>1, <1>2, LeadsEnds
<1>9. Part(y, b, m) BY <1>3, <1>6, <1>8
<1> QED BY <1>1, <1>5, <1>6, <1>7, <1>9

\* A new schema, the rows being those of the table.
LEMMA ReachSchema ==
  ASSUME NEW t \in Tables, NEW x \in Entry, Filed(x), NEW b \in Table \cup {None}, NEW m \in Table, NEW own,
         x.known => b # None /\ Form(x) = Sortedly(b.schema), own => x.rows = m.rows,
         Loses(b, m) \/ (b # None /\ x.known /\ (own => x.rows \in Way(b.rows, m.rows)))
  PROVE  Reaches(x, t, PutSchema(t, m.schema), b, m, own)
<1>1. PICK y \in Entry : /\ Leads(x, t, PutSchema(t, m.schema), y, SafeSet(b, m, own))
                         /\ y.known /\ y.rows = x.rows /\ Filed(y) /\ Form(y) = Sortedly(m.schema)
                         /\ Part(y, b, m)
  BY SchemaLeads
<1>2. m # None BY NoneFacts
<1>3. Rest(y, m, own) BY <1>1, <1>2 DEF Rest
<1> QED BY <1>1, <1>3 DEF Reaches

\* CREATE TABLE
LEMMA ReachCreate ==
  ASSUME NEW t \in Tables, NEW x \in Entry, NEW own, Rest(x, None, own), NEW m \in Table, m.rows = NoRows
  PROVE  Reaches(x, t, PutSchema(t, m.schema), None, m, own)
<1>1. ~x.known /\ Filed(x) /\ (own => x.rows = NoRows) BY DEF Rest
<1>2. Loses(None, m) BY DEF Loses
<1> QED BY <1>1, <1>2, ReachSchema

\* A statement that changes the schema and not the rows.
LEMMA ReachChange ==
  ASSUME NEW t \in Tables, NEW x \in Entry, NEW b \in Table, NEW own, Rest(x, b, own), NEW m \in Table, m.rows = b.rows
  PROVE  Reaches(x, t, PutSchema(t, m.schema), b, m, own)
<1>1. b # None BY NoneFacts
<1>2. x.known /\ Filed(x) /\ (own => x.rows = b.rows) /\ Form(x) = Sortedly(b.schema) BY <1>1 DEF Rest
<1>3. b.rows \in Way(b.rows, m.rows)
  <2>1. b.rows \in Rowset BY DEF Table
  <2> QED BY <2>1, SameWay
<1>4. own => x.rows \in Way(b.rows, m.rows) /\ x.rows = m.rows BY <1>2, <1>3
<1> QED BY <1>1, <1>2, <1>4, ReachSchema

\* The keys of a table while it is deleted, and a new one takes its place or not.
LEMMA DeleteLeads ==
  ASSUME NEW t \in Tables, NEW x \in Entry, x = store[t], Filed(x), NEW b \in Table \cup {None}, NEW m, NEW own,
         Loses(b, m), x.known => b # None /\ Form(x) = Sortedly(b.schema)
  PROVE  \E y \in Entry : /\ Leads(x, t, DeleteTable(t), y, SafeSet(b, m, own))
                          /\ ~y.known /\ y.rows = NoRows /\ Filed(y)
<1>1. PICK s \in GoodSchema : TRUE BY EmptyGood DEF GoodSchema
<1>2. PICK y \in Gone(x) : Leads(x, t, DeleteTable(t), y, GoingWay(x)) BY <1>1, DeleteTableLeads
<1>3. ASSUME NEW z \in GoingWay(x) PROVE z \in SafeSet(b, m, own)
  <2>1. z \in Entry /\ Filed(z) /\ (z.known => x.known /\ z.parts \in Cuts(x.parts)) BY DEF GoingWay
  <2>2. ASSUME z.known PROVE Part(z, b, m)
    <3>1. b \in Table /\ Form(x) = Sortedly(b.schema) BY <2>1, <2>2
    <3> QED BY <3>1, <2>1, <2>2, CutPart
  <2> QED BY <2>1, <2>2, SafeNone
<1>4. GoingWay(x) \subseteq SafeSet(b, m, own) BY <1>3
<1>5. Leads(x, t, DeleteTable(t), y, SafeSet(b, m, own)) BY <1>2, <1>4, LeadsMore
<1>6. y \in Entry /\ ~y.known /\ y.rows = NoRows /\ Filed(y) BY DEF Gone
<1> QED BY <1>5, <1>6

\* DROP TABLE
LEMMA ReachDelete ==
  ASSUME NEW t \in Tables, NEW x \in Entry, x = store[t], Filed(x), NEW b \in Table, NEW own,
         Form(x) = Sortedly(b.schema)
  PROVE  Reaches(x, t, DeleteTable(t), b, None, own)
<1>1. b # None /\ Loses(b, None) BY NoneFacts DEF Loses
<1>2. PICK y \in Entry : /\ Leads(x, t, DeleteTable(t), y, SafeSet(b, None, own))
                         /\ ~y.known /\ y.rows = NoRows /\ Filed(y)
  BY <1>1, DeleteLeads
<1>3. Rest(y, None, own) BY <1>2 DEF Rest
<1> QED BY <1>2, <1>3 DEF Reaches

\* Rows that are put where there are none.
LEMMA FillLeads ==
  ASSUME NEW t \in Tables, NEW x \in Entry, Filed(x), NEW r \in Rowset, NEW b, NEW m, NEW own,
         own => x.rows = NoRows, Loses(b, m), x.known => Part(x, b, m)
  PROVE  \E y \in Entry : /\ Leads(x, t, PutRows(t, r), y, SafeSet(b, m, own))
                          /\ y.known = x.known /\ y.parts = x.parts /\ Filed(y) /\ (own => y.rows = r)
<1>1. PICK y \in RowsOn(x, {Merged(x.rows, r)}) :
        Leads(x, t, PutRows(t, r), y, RowsOn(x, Halfway(x.rows, r)))
  BY PutRowsLeads
<1>2. ASSUME NEW z \in RowsOn(x, Halfway(x.rows, r)) PROVE z \in SafeSet(b, m, own)
  <2>1. z \in Entry /\ Filed(z) /\ z.known = x.known /\ z.parts = x.parts BY DEF RowsOn
  <2>2. z.known => Part(z, b, m) BY <2>1 DEF Part, Form
  <2> QED BY <2>1, <2>2, SafeNone
<1>3. RowsOn(x, Halfway(x.rows, r)) \subseteq SafeSet(b, m, own) BY <1>2
<1>4. Leads(x, t, PutRows(t, r), y, SafeSet(b, m, own)) BY <1>1, <1>3, LeadsMore
<1>5. y \in Entry /\ Filed(y) /\ y.known = x.known /\ y.parts = x.parts /\ y.rows = Merged(x.rows, r)
  BY DEF RowsOn
<1>6. ASSUME own PROVE y.rows = r
  <2>1. DOMAIN x.rows = {} BY <1>6 DEF NoRows
  <2>2. Merged(x.rows, r) = [k \in DOMAIN r |-> r[k]] BY <2>1 DEF Merged
  <2>3. r = [k \in DOMAIN r |-> r[k]] BY RowsetElim
  <2> QED BY <2>2, <2>3, <1>5
<1> QED BY <1>4, <1>5, <1>6

\* The commands of a schema and of rows are commands.
LEMMA PutType ==
  ASSUME NEW t \in Tables, NEW m \in Table
  PROVE  /\ PutSchema(t, m.schema) \in Seq(Command) /\ PutRows(t, m.rows) \in Seq(Command)
         /\ PutSchema(t, m.schema) \in Seq(Own(t)) /\ PutRows(t, m.rows) \in Seq(Own(t))
<1>1. m.schema \in GoodSchema /\ m.rows \in Rowset BY DEF Table
<1>2. PutSchema(t, m.schema) \in Seq(Own(t)) BY <1>1, SchemaCommands
<1>3. PutRows(t, m.rows) \in Seq(Own(t)) BY <1>1, FilingFacts
<1> QED BY <1>2, <1>3, OwnIsOf

\* CREATE TABLE AS, where there is no table or one that has just been deleted.
LEMMA ReachCreateAs ==
  ASSUME NEW t \in Tables, NEW x \in Entry, Filed(x), ~x.known, NEW own, own => x.rows = NoRows,
         NEW b \in Table \cup {None}, NEW m \in Table, Loses(b, m)
  PROVE  Reaches(x, t, PutRows(t, m.rows) \o PutSchema(t, m.schema), b, m, own)
<1>1. m.rows \in Rowset BY DEF Table
<1>2. PICK y \in Entry : /\ Leads(x, t, PutRows(t, m.rows), y, SafeSet(b, m, own))
                         /\ y.known = x.known /\ y.parts = x.parts /\ Filed(y) /\ (own => y.rows = m.rows)
  BY <1>1, FillLeads
<1>3. Reaches(y, t, PutSchema(t, m.schema), b, m, own) BY <1>2, ReachSchema
<1>4. PutSchema(t, m.schema) \in Seq(Command) /\ PutRows(t, m.rows) \in Seq(Command) BY PutType
<1> QED BY <1>2, <1>3, <1>4, ReachConcat

\* CREATE OR REPLACE TABLE AS
LEMMA ReachReplace ==
  ASSUME NEW t \in Tables, NEW x \in Entry, x = store[t], Filed(x), NEW b \in Table \cup {None}, NEW own,
         x.known => b # None /\ Form(x) = Sortedly(b.schema), NEW m \in Table, Loses(b, m),
         DeleteTable(t) \in Seq(Command), PutRows(t, m.rows) \o PutSchema(t, m.schema) \in Seq(Command)
  PROVE  Reaches(x, t, DeleteTable(t) \o (PutRows(t, m.rows) \o PutSchema(t, m.schema)), b, m, own)
<1>1. PICK y \in Entry : /\ Leads(x, t, DeleteTable(t), y, SafeSet(b, m, own))
                         /\ ~y.known /\ y.rows = NoRows /\ Filed(y)
  BY DeleteLeads
<1>2. Reaches(y, t, PutRows(t, m.rows) \o PutSchema(t, m.schema), b, m, own) BY <1>1, ReachCreateAs
<1> QED BY <1>1, <1>2, ReachConcat

\* RENAME TABLE, for the table that gets the name.
LEMMA ReachRename ==
  ASSUME NEW t \in Tables, NEW x \in Entry, NEW own, Rest(x, None, own), NEW m \in Table
  PROVE  Reaches(x, t, PutSchema(t, m.schema) \o PutRows(t, m.rows), None, m, own)
<1>1. ~x.known /\ Filed(x) /\ (own => x.rows = NoRows) BY DEF Rest
<1>2. Loses(None, m) /\ m # None /\ m.rows \in Rowset BY NoneFacts DEF Loses, Table
<1>3. PICK w \in Entry : /\ Leads(x, t, PutSchema(t, m.schema), w, SafeSet(None, m, own))
                         /\ w.known /\ w.rows = x.rows /\ Filed(w) /\ Form(w) = Sortedly(m.schema)
                         /\ Part(w, None, m)
  BY <1>1, <1>2, SchemaLeads
<1>4. PICK y \in Entry : /\ Leads(w, t, PutRows(t, m.rows), y, SafeSet(None, m, own))
                         /\ y.known = w.known /\ y.parts = w.parts /\ Filed(y) /\ (own => y.rows = m.rows)
  <2>1. PICK r \in Rowset : r = m.rows BY <1>2
  <2>2. PICK n : n = None OBVIOUS
  <2>3. Filed(w) /\ (own => w.rows = NoRows) /\ Loses(n, m) /\ (w.known => Part(w, n, m)) BY <1>1, <1>2, <1>3, <2>2
  <2>4. \E y \in Entry : /\ Leads(w, t, PutRows(t, r), y, SafeSet(n, m, own))
                        /\ y.known = w.known /\ y.parts = w.parts /\ Filed(y) /\ (own => y.rows = r)
    BY <2>3, FillLeads
  <2> QED BY <2>1, <2>2, <2>4
<1>5. Form(y) = Sortedly(m.schema) BY <1>3, <1>4 DEF Form
<1>6. Rest(y, m, own) BY <1>2, <1>3, <1>4, <1>5 DEF Rest
<1>7. Reaches(w, t, PutRows(t, m.rows), None, m, own) BY <1>4, <1>6 DEF Reaches
<1>8. PutSchema(t, m.schema) \in Seq(Command) /\ PutRows(t, m.rows) \in Seq(Command) BY PutType
<1> QED BY <1>3, <1>7, <1>8, ReachConcat

\* The rows of which one is written are half way.
LEMMA InsertWay ==
  ASSUME NEW p \in Rowset, NEW k \in Key, k \notin DOMAIN p, NEW d \in Row, NEW z \in Writing(p, k, d)
  PROVE  z \in Way(p, Add(p, k, d))
<1>1. PICK r \in Rowset : r = Add(p, k, d) /\ k \in DOMAIN r /\ r[k] = d
  <2>1. Add(p, k, d) \in Rowset /\ DOMAIN Add(p, k, d) = DOMAIN p \cup {k} BY RowsetFacts
  <2>2. Add(p, k, d)[k] = d BY DEF Add
  <2> QED BY <2>1, <2>2
<1>2. /\ z \in Rowset /\ DOMAIN p \ {k} \subseteq DOMAIN z
      /\ \A j \in DOMAIN z : (j \in DOMAIN p /\ z[j] = p[j]) \/ (j = k /\ z[j] \in Partial(d))
  BY DEF Writing
<1>3. \A j \in DOMAIN p : Sound(z, p, r, j) BY <1>2 DEF Sound
<1>4. z \in Halfway(p, r) BY <1>1, <1>2, <1>3 DEF Halfway
<1> QED BY <1>1, <1>2, <1>4 DEF Way

\* INSERT
LEMMA ReachInsert ==
  ASSUME NEW t \in Tables, NEW x \in Entry, NEW b \in Table, NEW own, Rest(x, b, own), NEW k \in Key, NEW d \in Row,
         k \notin DOMAIN b.rows, NEW m \in Table, m.schema = b.schema, m.rows = Add(b.rows, k, d)
  PROVE  Reaches(x, t, PutRow(t, k, d), b, m, own)
<1>1. b # None /\ m # None /\ b.rows \in Rowset /\ b.schema \in GoodSchema BY NoneFacts DEF Table
<1>2. x.known /\ Filed(x) /\ (own => x.rows = b.rows) /\ Form(x) = Sortedly(b.schema) BY <1>1 DEF Rest
<1>3. PICK y \in RowsOn(x, {Add(x.rows, k, d)}) :
        Leads(x, t, PutRow(t, k, d), y, RowsOn(x, Writing(x.rows, k, d)))
  BY PutRowLeads
<1>4. ASSUME NEW z \in RowsOn(x, Writing(x.rows, k, d)) PROVE z \in SafeSet(b, m, own)
  <2>1. z \in Entry /\ Filed(z) /\ z.known /\ z.parts = x.parts /\ z.rows \in Writing(x.rows, k, d)
    BY <1>2 DEF RowsOn
  <2>2. Form(z) = Sortedly(b.schema) BY <2>1, <1>2 DEF Form
  <2>3. Piece(Form(z), b.schema) BY <2>1, <2>2, <1>1, RestSets
  <2>4. own => z.rows \in Way(b.rows, m.rows) BY <2>1, <1>1, <1>2, InsertWay
  <2> QED BY <2>1, <2>3, <2>4, SafeKnown
<1>5. RowsOn(x, Writing(x.rows, k, d)) \subseteq SafeSet(b, m, own) BY <1>4
<1>6. Leads(x, t, PutRow(t, k, d), y, SafeSet(b, m, own)) BY <1>3, <1>5, LeadsMore
<1>7. y \in Entry /\ Filed(y) /\ y.known /\ y.parts = x.parts /\ y.rows = Add(x.rows, k, d)
  BY <1>2 DEF RowsOn
<1>8. Rest(y, m, own) BY <1>1, <1>2, <1>7 DEF Rest, Form
<1> QED BY <1>6, <1>7, <1>8 DEF Reaches

\* TRUNCATE TABLE
LEMMA ReachTruncate ==
  ASSUME NEW t \in Tables, NEW x \in Entry, x = store[t], NEW b \in Table, NEW own, Rest(x, b, own),
         NEW m \in Table, m.schema = b.schema, m.rows = NoRows
  PROVE  Reaches(x, t, DeleteRows(t), b, m, own)
<1>1. b # None /\ m # None /\ b.schema \in GoodSchema /\ Loses(b, m) BY NoneFacts DEF Table, Loses
<1>2. x.known /\ Filed(x) /\ Form(x) = Sortedly(b.schema) BY <1>1 DEF Rest
<1>3. PICK y \in RowsOn(x, {NoRows}) : Leads(x, t, DeleteRows(t), y, RowsOn(x, Rowset)) BY DeleteRowsLeads
<1>4. ASSUME NEW z \in RowsOn(x, Rowset) PROVE z \in SafeSet(b, m, own)
  <2>1. z \in Entry /\ Filed(z) /\ z.parts = x.parts BY <1>2 DEF RowsOn
  <2>2. Form(z) = Sortedly(b.schema) BY <2>1, <1>2 DEF Form
  <2>3. Piece(Form(z), b.schema) BY <2>1, <2>2, <1>1, RestSets
  <2>4. Part(z, b, m) BY <2>3, <1>1 DEF Part
  <2> QED BY <2>1, <2>4, <1>1, SafeNone
<1>5. RowsOn(x, Rowset) \subseteq SafeSet(b, m, own) BY <1>4
<1>6. Leads(x, t, DeleteRows(t), y, SafeSet(b, m, own)) BY <1>3, <1>5, LeadsMore
<1>7. y \in Entry /\ Filed(y) /\ y.known /\ y.parts = x.parts /\ y.rows = NoRows BY <1>2 DEF RowsOn
<1>8. Rest(y, m, own) BY <1>1, <1>2, <1>7 DEF Rest, Form
<1> QED BY <1>6, <1>7, <1>8 DEF Reaches

\* ALTER TABLE: the rows, and, when it is done, the schema.
LEMMA ReachAlter ==
  ASSUME NEW t \in Tables, NEW x \in Entry, NEW b \in Table, NEW own, Rest(x, b, own), NEW m \in Table,
         DOMAIN m.rows = DOMAIN b.rows, NEW ws \in Seq(Command),
         \E y \in Arrived(x, b.rows, m.rows) : Leads(x, t, ws, y, Moving(x, b.rows, m.rows))
  PROVE  /\ m.schema = b.schema => Reaches(x, t, ws, b, m, own)
         /\ Reaches(x, t, ws \o PutSchema(t, m.schema), b, m, own)
<1>1. b # None /\ m # None /\ b.rows \in Rowset /\ m.rows \in Rowset /\ b.schema \in GoodSchema
  BY NoneFacts DEF Table
<1>2. x.known /\ Filed(x) /\ (own => x.rows = b.rows) /\ Form(x) = Sortedly(b.schema) BY <1>1 DEF Rest
<1>3. PICK y \in Arrived(x, b.rows, m.rows) : Leads(x, t, ws, y, Moving(x, b.rows, m.rows)) OBVIOUS
<1>4. ASSUME NEW z \in Moving(x, b.rows, m.rows) PROVE z \in SafeSet(b, m, own)
  <2>1. z \in Entry /\ Filed(z) /\ z.known /\ z.parts = x.parts /\ (own => z.rows \in Way(b.rows, m.rows))
    BY <1>2 DEF Moving, RowsOn
  <2>2. Form(z) = Sortedly(b.schema) BY <2>1, <1>2 DEF Form
  <2>3. Piece(Form(z), b.schema) BY <2>1, <2>2, <1>1, RestSets
  <2> QED BY <2>1, <2>3, SafeKnown
<1>5. Moving(x, b.rows, m.rows) \subseteq SafeSet(b, m, own) BY <1>4
<1>6. Leads(x, t, ws, y, SafeSet(b, m, own)) BY <1>3, <1>5, LeadsMore
<1>7. y \in Entry /\ Filed(y) /\ y.known /\ y.parts = x.parts /\ (own => y.rows = m.rows)
  BY <1>2 DEF Arrived, RowsOn
<1>8. Form(y) = Sortedly(b.schema) BY <1>2, <1>7 DEF Form
<1>9. m.schema = b.schema => Rest(y, m, own) BY <1>1, <1>7, <1>8 DEF Rest
<1>10. own => y.rows \in Way(b.rows, m.rows) BY <1>1, <1>7, SameWay
<1>11. Reaches(y, t, PutSchema(t, m.schema), b, m, own) BY <1>1, <1>7, <1>8, <1>10, ReachSchema
<1>12. PutSchema(t, m.schema) \in Seq(Command) BY PutType
<1>13. Reaches(x, t, ws \o PutSchema(t, m.schema), b, m, own) BY <1>6, <1>11, <1>12, ReachConcat
<1>14. m.schema = b.schema => Reaches(x, t, ws, b, m, own) BY <1>6, <1>7, <1>9 DEF Reaches
<1> QED BY <1>13, <1>14

-----------------------------------------------------------------------------
(* The keys of the store                                                   *)

\* The commands in hand lead the keys of a table to what statements work with, and
\* all the way they are what a crash may leave.
DiskInv == \A t \in Tables : Reaches(store[t], t, todo, before[t], mem[t], t \notin orphaned)

\* Keys that no command touches stay.
LEMMA LeadsStill ==
  ASSUME NEW x, NEW y, NEW t, NEW ws \in Seq(Command), NEW P, Leads(x, t, ws, y, P), Untouched(ws, t)
  PROVE  x = y
<1>1. PICK f \in [0..Len(ws) -> P] :
        f[0] = x /\ f[Len(ws)] = y /\ \A i \in 1..Len(ws) : f[i] = Done(f[i - 1], t, ws[i])
  BY DEF Leads
<1> DEFINE S == {i \in 0..Len(ws) : f[i] = x}
<1>2. 0 \in S BY <1>1
<1>3. \A i \in 1..Len(ws) : i - 1 \in S => i \in S
  BY <1>1 DEF Done, Untouched
<1>4. Len(ws) \in Nat /\ Len(ws) \in 0..Len(ws) OBVIOUS
<1> HIDE DEF S
<1>5. 0..Len(ws) \subseteq S BY <1>2, <1>3, <1>4, Along
<1> QED BY <1>1, <1>4, <1>5 DEF S

\* A table without commands in hand is at rest.
LEMMA AtRest ==
  ASSUME TypeInv, DiskInv, NEW t \in Tables, Untouched(todo, t)
  PROVE  Rest(store[t], mem[t], t \notin orphaned)
<1>1. PICK y : /\ Leads(store[t], t, todo, y, SafeSet(before[t], mem[t], t \notin orphaned))
               /\ Rest(y, mem[t], t \notin orphaned)
  BY DEF DiskInv, Reaches
<1>2. todo \in Seq(Command) BY DEF TypeInv
<1>3. store[t] = y BY <1>1, <1>2, LeadsStill
<1> QED BY <1>1, <1>3

\* What a statement begins with, for the tables it deletes without their rows.
Was(t, writes) ==
  IF mem[t] # None /\ \E i \in DOMAIN writes : writes[i].op = "forget" /\ writes[i].table = t
  THEN [mem[t] EXCEPT !.rows = NoRows] ELSE mem[t]

\* A statement that forgets no table begins with the table.
LEMMA WasKept ==
  ASSUME NEW t, NEW writes \in Seq(Command), \A i \in 1..Len(writes) : ~(writes[i].table = t /\ writes[i].op = "forget")
  PROVE  Was(t, writes) = mem[t]
<1>1. DOMAIN writes = 1..Len(writes) OBVIOUS
<1> QED BY <1>1 DEF Was

\* One that does begins with its schema and no rows.
LEMMA WasDeleted ==
  ASSUME NEW t \in Tables, NEW writes \in Seq(Command), mem[t] \in Table,
         NEW i \in 1..Len(writes), writes[i].table = t, writes[i].op = "forget"
  PROVE  Was(t, writes) \in Table /\ Was(t, writes).rows = NoRows /\ Was(t, writes).schema = mem[t].schema
<1>1. i \in DOMAIN writes /\ mem[t] # None BY NoneFacts
<1>2. Was(t, writes) = [mem[t] EXCEPT !.rows = NoRows] BY <1>1 DEF Was
<1> QED BY <1>2, Emptied

\* In either case it begins with the schema.
LEMMA WasEither ==
  ASSUME NEW t \in Tables, NEW writes, mem[t] \in Table
  PROVE  Was(t, writes) \in Table /\ Was(t, writes).schema = mem[t].schema
BY Emptied DEF Was

\* A statement, from the tables at rest.
LEMMA ExecuteDisk ==
  ASSUME TypeInv, DiskInv, NEW mem2 \in [Tables -> Table \cup {None}], NEW writes \in Seq(Command), NEW doubts, NEW blind,
         NEW tears, \A t \in Tables : mem2[t] # None => mem2[t].schema \in Schemas(t \notin tears),
         \A t \in Tables : mem[t] # None /\ t \in torn => t \in tears,
         Execute(mem2, writes, doubts, blind, tears),
         \A t \in Tables :
           Rest(store[t], mem[t], t \notin orphaned) =>
             Reaches(store[t], t, writes, Was(t, writes), mem2[t], t \notin orphaned)
  PROVE  TypeInv' /\ DiskInv'
<1>1. TypeInv' BY ExecuteType
<1>2. todo = <<>> /\ mem' = mem2 /\ todo' = writes /\ store' = store /\ orphaned' = orphaned BY DEF Execute
<1>3. \A t \in Tables : before'[t] = Was(t, writes) BY DEF Execute, Was
<1>4. \A t : Untouched(todo, t) BY <1>2 DEF Untouched
<1>5. ASSUME NEW t \in Tables PROVE Reaches(store'[t], t, todo', before'[t], mem'[t], t \notin orphaned')
  <2>1. Rest(store[t], mem[t], t \notin orphaned) BY <1>4, AtRest
  <2> QED BY <2>1, <1>2, <1>3
<1>6. DiskInv' BY <1>5 DEF DiskInv
<1> QED BY <1>1, <1>6

\* A table that a statement leaves.
LEMMA SchemaStays ==
  ASSUME TypeInv, NEW t \in Tables, mem[t] # None, NEW tears, t \in torn => t \in tears
  PROVE  mem[t].schema \in Schemas(t \notin tears)
<1>1. mem[t].schema \in Schemas(t \notin torn) /\ mem[t].schema \in GoodSchema BY Kept
<1>2. CASE t \in torn
  <2>1. (t \notin tears) = FALSE BY <1>2
  <2> QED BY <2>1, <1>1 DEF GoodSchema
<1>3. CASE t \notin torn
  <2>1. (t \notin torn) = TRUE BY <1>3
  <2>2. mem[t].schema \in Schemas(TRUE) BY <2>1, <1>1
  <2>3. (t \notin tears) \in BOOLEAN OBVIOUS
  <2> QED BY <2>2, <2>3, SchemasOf
<1> QED BY <1>2, <1>3

\* A statement about one table.
LEMMA OneTable ==
  ASSUME TypeInv, DiskInv, NEW t \in Tables, NEW m \in Table, NEW writes \in Seq(Command), NEW doubts, NEW blind,
         NEW tears, torn \ {t} \subseteq tears, mem[t] # None /\ t \in torn => t \in tears,
         m.schema \in Schemas(t \notin tears),
         Execute([mem EXCEPT ![t] = m], writes, doubts, blind, tears),
         \A i \in 1..Len(writes) : writes[i].table = t,
         Rest(store[t], mem[t], t \notin orphaned) =>
           Reaches(store[t], t, writes, Was(t, writes), m, t \notin orphaned)
  PROVE  TypeInv' /\ DiskInv'
<1>1. PICK mem2 \in [Tables -> Table \cup {None}] : mem2 = [mem EXCEPT ![t] = m] BY DEF TypeInv
<1>2. mem2[t] = m /\ \A u \in Tables \ {t} : mem2[u] = mem[u] BY <1>1 DEF TypeInv
<1>3. ASSUME NEW u \in Tables, Rest(store[u], mem[u], u \notin orphaned)
      PROVE  Reaches(store[u], u, writes, Was(u, writes), mem2[u], u \notin orphaned)
  <2>1. CASE u = t BY <2>1, <1>2, <1>3
  <2>2. CASE u # t
    <3>1. Untouched(writes, u) BY <2>2 DEF Untouched
    <3>2. Was(u, writes) = mem[u] BY <3>1, WasKept DEF Untouched
    <3>3. mem2[u] = mem[u] BY <2>2, <1>2
    <3>4. store[u] \in Entry /\ mem[u] \in Table \cup {None} BY DEF TypeInv
    <3>5. Reaches(store[u], u, writes, mem[u], mem[u], u \notin orphaned) BY <3>1, <3>4, <1>3, ReachRest
    <3> QED BY <3>2, <3>3, <3>5
  <2> QED BY <2>1, <2>2
<1>4. ASSUME NEW u \in Tables, mem2[u] # None PROVE mem2[u].schema \in Schemas(u \notin tears)
  <2>1. CASE u = t BY <2>1, <1>2
  <2>2. CASE u # t
    <3>1. mem2[u] = mem[u] /\ (u \in torn => u \in tears) BY <2>2, <1>2
    <3> QED BY <3>1, <1>4, SchemaStays
  <2> QED BY <2>1, <2>2
<1>5. \A u \in Tables : mem[u] # None /\ u \in torn => u \in tears OBVIOUS
<1> QED BY <1>1, <1>3, <1>4, <1>5, ExecuteDisk

\* The same of one that does not delete it.
LEMMA OneKept ==
  ASSUME TypeInv, DiskInv, NEW t \in Tables, NEW m \in Table, NEW writes \in Seq(Own(t)), NEW doubts, NEW blind,
         NEW tears, torn \ {t} \subseteq tears, mem[t] # None /\ t \in torn => t \in tears,
         m.schema \in Schemas(t \notin tears),
         Execute([mem EXCEPT ![t] = m], writes, doubts, blind, tears),
         Rest(store[t], mem[t], t \notin orphaned) => Reaches(store[t], t, writes, mem[t], m, t \notin orphaned)
  PROVE  TypeInv' /\ DiskInv'
<1>1. PICK ws \in Seq(Command) : ws = writes /\ \A i \in 1..Len(ws) : ws[i].table = t /\ ws[i].op # "forget"
  BY OwnIsOf
<1>2. Was(t, ws) = mem[t] BY <1>1, WasKept
<1>3. Execute([mem EXCEPT ![t] = m], ws, doubts, blind, tears) BY <1>1
<1>4. Rest(store[t], mem[t], t \notin orphaned) => Reaches(store[t], t, ws, Was(t, ws), m, t \notin orphaned)
  BY <1>1, <1>2
<1>5. \A i \in 1..Len(ws) : ws[i].table = t BY <1>1
<1> QED BY <1>3, <1>4, <1>5, OneTable

\* A table of a schema and rows.
LEMMA TableIntro ==
  ASSUME NEW s \in GoodSchema, NEW r \in Rowset
  PROVE  \E m \in Table : m = [schema |-> s, rows |-> r] /\ m.schema = s /\ m.rows = r
<1>1. PICK m : m = [schema |-> s, rows |-> r] OBVIOUS
<1>2. m \in Table /\ m.schema = s /\ m.rows = r BY <1>1 DEF Table
<1> QED BY <1>1, <1>2

-----------------------------------------------------------------------------
(* The statements                                                          *)

\* CREATE TABLE keeps the invariant; below, the same of each other action.
LEMMA CreateTableInv == TypeInv /\ DiskInv /\ CreateTable => TypeInv' /\ DiskInv'
<1> SUFFICES ASSUME TypeInv, DiskInv, CreateTable PROVE TypeInv' /\ DiskInv'
  OBVIOUS
<1>1. PICK c \in Creates :
        LET s == SchemaFromCreate(c.cols, c.constraints)
        IN /\ mem[c.table] = None /\ IsInjective(c.cols) /\ Valid(s, c.table)
           /\ Execute(With(c.table, s, NoRows), PutSchema(c.table, s),
                      unproven \ {c.table}, overlooked \ {c.table}, torn \ {c.table})
  BY DEF CreateTable
<1>2. PICK t \in Tables : t = c.table BY StatementsAssumption
<1>3. c.cols \in Seq(Cols) /\ c.constraints \in Seq(Constraint) BY StatementsAssumption DEF ColumnLists
<1>4. PICK s \in Schemas(TRUE) : s = SchemaFromCreate(c.cols, c.constraints)
  <2>1. PICK s \in Schema : /\ s = SchemaFromCreate(c.cols, c.constraints) /\ s.order = c.cols
                            /\ (\A k \in Range(c.constraints) : k.op = "primary" => IsInjective(k.cols)) => IsInjective(s.pk)
                            /\ (PrimaryIsReserved => \A k \in Range(c.constraints) : FreeName(k)) => Orderly(s, TRUE)
    BY <1>3, CreateFacts
  <2>2. PlainKeys => IsInjective(s.pk) BY <2>1 DEF PlainKeys
  <2>3. PrimaryIsReserved => \A k \in Range(c.constraints) : FreeName(k) BY DEF PrimaryIsReserved, FreeName
  <2>4. IsInjective(s.order) BY <2>1, <1>1
  <2>5. Valid(s, t) /\ Orderly(s, TRUE) BY <2>1, <2>3, <1>1, <1>2
  <2>6. s \in Schemas(TRUE) BY <2>2, <2>4, <2>5, GoodByValid
  <2> QED BY <2>1, <2>6
<1>5. PICK m \in Table : m = [schema |-> s, rows |-> NoRows] /\ m.schema = s /\ m.rows = NoRows
  <2>1. NoRows \in Rowset BY FS_EmptySet, RowsetIntro DEF NoRows
  <2>2. s \in GoodSchema BY GoodOfWhole
  <2> QED BY <2>1, <2>2, TableIntro
<1>6. /\ mem[t] = None
      /\ Execute([mem EXCEPT ![t] = m], PutSchema(t, s), unproven \ {t}, overlooked \ {t}, torn \ {t})
  BY <1>1, <1>2, <1>4, <1>5 DEF With
<1>7. PICK ws \in Seq(Own(t)) : ws = PutSchema(t, s) BY <1>5, PutType
<1>8. ASSUME Rest(store[t], mem[t], t \notin orphaned) PROVE Reaches(store[t], t, ws, mem[t], m, t \notin orphaned)
  <2>1. store[t] \in Entry BY DEF TypeInv
  <2>2. PICK own : own = (t \notin orphaned) OBVIOUS
  <2>3. Rest(store[t], None, own) BY <1>6, <1>8, <2>2
  <2>4. Reaches(store[t], t, PutSchema(t, m.schema), None, m, own) BY <2>1, <2>3, <1>5, ReachCreate
  <2> QED BY <2>2, <2>4, <1>5, <1>6, <1>7
<1>9. m.schema \in Schemas(t \notin torn \ {t})
  <2>1. (t \notin torn \ {t}) = TRUE OBVIOUS
  <2> QED BY <2>1, <1>4, <1>5
<1> QED BY <1>6, <1>7, <1>8, <1>9, OneKept

LEMMA AlterTableInv == TypeInv /\ DiskInv /\ AlterTable => TypeInv' /\ DiskInv'
<1> SUFFICES ASSUME TypeInv, DiskInv, AlterTable PROVE TypeInv' /\ DiskInv'
  OBVIOUS
<1>1. PICK t \in Tables, ops \in Alters :
        /\ mem[t] # None
        /\ LET st == Altered(t, ops)
               done == st.ok /\ Valid(st.schema, t) /\ Unique(st.schema, st.rows)
           IN Execute(With(t, IF done THEN st.schema ELSE mem[t].schema, st.rows),
                      IF done THEN st.sent \o PutSchema(t, st.schema) ELSE st.sent,
                      IF done THEN unproven \ {t} ELSE IF st.moved THEN unproven \cup {t} ELSE unproven,
                      IF done THEN overlooked \ {t} ELSE overlooked, torn)
  BY DEF AlterTable
<1>2. PICK w : w = (t \notin torn) OBVIOUS
<1>3. PICK b \in Table : b = mem[t] /\ b.schema \in Schemas(w) BY <1>1, <1>2, Kept
<1>4. PICK st \in Work(t) :
        /\ st = Altered(t, ops) /\ DOMAIN st.rows = DOMAIN b.rows
        /\ IsInjective(st.schema.order) /\ (w /\ PlainKeys => IsInjective(st.schema.pk))
        /\ Orderly(st.schema, w)
        /\ \A x \in Entry : \E y \in Arrived(x, b.rows, st.rows) :
             Leads(x, t, st.sent, y, Moving(x, b.rows, st.rows))
  BY <1>3, AlteredFacts
<1>5. PICK u \in Seq(Own(t)) : u = st.sent BY DEF Work
<1>6. PICK r \in Rowset : r = st.rows BY DEF Work
<1>7. st.schema \in Schema /\ store[t] \in Entry BY DEF Work, TypeInv
<1> DEFINE done == st.ok /\ Valid(st.schema, t) /\ Unique(st.schema, st.rows)
<1>8. Execute(With(t, IF done THEN st.schema ELSE mem[t].schema, st.rows),
              IF done THEN st.sent \o PutSchema(t, st.schema) ELSE st.sent,
              IF done THEN unproven \ {t} ELSE IF st.moved THEN unproven \cup {t} ELSE unproven,
              IF done THEN overlooked \ {t} ELSE overlooked, torn)
  BY <1>1, <1>4
<1>9. PICK own : own = (t \notin orphaned) OBVIOUS
<1>10. ASSUME NEW m \in Table, m.rows = r, Rest(store[t], b, own)
       PROVE  /\ m.schema = b.schema => Reaches(store[t], t, u, b, m, own)
              /\ Reaches(store[t], t, u \o PutSchema(t, m.schema), b, m, own)
  <2>1. PICK x \in Entry : x = store[t] BY <1>7
  <2>2. PICK v \in Seq(Command) : v = u BY OwnIsOf
  <2>3. \E y \in Arrived(x, b.rows, m.rows) : Leads(x, t, v, y, Moving(x, b.rows, m.rows))
    BY <2>2, <1>4, <1>5, <1>6, <1>10
  <2>4. DOMAIN m.rows = DOMAIN b.rows BY <1>4, <1>6, <1>10
  <2>5. Rest(x, b, own) BY <2>1, <1>10
  <2>6. /\ m.schema = b.schema => Reaches(x, t, v, b, m, own)
        /\ Reaches(x, t, v \o PutSchema(t, m.schema), b, m, own)
    BY <2>3, <2>4, <2>5, ReachAlter
  <2> QED BY <2>1, <2>2, <2>6
<1>11. CASE done
  <2>1. PICK s \in Schemas(w) : s = st.schema BY <1>4, <1>7, <1>11, GoodByValid
  <2>2. PICK m \in Table : m = [schema |-> s, rows |-> r] /\ m.schema = s /\ m.rows = r
    <3>1. s \in GoodSchema BY GoodOfWhole
    <3> QED BY <3>1, TableIntro
  <2>3. PutSchema(t, m.schema) \in Seq(Own(t)) BY PutType
  <2>4. PICK ws \in Seq(Own(t)) : ws = u \o PutSchema(t, m.schema)
    <3>1. u \o PutSchema(t, m.schema) \in Seq(Own(t)) BY <2>3, ConcatProperties
    <3> QED BY <3>1, Zenon
  <2>5. Execute([mem EXCEPT ![t] = m], ws, unproven \ {t}, overlooked \ {t}, torn)
    <3>1. Execute(With(t, st.schema, st.rows), st.sent \o PutSchema(t, st.schema), unproven \ {t}, overlooked \ {t}, torn)
      <4> HIDE DEF done
      <4> QED BY <1>8, <1>11
    <3> QED BY <3>1, <2>1, <2>2, <2>4, <1>5, <1>6 DEF With
  <2>6. ASSUME Rest(store[t], mem[t], t \notin orphaned) PROVE Reaches(store[t], t, ws, mem[t], m, t \notin orphaned)
    <3>1. Rest(store[t], b, own) BY <2>6, <1>3, <1>9
    <3>2. Reaches(store[t], t, u \o PutSchema(t, m.schema), b, m, own) BY <3>1, <2>2, <1>10
    <3> QED BY <3>2, <2>4, <1>3, <1>9
  <2>7. m.schema \in Schemas(t \notin torn) BY <2>1, <2>2, <1>2
  <2> QED BY <2>5, <2>6, <2>7, OneKept
<1>12. CASE ~done
  <2>1. PICK m \in Table : m = [schema |-> b.schema, rows |-> r] /\ m.schema = b.schema /\ m.rows = r
    <3>1. b.schema \in GoodSchema BY DEF Table
    <3> QED BY <3>1, TableIntro
  <2>2. PICK doubts, blind : Execute([mem EXCEPT ![t] = m], u, doubts, blind, torn)
    <3>1. Execute(With(t, mem[t].schema, st.rows), st.sent,
                  IF st.moved THEN unproven \cup {t} ELSE unproven, overlooked, torn)
      <4> HIDE DEF done
      <4> QED BY <1>8, <1>12
    <3>2. Execute([mem EXCEPT ![t] = m], u, IF st.moved THEN unproven \cup {t} ELSE unproven, overlooked, torn)
      BY <3>1, <2>1, <1>3, <1>5, <1>6 DEF With
    <3> QED BY <3>2
  <2>3. ASSUME Rest(store[t], mem[t], t \notin orphaned) PROVE Reaches(store[t], t, u, mem[t], m, t \notin orphaned)
    <3>1. Rest(store[t], b, own) BY <2>3, <1>3, <1>9
    <3> QED BY <3>1, <2>1, <1>3, <1>9, <1>10
  <2>4. m.schema \in Schemas(t \notin torn) BY <2>1, <1>2, <1>3
  <2> QED BY <2>2, <2>3, <2>4, OneKept
<1> QED BY <1>11, <1>12

\* A statement that gives one table another schema and leaves its rows.
LEMMA ChangeInv ==
  ASSUME TypeInv, DiskInv, NEW t \in Tables, mem[t] # None, NEW s \in Schemas(t \notin torn), NEW doubts, NEW blind,
         Execute(With(t, s, mem[t].rows), PutSchema(t, s), doubts, blind, torn)
  PROVE  TypeInv' /\ DiskInv'
<1>1. PICK b \in Table : b = mem[t] BY DEF TypeInv
<1>2. PICK m \in Table : m = [schema |-> s, rows |-> b.rows] /\ m.schema = s /\ m.rows = b.rows
  <2>1. s \in GoodSchema BY GoodOfWhole
  <2>2. b.rows \in Rowset BY DEF Table
  <2> QED BY <2>1, <2>2, TableIntro
<1>3. PICK ws \in Seq(Own(t)) : ws = PutSchema(t, m.schema) BY PutType
<1>4. Execute([mem EXCEPT ![t] = m], ws, doubts, blind, torn) BY <1>1, <1>2, <1>3 DEF With
<1>5. ASSUME Rest(store[t], mem[t], t \notin orphaned) PROVE Reaches(store[t], t, ws, mem[t], m, t \notin orphaned)
  <2>1. store[t] \in Entry BY DEF TypeInv
  <2>2. PICK own : own = (t \notin orphaned) OBVIOUS
  <2>3. Reaches(store[t], t, PutSchema(t, m.schema), b, m, own) BY <2>1, <2>2, <1>1, <1>2, <1>5, ReachChange
  <2> QED BY <2>2, <2>3, <1>1, <1>3
<1> QED BY <1>2, <1>4, <1>5, OneKept

LEMMA CreateIndexInv == TypeInv /\ DiskInv /\ CreateIndex => TypeInv' /\ DiskInv'
<1> SUFFICES ASSUME TypeInv, DiskInv, CreateIndex PROVE TypeInv' /\ DiskInv'
  OBVIOUS
<1>1. PICK t \in Tables, name \in IndexNames, c \in Cols, unique \in BOOLEAN, replace \in BOOLEAN :
        /\ mem[t] # None
        /\ LET s == mem[t].schema
               kept == [s EXCEPT !.indexes = {x \in @ : ~(replace /\ x.name = name)}]
               made == AddIndex(kept, [name |-> name, cols |-> <<c>>, unique |-> unique])
               s2 == IF unique THEN AddUnique(made, None, <<c>>) ELSE made
           IN /\ c \in Columns(s)
              /\ replace \/ \A x \in s.indexes : x.name # name
              /\ Execute(With(t, s2, mem[t].rows), PutSchema(t, s2),
                         IF unique /\ <<c>> \notin s.unique THEN unproven \cup {t} ELSE unproven, overlooked, torn)
  BY Zenon DEF CreateIndex
<1> DEFINE s == mem[t].schema
           x0 == [name |-> name, cols |-> <<c>>, unique |-> unique]
           kept == [s EXCEPT !.indexes = {x \in @ : ~(replace /\ x.name = name)}]
           made == AddIndex(kept, x0)
           s2 == IF unique THEN AddUnique(made, None, <<c>>) ELSE made
<1>2. PICK w \in BOOLEAN : w = (t \notin torn) /\ s \in Schemas(w) /\ s \in Schema /\ Orderly(s, w)
  <2>1. PICK w \in BOOLEAN : w = (t \notin torn) OBVIOUS
  <2>2. s \in Schemas(w) BY <1>1, <2>1, Kept
  <2> HIDE DEF s
  <2>3. s \in Schema /\ Orderly(s, w) BY <2>2 DEF Schemas
  <2> QED BY <2>1, <2>2, <2>3
<1>3. PICK l \in ColumnLists : l = <<c>>
  <2>1. <<c>> \in Seq(Cols) /\ <<c>> # <<>> OBVIOUS
  <2> QED BY <2>1 DEF ColumnLists
<1>4. Range(l) = {c} BY <1>3 DEF Range
<1>5. x0 \in Index /\ x0.cols = l BY <1>3, BoundsAssumption DEF Index
<1>6. kept \in Schema /\ kept.order = s.order /\ kept.pk = s.pk /\ kept.unique = s.unique /\ kept.fks = s.fks
      /\ kept.indexes \subseteq s.indexes
  <2> HIDE DEF s
  <2> QED BY <1>2 DEF Schema
<1> HIDE DEF s, x0, kept
<1>7. made \in Schema /\ made.order = s.order /\ made.pk = s.pk /\ made.unique = s.unique /\ made.fks = s.fks
      /\ made.indexes \subseteq s.indexes \cup {x0}
  BY <1>5, <1>6, AddIndexFacts
<1> HIDE DEF made
<1>8. s2 \in Schema /\ s2.order = s.order /\ s2.pk = s.pk /\ s2.unique \subseteq s.unique \cup {l} /\ s2.fks = s.fks
      /\ \A x \in s2.indexes : x \in s.indexes \/ x.cols = l
  <2>1. CASE unique
    <3>1. PICK a \in Schema : /\ a = AddUnique(made, None, l) /\ a.order = made.order /\ a.pk = made.pk
                              /\ a.fks = made.fks /\ a.unique = made.unique \cup {l}
                              /\ \A x \in a.indexes : x \in made.indexes \/ x.cols = l
      BY <1>7, AddUniqueFacts
    <3>2. s2 = a BY <2>1, <3>1, <1>3
    <3> QED BY <3>1, <3>2, <1>5, <1>7
  <2>2. CASE ~unique
    <3>1. s2 = made BY <2>2
    <3> QED BY <3>1, <1>5, <1>7
  <2> QED BY <2>1, <2>2
<1>9. c \in Columns(s) /\ Execute(With(t, s2, mem[t].rows), PutSchema(t, s2),
                    IF unique /\ <<c>> \notin s.unique THEN unproven \cup {t} ELSE unproven, overlooked, torn)
  BY <1>1 DEF s, kept, made, x0
<1> HIDE DEF s2
<1>10. s2 \in Schemas(w)
  <2>1. Range(l) \subseteq Columns(s) BY <1>4, <1>9
  <2>2. PrimaryIsReserved => name # Primary BY DEF PrimaryIsReserved
  <2>3. Orderly(kept, w) BY <1>2, <1>6, LessOrderly
  <2>4. Orderly(made, w) BY <2>2, <2>3, <1>5, <1>6, IndexOrderly DEF made, x0
  <2>5. Primary \in Names /\ None # Primary BY BoundsAssumption
  <2>6. ASSUME unique PROVE Orderly(AddUnique(made, None, l), w) BY <2>4, <2>5, <1>7, UniqueOrderly
  <2>7. Orderly(s2, w) BY <2>4, <2>6, <1>3 DEF s2
  <2> QED BY <2>1, <2>7, <1>2, <1>8, GoodBy
<1>11. s2 \in Schemas(t \notin torn) BY <1>2, <1>10
<1> QED BY <1>1, <1>9, <1>11, ChangeInv

\* Dropping an index leaves what a schema keeps to.
LEMMA DropUniqueGood ==
  ASSUME NEW w, NEW s \in Schemas(w), NEW name
  PROVE  DropUnique(s, name) \in Schemas(w)
<1>1. s \in Schema /\ Orderly(s, w) BY DEF Schemas
<1>2. PICK d \in Schema : /\ d = DropUnique(s, name) /\ d.order = s.order /\ d.pk = s.pk /\ d.unique \subseteq s.unique
                          /\ d.indexes \subseteq s.indexes /\ d.fks = s.fks
  BY <1>1, DropUniqueFacts
<1>3. w /\ PlainKeys => Range(s.pk) \subseteq Columns(s) BY DEF Schemas, NamesColumns
<1>4. d.unique \subseteq s.unique \cup {s.pk} /\ (\A x \in d.indexes : x \in s.indexes \/ x.cols = s.pk) /\ d.fks \subseteq s.fks
  BY <1>2
<1>5. Orderly(d, w) BY <1>1, <1>2, LessOrderly
<1>6. d \in Schemas(w) BY <1>2, <1>3, <1>4, <1>5, GoodBy
<1> QED BY <1>2, <1>6

LEMMA DropIndexFromInv == TypeInv /\ DiskInv /\ DropIndexFrom => TypeInv' /\ DiskInv'
<1> SUFFICES ASSUME TypeInv, DiskInv, DropIndexFrom PROVE TypeInv' /\ DiskInv'
  OBVIOUS
<1>1. PICK t \in Tables, name \in IndexNames \cup Cols \cup {Primary} :
        /\ mem[t] # None
        /\ LET s2 == DropUnique(mem[t].schema, name)
           IN s2 # mem[t].schema /\ Execute(With(t, s2, mem[t].rows), PutSchema(t, s2), unproven, overlooked, torn)
  BY Zenon DEF DropIndexFrom
<1>2. mem[t].schema \in Schemas(t \notin torn) BY <1>1, Kept
<1>3. DropUnique(mem[t].schema, name) \in Schemas(t \notin torn) BY <1>2, DropUniqueGood
<1> QED BY <1>1, <1>3, ChangeInv

\* Parts that are each one table's, one after the other: the i-th is table ts[i]'s.
LEMMA PartsType ==
  ASSUME NEW ts \in Seq(Tables), NEW parts \in [DOMAIN ts -> Seq(Command)],
         \A i \in DOMAIN ts : \A j \in 1..Len(parts[i]) : parts[i][j].table = ts[i]
  PROVE  /\ parts \in Seq(Seq(Command)) /\ Len(parts) = Len(ts)
         /\ \A t \in Tables \ Range(ts) : Untouched(InTurn(parts), t)
<1>1. DOMAIN ts = 1..Len(ts) /\ Len(ts) \in Nat OBVIOUS
<1>2. parts \in Seq(Seq(Command)) /\ Len(parts) = Len(ts)
  <2>1. PICK n \in Nat : n = Len(ts) BY <1>1
  <2>2. parts \in [1..n -> Seq(Command)] BY <1>1, <2>1
  <2> QED BY <2>1, <2>2
<1>3. ASSUME NEW t \in Tables \ Range(ts) PROVE Untouched(InTurn(parts), t)
  <2> DEFINE Others == {w \in Command : w.table # t}
  <2>1. \A i \in 1..Len(ts) : parts[i] \in Seq(Others)
    <3>1. SUFFICES ASSUME NEW i \in 1..Len(ts) PROVE parts[i] \in Seq(Others) OBVIOUS
    <3>2. PICK p \in Seq(Command) : p = parts[i] BY <1>1
    <3>3. ts[i] # t BY <1>1, <1>3 DEF Range
    <3>4. \A j \in 1..Len(p) : p[j] \in Others BY <3>2, <3>3, <1>1
    <3>5. p \in Seq(Others)
      <4> HIDE DEF Others
      <4> QED BY <3>4
    <3> QED BY <3>2, <3>5
  <2>2. parts \in Seq(Seq(Others))
    <3>1. PICK n \in Nat : n = Len(ts) BY <1>1
    <3> HIDE DEF Others
    <3>2. parts \in [1..n -> Seq(Others)] BY <1>1, <2>1, <3>1
    <3> QED BY <3>2
  <2>3. PICK ws : ws = InTurn(parts) OBVIOUS
  <2>4. ws \in Seq(Others)
    <3> HIDE DEF Others
    <3> QED BY <2>2, <2>3, InTurnType
  <2>5. \A i \in 1..Len(ws) : ws[i] \in Others BY <2>4
  <2> QED BY <2>3, <2>5 DEF Untouched
<1> QED BY <1>2, <1>3

\* The part of one of the tables.
LEMMA PartReaches ==
  ASSUME NEW ts \in Seq(Tables), IsInjective(ts), NEW parts \in [DOMAIN ts -> Seq(Command)],
         \A i \in DOMAIN ts : \A j \in 1..Len(parts[i]) : parts[i][j].table = ts[i],
         NEW i0 \in DOMAIN ts, NEW x, NEW b, NEW m, NEW own, Reaches(x, ts[i0], parts[i0], b, m, own)
  PROVE  Reaches(x, ts[i0], InTurn(parts), b, m, own)
<1>1. DOMAIN ts = 1..Len(ts) OBVIOUS
<1>2. parts \in Seq(Seq(Command)) /\ Len(parts) = Len(ts) BY PartsType
<1>3. \A i \in 1..Len(parts) : i # i0 => Untouched(parts[i], ts[i0])
  <2>1. \A i \in DOMAIN ts : i # i0 => ts[i] # ts[i0] BY DEF IsInjective
  <2> QED BY <2>1, <1>1, <1>2 DEF Untouched
<1>4. i0 \in 1..Len(parts) BY <1>1, <1>2
<1> QED BY <1>2, <1>3, <1>4, ReachInTurn

LEMMA DropIndexInv == TypeInv /\ DiskInv /\ DropIndex => TypeInv' /\ DiskInv'
<1> SUFFICES ASSUME TypeInv, DiskInv, DropIndex PROVE TypeInv' /\ DiskInv'
  OBVIOUS
<1>1. PICK name \in IndexNames \cup Cols \cup {Primary} :
        LET hit == {t \in Tables : mem[t] # None /\ DropUnique(mem[t].schema, name) # mem[t].schema}
            mem2 == [t \in Tables |->
                       IF t \in hit THEN [mem[t] EXCEPT !.schema = DropUnique(@, name)] ELSE mem[t]]
        IN /\ hit # {}
           /\ Execute(mem2, LET order == SetToSeq(hit)
                            IN InTurn([i \in DOMAIN order |-> PutSchema(order[i], mem2[order[i]].schema)]),
                   unproven, overlooked, torn)
  BY Zenon DEF DropIndex
<1> DEFINE hit == {t \in Tables : mem[t] # None /\ DropUnique(mem[t].schema, name) # mem[t].schema}
           mem2 == [t \in Tables |->
                      IF t \in hit THEN [mem[t] EXCEPT !.schema = DropUnique(@, name)] ELSE mem[t]]
           ts == SetToSeq(hit)
           parts == [i \in DOMAIN ts |-> PutSchema(ts[i], mem2[ts[i]].schema)]
<1>2. Execute(mem2, InTurn(parts), unproven, overlooked, torn) BY <1>1
<1>3. IsFiniteSet(hit) BY BoundsAssumption, FS_Subset
<1>4. ts \in Seq(hit) /\ IsInjective(ts) /\ Range(ts) = hit
  <2> HIDE DEF hit
  <2> QED BY <1>3, SetToSeqFacts
<1>5. ts \in Seq(Tables)
  <2>1. hit \subseteq Tables OBVIOUS
  <2> HIDE DEF ts, hit
  <2> QED BY <2>1, <1>4
<1>6. \A t \in hit : /\ mem[t] \in Table /\ mem2[t] \in Table /\ mem2[t].rows = mem[t].rows
                     /\ mem2[t].schema \in Schemas(t \notin torn)
  <2>1. SUFFICES ASSUME NEW t \in hit PROVE /\ mem[t] \in Table /\ mem2[t] \in Table /\ mem2[t].rows = mem[t].rows
                                            /\ mem2[t].schema \in Schemas(t \notin torn)
    OBVIOUS
  <2>2. t \in Tables /\ mem[t] \in Table /\ mem[t].schema \in Schemas(t \notin torn) BY <2>1, Kept
  <2>3. PICK s \in Schemas(t \notin torn) : s = DropUnique(mem[t].schema, name) BY <2>2, DropUniqueGood
  <2>4. mem2[t] = [mem[t] EXCEPT !.schema = s] BY <2>1, <2>2, <2>3
  <2>5. s \in GoodSchema BY GoodOfWhole
  <2> HIDE DEF mem2
  <2>6. mem2[t] \in Table /\ mem2[t].rows = mem[t].rows /\ mem2[t].schema = s BY <2>2, <2>4, <2>5 DEF Table
  <2> QED BY <2>2, <2>6
<1>7. \A t \in Tables \ hit : mem2[t] = mem[t] OBVIOUS
<1>8. mem2 \in [Tables -> Table \cup {None}]
  <2>1. \A t \in Tables : mem2[t] \in Table \cup {None} BY <1>6, <1>7 DEF TypeInv
  <2>2. DOMAIN mem2 = Tables /\ mem2 = [t \in Tables |-> mem2[t]] OBVIOUS
  <2> HIDE DEF mem2, hit
  <2> QED BY <2>1, <2>2
<1> HIDE DEF hit, mem2, ts
<1>9. \A i \in DOMAIN ts : ts[i] \in hit BY <1>4 DEF Range
<1>10. \A i \in DOMAIN ts : /\ parts[i] = PutSchema(ts[i], mem2[ts[i]].schema)
                            /\ parts[i] \in Seq(Command)
                            /\ \A j \in 1..Len(parts[i]) : parts[i][j].table = ts[i] /\ parts[i][j].op # "forget"
  <2>1. ASSUME NEW i \in DOMAIN ts
        PROVE  /\ parts[i] = PutSchema(ts[i], mem2[ts[i]].schema)
               /\ parts[i] \in Seq(Command)
               /\ \A j \in 1..Len(parts[i]) : parts[i][j].table = ts[i] /\ parts[i][j].op # "forget"
    <3>1. ts[i] \in Tables /\ mem2[ts[i]] \in Table BY <1>5, <1>6, <1>9
    <3>2. PICK p \in Seq(Own(ts[i])) : p = PutSchema(ts[i], mem2[ts[i]].schema) BY <3>1, PutType
    <3>3. parts[i] = p BY <3>2
    <3>4. p \in Seq(Command) /\ \A j \in 1..Len(p) : p[j].table = ts[i] /\ p[j].op # "forget" BY OwnIsOf
    <3> HIDE DEF parts
    <3> QED BY <3>2, <3>3, <3>4
  <2> HIDE DEF parts
  <2> QED BY <2>1
<1>11. parts \in [DOMAIN ts -> Seq(Command)] BY <1>10
<1> HIDE DEF parts
<1>12. /\ parts \in Seq(Seq(Command)) /\ Len(parts) = Len(ts)
       /\ \A t \in Tables \ Range(ts) : Untouched(InTurn(parts), t)
  BY <1>5, <1>10, <1>11, PartsType
<1>13. InTurn(parts) \in Seq(Command) BY <1>12, InTurnType
<1>14. ASSUME NEW t PROVE Was(t, InTurn(parts)) = mem[t]
  <2> DEFINE Staying == {w \in Command : w.op # "forget"}
  <2>1. ASSUME NEW i \in DOMAIN ts PROVE parts[i] \in Seq(Staying)
    <3>1. PICK p \in Seq(Command) : p = parts[i] BY <1>10
    <3>2. \A j \in 1..Len(p) : p[j] \in Staying BY <3>1, <1>10
    <3>3. p \in Seq(Staying)
      <4> HIDE DEF Staying
      <4> QED BY <3>2
    <3> QED BY <3>1, <3>3
  <2>2. parts \in Seq(Seq(Staying))
    <3>1. PICK n \in Nat : n = Len(ts) /\ DOMAIN ts = 1..n BY <1>5
    <3> HIDE DEF Staying
    <3>2. parts \in [1..n -> Seq(Staying)] BY <1>11, <2>1, <3>1
    <3> QED BY <3>2
  <2>3. PICK ws \in Seq(Command) : ws = InTurn(parts) BY <1>13
  <2>4. ws \in Seq(Staying)
    <3> HIDE DEF Staying
    <3> QED BY <2>2, <2>3, InTurnType
  <2>5. \A i \in 1..Len(ws) : ws[i] \in Staying BY <2>4
  <2> QED BY <2>3, <2>5, WasKept
<1>15. ASSUME NEW t \in Tables, Rest(store[t], mem[t], t \notin orphaned)
       PROVE  Reaches(store[t], t, InTurn(parts), Was(t, InTurn(parts)), mem2[t], t \notin orphaned)
  <2>1. store[t] \in Entry /\ mem[t] \in Table \cup {None} BY DEF TypeInv
  <2>2. PICK own : own = (t \notin orphaned) OBVIOUS
  <2>3. Rest(store[t], mem[t], own) BY <1>15, <2>2
  <2>4. CASE t \in hit
    <3>1. PICK i \in DOMAIN ts : ts[i] = t BY <2>4, <1>4 DEF Range
    <3>2. Reaches(store[t], t, PutSchema(t, mem2[t].schema), mem[t], mem2[t], own)
      BY <2>1, <2>3, <2>4, <1>6, ReachChange
    <3>3. Reaches(store[t], ts[i], parts[i], mem[t], mem2[t], own) BY <3>1, <3>2, <1>10
    <3>4. Reaches(store[t], ts[i], InTurn(parts), mem[t], mem2[t], own)
      BY <3>3, <1>4, <1>5, <1>10, <1>11, PartReaches
    <3> QED BY <3>1, <3>4, <1>14, <2>2
  <2>5. CASE t \notin hit
    <3>1. Untouched(InTurn(parts), t) BY <2>5, <1>4, <1>12
    <3>2. Reaches(store[t], t, InTurn(parts), mem[t], mem[t], own) BY <3>1, <2>1, <2>3, <1>13, ReachRest
    <3> QED BY <3>2, <2>2, <2>5, <1>7, <1>14
  <2> QED BY <2>4, <2>5
<1>16. \A t \in Tables : mem2[t] # None => mem2[t].schema \in Schemas(t \notin torn)
  <2>1. SUFFICES ASSUME NEW t \in Tables, mem2[t] # None PROVE mem2[t].schema \in Schemas(t \notin torn) OBVIOUS
  <2>2. CASE t \in hit BY <2>2, <1>6
  <2>3. CASE t \notin hit
    <3>1. mem2[t] = mem[t] BY <2>3, <1>7
    <3> QED BY <3>1, <2>1, Kept
  <2> QED BY <2>2, <2>3
<1> QED BY <1>2, <1>8, <1>13, <1>15, <1>16, ExecuteDisk


LEMMA InsertInv == TypeInv /\ DiskInv /\ Insert => TypeInv' /\ DiskInv'
<1> SUFFICES ASSUME TypeInv, DiskInv, Insert PROVE TypeInv' /\ DiskInv'
  OBVIOUS
<1>1. PICK t \in Tables, v \in [Cols -> Vals] :
        /\ mem[t] # None /\ Cardinality(DOMAIN mem[t].rows) < MaxRows
        /\ LET s == mem[t].schema
               d == [c \in Cols |-> IF c \in Columns(s) THEN v[c] ELSE Absent]
               k == IF s.pk = <<>> THEN Fresh(mem[t].rows) ELSE KeyOf(s.pk, d)
           IN /\ s.order # <<>> /\ \A c \in Cols \ Columns(s), e \in Vals : v[c] <= e
              /\ k \notin DOMAIN mem[t].rows
              /\ \A u \in s.unique, j \in DOMAIN mem[t].rows : ~Agree(d, mem[t].rows[j], u)
              /\ Execute(With(t, s, Add(mem[t].rows, k, d)), PutRow(t, k, d),
                         unproven, IF s.pk # <<>> /\ Misfiled(t) THEN overlooked \cup {t} ELSE overlooked, torn)
  BY Zenon DEF Insert
<1>2. mem[t] \in Table /\ store[t] \in Entry /\ mem[t].schema \in Schemas(t \notin torn) BY <1>1, Kept DEF TypeInv
<1>3. mem[t].schema \in Schema /\ mem[t].schema \in GoodSchema /\ mem[t].rows \in Rowset
  BY <1>2 DEF Table, GoodSchema, Schemas
<1> DEFINE s == mem[t].schema
           d0 == [c \in Cols |-> IF c \in Columns(s) THEN v[c] ELSE Absent]
           k0 == IF s.pk = <<>> THEN Fresh(mem[t].rows) ELSE KeyOf(s.pk, d0)
<1>4. PICK d \in Row : d = d0 BY DEF Row
<1>5. PICK k \in Key : k = k0
  <2>1. s.pk \in Seq(Cols) BY <1>3 DEF Schema
  <2>2. KeyOf(s.pk, d) \in Key BY <2>1, KeyOfType
  <2>3. Fresh(mem[t].rows) \in Key BY <1>1, <1>3, FreshFacts
  <2> QED BY <2>2, <2>3, <1>4
<1>6. PICK m \in Table : m = [schema |-> s, rows |-> Add(mem[t].rows, k, d)] /\ m.schema = s /\ m.rows = Add(mem[t].rows, k, d)
  <2>1. PICK r \in Rowset : r = Add(mem[t].rows, k, d) BY <1>3, RowsetFacts
  <2> QED BY <2>1, <1>3, TableIntro
<1>7. PICK ws \in Seq(Own(t)) : ws = PutRow(t, k, d) BY RowCommands
<1>8. PICK blind : /\ k \notin DOMAIN mem[t].rows
                   /\ Execute([mem EXCEPT ![t] = m], ws, unproven, blind, torn)
  BY <1>1, <1>4, <1>5, <1>6, <1>7 DEF With
<1> HIDE DEF s, d0, k0
<1>9. ASSUME Rest(store[t], mem[t], t \notin orphaned) PROVE Reaches(store[t], t, ws, mem[t], m, t \notin orphaned)
  <2>1. PICK own : own = (t \notin orphaned) OBVIOUS
  <2>2. Rest(store[t], mem[t], own) BY <2>1, <1>9
  <2>3. m.schema = mem[t].schema /\ m.rows = Add(mem[t].rows, k, d) BY <1>6 DEF s
  <2>4. Reaches(store[t], t, PutRow(t, k, d), mem[t], m, own) BY <2>2, <2>3, <1>2, <1>8, ReachInsert
  <2> QED BY <2>1, <2>4, <1>7
<1>10. m.schema \in Schemas(t \notin torn) BY <1>2, <1>6 DEF s
<1> QED BY <1>8, <1>9, <1>10, OneKept

\* Two parts that are both of other tables.
LEMMA UntouchedConcat ==
  ASSUME NEW t, NEW u \in Seq(Command), NEW v \in Seq(Command), Untouched(u, t), Untouched(v, t)
  PROVE  Untouched(u \o v, t)
<1>1. PICK ws : ws = u \o v OBVIOUS
<1>2. Len(ws) = Len(u) + Len(v) /\ Len(u) \in Nat /\ Len(v) \in Nat
      /\ \A i \in 1..(Len(u) + Len(v)) : ws[i] = IF i <= Len(u) THEN u[i] ELSE v[i - Len(u)]
  BY <1>1, ConcatProperties
<1>3. SUFFICES ASSUME NEW i \in 1..(Len(u) + Len(v)) PROVE ws[i].table # t
  BY <1>1, <1>2 DEF Untouched
<1>4. CASE i <= Len(u)
  <2>1. i \in 1..Len(u) /\ ws[i] = u[i] BY <1>2, <1>4
  <2> QED BY <2>1 DEF Untouched
<1>5. CASE ~(i <= Len(u))
  <2>1. i - Len(u) \in 1..Len(v) /\ ws[i] = v[i - Len(u)] BY <1>2, <1>5
  <2> QED BY <2>1 DEF Untouched
<1> QED BY <1>4, <1>5
\* The commands that delete a table are about it.
LEMMA DeletesTable ==
  ASSUME TypeInv, NEW t \in Tables
  PROVE  DeleteTable(t) \in Seq(Of(t)) /\ DeleteTable(t) \in Seq(Command)
<1>1. PICK x \in Entry : x = store[t] BY DEF TypeInv
<1>2. EmptySchema \in GoodSchema BY EmptyGood DEF GoodSchema
<1>3. DeleteTable(t) \in Seq(Of(t)) BY <1>1, <1>2, DeleteTableLeads
<1> QED BY <1>3, OfIsCommand

LEMMA DropTableInv == TypeInv /\ DiskInv /\ DropTable => TypeInv' /\ DiskInv'
<1> SUFFICES ASSUME TypeInv, DiskInv, DropTable PROVE TypeInv' /\ DiskInv'
  OBVIOUS
<1>1. PICK gone \in SUBSET Tables :
        /\ gone # {} /\ \A t \in gone : mem[t] # None
        /\ \A u \in Tables \ gone : mem[u] # None => \A f \in mem[u].schema.fks : f.table \notin gone
        /\ Execute([t \in Tables |-> IF t \in gone THEN None ELSE mem[t]],
                   LET order == SetToSeq(gone) IN InTurn([i \in DOMAIN order |-> DeleteTable(order[i])]),
                   unproven \ gone, overlooked \ gone, torn)
  BY Zenon DEF DropTable
<1> DEFINE mem2 == [t \in Tables |-> IF t \in gone THEN None ELSE mem[t]]
           ts == SetToSeq(gone)
           parts == [i \in DOMAIN ts |-> DeleteTable(ts[i])]
<1>2. Execute(mem2, InTurn(parts), unproven \ gone, overlooked \ gone, torn) BY <1>1
<1>3. IsFiniteSet(gone) BY BoundsAssumption, FS_Subset
<1>4. ts \in Seq(gone) /\ IsInjective(ts) /\ Range(ts) = gone BY <1>3, SetToSeqFacts
<1>5. ts \in Seq(Tables)
  <2> HIDE DEF ts
  <2> QED BY <1>4
<1>6. mem2 \in [Tables -> Table \cup {None}]
  <2>1. \A t \in Tables : mem[t] \in Table \cup {None} BY DEF TypeInv
  <2> HIDE DEF Table
  <2> QED BY <2>1
<1>7. \A t \in Tables : mem2[t] = IF t \in gone THEN None ELSE mem[t] OBVIOUS
<1> HIDE DEF mem2, ts
<1>8. \A i \in DOMAIN ts : /\ parts[i] = DeleteTable(ts[i]) /\ parts[i] \in Seq(Command)
                           /\ \A j \in 1..Len(parts[i]) : parts[i][j].table = ts[i]
  <2>1. ASSUME NEW i \in DOMAIN ts
        PROVE  /\ parts[i] = DeleteTable(ts[i]) /\ parts[i] \in Seq(Command)
               /\ \A j \in 1..Len(parts[i]) : parts[i][j].table = ts[i]
    <3>1. PICK t \in Tables : t = ts[i] BY <1>5
    <3>2. PICK d \in Seq(Of(t)) : d = DeleteTable(t) BY DeletesTable
    <3>3. parts[i] = d BY <3>1, <3>2
    <3>4. d \in Seq(Command) /\ \A j \in 1..Len(d) : d[j].table = t BY OfIsCommand
    <3> HIDE DEF parts
    <3> QED BY <3>1, <3>2, <3>3, <3>4
  <2> HIDE DEF parts
  <2> QED BY <2>1
<1>9. parts \in [DOMAIN ts -> Seq(Command)] BY <1>8
<1> HIDE DEF parts
<1>10. /\ parts \in Seq(Seq(Command)) /\ Len(parts) = Len(ts)
       /\ \A t \in Tables \ Range(ts) : Untouched(InTurn(parts), t)
  BY <1>5, <1>8, <1>9, PartsType
<1>11. InTurn(parts) \in Seq(Command) BY <1>10, InTurnType
<1>12. ASSUME NEW t \in Tables, Rest(store[t], mem[t], t \notin orphaned)
       PROVE  Reaches(store[t], t, InTurn(parts), Was(t, InTurn(parts)), mem2[t], t \notin orphaned)
  <2>1. store[t] \in Entry /\ mem[t] \in Table \cup {None} BY DEF TypeInv
  <2>2. PICK own : own = (t \notin orphaned) OBVIOUS
  <2>3. Rest(store[t], mem[t], own) BY <1>12, <2>2
  <2>4. CASE t \in gone
    <3>1. PICK i \in DOMAIN ts : ts[i] = t BY <2>4, <1>4 DEF Range
    <3>2. mem[t] \in Table /\ mem[t] # None BY <2>1, <2>4, <1>1
    <3>3. PICK b \in Table : b = Was(t, InTurn(parts)) /\ b.schema = mem[t].schema BY <3>2, WasEither
    <3>4. Filed(store[t]) /\ Form(store[t]) = Sortedly(b.schema) BY <3>2, <3>3, <2>3 DEF Rest
    <3>5. Reaches(store[t], t, DeleteTable(t), b, None, own) BY <3>4, <2>1, ReachDelete
    <3>6. Reaches(store[t], ts[i], parts[i], b, None, own) BY <3>1, <3>5, <1>8
    <3>7. PICK n : n = None OBVIOUS
    <3>8. Reaches(store[t], ts[i], parts[i], b, n, own) BY <3>6, <3>7
    <3>9. Reaches(store[t], ts[i], InTurn(parts), b, n, own) BY <3>8, <1>4, <1>5, <1>8, <1>9, PartReaches
    <3> QED BY <3>1, <3>3, <3>7, <3>9, <2>2, <2>4, <1>7
  <2>5. CASE t \notin gone
    <3>1. Untouched(InTurn(parts), t) BY <2>5, <1>4, <1>10
    <3>2. Was(t, InTurn(parts)) = mem[t] BY <3>1, <1>11, WasKept DEF Untouched
    <3>3. Reaches(store[t], t, InTurn(parts), mem[t], mem[t], own) BY <3>1, <2>1, <2>3, <1>11, ReachRest
    <3> QED BY <3>2, <3>3, <2>2, <2>5, <1>7
  <2> QED BY <2>4, <2>5
<1>13. \A t \in Tables : mem2[t] # None => mem2[t].schema \in Schemas(t \notin torn)
  <2>1. \A t \in Tables : mem2[t] # None => mem2[t] = mem[t] BY <1>7
  <2> QED BY <2>1, Kept
<1> QED BY <1>2, <1>6, <1>11, <1>12, <1>13, ExecuteDisk

LEMMA TruncateTableInv == TypeInv /\ DiskInv /\ TruncateTable => TypeInv' /\ DiskInv'
<1> SUFFICES ASSUME TypeInv, DiskInv, TruncateTable PROVE TypeInv' /\ DiskInv'
  OBVIOUS
<1>1. PICK t \in Tables :
        /\ mem[t] # None
        /\ Execute(With(t, mem[t].schema, NoRows), DeleteRows(t), unproven \ {t}, overlooked \ {t}, torn)
  BY DEF TruncateTable
<1>2. store[t] \in Entry BY DEF TypeInv
<1>3. PICK b \in Table : b = mem[t] /\ b.schema \in Schemas(t \notin torn) BY <1>1, Kept
<1>4. PICK m \in Table : m = [schema |-> b.schema, rows |-> NoRows] /\ m.schema = b.schema /\ m.rows = NoRows
  <2>1. NoRows \in Rowset BY FS_EmptySet, RowsetIntro DEF NoRows
  <2>2. b.schema \in GoodSchema BY DEF Table
  <2> QED BY <2>1, <2>2, TableIntro
<1>5. PICK ws \in Seq(Own(t)) : ws = DeleteRows(t) BY <1>2, DeleteRowsDef
<1>6. Execute([mem EXCEPT ![t] = m], ws, unproven \ {t}, overlooked \ {t}, torn) BY <1>1, <1>3, <1>4, <1>5 DEF With
<1>7. ASSUME Rest(store[t], mem[t], t \notin orphaned) PROVE Reaches(store[t], t, ws, mem[t], m, t \notin orphaned)
  <2>1. PICK own : own = (t \notin orphaned) OBVIOUS
  <2>2. Rest(store[t], b, own) BY <2>1, <1>3, <1>7
  <2>3. Reaches(store[t], t, DeleteRows(t), b, m, own) BY <2>2, <1>2, <1>4, ReachTruncate
  <2> QED BY <2>1, <2>3, <1>3, <1>5
<1>8. m.schema \in Schemas(t \notin torn) BY <1>3, <1>4
<1> QED BY <1>6, <1>7, <1>8, OneKept


LEMMA RenameTableInv == TypeInv /\ DiskInv /\ RenameTable => TypeInv' /\ DiskInv'
<1> SUFFICES ASSUME TypeInv, DiskInv, RenameTable PROVE TypeInv' /\ DiskInv'
  OBVIOUS
<1>1. PICK from \in Tables, to \in Tables :
        /\ mem[from] # None /\ mem[to] = None
        /\ LET Follows(set, doubt) == IF doubt THEN (set \ {from}) \cup {to} ELSE set \ {to}
           IN Execute([mem EXCEPT ![to] = mem[from], ![from] = None],
                      DeleteTable(from) \o PutSchema(to, mem[from].schema) \o PutRows(to, mem[from].rows),
                      Follows(unproven, from \in unproven \cup orphaned), Follows(overlooked, from \in overlooked),
                      IF from \in torn THEN torn \cup {to} ELSE torn \ {to})
  BY Zenon DEF RenameTable
<1>2. PICK m \in Table : m = mem[from] /\ m.schema \in Schemas(from \notin torn) BY <1>1, Kept
<1>3. PICK mem2 \in [Tables -> Table \cup {None}] : mem2 = [mem EXCEPT ![to] = mem[from], ![from] = None]
  BY <1>2 DEF TypeInv
<1>4. from # to /\ mem2[from] = None /\ mem2[to] = m /\ \A t \in Tables \ {from, to} : mem2[t] = mem[t]
  <2>1. from # to BY <1>1
  <2> QED BY <2>1, <1>2, <1>3 DEF TypeInv
<1>5. PICK d \in Seq(Command) : d = DeleteTable(from) /\ \A i \in 1..Len(d) : d[i].table = from
  <2>1. DeleteTable(from) \in Seq(Of(from)) BY DeletesTable
  <2> QED BY <2>1, OfIsCommand
<1>6. PICK p \in Seq(Command) : p = PutSchema(to, m.schema) /\ \A i \in 1..Len(p) : p[i].table = to
  <2>1. PutSchema(to, m.schema) \in Seq(Own(to)) BY PutType
  <2> QED BY <2>1, OwnIsOf
<1>7. PICK q \in Seq(Command) : q = PutRows(to, m.rows) /\ \A i \in 1..Len(q) : q[i].table = to
  <2>1. PutRows(to, m.rows) \in Seq(Own(to)) BY PutType
  <2> QED BY <2>1, OwnIsOf
<1>8. p \o q \in Seq(Command) /\ d \o p \in Seq(Command) BY ConcatProperties
<1>9. PICK ws \in Seq(Command) : ws = (d \o p) \o q /\ ws = d \o (p \o q)
  <2>1. (d \o p) \o q \in Seq(Command) BY <1>8, ConcatProperties
  <2>2. (d \o p) \o q = d \o (p \o q) BY ConcatAssociative
  <2> QED BY <2>1, <2>2, Zenon
<1>10. PICK tears : tears = IF from \in torn THEN torn \cup {to} ELSE torn \ {to} OBVIOUS
<1>11. PICK doubts, blind : Execute(mem2, ws, doubts, blind, tears)
  <2>1. Execute(mem2, ws, IF from \in unproven \cup orphaned THEN (unproven \ {from}) \cup {to} ELSE unproven \ {to},
                IF from \in overlooked THEN (overlooked \ {from}) \cup {to} ELSE overlooked \ {to}, tears)
    BY <1>1, <1>2, <1>3, <1>5, <1>6, <1>7, <1>9, <1>10
  <2> QED BY <2>1
<1>12. ASSUME NEW t \in Tables, Rest(store[t], mem[t], t \notin orphaned)
       PROVE  Reaches(store[t], t, ws, Was(t, ws), mem2[t], t \notin orphaned)
  <2>1. store[t] \in Entry /\ mem[t] \in Table \cup {None} BY DEF TypeInv
  <2>2. PICK own : own = (t \notin orphaned) OBVIOUS
  <2>3. Rest(store[t], mem[t], own) BY <1>12, <2>2
  <2>4. PICK n : n = None OBVIOUS
  <2>5. CASE t = from
    <3>1. Untouched(p, t) /\ Untouched(q, t) BY <2>5, <1>4, <1>6, <1>7 DEF Untouched
    <3>2. PICK b \in Table : b = Was(t, ws) /\ b.schema = mem[t].schema BY <2>5, <1>2, WasEither
    <3>3. mem[t] # None BY <2>5, <1>1
    <3>4. Filed(store[t]) /\ Form(store[t]) = Sortedly(b.schema) BY <3>2, <3>3, <2>3 DEF Rest
    <3>5. Reaches(store[t], t, d, b, n, own) BY <3>4, <2>1, <2>4, <2>5, <1>5, ReachDelete
    <3>6. Untouched(p \o q, t) BY <3>1, UntouchedConcat
    <3>7. Reaches(store[t], t, d \o (p \o q), b, n, own) BY <3>5, <3>6, <1>8, ReachThen
    <3> QED BY <3>2, <3>7, <2>2, <2>4, <2>5, <1>4, <1>9
  <2>6. CASE t = to
    <3>1. Untouched(d, t) BY <2>6, <1>4, <1>5 DEF Untouched
    <3>2. Was(t, ws) = n BY <2>4, <2>6, <1>1 DEF Was
    <3>3. Rest(store[t], None, own) BY <2>3, <2>6, <1>1
    <3>4. Reaches(store[t], t, PutSchema(t, m.schema) \o PutRows(t, m.rows), None, m, own)
      BY <3>3, <2>1, ReachRename
    <3>5. Reaches(store[t], t, p \o q, n, m, own) BY <3>4, <2>4, <2>6, <1>6, <1>7
    <3>6. Reaches(store[t], t, d \o (p \o q), n, m, own) BY <3>1, <3>5, <1>8, ReachAfter
    <3> QED BY <3>2, <3>6, <2>2, <2>6, <1>4, <1>9
  <2>7. CASE t \notin {from, to}
    <3>1. Untouched(d, t) /\ Untouched(p, t) /\ Untouched(q, t) BY <2>7, <1>5, <1>6, <1>7 DEF Untouched
    <3>2. Untouched(ws, t) BY <3>1, <1>8, <1>9, UntouchedConcat
    <3>3. Was(t, ws) = mem[t] BY <3>2, WasKept DEF Untouched
    <3>4. Reaches(store[t], t, ws, mem[t], mem[t], own) BY <3>2, <2>1, <2>3, ReachRest
    <3> QED BY <3>3, <3>4, <2>2, <2>7, <1>4
  <2> QED BY <2>5, <2>6, <2>7
<1>13. ASSUME NEW t \in Tables, mem2[t] # None PROVE mem2[t].schema \in Schemas(t \notin tears)
  <2>1. CASE t = to
    <3>1. (t \notin tears) = (from \notin torn) BY <2>1, <1>10
    <3> QED BY <3>1, <2>1, <1>2, <1>4
  <2>2. CASE t # to
    <3>1. t # from /\ mem2[t] = mem[t] /\ (t \in torn => t \in tears) BY <2>2, <1>4, <1>10, <1>13
    <3> QED BY <3>1, <1>13, SchemaStays
  <2> QED BY <2>1, <2>2
<1>14. \A t \in Tables : mem[t] # None /\ t \in torn => t \in tears BY <1>1, <1>10
<1> QED BY <1>11, <1>12, <1>13, <1>14, ExecuteDisk

\* The commands that write what a SELECT gave: the rows, then the schema.
LEMMA WriteSelected ==
  ASSUME NEW t \in Tables, NEW m \in Table
  PROVE  PutRows(t, m.rows) \o PutSchema(t, m.schema) \in Seq(Own(t))
<1>1. PutRows(t, m.rows) \in Seq(Own(t)) /\ PutSchema(t, m.schema) \in Seq(Own(t)) BY PutType
<1> QED BY <1>1, ConcatProperties

LEMMA CreateTableAsInv == TypeInv /\ DiskInv /\ CreateTableAs => TypeInv' /\ DiskInv'
<1> SUFFICES ASSUME TypeInv, DiskInv, CreateTableAs PROVE TypeInv' /\ DiskInv'
  OBVIOUS
<1>1. PICK t \in Tables, u \in Tables :
        /\ mem[t] = None /\ mem[u] # None
        /\ Execute([mem EXCEPT ![t] = Selected(u)],
                   PutRows(t, Selected(u).rows) \o PutSchema(t, Selected(u).schema),
                   unproven \ {t}, overlooked \ {t}, torn \ {t})
  BY Zenon DEF CreateTableAs
<1>2. PICK m \in Table : m = Selected(u) /\ m.schema \in Schemas(TRUE)
  <2>1. mem[u] \in Table BY <1>1 DEF TypeInv
  <2> QED BY <2>1, SelectedType
<1>3. PICK ws \in Seq(Own(t)) : ws = PutRows(t, m.rows) \o PutSchema(t, m.schema) BY WriteSelected
<1>4. Execute([mem EXCEPT ![t] = m], ws, unproven \ {t}, overlooked \ {t}, torn \ {t}) BY <1>1, <1>2, <1>3
<1>5. ASSUME Rest(store[t], mem[t], t \notin orphaned) PROVE Reaches(store[t], t, ws, mem[t], m, t \notin orphaned)
  <2>1. store[t] \in Entry BY DEF TypeInv
  <2>2. PICK own : own = (t \notin orphaned) OBVIOUS
  <2>3. Filed(store[t]) /\ ~store[t].known /\ (own => store[t].rows = NoRows) BY <1>1, <1>5, <2>2 DEF Rest
  <2>4. PICK n \in Table \cup {None} : n = None OBVIOUS
  <2>5. Loses(n, m) BY <2>4 DEF Loses
  <2>6. Reaches(store[t], t, PutRows(t, m.rows) \o PutSchema(t, m.schema), n, m, own)
    BY <2>1, <2>3, <2>5, ReachCreateAs
  <2> QED BY <2>2, <2>4, <2>6, <1>1, <1>3
<1>6. m.schema \in Schemas(t \notin torn \ {t})
  <2>1. (t \notin torn \ {t}) = TRUE OBVIOUS
  <2> QED BY <2>1, <1>2
<1> QED BY <1>1, <1>4, <1>5, <1>6, OneKept

\* The commands that delete a table end with taking it out of the set of tables.
LEMMA Forgets ==
  ASSUME TypeInv, NEW t \in Tables, NEW v \in Seq(Of(t))
  PROVE  \E ws \in Seq(Command) :
           /\ ws = DeleteTable(t) \o v /\ \A i \in 1..Len(ws) : ws[i].table = t
           /\ \E i \in 1..Len(ws) : ws[i].op = "forget"
<1>1. PICK u \in Seq(Of(t)) : u = DeleteRows(t) \o DeleteSchema(t)
  <2>1. PICK x \in Entry : x = store[t] BY DEF TypeInv
  <2>2. EmptySchema \in GoodSchema BY EmptyGood DEF GoodSchema
  <2>3. DeleteRows(t) \in Seq(Own(t)) /\ DeleteSchema(t) \in Seq(Own(t)) BY <2>1, <2>2, DeleteRowsDef, SchemaCommands
  <2>4. DeleteRows(t) \o DeleteSchema(t) \in Seq(Own(t)) BY <2>3, ConcatProperties
  <2> QED BY <2>4, OwnIsOf
<1>2. PICK f \in Of(t) : f = [op |-> "forget", table |-> t] BY DEF Of, Command
<1>3. PICK d \in Seq(Of(t)) : d = u \o <<f>> /\ d = DeleteTable(t) /\ Len(d) = Len(u) + 1 /\ d[Len(d)] = f
  <2>1. u \o <<f>> \in Seq(Of(t)) /\ Len(u \o <<f>>) = Len(u) + 1 /\ (u \o <<f>>)[Len(u) + 1] = f OBVIOUS
  <2> QED BY <2>1, <1>1, <1>2 DEF DeleteTable
<1>4. PICK ws \in Seq(Of(t)) : ws = d \o v /\ Len(ws) = Len(d) + Len(v) /\ ws[Len(d)] = d[Len(d)]
  <2>1. Len(d) \in 1..Len(d) /\ Len(v) \in Nat /\ Len(u) \in Nat BY <1>3
  <2>2. d \o v \in Seq(Of(t)) /\ Len(d \o v) = Len(d) + Len(v) /\ (d \o v)[Len(d)] = d[Len(d)]
    BY <2>1, ConcatProperties
  <2> QED BY <2>2
<1>5. ws \in Seq(Command) /\ \A i \in 1..Len(ws) : ws[i].table = t BY OfIsCommand
<1>6. Len(d) \in 1..Len(ws) /\ ws[Len(d)].op = "forget"
  <2>1. Len(u) \in Nat /\ Len(v) \in Nat OBVIOUS
  <2> QED BY <2>1, <1>2, <1>3, <1>4
<1> QED BY <1>3, <1>4, <1>5, <1>6

LEMMA ReplaceTableInv == TypeInv /\ DiskInv /\ ReplaceTable => TypeInv' /\ DiskInv'
<1> SUFFICES ASSUME TypeInv, DiskInv, ReplaceTable PROVE TypeInv' /\ DiskInv'
  OBVIOUS
<1>1. PICK t \in Tables, u \in Tables :
        /\ mem[u] # None
        /\ Execute([mem EXCEPT ![t] = Selected(u)],
                   DeleteTable(t) \o PutRows(t, Selected(u).rows) \o PutSchema(t, Selected(u).schema),
                   unproven \ {t}, overlooked \ {t}, IF mem[t] = None THEN torn \ {t} ELSE torn)
  BY Zenon DEF ReplaceTable
<1>2. PICK m \in Table : m = Selected(u) /\ m.schema \in Schemas(TRUE)
  <2>1. mem[u] \in Table BY <1>1 DEF TypeInv
  <2> QED BY <2>1, SelectedType
<1>3. PICK v \in Seq(Of(t)) : v = PutRows(t, m.rows) \o PutSchema(t, m.schema) /\ v \in Seq(Command)
  BY WriteSelected, OwnIsOf
<1>4. PICK ws \in Seq(Command) :
        /\ ws = DeleteTable(t) \o v /\ \A i \in 1..Len(ws) : ws[i].table = t
        /\ \E i \in 1..Len(ws) : ws[i].op = "forget"
  BY Forgets
<1>5. PICK tears : tears = IF mem[t] = None THEN torn \ {t} ELSE torn OBVIOUS
<1>6. Execute([mem EXCEPT ![t] = m], ws, unproven \ {t}, overlooked \ {t}, tears)
  <2>1. PICK d \in Seq(Command) : d = DeleteTable(t) BY DeletesTable
  <2>2. PICK p \in Seq(Command), q \in Seq(Command) : p = PutRows(t, m.rows) /\ q = PutSchema(t, m.schema) BY PutType
  <2>3. (d \o p) \o q = d \o (p \o q) BY ConcatAssociative
  <2>4. ws = (d \o p) \o q BY <2>1, <2>2, <2>3, <1>3, <1>4
  <2> QED BY <2>1, <2>2, <2>4, <1>1, <1>2, <1>5
<1>7. ASSUME Rest(store[t], mem[t], t \notin orphaned)
      PROVE  Reaches(store[t], t, ws, Was(t, ws), m, t \notin orphaned)
  <2>1. store[t] \in Entry /\ mem[t] \in Table \cup {None} BY DEF TypeInv
  <2>2. PICK own : own = (t \notin orphaned) OBVIOUS
  <2>3. Rest(store[t], mem[t], own) BY <1>7, <2>2
  <2>4. PICK b \in Table \cup {None} : /\ b = Was(t, ws) /\ (b = None \/ b.rows = NoRows)
                                       /\ mem[t] # None => b # None /\ b.schema = mem[t].schema
    <3>1. CASE mem[t] = None
      <4>1. Was(t, ws) = None BY <3>1 DEF Was
      <4> QED BY <4>1, <3>1
    <3>2. CASE mem[t] # None
      <4>1. mem[t] \in Table BY <3>2, <2>1
      <4>2. /\ Was(t, ws) \in Table /\ Was(t, ws).rows = NoRows /\ Was(t, ws).schema = mem[t].schema
        BY <4>1, <1>4, WasDeleted
      <4> QED BY <4>2, NoneFacts
    <3> QED BY <3>1, <3>2
  <2>5. Filed(store[t]) /\ (store[t].known => b # None /\ Form(store[t]) = Sortedly(b.schema))
    BY <2>3, <2>4 DEF Rest
  <2>6. Loses(b, m) BY <2>4 DEF Loses
  <2>7. DeleteTable(t) \in Seq(Command) BY DeletesTable
  <2>8. Reaches(store[t], t, DeleteTable(t) \o (PutRows(t, m.rows) \o PutSchema(t, m.schema)), b, m, own)
    BY <2>1, <2>5, <2>6, <2>7, <1>3, ReachReplace
  <2> QED BY <2>2, <2>4, <2>8, <1>3, <1>4
<1>8. m.schema \in Schemas(t \notin tears)
  <2>1. (t \notin tears) \in BOOLEAN OBVIOUS
  <2> QED BY <2>1, <1>2, SchemasOf
<1>9. torn \ {t} \subseteq tears /\ (mem[t] # None /\ t \in torn => t \in tears) BY <1>5
<1> QED BY <1>4, <1>6, <1>7, <1>8, <1>9, OneTable


-----------------------------------------------------------------------------
(* The store, a crash, and the two invariants                              *)

\* What the store holds of a table when some commands are done.
LEMMA AfterFacts ==
  ASSUME TypeInv, DiskInv, NEW t \in Tables
  PROVE  /\ \A n \in 0..Len(todo) :
              /\ After(n)[t] \in SafeSet(before[t], mem[t], t \notin orphaned)
              /\ After(n)[t] \in Entry /\ Filed(After(n)[t])
         /\ Rest(After(Len(todo))[t], mem[t], t \notin orphaned)
<1>1. PICK own : own = (t \notin orphaned) OBVIOUS
<1>2. PICK y \in Entry : Leads(store[t], t, todo, y, SafeSet(before[t], mem[t], own)) /\ Rest(y, mem[t], own)
  BY <1>1 DEF DiskInv, Reaches
<1>3. todo \in Seq(Command) BY DEF TypeInv
<1>4. store[t] \in SafeSet(before[t], mem[t], own) BY <1>2, <1>3, LeadsEnds
<1>5. /\ Course(store[t], t, todo)[Len(todo)] = y
      /\ \A n \in 0..Len(todo) : Course(store[t], t, todo)[n] \in SafeSet(before[t], mem[t], own)
  BY <1>2, <1>3, <1>4, CourseDef
<1>6. \A n : After(n)[t] = Course(store[t], t, todo)[n] BY DEF After
<1>7. \A z \in SafeSet(before[t], mem[t], own) : z \in Entry /\ Filed(z) BY DEF SafeSet
<1> QED BY <1>1, <1>2, <1>5, <1>6, <1>7

\* No commands.
LEMMA NoCommands == \E ws \in Seq(Command) : ws = <<>> /\ Len(ws) = 0 /\ \A t : Untouched(ws, t)
<1>1. <<>> \in Seq(Command) OBVIOUS
<1>2. PICK v \in Seq(Command) : v = <<>> BY <1>1, Zenon
<1>3. Len(v) = 0 BY <1>2
<1>4. \A t : Untouched(v, t) BY <1>3 DEF Untouched
<1> QED BY <1>2, <1>3, <1>4

\* A store at rest.
LEMMA RestReaches ==
  ASSUME NEW t, NEW x \in Entry, NEW m \in Table \cup {None}, NEW own, Rest(x, m, own), NEW b, b = m,
         NEW ws, ws = <<>>
  PROVE  Reaches(x, t, ws, b, m, own)
<1>1. PICK v \in Seq(Command) : v = <<>> /\ Untouched(v, t) BY NoCommands
<1>2. Reaches(x, t, v, m, m, own) BY <1>1, ReachRest
<1> QED BY <1>1, <1>2

LEMMA FinishInv == TypeInv /\ DiskInv /\ Finish => TypeInv' /\ DiskInv'
<1> SUFFICES ASSUME TypeInv, DiskInv, Finish PROVE TypeInv' /\ DiskInv'
  OBVIOUS
<1>1. PICK s : /\ s = After(Len(todo)) /\ store' = s
               /\ todo' = <<>> /\ mem' = mem /\ before' = before /\ orphaned' = orphaned /\ torn' = torn
  BY DEF Finish
<1>2. todo \in Seq(Command) BY DEF TypeInv
<1>3. \A t \in Tables : s[t] \in Entry /\ s[t] \in SafeSet(before[t], mem[t], t \notin orphaned)
                        /\ Rest(s[t], mem[t], t \notin orphaned)
  <2>1. Len(todo) \in 0..Len(todo) BY <1>2
  <2> QED BY <2>1, <1>1, AfterFacts
<1>4. store' \in [Tables -> Entry]
  <2>1. s = [t \in Tables |-> s[t]] BY <1>1 DEF After
  <2> QED BY <2>1, <1>1, <1>3
<1>5. todo' \in Seq(Command) BY <1>1, NoCommands
<1>6. TypeInv' BY <1>1, <1>4, <1>5 DEF TypeInv, Untorn
<1>7. ASSUME NEW t \in Tables PROVE Reaches(store'[t], t, todo', before'[t], mem'[t], t \notin orphaned')
  <2>1. PICK own : own = (t \notin orphaned) OBVIOUS
  <2>2. PICK y \in Entry : y = s[t] /\ y \in SafeSet(before[t], mem[t], own) /\ Rest(y, mem[t], own)
    BY <2>1, <1>3
  <2>3. PICK v \in Seq(Command) : v = <<>> /\ Untouched(v, t) BY NoCommands
  <2>4. Leads(y, t, v, y, SafeSet(before[t], mem[t], own)) BY <2>2, <2>3, LeadsNone DEF Untouched
  <2>5. Reaches(y, t, v, before[t], mem[t], own) BY <2>2, <2>4 DEF Reaches
  <2> QED BY <2>1, <2>2, <2>3, <2>5, <1>1
<1> QED BY <1>6, <1>7 DEF DiskInv

\* The keys of a table are at rest with what a reopen makes of them.
LEMMA LoadedRest ==
  ASSUME NEW x \in Entry, Filed(x), NEW own, own /\ ~x.known => x.rows = NoRows
  PROVE  Rest(x, Loaded(x), own)
<1>1. CASE ~x.known
  <2>1. Loaded(x) = None BY <1>1, LoadedFacts
  <2> QED BY <2>1, <1>1 DEF Rest
<1>2. CASE x.known
  <2>1. PICK m : m = [schema |-> Form(x), rows |-> Seen(x)] /\ m.schema = Form(x) /\ m.rows = Seen(x)
    <3>1. PICK s, r : s = Form(x) /\ r = Seen(x) OBVIOUS
    <3>2. PICK m : m = [schema |-> s, rows |-> r] OBVIOUS
    <3>3. m.schema = s /\ m.rows = r BY <3>2
    <3> QED BY <3>1, <3>2, <3>3
  <2>2. Loaded(x) = m /\ Loaded(x) # None /\ Seen(x) = x.rows BY <1>2, <2>1, LoadedFacts
  <2>3. Sortedly(Form(x)) = Form(x) BY LoadedFacts
  <2> QED BY <2>1, <2>2, <2>3, <1>2 DEF Rest
<1> QED BY <1>1, <1>2

LEMMA ReopenInv == TypeInv /\ DiskInv /\ Reopen => TypeInv' /\ DiskInv'
<1> SUFFICES ASSUME TypeInv, DiskInv, Reopen PROVE TypeInv' /\ DiskInv'
  OBVIOUS
<1>1. PICK n \in 0..Len(todo) :
        /\ store' = After(n) /\ todo' = <<>>
        /\ mem' = [t \in Tables |-> Loaded(store'[t])] /\ before' = mem'
        /\ orphaned' = orphaned \cup {t \in Tables : ~store'[t].known /\ store'[t].rows # NoRows}
        /\ torn' = torn \cup {t \in Tables : mem'[t] # None /\ mem'[t].schema \notin Forms(before[t], mem[t])}
  BY DEF Reopen
<1>2. \A t \in Tables : store'[t] \in Entry /\ Filed(store'[t]) BY <1>1, AfterFacts
<1>3. \A t \in Tables : mem'[t] = Loaded(store'[t]) /\ before'[t] = mem'[t] BY <1>1
<1>4. \A t \in Tables : mem'[t] \in Table \cup {None} BY <1>2, <1>3, LoadedFacts
<1>5. store' \in [Tables -> Entry]
  <2>1. store' = [t \in Tables |-> store'[t]] BY <1>1 DEF After
  <2> QED BY <2>1, <1>2
<1>6. mem' \in [Tables -> Table \cup {None}]
  <2>1. mem' = [t \in Tables |-> mem'[t]] BY <1>1
  <2> QED BY <2>1, <1>4
<1>7. Untorn'
  <2>1. ASSUME NEW t \in Tables \ torn', mem'[t] # None PROVE mem'[t].schema \in Schemas(TRUE)
    <3>1. t \notin torn /\ mem'[t].schema \in Forms(before[t], mem[t]) BY <1>1, <2>1
    <3>2. \A m \in {before[t], mem[t]} : m # None => m.schema \in Schemas(TRUE)
      BY <3>1 DEF TypeInv, Untorn
    <3>3. CASE mem'[t].schema = EmptySchema BY <3>3, EmptyGood
    <3>4. ASSUME NEW m \in {before[t], mem[t]} \ {None}, mem'[t].schema = Sortedly(m.schema)
          PROVE  mem'[t].schema \in Schemas(TRUE)
      <4>1. PICK s \in Schemas(TRUE) : s = m.schema BY <3>2
      <4>2. Sortedly(s) \in Schemas(TRUE) BY SortedlyFacts
      <4> QED BY <3>4, <4>1, <4>2
    <3> QED BY <3>1, <3>3, <3>4 DEF Forms
  <2> QED BY <2>1, <1>3 DEF Untorn
<1>8. todo' \in Seq(Command) BY <1>1, NoCommands
<1>9. before' \in [Tables -> Table \cup {None}] BY <1>1, <1>6
<1>10. TypeInv' BY <1>5, <1>6, <1>7, <1>8, <1>9 DEF TypeInv
<1>11. ASSUME NEW t \in Tables PROVE Reaches(store'[t], t, todo', before'[t], mem'[t], t \notin orphaned')
  <2>1. PICK own : own = (t \notin orphaned') OBVIOUS
  <2>2. PICK x \in Entry : x = store'[t] /\ Filed(x) BY <1>2
  <2>3. own /\ ~x.known => x.rows = NoRows BY <2>1, <2>2, <1>1
  <2>4. PICK m \in Table \cup {None} : m = Loaded(x) /\ mem'[t] = m /\ before'[t] = m BY <2>2, <1>3, <1>4
  <2>5. Rest(x, m, own) BY <2>2, <2>3, <2>4, LoadedRest
  <2>6. Reaches(x, t, todo', before'[t], m, own) BY <2>4, <2>5, <1>1, RestReaches
  <2> QED BY <2>1, <2>2, <2>4, <2>6
<1> QED BY <1>10, <1>11 DEF DiskInv

\* A table that never was is at rest.
LEMMA NothingFacts == \A own : Nothing \in Entry /\ Rest(Nothing, None, own)
<1>1. NoRows \in Rowset BY FS_EmptySet, RowsetIntro DEF NoRows
<1>2. DOMAIN NoRows = {} BY DEF NoRows
<1>3. PICK x : /\ x = [known |-> FALSE, parts |-> NoParts, keys |-> {}, rows |-> NoRows]
               /\ x.known = FALSE /\ x.parts = NoParts /\ x.keys = {} /\ x.rows = NoRows
  <2>1. PICK p, r, k : p = NoParts /\ r = NoRows /\ k = {} OBVIOUS
  <2>2. PICK x : x = [known |-> FALSE, parts |-> p, keys |-> k, rows |-> r] OBVIOUS
  <2>3. x.known = FALSE /\ x.parts = p /\ x.keys = k /\ x.rows = r BY <2>2
  <2> QED BY <2>1, <2>2, <2>3
<1>4. x \in Entry BY <1>1, <1>3, NoPartsFacts DEF Entry
<1>5. Filed(x) BY <1>2, <1>3 DEF Filed
<1> QED BY <1>3, <1>4, <1>5 DEF Nothing, Rest

\* The invariant holds at the beginning.
LEMMA InitInv == Init => TypeInv /\ DiskInv
<1> SUFFICES ASSUME Init PROVE TypeInv /\ DiskInv
  OBVIOUS
<1>1. PICK n \in Table \cup {None} : n = None OBVIOUS
<1>2. PICK x \in Entry : x = Nothing /\ \A own : Rest(x, n, own) BY <1>1, NothingFacts
<1>3. mem = [t \in Tables |-> n] /\ store = [t \in Tables |-> x] /\ todo = <<>> /\ before = mem
  BY <1>1, <1>2 DEF Init
<1>4. todo \in Seq(Command) BY <1>3, NoCommands
<1>5. TypeInv BY <1>1, <1>3, <1>4 DEF TypeInv, Untorn
<1>6. ASSUME NEW t \in Tables PROVE Reaches(store[t], t, todo, before[t], mem[t], t \notin orphaned)
  <2>1. PICK own : own = (t \notin orphaned) OBVIOUS
  <2>2. store[t] = x /\ mem[t] = n /\ before[t] = n BY <1>3
  <2>3. Reaches(x, t, todo, before[t], n, own) BY <2>2, <1>2, <1>3, RestReaches
  <2> QED BY <2>1, <2>2, <2>3
<1> QED BY <1>5, <1>6 DEF DiskInv

\* A step that changes nothing keeps it.
LEMMA StillInv == TypeInv /\ DiskInv /\ UNCHANGED vars => TypeInv' /\ DiskInv'
<1> SUFFICES ASSUME TypeInv, DiskInv, UNCHANGED vars PROVE TypeInv' /\ DiskInv'
  OBVIOUS
<1>1. mem' = mem /\ store' = store /\ todo' = todo /\ before' = before /\ orphaned' = orphaned /\ torn' = torn
  BY DEF vars
<1>2. TypeInv' BY <1>1 DEF TypeInv, Untorn
<1>3. ASSUME NEW t \in Tables PROVE Reaches(store'[t], t, todo', before'[t], mem'[t], t \notin orphaned')
  BY <1>1 DEF DiskInv
<1> QED BY <1>2, <1>3 DEF DiskInv

\* The two invariants are one, and it is inductive.
LEMMA NextInv == TypeInv /\ DiskInv /\ [Next]_vars => TypeInv' /\ DiskInv'
<1> SUFFICES ASSUME TypeInv, DiskInv, [Next]_vars PROVE TypeInv' /\ DiskInv'
  OBVIOUS
<1>1. CASE CreateTable BY <1>1, CreateTableInv
<1>2. CASE AlterTable BY <1>2, AlterTableInv
<1>3. CASE CreateIndex BY <1>3, CreateIndexInv
<1>4. CASE DropIndex BY <1>4, DropIndexInv
<1>5. CASE DropIndexFrom BY <1>5, DropIndexFromInv
<1>6. CASE Insert BY <1>6, InsertInv
<1>7. CASE DropTable BY <1>7, DropTableInv
<1>8. CASE TruncateTable BY <1>8, TruncateTableInv
<1>9. CASE RenameTable BY <1>9, RenameTableInv
<1>10. CASE CreateTableAs BY <1>10, CreateTableAsInv
<1>11. CASE ReplaceTable BY <1>11, ReplaceTableInv
<1>12. CASE Finish BY <1>12, FinishInv
<1>13. CASE Reopen BY <1>13, ReopenInv
<1>14. CASE UNCHANGED vars BY <1>14, StillInv
<1> QED BY <1>1, <1>2, <1>3, <1>4, <1>5, <1>6, <1>7, <1>8, <1>9, <1>10, <1>11, <1>12, <1>13, <1>14 DEF Next

\* Every state is one of tables with schemas and rows, keys of a store that a reopen
\* can make a schema of, and commands that write them; whatever prefix of a
\* statement's commands a crash kept.  And the schema of a table that no crash tore
\* names its columns, if the statements' primary keys are plain.
THEOREM TypeCorrect == Spec => []TypeInv
<1>1. Init => TypeInv /\ DiskInv BY InitInv
<1>2. TypeInv /\ DiskInv /\ [Next]_vars => TypeInv' /\ DiskInv' BY NextInv
<1> QED BY <1>1, <1>2, PTL DEF Spec

\* The commands in hand lead the keys of each table, one command after the other, to
\* what the statement made of the table, through keys that a crash may leave: pieces
\* of the old schema or of the new one, rows that are filed under their keys, and all
\* but one of the rows that the statement keeps.
THEOREM DiskCorrect == Spec => []DiskInv
<1>1. Init => TypeInv /\ DiskInv BY InitInv
<1>2. TypeInv /\ DiskInv /\ [Next]_vars => TypeInv' /\ DiskInv' BY NextInv
<1> QED BY <1>1, <1>2, PTL DEF Spec

\* A reopen gives the schema and the rows that statements work with, after whatever
\* commands earlier crashes cut short.
THEOREM StoredAtRestHolds == Spec => []StoredAtRest
<1>1. ASSUME TypeInv, DiskInv PROVE StoredAtRest
  <2>1. todo \in Seq(Command) BY <1>1 DEF TypeInv
  <2>2. ASSUME NEW t \in Tables \ orphaned, ~InHand(t) PROVE Holds(store[t], mem[t])
    <3>1. DOMAIN todo = 1..Len(todo) BY <2>1
    <3>2. Untouched(todo, t) BY <3>1, <2>2 DEF InHand, Untouched
    <3>3. Rest(store[t], mem[t], t \notin orphaned) BY <3>2, AtRest, <1>1
    <3>4. (t \notin orphaned) = TRUE BY <2>2
    <3>5. Rest(store[t], mem[t], TRUE) BY <3>3, <3>4
    <3>6. store[t] \in Entry /\ mem[t] \in Table \cup {None} BY <1>1 DEF TypeInv
    <3> QED BY <3>5, <3>6, HoldsFacts
  <2> QED BY <2>2 DEF StoredAtRest
<1>2. TypeInv /\ DiskInv => StoredAtRest BY <1>1
<1> QED BY <1>2, TypeCorrect, DiskCorrect, PTL

\* A crash after any of a statement's commands leaves a piece of the old schema or of
\* the new one, and of the rows the statement keeps all but one as they were or as
\* they are to be; if an ALTER TABLE moves the values of one column at most.
THEOREM CrashSafeHolds ==
  ASSUME OneMove
  PROVE  Spec => []CrashSafe
<1>1. ASSUME TypeInv, DiskInv PROVE CrashSafe
  <2>1. ASSUME NEW t \in Tables \ orphaned, NEW n \in 0..Len(todo)
        PROVE  Between(Loaded(After(n)[t]), before[t], mem[t])
    <3>1. (t \notin orphaned) = TRUE BY <2>1
    <3>2. After(n)[t] \in SafeSet(before[t], mem[t], t \notin orphaned) BY <1>1, AfterFacts
    <3>3. PICK z \in SafeSet(before[t], mem[t], TRUE) : z = After(n)[t] BY <3>1, <3>2
    <3>4. before[t] \in Table \cup {None} /\ mem[t] \in Table \cup {None} BY <1>1 DEF TypeInv
    <3> QED BY <3>3, <3>4, SafeBetween, OneMove
  <2> QED BY <2>1 DEF CrashSafe
<1>2. TypeInv /\ DiskInv => CrashSafe BY <1>1
<1> QED BY <1>2, TypeCorrect, DiskCorrect, PTL

\* The lists of every schema that no crash tore name its columns, and no column is
\* there twice.
THEOREM MetadataHolds ==
  ASSUME PlainKeys
  PROVE  Spec => []MetadataNamesColumns
<1>1. ASSUME TypeInv PROVE MetadataNamesColumns
  <2>1. ASSUME NEW t \in Tables \ torn, mem[t] # None PROVE NamesColumns(mem[t].schema)
    <3>1. mem[t].schema \in Schemas(TRUE) BY <1>1, <2>1 DEF TypeInv, Untorn
    <3> QED BY <3>1, PlainKeys DEF Schemas
  <2> QED BY <2>1 DEF MetadataNamesColumns
<1>2. TypeInv => MetadataNamesColumns BY <1>1
<1> QED BY <1>2, TypeCorrect, PTL


-----------------------------------------------------------------------------
(* Unique lists and keys                                                   *)

\* The rows of a table agree on none of its lists; on its key they may, if blind.
UniqueIn(m, blind) ==
  /\ \A list \in m.schema.unique : Distinct(m.rows, list)
  /\ blind \/ Distinct(m.rows, m.schema.pk)

\* UniqueHolds, with UniqueIn.
LEMMA UniqueForm ==
  UniqueHolds <=>
    \A t \in Tables \ (unproven \cup orphaned) : mem[t] # None => UniqueIn(mem[t], t \in overlooked)
BY DEF UniqueHolds, UniqueIn

\* No two of no rows agree.
LEMMA EmptyDistinct ==
  ASSUME NEW list
  PROVE  Distinct(NoRows, list)
<1>1. DOMAIN NoRows = {} BY DEF NoRows
<1> QED BY <1>1 DEF Distinct

\* Rows agree on a list or not whatever the order of its columns is.
LEMMA DistinctOf ==
  ASSUME NEW rows, NEW l \in Seq(Cols), NEW list \in Seq(Cols), Range(l) = Range(list), Distinct(rows, list)
  PROVE  Distinct(rows, l)
<1>1. CASE list = <<>>
  <2>1. \A i \in DOMAIN l : l[i] \in Range(l) BY DEF Range
  <2>2. Range(list) = {} BY <1>1 DEF Range
  <2>3. DOMAIN l = 1..Len(l) /\ Len(l) \in Nat OBVIOUS
  <2>4. Len(l) = 0 BY <2>1, <2>2, <2>3
  <2>5. l = <<>> BY <2>4, EmptySeq
  <2> QED BY <2>5 DEF Distinct
<1>2. CASE list # <<>>
  <2>1. \A d, e : Agree(d, e, l) <=> Agree(d, e, list) BY DEF Agree
  <2> QED BY <2>1, <1>2 DEF Distinct
<1> QED BY <1>1, <1>2

\* A row that agrees with no other.
LEMMA DistinctAdd ==
  ASSUME NEW rows, NEW k, NEW d, NEW list, k \notin DOMAIN rows, Distinct(rows, list),
         list = <<>> \/ \A j \in DOMAIN rows : ~Agree(d, rows[j], list)
  PROVE  Distinct(Add(rows, k, d), list)
<1>1. CASE list = <<>> BY <1>1 DEF Distinct
<1>2. CASE list # <<>>
  <2> DEFINE a == Add(rows, k, d)
  <2>1. DOMAIN a = DOMAIN rows \cup {k} /\ a[k] = d /\ \A j \in DOMAIN rows : a[j] = rows[j] BY DEF Add
  <2>2. \A x, y : Agree(x, y, list) => Agree(y, x, list) BY DEF Agree
  <2> HIDE DEF a
  <2>3. ASSUME NEW j \in DOMAIN a, NEW i \in DOMAIN a, j # i PROVE ~Agree(a[j], a[i], list)
    <3>1. CASE j = k BY <3>1, <2>1, <2>3, <1>2
    <3>2. CASE i = k BY <3>2, <2>1, <2>2, <2>3, <1>2
    <3>3. CASE j # k /\ i # k BY <3>3, <2>1, <2>3, <1>2 DEF Distinct
    <3> QED BY <3>1, <3>2, <3>3
  <2> QED BY <2>3 DEF Distinct, a
<1> QED BY <1>1, <1>2

\* Rows that agree on the key have one key.
LEMMA AgreeKey ==
  ASSUME NEW pk \in Seq(Cols), NEW d, NEW e, Agree(d, e, pk)
  PROVE  KeyOf(pk, d) = KeyOf(pk, e)
<1>1. \A i \in DOMAIN pk : d[pk[i]] = e[pk[i]] BY DEF Agree, Range
<1> QED BY <1>1 DEF KeyOf

\* A statement that leaves a table unique, or in doubt.
LEMMA ExecuteUnique ==
  ASSUME NEW mem2, NEW writes, NEW doubts, NEW blind, NEW tears, Execute(mem2, writes, doubts, blind, tears),
         \A t \in Tables \ (doubts \cup orphaned) : mem2[t] # None => UniqueIn(mem2[t], t \in blind)
  PROVE  UniqueHolds'
<1>1. mem' = mem2 /\ unproven' = doubts /\ overlooked' = blind /\ orphaned' = orphaned BY DEF Execute
<1>2. \A t \in Tables \ (unproven' \cup orphaned') : mem'[t] # None => UniqueIn(mem'[t], t \in overlooked')
  BY <1>1
<1> QED BY <1>2 DEF UniqueHolds, UniqueIn

\* The same of a statement about one table.
LEMMA OneUnique ==
  ASSUME TypeInv, UniqueHolds, NEW t \in Tables, NEW m, NEW writes, NEW doubts, NEW blind, NEW tears,
         Execute([mem EXCEPT ![t] = m], writes, doubts, blind, tears),
         unproven \ {t} \subseteq doubts, overlooked \ {t} \subseteq blind,
         t \notin doubts \cup orphaned => UniqueIn(m, t \in blind)
  PROVE  UniqueHolds'
<1>1. PICK mem2 : mem2 = [mem EXCEPT ![t] = m] OBVIOUS
<1>2. mem2[t] = m /\ \A u \in Tables \ {t} : mem2[u] = mem[u] BY <1>1 DEF TypeInv
<1>3. ASSUME NEW u \in Tables \ (doubts \cup orphaned), mem2[u] # None PROVE UniqueIn(mem2[u], u \in blind)
  <2>1. CASE u = t BY <2>1, <1>2, <1>3
  <2>2. CASE u # t
    <3>1. u \notin unproven \cup orphaned /\ mem2[u] = mem[u] BY <2>2, <1>2, <1>3
    <3>2. UniqueIn(mem[u], u \in overlooked) BY <3>1, <1>3, UniqueForm
    <3>3. u \in overlooked => u \in blind BY <2>2
    <3> QED BY <3>1, <3>2, <3>3 DEF UniqueIn
  <2> QED BY <2>1, <2>2
<1> QED BY <1>1, <1>3, ExecuteUnique

\* A statement that replaces the schema of a table and leaves its key.
LEMMA SchemaUnique ==
  ASSUME TypeInv, UniqueHolds, NEW t \in Tables, mem[t] # None, NEW s, NEW writes, NEW doubts, NEW tears,
         Execute(With(t, s, mem[t].rows), writes, doubts, overlooked, tears), unproven \subseteq doubts,
         s.pk = mem[t].schema.pk, t \notin doubts => s.unique \subseteq mem[t].schema.unique
  PROVE  UniqueHolds'
<1>1. PICK m : m = [schema |-> s, rows |-> mem[t].rows] OBVIOUS
<1>2. Execute([mem EXCEPT ![t] = m], writes, doubts, overlooked, tears) BY <1>1 DEF With
<1>3. ASSUME t \notin doubts \cup orphaned PROVE UniqueIn(m, t \in overlooked)
  <2>1. UniqueIn(mem[t], t \in overlooked) BY <1>3, UniqueForm
  <2> QED BY <2>1, <1>1, <1>3 DEF UniqueIn
<1> QED BY <1>2, <1>3, OneUnique

\* CREATE TABLE keeps uniqueness; below, the same of each other action.
LEMMA CreateTableUnique == TypeInv /\ UniqueHolds /\ CreateTable => UniqueHolds'
<1> SUFFICES ASSUME TypeInv, UniqueHolds, CreateTable PROVE UniqueHolds'
  OBVIOUS
<1>1. PICK c \in Creates :
        LET s == SchemaFromCreate(c.cols, c.constraints)
        IN /\ mem[c.table] = None /\ IsInjective(c.cols) /\ Valid(s, c.table)
           /\ Execute(With(c.table, s, NoRows), PutSchema(c.table, s),
                      unproven \ {c.table}, overlooked \ {c.table}, torn \ {c.table})
  BY Zenon DEF CreateTable
<1>2. c.table \in Tables BY StatementsAssumption
<1>3. PICK m : m = [schema |-> SchemaFromCreate(c.cols, c.constraints), rows |-> NoRows] OBVIOUS
<1>4. PICK ws, tears : Execute([mem EXCEPT ![c.table] = m], ws, unproven \ {c.table}, overlooked \ {c.table}, tears)
  BY <1>1, <1>3 DEF With
<1>5. \A blind : UniqueIn(m, blind) BY <1>3, EmptyDistinct DEF UniqueIn
<1> QED BY <1>2, <1>4, <1>5, OneUnique

LEMMA AlterTableUnique == TypeInv /\ UniqueHolds /\ AlterTable => UniqueHolds'
<1> SUFFICES ASSUME TypeInv, UniqueHolds, AlterTable PROVE UniqueHolds'
  OBVIOUS
<1>1. PICK t \in Tables, ops \in Alters :
        /\ mem[t] # None
        /\ LET st == Altered(t, ops)
               done == st.ok /\ Valid(st.schema, t) /\ Unique(st.schema, st.rows)
           IN Execute(With(t, IF done THEN st.schema ELSE mem[t].schema, st.rows),
                      IF done THEN st.sent \o PutSchema(t, st.schema) ELSE st.sent,
                      IF done THEN unproven \ {t} ELSE IF st.moved THEN unproven \cup {t} ELSE unproven,
                      IF done THEN overlooked \ {t} ELSE overlooked, torn)
  BY DEF AlterTable
<1>2. mem[t] \in Table /\ mem[t].schema \in Schemas(FALSE) BY <1>1, Kept DEF GoodSchema
<1>3. PICK st : st = Altered(t, ops) /\ (~st.moved => st.rows = mem[t].rows) BY <1>2, AlteredFacts
<1> DEFINE done == st.ok /\ Valid(st.schema, t) /\ Unique(st.schema, st.rows)
<1>4. CASE done
  <2>1. PICK m : m = [schema |-> st.schema, rows |-> st.rows] OBVIOUS
  <2>2. PICK ws : Execute([mem EXCEPT ![t] = m], ws, unproven \ {t}, overlooked \ {t}, torn)
    BY <1>1, <1>3, <1>4, <2>1 DEF With
  <2>3. \A blind : UniqueIn(m, blind) BY <1>4, <2>1 DEF UniqueIn, Unique
  <2> QED BY <2>2, <2>3, OneUnique
<1>5. CASE ~done
  <2>1. PICK m : m = [schema |-> mem[t].schema, rows |-> st.rows] OBVIOUS
  <2>2. PICK doubts : doubts = IF st.moved THEN unproven \cup {t} ELSE unproven OBVIOUS
  <2>3. PICK ws : Execute([mem EXCEPT ![t] = m], ws, doubts, overlooked, torn)
    BY <1>1, <1>3, <1>5, <2>1, <2>2 DEF With
  <2>4. ASSUME t \notin doubts \cup orphaned PROVE UniqueIn(m, t \in overlooked)
    <3>1. ~st.moved /\ t \notin unproven \cup orphaned BY <2>2, <2>4
    <3>2. UniqueIn(mem[t], t \in overlooked) BY <3>1, <1>1, UniqueForm
    <3>3. m.schema = mem[t].schema /\ m.rows = mem[t].rows BY <3>1, <2>1, <1>3
    <3> QED BY <3>2, <3>3 DEF UniqueIn
  <2>5. unproven \ {t} \subseteq doubts /\ overlooked \ {t} \subseteq overlooked BY <2>2
  <2> QED BY <2>3, <2>4, <2>5, OneUnique
<1> QED BY <1>4, <1>5

LEMMA CreateIndexUnique == TypeInv /\ UniqueHolds /\ CreateIndex => UniqueHolds'
<1> SUFFICES ASSUME TypeInv, UniqueHolds, CreateIndex PROVE UniqueHolds'
  OBVIOUS
<1>1. PICK t \in Tables, name \in IndexNames, c \in Cols, unique \in BOOLEAN, replace \in BOOLEAN :
        /\ mem[t] # None
        /\ LET s == mem[t].schema
               kept == [s EXCEPT !.indexes = {x \in @ : ~(replace /\ x.name = name)}]
               made == AddIndex(kept, [name |-> name, cols |-> <<c>>, unique |-> unique])
               s2 == IF unique THEN AddUnique(made, None, <<c>>) ELSE made
           IN /\ c \in Columns(s)
              /\ replace \/ \A x \in s.indexes : x.name # name
              /\ Execute(With(t, s2, mem[t].rows), PutSchema(t, s2),
                         IF unique /\ <<c>> \notin s.unique THEN unproven \cup {t} ELSE unproven, overlooked, torn)
  BY Zenon DEF CreateIndex
<1> DEFINE s == mem[t].schema
           x0 == [name |-> name, cols |-> <<c>>, unique |-> unique]
           kept == [s EXCEPT !.indexes = {x \in @ : ~(replace /\ x.name = name)}]
           made == AddIndex(kept, x0)
           s2 == IF unique THEN AddUnique(made, None, <<c>>) ELSE made
           doubts == IF unique /\ <<c>> \notin s.unique THEN unproven \cup {t} ELSE unproven
<1>2. s \in Schema BY <1>1 DEF TypeInv, Table, GoodSchema, Schemas
<1>3. PICK l \in ColumnLists : l = <<c>>
  <2>1. <<c>> \in Seq(Cols) /\ <<c>> # <<>> OBVIOUS
  <2> QED BY <2>1 DEF ColumnLists
<1>4. x0 \in Index BY <1>3, BoundsAssumption DEF Index
<1>5. kept \in Schema /\ kept.pk = s.pk /\ kept.unique = s.unique
  <2> HIDE DEF s
  <2> QED BY <1>2 DEF Schema
<1>6. Execute(With(t, s2, mem[t].rows), PutSchema(t, s2), doubts, overlooked, torn) BY <1>1
<1> HIDE DEF s, x0, kept
<1>7. made \in Schema /\ made.pk = s.pk /\ made.unique = s.unique BY <1>4, <1>5, AddIndexFacts
<1> HIDE DEF made
<1>8. s2.pk = s.pk /\ s2.unique = IF unique THEN s.unique \cup {l} ELSE s.unique
  <2>1. PICK a \in Schema : /\ a = AddUnique(made, None, l) /\ a.order = made.order /\ a.pk = made.pk
                            /\ a.fks = made.fks /\ a.unique = made.unique \cup {l}
                            /\ \A x \in a.indexes : x \in made.indexes \/ x.cols = l
    BY <1>7, AddUniqueFacts
  <2>2. s2 = IF unique THEN a ELSE made BY <2>1, <1>3
  <2> HIDE DEF s2
  <2> QED BY <2>1, <2>2, <1>7
<1> HIDE DEF s2
<1>9. unproven \subseteq doubts /\ (t \notin doubts => s2.unique \subseteq s.unique) BY <1>3, <1>8
<1> HIDE DEF doubts
<1> QED BY <1>1, <1>6, <1>8, <1>9, SchemaUnique DEF s

LEMMA DropIndexFromUnique == TypeInv /\ UniqueHolds /\ DropIndexFrom => UniqueHolds'
<1> SUFFICES ASSUME TypeInv, UniqueHolds, DropIndexFrom PROVE UniqueHolds'
  OBVIOUS
<1>1. PICK t \in Tables, name \in IndexNames \cup Cols \cup {Primary} :
        /\ mem[t] # None
        /\ LET s2 == DropUnique(mem[t].schema, name)
           IN s2 # mem[t].schema /\ Execute(With(t, s2, mem[t].rows), PutSchema(t, s2), unproven, overlooked, torn)
  BY Zenon DEF DropIndexFrom
<1>2. mem[t].schema \in Schema BY <1>1 DEF TypeInv, Table, GoodSchema, Schemas
<1>3. PICK s2 : /\ s2 = DropUnique(mem[t].schema, name) /\ s2.pk = mem[t].schema.pk
                /\ s2.unique \subseteq mem[t].schema.unique
  BY <1>2, DropUniqueFacts
<1>4. PICK ws : Execute(With(t, s2, mem[t].rows), ws, unproven, overlooked, torn) BY <1>1, <1>3
<1> QED BY <1>1, <1>3, <1>4, SchemaUnique

LEMMA DropIndexUnique == TypeInv /\ UniqueHolds /\ DropIndex => UniqueHolds'
<1> SUFFICES ASSUME TypeInv, UniqueHolds, DropIndex PROVE UniqueHolds'
  OBVIOUS
<1>1. PICK name \in IndexNames \cup Cols \cup {Primary} :
        LET hit == {t \in Tables : mem[t] # None /\ DropUnique(mem[t].schema, name) # mem[t].schema}
            mem2 == [t \in Tables |->
                       IF t \in hit THEN [mem[t] EXCEPT !.schema = DropUnique(@, name)] ELSE mem[t]]
        IN /\ hit # {}
           /\ Execute(mem2, LET order == SetToSeq(hit)
                            IN InTurn([i \in DOMAIN order |-> PutSchema(order[i], mem2[order[i]].schema)]),
                      unproven, overlooked, torn)
  BY Zenon DEF DropIndex
<1> DEFINE hit == {t \in Tables : mem[t] # None /\ DropUnique(mem[t].schema, name) # mem[t].schema}
           mem2 == [t \in Tables |->
                      IF t \in hit THEN [mem[t] EXCEPT !.schema = DropUnique(@, name)] ELSE mem[t]]
<1>2. PICK ws : Execute(mem2, ws, unproven, overlooked, torn) BY <1>1
<1>3. ASSUME NEW t \in Tables \ (unproven \cup orphaned), mem2[t] # None
      PROVE  UniqueIn(mem2[t], t \in overlooked)
  <2>1. CASE t \in hit
    <3>1. mem[t] \in Table /\ mem[t] # None BY <2>1 DEF TypeInv
    <3>2. mem[t].schema \in Schema BY <3>1 DEF Table, GoodSchema, Schemas
    <3>3. PICK d : /\ d = DropUnique(mem[t].schema, name) /\ d.pk = mem[t].schema.pk
                   /\ d.unique \subseteq mem[t].schema.unique
      BY <3>2, DropUniqueFacts
    <3>4. PICK m : m = mem2[t] /\ m.schema = d /\ m.rows = mem[t].rows
      <4>1. mem2[t] = [mem[t] EXCEPT !.schema = d] BY <2>1, <3>3
      <4>2. PICK m : m = [mem[t] EXCEPT !.schema = d] OBVIOUS
      <4>3. m.schema = d /\ m.rows = mem[t].rows BY <4>2, <3>1 DEF Table
      <4> QED BY <4>1, <4>2, <4>3
    <3>5. UniqueIn(mem[t], t \in overlooked) BY <3>1, UniqueForm
    <3> HIDE DEF mem2
    <3> QED BY <3>3, <3>4, <3>5 DEF UniqueIn
  <2>2. CASE t \notin hit
    <3>1. mem2[t] = mem[t] BY <2>2
    <3> HIDE DEF mem2
    <3> QED BY <3>1, <1>3, UniqueForm
  <2> QED BY <2>1, <2>2
<1> HIDE DEF mem2
<1> QED BY <1>2, <1>3, ExecuteUnique

\* A row that would agree with another on the key would have its key.
LEMMA InsertUnique == TypeInv /\ UniqueHolds /\ Insert => UniqueHolds'
<1> SUFFICES ASSUME TypeInv, UniqueHolds, Insert PROVE UniqueHolds'
  OBVIOUS
<1>1. PICK t \in Tables, v \in [Cols -> Vals] :
        /\ mem[t] # None /\ Cardinality(DOMAIN mem[t].rows) < MaxRows
        /\ LET s == mem[t].schema
               d == [c \in Cols |-> IF c \in Columns(s) THEN v[c] ELSE Absent]
               k == IF s.pk = <<>> THEN Fresh(mem[t].rows) ELSE KeyOf(s.pk, d)
           IN /\ s.order # <<>> /\ \A c \in Cols \ Columns(s), e \in Vals : v[c] <= e
              /\ k \notin DOMAIN mem[t].rows
              /\ \A u \in s.unique, j \in DOMAIN mem[t].rows : ~Agree(d, mem[t].rows[j], u)
              /\ Execute(With(t, s, Add(mem[t].rows, k, d)), PutRow(t, k, d),
                         unproven, IF s.pk # <<>> /\ Misfiled(t) THEN overlooked \cup {t} ELSE overlooked, torn)
  BY Zenon DEF Insert
<1>2. PICK s : s = mem[t].schema OBVIOUS
<1>3. PICK d : d = [c \in Cols |-> IF c \in Columns(s) THEN v[c] ELSE Absent] OBVIOUS
<1>4. PICK k : k = IF s.pk = <<>> THEN Fresh(mem[t].rows) ELSE KeyOf(s.pk, d) OBVIOUS
<1>5. PICK m : m = [schema |-> s, rows |-> Add(mem[t].rows, k, d)] OBVIOUS
<1>6. PICK blind : blind = IF s.pk # <<>> /\ Misfiled(t) THEN overlooked \cup {t} ELSE overlooked OBVIOUS
<1>7. /\ k \notin DOMAIN mem[t].rows
      /\ \A u \in s.unique, j \in DOMAIN mem[t].rows : ~Agree(d, mem[t].rows[j], u)
      /\ \E ws : Execute([mem EXCEPT ![t] = m], ws, unproven, blind, torn)
  BY <1>1, <1>2, <1>3, <1>4, <1>5, <1>6 DEF With
<1>8. s.pk \in Seq(Cols) BY <1>1, <1>2 DEF TypeInv, Table, GoodSchema, Schemas, Schema
<1>9. ASSUME t \notin unproven \cup orphaned PROVE UniqueIn(m, t \in blind)
  <2>1. UniqueIn(mem[t], t \in overlooked) BY <1>1, <1>9, UniqueForm
  <2>2. ASSUME NEW list \in s.unique PROVE Distinct(m.rows, list)
    <3>1. Distinct(mem[t].rows, list) BY <2>1, <1>2 DEF UniqueIn
    <3>2. \A j \in DOMAIN mem[t].rows : ~Agree(d, mem[t].rows[j], list) BY <1>7
    <3>3. Distinct(Add(mem[t].rows, k, d), list) BY <3>1, <3>2, <1>7, DistinctAdd
    <3> QED BY <3>3, <1>5
  <2>3. ASSUME t \notin blind PROVE Distinct(m.rows, s.pk)
    <3>1. t \notin overlooked /\ (s.pk # <<>> => ~Misfiled(t)) BY <2>3, <1>6
    <3>2. Distinct(mem[t].rows, s.pk) BY <3>1, <2>1, <1>2 DEF UniqueIn
    <3>3. ASSUME NEW j \in DOMAIN mem[t].rows, s.pk # <<>>, Agree(d, mem[t].rows[j], s.pk) PROVE FALSE
      <4>1. j = KeyOf(s.pk, mem[t].rows[j]) BY <3>1, <3>3, <1>2 DEF Misfiled
      <4>2. KeyOf(s.pk, d) = KeyOf(s.pk, mem[t].rows[j]) BY <3>3, <1>8, AgreeKey
      <4> QED BY <4>1, <4>2, <3>3, <1>4, <1>7
    <3>4. Distinct(Add(mem[t].rows, k, d), s.pk) BY <3>2, <3>3, <1>7, DistinctAdd
    <3> QED BY <3>4, <1>5
  <2> QED BY <2>2, <2>3, <1>5 DEF UniqueIn
<1>10. overlooked \subseteq blind BY <1>6
<1> QED BY <1>7, <1>9, <1>10, OneUnique

LEMMA DropTableUnique == TypeInv /\ UniqueHolds /\ DropTable => UniqueHolds'
<1> SUFFICES ASSUME TypeInv, UniqueHolds, DropTable PROVE UniqueHolds'
  OBVIOUS
<1>1. PICK gone \in SUBSET Tables :
        /\ gone # {} /\ \A t \in gone : mem[t] # None
        /\ \A u \in Tables \ gone : mem[u] # None => \A f \in mem[u].schema.fks : f.table \notin gone
        /\ Execute([t \in Tables |-> IF t \in gone THEN None ELSE mem[t]],
                   LET order == SetToSeq(gone) IN InTurn([i \in DOMAIN order |-> DeleteTable(order[i])]),
                   unproven \ gone, overlooked \ gone, torn)
  BY Zenon DEF DropTable
<1>2. PICK mem2 : mem2 = [t \in Tables |-> IF t \in gone THEN None ELSE mem[t]] OBVIOUS
<1>3. PICK ws : Execute(mem2, ws, unproven \ gone, overlooked \ gone, torn) BY <1>1, <1>2
<1>4. ASSUME NEW t \in Tables \ ((unproven \ gone) \cup orphaned), mem2[t] # None
      PROVE  UniqueIn(mem2[t], t \in overlooked \ gone)
  <2>1. t \notin gone /\ mem2[t] = mem[t] BY <1>2, <1>4
  <2>2. UniqueIn(mem[t], t \in overlooked) BY <2>1, <1>4, UniqueForm
  <2> QED BY <2>1, <2>2 DEF UniqueIn
<1> QED BY <1>3, <1>4, ExecuteUnique

LEMMA TruncateTableUnique == TypeInv /\ UniqueHolds /\ TruncateTable => UniqueHolds'
<1> SUFFICES ASSUME TypeInv, UniqueHolds, TruncateTable PROVE UniqueHolds'
  OBVIOUS
<1>1. PICK t \in Tables :
        Execute(With(t, mem[t].schema, NoRows), DeleteRows(t), unproven \ {t}, overlooked \ {t}, torn)
  BY DEF TruncateTable
<1>2. PICK m : m = [schema |-> mem[t].schema, rows |-> NoRows] OBVIOUS
<1>3. PICK ws : Execute([mem EXCEPT ![t] = m], ws, unproven \ {t}, overlooked \ {t}, torn) BY <1>1, <1>2 DEF With
<1>4. \A blind : UniqueIn(m, blind) BY <1>2, EmptyDistinct DEF UniqueIn
<1> QED BY <1>3, <1>4, OneUnique

LEMMA RenameTableUnique == TypeInv /\ UniqueHolds /\ RenameTable => UniqueHolds'
<1> SUFFICES ASSUME TypeInv, UniqueHolds, RenameTable PROVE UniqueHolds'
  OBVIOUS
<1>1. PICK from \in Tables, to \in Tables :
        /\ mem[from] # None /\ mem[to] = None
        /\ LET Follows(set, doubt) == IF doubt THEN (set \ {from}) \cup {to} ELSE set \ {to}
           IN Execute([mem EXCEPT ![to] = mem[from], ![from] = None],
                      DeleteTable(from) \o PutSchema(to, mem[from].schema) \o PutRows(to, mem[from].rows),
                      Follows(unproven, from \in unproven \cup orphaned), Follows(overlooked, from \in overlooked),
                      IF from \in torn THEN torn \cup {to} ELSE torn \ {to})
  BY Zenon DEF RenameTable
<1>2. PICK mem2 : mem2 = [mem EXCEPT ![to] = mem[from], ![from] = None] OBVIOUS
<1>3. from # to /\ mem2[from] = None /\ mem2[to] = mem[from] /\ \A t \in Tables \ {from, to} : mem2[t] = mem[t]
  <2>1. from # to BY <1>1
  <2> QED BY <2>1, <1>2 DEF TypeInv
<1>4. PICK doubts, blind :
        /\ doubts = IF from \in unproven \cup orphaned THEN (unproven \ {from}) \cup {to} ELSE unproven \ {to}
        /\ blind = IF from \in overlooked THEN (overlooked \ {from}) \cup {to} ELSE overlooked \ {to}
  OBVIOUS
<1>5. PICK ws, tears : Execute(mem2, ws, doubts, blind, tears) BY <1>1, <1>2, <1>4
<1>6. ASSUME NEW t \in Tables \ (doubts \cup orphaned), mem2[t] # None PROVE UniqueIn(mem2[t], t \in blind)
  <2>1. CASE t = to
    <3>1. from \notin unproven \cup orphaned /\ (from \in overlooked => t \in blind) BY <2>1, <1>4, <1>6
    <3>2. UniqueIn(mem[from], from \in overlooked) BY <3>1, <1>1, UniqueForm
    <3> QED BY <3>1, <3>2, <2>1, <1>3 DEF UniqueIn
  <2>2. CASE t \notin {from, to}
    <3>1. mem2[t] = mem[t] /\ t \notin unproven \cup orphaned /\ (t \in overlooked => t \in blind)
      BY <2>2, <1>3, <1>4, <1>6
    <3>2. UniqueIn(mem[t], t \in overlooked) BY <3>1, <1>6, UniqueForm
    <3> QED BY <3>1, <3>2 DEF UniqueIn
  <2> QED BY <2>1, <2>2, <1>3, <1>6
<1> QED BY <1>5, <1>6, ExecuteUnique

\* What a SELECT gives has no key and no unique list.
LEMMA SelectedUnique ==
  ASSUME NEW u
  PROVE  \A blind : UniqueIn(Selected(u), blind)
<1>1. Selected(u).schema = [EmptySchema EXCEPT !.order = mem[u].schema.order] BY DEF Selected
<1>2. Selected(u).schema.unique = {} /\ Selected(u).schema.pk = <<>> BY <1>1 DEF EmptySchema
<1> QED BY <1>2 DEF UniqueIn, Distinct

LEMMA CreateTableAsUnique == TypeInv /\ UniqueHolds /\ CreateTableAs => UniqueHolds'
<1> SUFFICES ASSUME TypeInv, UniqueHolds, CreateTableAs PROVE UniqueHolds'
  OBVIOUS
<1>1. PICK t \in Tables, u \in Tables : \E ws, tears :
        Execute([mem EXCEPT ![t] = Selected(u)], ws, unproven \ {t}, overlooked \ {t}, tears)
  BY Zenon DEF CreateTableAs
<1> QED BY <1>1, SelectedUnique, OneUnique

LEMMA ReplaceTableUnique == TypeInv /\ UniqueHolds /\ ReplaceTable => UniqueHolds'
<1> SUFFICES ASSUME TypeInv, UniqueHolds, ReplaceTable PROVE UniqueHolds'
  OBVIOUS
<1>1. PICK t \in Tables, u \in Tables : \E ws, tears :
        Execute([mem EXCEPT ![t] = Selected(u)], ws, unproven \ {t}, overlooked \ {t}, tears)
  BY Zenon DEF ReplaceTable
<1> QED BY <1>1, SelectedUnique, OneUnique

\* A reopen gives the rows, and the key in another order; a table with writes in hand is in doubt.
LEMMA ReopenUnique == TypeInv /\ DiskInv /\ UniqueHolds /\ Reopen => UniqueHolds'
<1> SUFFICES ASSUME TypeInv, DiskInv, UniqueHolds, Reopen PROVE UniqueHolds'
  OBVIOUS
<1>1. PICK n \in 0..Len(todo) :
        /\ store' = After(n) /\ mem' = [t \in Tables |-> Loaded(store'[t])] /\ overlooked' = overlooked
        /\ orphaned \subseteq orphaned' /\ unproven' = unproven \cup {t \in Tables : InHand(t)}
  BY DEF Reopen
<1>2. ASSUME NEW t \in Tables \ (unproven' \cup orphaned'), mem'[t] # None
      PROVE  /\ \A list \in mem'[t].schema.unique : Distinct(mem'[t].rows, list)
             /\ t \in overlooked' \/ Distinct(mem'[t].rows, mem'[t].schema.pk)
  <2>1. t \notin unproven \cup orphaned /\ ~InHand(t) BY <1>1, <1>2
  <2>2. todo \in Seq(Command) /\ DOMAIN todo = 1..Len(todo) BY DEF TypeInv
  <2>3. Untouched(todo, t) BY <2>1, <2>2 DEF InHand, Untouched
  <2>4. Rest(store[t], mem[t], TRUE)
    <3>1. (t \notin orphaned) = TRUE BY <2>1
    <3>2. Rest(store[t], mem[t], t \notin orphaned) BY <2>3, AtRest
    <3> QED BY <3>1, <3>2
  <2>5. PICK x \in Entry : x = store[t] /\ store'[t] = x
    <3>1. PICK x \in Entry : x = store[t] BY DEF TypeInv
    <3>2. Leads(x, t, todo, x, {x}) BY <2>2, <2>3, LeadsNone DEF Untouched
    <3>3. Course(x, t, todo)[n] \in {x} BY <2>2, <3>2, CourseDef
    <3> QED BY <3>1, <3>3, <1>1 DEF After
  <2>6. mem'[t] = Loaded(x) BY <2>5, <1>1
  <2>7. x.known /\ mem[t] # None BY <2>4, <2>5, <2>6, <1>2, LoadedFacts DEF Rest
  <2>8. PICK m \in Table : m = mem[t] BY <2>7 DEF TypeInv
  <2>9. m.schema \in GoodSchema /\ m.schema.pk \in Seq(Cols) BY DEF Table, GoodSchema, Schemas, Schema
  <2>10. PICK l : l = [schema |-> Sortedly(m.schema), rows |-> m.rows] /\ l = Loaded(x)
    <3>1. Filed(x) /\ x.rows = m.rows /\ Form(x) = Sortedly(m.schema) BY <2>4, <2>5, <2>7, <2>8 DEF Rest
    <3> QED BY <3>1, <2>7, LoadedFacts
  <2>11. l.schema = Sortedly(m.schema) /\ l.rows = m.rows
    <3>1. PICK s, r : s = Sortedly(m.schema) /\ r = m.rows /\ l = [schema |-> s, rows |-> r] BY <2>10
    <3> QED BY <3>1
  <2>12. /\ mem'[t].schema.unique = m.schema.unique /\ mem'[t].schema.pk = SortedList(m.schema.pk)
         /\ mem'[t].rows = m.rows
    <3>1. Sortedly(m.schema).unique = m.schema.unique /\ Sortedly(m.schema).pk = SortedList(m.schema.pk)
      BY <2>9, SortedlyFacts DEF GoodSchema
    <3> QED BY <3>1, <2>6, <2>10, <2>11
  <2>13. UniqueIn(m, t \in overlooked) BY <2>1, <2>7, <2>8, UniqueForm
  <2>14. Distinct(m.rows, m.schema.pk) => Distinct(m.rows, SortedList(m.schema.pk))
    BY <2>9, SortedFacts, DistinctOf
  <2> QED BY <2>12, <2>13, <2>14, <1>1 DEF UniqueIn
<1> QED BY <1>2 DEF UniqueHolds

\* The rows of a table agree on no unique list and, with the exceptions that the
\* histories unproven, orphaned and overlooked name, on no primary key.
THEOREM UniqueAlways == Spec => []UniqueHolds
<1>1. Init => UniqueHolds
  <2> SUFFICES ASSUME Init PROVE UniqueHolds
    OBVIOUS
  <2>1. \A t \in Tables : mem[t] = None BY DEF Init
  <2> QED BY <2>1 DEF UniqueHolds
<1>2. TypeInv /\ DiskInv /\ UniqueHolds /\ [Next]_vars => UniqueHolds'
  <2> SUFFICES ASSUME TypeInv, DiskInv, UniqueHolds, [Next]_vars PROVE UniqueHolds'
    OBVIOUS
  <2>1. CASE CreateTable BY <2>1, CreateTableUnique
  <2>2. CASE AlterTable BY <2>2, AlterTableUnique
  <2>3. CASE CreateIndex BY <2>3, CreateIndexUnique
  <2>4. CASE DropIndex BY <2>4, DropIndexUnique
  <2>5. CASE DropIndexFrom BY <2>5, DropIndexFromUnique
  <2>6. CASE Insert BY <2>6, InsertUnique
  <2>7. CASE DropTable BY <2>7, DropTableUnique
  <2>8. CASE TruncateTable BY <2>8, TruncateTableUnique
  <2>9. CASE RenameTable BY <2>9, RenameTableUnique
  <2>10. CASE CreateTableAs BY <2>10, CreateTableAsUnique
  <2>11. CASE ReplaceTable BY <2>11, ReplaceTableUnique
  <2>12. CASE Finish BY <2>12 DEF Finish, UniqueHolds
  <2>13. CASE Reopen BY <2>13, ReopenUnique
  <2>14. CASE UNCHANGED vars BY <2>14 DEF vars, UniqueHolds
  <2> QED BY <2>1, <2>2, <2>3, <2>4, <2>5, <2>6, <2>7, <2>8, <2>9, <2>10, <2>11, <2>12, <2>13, <2>14 DEF Next
<1> QED BY <1>1, <1>2, TypeCorrect, DiskCorrect, PTL DEF Spec

-----------------------------------------------------------------------------
(* What clients are told                                                   *)

\* A unique list is shown under the name of an index over it or of its first column.
LEMMA UniqueNameFacts ==
  ASSUME NEW s, NEW u
  PROVE  \/ \E x \in s.indexes : x.unique /\ x.cols = u /\ UniqueName(s, u) = x.name
         \/ UniqueName(s, u) = u[1] /\ \A x \in s.indexes : ~(x.unique /\ x.cols = u)
<1> DEFINE named == {x \in s.indexes : x.unique /\ x.cols = u}
<1>1. UniqueName(s, u) = IF named = {} THEN u[1] ELSE (CHOOSE x \in named : TRUE).name
  BY DEF UniqueName
<1>2. CASE named = {} BY <1>1, <1>2
<1>3. CASE named # {}
  <2>1. PICK x \in named : x = CHOOSE y \in named : TRUE BY <1>3
  <2> QED BY <2>1, <1>1, <1>3
<1> QED BY <1>2, <1>3

\* The columns of the usage of a list, in the order of their positions.
Gathered(rows) == [i \in {r.pos : r \in rows} |-> {r.col : r \in {r \in rows : r.pos = i}}]

LEMMA UsageFacts ==
  ASSUME NEW name, NEW list, NEW table, NEW refcols, NEW rows, rows = Usage(name, list, table, refcols)
  PROVE  Gathered(rows) = OneEach(list)
<1> DEFINE Line(i) == [name |-> name, col |-> list[i], pos |-> i, table |-> table,
                       ref |-> IF i \in DOMAIN refcols THEN refcols[i] ELSE None]
<1>1. rows = {Line(i) : i \in DOMAIN list} BY DEF Usage
<1>2. \A i : Line(i).pos = i /\ Line(i).col = list[i] OBVIOUS
<1> HIDE DEF Line
<1>3. {r.pos : r \in rows} = DOMAIN list
  <2>1. \A r \in rows : r.pos \in DOMAIN list BY <1>1, <1>2
  <2>2. \A i \in DOMAIN list : Line(i) \in rows BY <1>1
  <2> QED BY <2>1, <2>2, <1>2
<1>4. ASSUME NEW i \in DOMAIN list PROVE {r.col : r \in {r \in rows : r.pos = i}} = {list[i]}
  <2>1. Line(i) \in {r \in rows : r.pos = i} BY <1>1, <1>2
  <2>2. \A r \in {r \in rows : r.pos = i} : r.col = list[i] BY <1>1, <1>2
  <2> QED BY <2>1, <2>2, <1>2
<1>5. [i \in {r.pos : r \in rows} |-> {r.col : r \in {r \in rows : r.pos = i}}]
      = [i \in DOMAIN list |-> {list[i]}]
  BY <1>3, <1>4
<1> QED BY <1>5 DEF OneEach, Gathered

\* The rows of a constraint are those of the lists that are shown as it is.
Shown(s, k) == {u.row : u \in {u \in ConstraintUsage(s) : u.row.name = k.name /\ u.type = k.type}}

LEMMA RowNames ==
  ASSUME NEW name, NEW list, NEW table, NEW refcols, NEW r \in Usage(name, list, table, refcols)
  PROVE  r.name = name /\ r.table = table
BY DEF Usage

LEMMA ShownPrimary ==
  ASSUME NEW s
  PROVE  Shown(s, [name |-> Primary, type |-> "primary"]) = Usage(Primary, s.pk, None, <<>>)
<1> DEFINE U == Usage(Primary, s.pk, None, <<>>)
<1>1. ASSUME NEW u \in ConstraintUsage(s), u.type = "primary" PROVE u.row \in U
  <2> HIDE DEF U
  <2>1. \/ u \in {[type |-> "primary", row |-> r] : r \in U}
        \/ u \in UNION {{[type |-> "unique", row |-> r] : r \in Usage(UniqueName(s, v), v, None, <<>>)} : v \in s.unique}
        \/ u \in UNION {{[type |-> "foreign", row |-> r] : r \in Usage(f.name, f.cols, f.table, f.refcols)} : f \in s.fks}
    BY DEF ConstraintUsage, U
  <2> QED BY <2>1, <1>1
<1>2. ASSUME NEW r \in U PROVE [type |-> "primary", row |-> r] \in ConstraintUsage(s) /\ r.name = Primary
  <2>1. r.name = Primary BY RowNames
  <2> QED BY <2>1 DEF ConstraintUsage
<1> HIDE DEF U
<1>3. PICK k : k = [name |-> Primary, type |-> "primary"]
  OBVIOUS
<1>4. k.name = Primary /\ k.type = "primary" BY <1>3
<1>5. Shown(s, k) \subseteq U BY <1>1, <1>4 DEF Shown
<1>6. ASSUME NEW r \in U PROVE r \in Shown(s, k)
  <2>1. PICK u : u = [type |-> "primary", row |-> r] OBVIOUS
  <2>2. u.row = r /\ u.type = "primary" BY <2>1
  <2>3. u \in ConstraintUsage(s) /\ r.name = Primary BY <2>1, <1>2
  <2> QED BY <2>2, <2>3, <1>4 DEF Shown
<1> QED BY <1>3, <1>5, <1>6 DEF U

LEMMA ShownUnique ==
  ASSUME NEW s, NEW l \in s.unique, \A v \in s.unique : UniqueName(s, v) = UniqueName(s, l) => v = l
  PROVE  Shown(s, [name |-> UniqueName(s, l), type |-> "unique"]) = Usage(UniqueName(s, l), l, None, <<>>)
<1> DEFINE U == Usage(UniqueName(s, l), l, None, <<>>)
<1>1. ASSUME NEW u \in ConstraintUsage(s), u.type = "unique", u.row.name = UniqueName(s, l) PROVE u.row \in U
  <2> HIDE DEF U
  <2>1. \/ u \in {[type |-> "primary", row |-> r] : r \in Usage(Primary, s.pk, None, <<>>)}
        \/ u \in UNION {{[type |-> "unique", row |-> r] : r \in Usage(UniqueName(s, v), v, None, <<>>)} : v \in s.unique}
        \/ u \in UNION {{[type |-> "foreign", row |-> r] : r \in Usage(f.name, f.cols, f.table, f.refcols)} : f \in s.fks}
    BY DEF ConstraintUsage
  <2>2. PICK v \in s.unique : u.row \in Usage(UniqueName(s, v), v, None, <<>>) BY <2>1, <1>1
  <2>3. UniqueName(s, v) = UniqueName(s, l) BY <2>2, <1>1, RowNames
  <2>4. v = l BY <2>3
  <2> QED BY <2>2, <2>4 DEF U
<1>2. ASSUME NEW r \in U PROVE [type |-> "unique", row |-> r] \in ConstraintUsage(s) /\ r.name = UniqueName(s, l)
  <2>1. r.name = UniqueName(s, l) BY RowNames
  <2> QED BY <2>1 DEF ConstraintUsage
<1> HIDE DEF U
<1>3. PICK k : k = [name |-> UniqueName(s, l), type |-> "unique"]
  OBVIOUS
<1>4. k.name = UniqueName(s, l) /\ k.type = "unique" BY <1>3
<1>5. Shown(s, k) \subseteq U BY <1>1, <1>4 DEF Shown
<1>6. ASSUME NEW r \in U PROVE r \in Shown(s, k)
  <2>1. PICK u : u = [type |-> "unique", row |-> r] OBVIOUS
  <2>2. u.row = r /\ u.type = "unique" BY <2>1
  <2>3. u \in ConstraintUsage(s) /\ r.name = UniqueName(s, l) BY <2>1, <1>2
  <2> QED BY <2>2, <2>3, <1>4 DEF Shown
<1> QED BY <1>3, <1>5, <1>6 DEF U

LEMMA ShownForeign ==
  ASSUME NEW s, NEW f \in s.fks, \A g \in s.fks : g.name = f.name => g = f
  PROVE  Shown(s, [name |-> f.name, type |-> "foreign"]) = Usage(f.name, f.cols, f.table, f.refcols)
<1> DEFINE U == Usage(f.name, f.cols, f.table, f.refcols)
<1>1. ASSUME NEW u \in ConstraintUsage(s), u.type = "foreign", u.row.name = f.name PROVE u.row \in U
  <2> HIDE DEF U
  <2>1. \/ u \in {[type |-> "primary", row |-> r] : r \in Usage(Primary, s.pk, None, <<>>)}
        \/ u \in UNION {{[type |-> "unique", row |-> r] : r \in Usage(UniqueName(s, v), v, None, <<>>)} : v \in s.unique}
        \/ u \in UNION {{[type |-> "foreign", row |-> r] : r \in Usage(g.name, g.cols, g.table, g.refcols)} : g \in s.fks}
    BY DEF ConstraintUsage
  <2>2. PICK g \in s.fks : u.row \in Usage(g.name, g.cols, g.table, g.refcols) BY <2>1, <1>1
  <2>3. g.name = f.name BY <2>2, <1>1, RowNames
  <2>4. g = f BY <2>3
  <2> QED BY <2>2, <2>4 DEF U
<1>2. ASSUME NEW r \in U PROVE [type |-> "foreign", row |-> r] \in ConstraintUsage(s) /\ r.name = f.name
  <2>1. r.name = f.name BY RowNames
  <2>2. [type |-> "foreign", row |-> r]
        \in UNION {{[type |-> "foreign", row |-> q] : q \in Usage(g.name, g.cols, g.table, g.refcols)} : g \in s.fks}
    OBVIOUS
  <2> QED BY <2>1, <2>2 DEF ConstraintUsage
<1> HIDE DEF U
<1>3. PICK k : k = [name |-> f.name, type |-> "foreign"]
  OBVIOUS
<1>4. k.name = f.name /\ k.type = "foreign" BY <1>3
<1>5. Shown(s, k) \subseteq U BY <1>1, <1>4 DEF Shown
<1>6. ASSUME NEW r \in U PROVE r \in Shown(s, k)
  <2>1. PICK u : u = [type |-> "foreign", row |-> r] OBVIOUS
  <2>2. u.row = r /\ u.type = "foreign" BY <2>1
  <2>3. u \in ConstraintUsage(s) /\ r.name = f.name BY <2>1, <1>2
  <2> QED BY <2>2, <2>3, <1>4 DEF Shown
<1> QED BY <1>3, <1>5, <1>6 DEF U

\* What it is for lists to be shown under names of their own.
LEMMA ApartNames ==
  ASSUME NEW s, ~Homonyms(s)
  PROVE  /\ \A u, v \in s.unique : UniqueName(s, u) = UniqueName(s, v) => u = v
         /\ \A u \in s.unique, x \in s.indexes : ~x.unique => UniqueName(s, u) # x.name
         /\ \A x, y \in s.indexes : ~x.unique /\ ~y.unique /\ x.name = y.name => x.cols = y.cols
<1> DEFINE A == {<<UniqueName(s, u), u, TRUE>> : u \in s.unique}
           B == {<<x.name, x.cols, FALSE>> : x \in {x \in s.indexes : ~x.unique}}
<1>1. \A k, l \in A \cup B : k[1] = l[1] => k = l
  BY DEF Homonyms
<1>2. ASSUME NEW u \in s.unique PROVE <<UniqueName(s, u), u, TRUE>> \in A \cup B
  OBVIOUS
<1>3. ASSUME NEW x \in s.indexes, ~x.unique PROVE <<x.name, x.cols, FALSE>> \in A \cup B
  <2>1. x \in {y \in s.indexes : ~y.unique} BY <1>3
  <2> QED BY <2>1
<1> HIDE DEF A, B
<1>4. ASSUME NEW u \in s.unique, NEW v \in s.unique, UniqueName(s, u) = UniqueName(s, v) PROVE u = v
  <2>1. PICK k \in A \cup B : k = <<UniqueName(s, u), u, TRUE>> BY <1>2
  <2>2. PICK l \in A \cup B : l = <<UniqueName(s, v), v, TRUE>> BY <1>2
  <2>3. k[1] = l[1] /\ k[2] = u /\ l[2] = v BY <2>1, <2>2, <1>4
  <2> QED BY <2>3, <1>1
<1>5. ASSUME NEW u \in s.unique, NEW x \in s.indexes, ~x.unique PROVE UniqueName(s, u) # x.name
  <2>1. PICK k \in A \cup B : k = <<UniqueName(s, u), u, TRUE>> BY <1>2
  <2>2. PICK l \in A \cup B : l = <<x.name, x.cols, FALSE>> BY <1>3, <1>5
  <2>3. k[1] = UniqueName(s, u) /\ l[1] = x.name /\ k[3] = TRUE /\ l[3] = FALSE BY <2>1, <2>2
  <2> QED BY <2>3, <1>1
<1>6. ASSUME NEW x \in s.indexes, NEW y \in s.indexes, ~x.unique, ~y.unique, x.name = y.name PROVE x.cols = y.cols
  <2>1. PICK k \in A \cup B : k = <<x.name, x.cols, FALSE>> BY <1>3, <1>6
  <2>2. PICK l \in A \cup B : l = <<y.name, y.cols, FALSE>> BY <1>3, <1>6
  <2>3. k[1] = l[1] /\ k[2] = x.cols /\ l[2] = y.cols BY <2>1, <2>2, <1>6
  <2> QED BY <2>3, <1>1
<1> QED BY <1>4, <1>5, <1>6

\* A client that joins the two views finds the columns of every key.
LEMMA KeysFound ==
  ASSUME NEW s \in Schema, Orderly(s, TRUE), ~Homonyms(s)
  PROVE  {ColumnsOf(s, k) : k \in TableConstraints(s)} =
           {OneEach(list) : list \in ({s.pk} \ {<<>>}) \cup s.unique \cup {f.cols : f \in s.fks}}
<1> DEFINE Lists0 == ({s.pk} \ {<<>>}) \cup s.unique \cup {f.cols : f \in s.fks}
           P == {[name |-> Primary, type |-> "primary"] : c \in Range(s.pk)}
           U == {[name |-> UniqueName(s, u), type |-> "unique"] : u \in s.unique}
           F == {[name |-> f.name, type |-> "foreign"] : f \in s.fks}
<1>1. ASSUME NEW k, NEW name, NEW list, NEW table, NEW refcols, Shown(s, k) = Usage(name, list, table, refcols)
      PROVE  ColumnsOf(s, k) = OneEach(list)
  <2>1. PICK rows : rows = Shown(s, k) OBVIOUS
  <2>2. ColumnsOf(s, k) = Gathered(rows)
    BY <2>1, Zenon DEF ColumnsOf, Shown, Gathered
  <2>3. rows = Usage(name, list, table, refcols) BY <2>1, <1>1
  <2>4. Gathered(rows) = OneEach(list) BY <2>3, UsageFacts
  <2> QED BY <2>2, <2>4
<1>2. ColumnsOf(s, [name |-> Primary, type |-> "primary"]) = OneEach(s.pk)
  BY <1>1, ShownPrimary
<1>3. ASSUME NEW u \in s.unique PROVE ColumnsOf(s, [name |-> UniqueName(s, u), type |-> "unique"]) = OneEach(u)
  <2>1. \A v \in s.unique : UniqueName(s, v) = UniqueName(s, u) => v = u BY ApartNames
  <2> QED BY <2>1, <1>1, ShownUnique
<1>4. ASSUME NEW f \in s.fks PROVE ColumnsOf(s, [name |-> f.name, type |-> "foreign"]) = OneEach(f.cols)
  <2>1. \A g \in s.fks : g.name = f.name => g = f BY DEF Orderly
  <2> QED BY <2>1, <1>1, ShownForeign
<1>5. TableConstraints(s) = P \cup U \cup F
  BY DEF TableConstraints
<1>6. s.pk \in Seq(Cols) /\ (Range(s.pk) = {} <=> s.pk = <<>>)
  <2>1. PICK p \in Seq(Cols) : p = s.pk BY DEF Schema
  <2>2. p = <<>> => Range(p) = {} BY DEF Range
  <2>3. p # <<>> => p[1] \in Range(p) BY DEF Range
  <2> QED BY <2>1, <2>2, <2>3
<1> DEFINE k0 == [name |-> Primary, type |-> "primary"]
           ku(u) == [name |-> UniqueName(s, u), type |-> "unique"]
           kf(f) == [name |-> f.name, type |-> "foreign"]
<1>7. /\ \A k \in P : k = k0 /\ Range(s.pk) # {}
      /\ Range(s.pk) # {} => k0 \in P
  OBVIOUS
<1>8. (\A k \in U : \E u \in s.unique : k = ku(u)) /\ (\A u \in s.unique : ku(u) \in U)
  OBVIOUS
<1>9. (\A k \in F : \E f \in s.fks : k = kf(f)) /\ (\A f \in s.fks : kf(f) \in F)
  OBVIOUS
<1>10. ColumnsOf(s, k0) = OneEach(s.pk) /\ (\A u \in s.unique : ColumnsOf(s, ku(u)) = OneEach(u))
       /\ (\A f \in s.fks : ColumnsOf(s, kf(f)) = OneEach(f.cols))
  BY <1>2, <1>3, <1>4
<1> HIDE DEF P, U, F, k0, ku, kf
<1>11. ASSUME NEW k \in TableConstraints(s) PROVE \E list \in Lists0 : ColumnsOf(s, k) = OneEach(list)
  <2>1. CASE k \in P
    <3>1. s.pk \in Lists0 BY <2>1, <1>6, <1>7
    <3> QED BY <3>1, <2>1, <1>7, <1>10
  <2>2. CASE k \in U
    <3>1. PICK u \in s.unique : k = ku(u) BY <2>2, <1>8
    <3> QED BY <3>1, <1>10
  <2>3. CASE k \in F
    <3>1. PICK f \in s.fks : k = kf(f) BY <2>3, <1>9
    <3>2. f.cols \in Lists0 OBVIOUS
    <3> QED BY <3>1, <3>2, <1>10
  <2> QED BY <2>1, <2>2, <2>3, <1>5
<1>12. ASSUME NEW list \in Lists0 PROVE \E k \in TableConstraints(s) : ColumnsOf(s, k) = OneEach(list)
  <2>1. CASE list = s.pk /\ s.pk # <<>>
    <3>1. k0 \in TableConstraints(s) BY <2>1, <1>5, <1>6, <1>7
    <3> QED BY <3>1, <2>1, <1>10
  <2>2. CASE list \in s.unique
    <3>1. ku(list) \in TableConstraints(s) BY <2>2, <1>5, <1>8
    <3> QED BY <3>1, <2>2, <1>10
  <2>3. CASE list \in {f.cols : f \in s.fks}
    <3>1. PICK f \in s.fks : list = f.cols BY <2>3
    <3>2. kf(f) \in TableConstraints(s) BY <1>5, <1>9
    <3> QED BY <3>1, <3>2, <1>10
  <2> QED BY <2>1, <2>2, <2>3
<1> HIDE DEF Lists0
<1>13. {ColumnsOf(s, k) : k \in TableConstraints(s)} = {OneEach(list) : list \in Lists0}
  BY <1>11, <1>12
<1> QED BY <1>13 DEF Lists0

\* The rows of key_column_usage that have a parent are those of foreign keys.
LEMMA ForeignRows ==
  ASSUME NEW s \in Schema
  PROVE  /\ \A r \in KeyColumnUsage(s) : r.table = None \/ \E f \in s.fks : r \in Usage(f.name, f.cols, f.table, f.refcols)
         /\ \A f \in s.fks : f.table # None /\ Usage(f.name, f.cols, f.table, f.refcols) \subseteq KeyColumnUsage(s)
<1>1. ASSUME NEW r \in KeyColumnUsage(s)
      PROVE  r.table = None \/ \E f \in s.fks : r \in Usage(f.name, f.cols, f.table, f.refcols)
  <2>1. \/ r \in Usage(Primary, s.pk, None, <<>>)
        \/ \E u \in s.unique : r \in Usage(UniqueName(s, u), u, None, <<>>)
        \/ \E f \in s.fks : r \in Usage(f.name, f.cols, f.table, f.refcols)
    BY DEF KeyColumnUsage
  <2> QED BY <2>1, RowNames
<1>2. ASSUME NEW f \in s.fks PROVE f.table # None
  BY BoundsAssumption DEF Schema, Foreign
<1>3. ASSUME NEW f \in s.fks PROVE Usage(f.name, f.cols, f.table, f.refcols) \subseteq KeyColumnUsage(s)
  BY DEF KeyColumnUsage
<1> QED BY <1>1, <1>2, <1>3

\* A client finds the pairs of columns of every foreign key.
LEMMA PairsFound ==
  ASSUME NEW s \in Schema, Paired(s)
  PROVE  {<<r.col, r.table, r.ref>> : r \in {r \in KeyColumnUsage(s) : r.table # None}} =
           UNION {{<<f.cols[i], f.table, f.refcols[i]>> : i \in DOMAIN f.cols} : f \in s.fks}
<1> DEFINE R == {r \in KeyColumnUsage(s) : r.table # None}
           Pairs(f) == {<<f.cols[i], f.table, f.refcols[i]>> : i \in DOMAIN f.cols}
<1>1. ASSUME NEW f \in s.fks PROVE DOMAIN f.cols = DOMAIN f.refcols
  <2>1. f.cols \in Seq(Cols) /\ f.refcols \in Seq(Cols) BY ListFacts DEF Schema, Foreign
  <2> QED BY <2>1 DEF Paired
<1>2. ASSUME NEW f \in s.fks, NEW r \in Usage(f.name, f.cols, f.table, f.refcols)
      PROVE  <<r.col, r.table, r.ref>> \in Pairs(f)
  <2>1. PICK i \in DOMAIN f.cols :
          r = [name |-> f.name, col |-> f.cols[i], pos |-> i, table |-> f.table,
               ref |-> IF i \in DOMAIN f.refcols THEN f.refcols[i] ELSE None]
    BY DEF Usage
  <2>2. r.col = f.cols[i] /\ r.table = f.table /\ r.ref = f.refcols[i] BY <2>1, <1>1
  <2> QED BY <2>2
<1>3. ASSUME NEW f \in s.fks, NEW i \in DOMAIN f.cols
      PROVE  \E r \in R : <<r.col, r.table, r.ref>> = <<f.cols[i], f.table, f.refcols[i]>>
  <2>1. PICK r : r = [name |-> f.name, col |-> f.cols[i], pos |-> i, table |-> f.table,
                      ref |-> IF i \in DOMAIN f.refcols THEN f.refcols[i] ELSE None]
    OBVIOUS
  <2>2. r.col = f.cols[i] /\ r.table = f.table /\ r.ref = f.refcols[i] BY <2>1, <1>1
  <2>3. r \in Usage(f.name, f.cols, f.table, f.refcols) BY <2>1 DEF Usage
  <2>4. r \in R BY <2>2, <2>3, ForeignRows
  <2> QED BY <2>2, <2>4
<1>4. \A r \in R : \E f \in s.fks : r \in Usage(f.name, f.cols, f.table, f.refcols) BY ForeignRows
<1> HIDE DEF R
<1>5. ASSUME NEW r \in R PROVE <<r.col, r.table, r.ref>> \in UNION {Pairs(f) : f \in s.fks}
  <2>1. PICK f \in s.fks : r \in Usage(f.name, f.cols, f.table, f.refcols) BY <1>4
  <2>2. <<r.col, r.table, r.ref>> \in Pairs(f) BY <2>1, <1>2
  <2> HIDE DEF Pairs
  <2> QED BY <2>2
<1>6. ASSUME NEW p \in UNION {Pairs(f) : f \in s.fks} PROVE p \in {<<r.col, r.table, r.ref>> : r \in R}
  <2>1. PICK f \in s.fks : p \in Pairs(f)
    <3> HIDE DEF Pairs
    <3> QED OBVIOUS
  <2>2. PICK i \in DOMAIN f.cols : p = <<f.cols[i], f.table, f.refcols[i]>> BY <2>1
  <2>3. PICK r \in R : <<r.col, r.table, r.ref>> = p BY <2>2, <1>3
  <2> QED BY <2>3
<1>7. {<<r.col, r.table, r.ref>> : r \in R} = UNION {Pairs(f) : f \in s.fks}
  <2> HIDE DEF Pairs
  <2> QED BY <1>5, <1>6
<1> QED BY <1>7 DEF R

\* It finds the parents, in either view.
LEMMA ParentsFound ==
  ASSUME NEW s \in Schema, Orderly(s, TRUE), NEW t
  PROVE  /\ {k.name : k \in {k \in TableConstraints(s) : k.type = "foreign"}} = {r.name : r \in ReferentialConstraints(s, t)}
         /\ \A r \in ReferentialConstraints(s, t) :
              \A u \in KeyColumnUsage(s) : u.name = r.name => u.table \in {r.parent, None}
<1> DEFINE kf(f) == [name |-> f.name, type |-> "foreign"]
           rf(f) == [name |-> f.name, table |-> t, parent |-> f.table]
<1>1. \A f \in s.fks : kf(f).name = f.name /\ kf(f).type = "foreign" /\ rf(f).name = f.name /\ rf(f).parent = f.table
  OBVIOUS
<1>2. ReferentialConstraints(s, t) = {rf(f) : f \in s.fks}
  BY DEF ReferentialConstraints
<1>3. ASSUME NEW k \in TableConstraints(s), k.type = "foreign" PROVE \E f \in s.fks : k = kf(f)
  BY <1>3 DEF TableConstraints
<1>4. \A f \in s.fks : kf(f) \in TableConstraints(s)
  BY DEF TableConstraints
<1> HIDE DEF kf, rf
<1>5. {k.name : k \in {k \in TableConstraints(s) : k.type = "foreign"}} = {f.name : f \in s.fks}
  <2>1. \A k \in TableConstraints(s) : k.type = "foreign" => k.name \in {f.name : f \in s.fks} BY <1>1, <1>3
  <2>2. \A f \in s.fks : kf(f) \in {k \in TableConstraints(s) : k.type = "foreign"} BY <1>1, <1>4
  <2> QED BY <2>1, <2>2, <1>1
<1>6. {r.name : r \in ReferentialConstraints(s, t)} = {f.name : f \in s.fks}
  BY <1>1, <1>2
<1>7. ASSUME NEW f \in s.fks, NEW u \in KeyColumnUsage(s), u.name = f.name PROVE u.table \in {f.table, None}
  <2>1. SUFFICES ASSUME u.table # None PROVE u.table = f.table OBVIOUS
  <2>2. PICK g \in s.fks : u \in Usage(g.name, g.cols, g.table, g.refcols) BY <2>1, ForeignRows
  <2>3. u.name = g.name /\ u.table = g.table BY <2>2, RowNames
  <2>4. g = f BY <2>3, <1>7 DEF Orderly
  <2> QED BY <2>3, <2>4
<1> QED BY <1>1, <1>2, <1>5, <1>6, <1>7

\* The drift report finds the lists that rows agree on.
LEMMA DuplicatesFound ==
  ASSUME NEW s \in Schema, NEW rows
  PROVE  {d.cols : d \in Duplicates(s, rows)} = {u \in s.unique : ~Distinct(rows, u)}
<1> DEFINE J(u) == {j \in DOMAIN rows : \E k \in DOMAIN rows \ {j} : Agree(rows[j], rows[k], u)}
           D(u, j) == [cols |-> u, keys |-> {k \in DOMAIN rows : Agree(rows[j], rows[k], u)}]
           Found(u) == {D(u, j) : j \in J(u)}
<1>1. Duplicates(s, rows) = UNION {Found(u) : u \in s.unique} BY Zenon DEF Duplicates
<1>2. \A u, j : D(u, j).cols = u OBVIOUS
<1>3. ASSUME NEW u \in s.unique PROVE J(u) # {} <=> ~Distinct(rows, u)
  <2>1. u # <<>> BY ListFacts DEF Schema
  <2> QED BY <2>1 DEF Distinct
<1> HIDE DEF J, D
<1>4. \A u : \A d \in Found(u) : d.cols = u /\ J(u) # {} BY <1>2
<1>5. \A u : J(u) # {} => \E d \in Found(u) : d.cols = u BY <1>2
<1> HIDE DEF Found
<1>6. \A d \in Duplicates(s, rows) : \E u \in s.unique : d \in Found(u) BY <1>1
<1>7. \A u \in s.unique : \A d \in Found(u) : d \in Duplicates(s, rows) BY <1>1
<1> QED BY <1>3, <1>4, <1>5, <1>6, <1>7

\* A column shows the keys it has by itself.
LEMMA ColumnShown ==
  ASSUME NEW s, IndexedKey(s), NEW c
  PROVE  /\ <<c>> \in s.unique \cup {s.pk} => ColumnKey(s, c) \in {"PRI", "UNI"}
         /\ ColumnKey(s, c) = "UNI" => <<c>> \in s.unique \cup {x.cols : x \in Unlisted(s)}
<1> DEFINE lists == s.unique \cup {x.cols : x \in {x \in s.indexes : x.unique}}
<1>1. /\ c \in Range(s.pk) => ColumnKey(s, c) = "PRI"
      /\ c \notin Range(s.pk) /\ <<c>> \in lists => ColumnKey(s, c) = "UNI"
      /\ ColumnKey(s, c) = "UNI" => c \notin Range(s.pk) /\ <<c>> \in lists
  BY DEF ColumnKey
<1>2. Range(<<c>>) = {c} BY DEF Range
<1>3. s.pk = <<c>> => c \in Range(s.pk)
  <2>1. c \in Range(<<c>>) BY <1>2
  <2> QED BY <2>1, Zenon
<1>4. ASSUME NEW x \in s.indexes, x.unique, x.cols = <<c>>, c \notin Range(s.pk), <<c>> \notin s.unique
      PROVE  x \in Unlisted(s)
  <2>1. Range(x.cols) = {c} BY <1>2, <1>4, Zenon
  <2>2. Range(x.cols) # Range(s.pk) BY <2>1, <1>4
  <2>3. x.name # Primary BY <2>2 DEF IndexedKey
  <2> QED BY <2>3, <1>4 DEF Unlisted
<1>5. ASSUME <<c>> \in lists, <<c>> \notin s.unique, c \notin Range(s.pk)
      PROVE  <<c>> \in {x.cols : x \in Unlisted(s)}
  <2>1. PICK x \in s.indexes : x.unique /\ x.cols = <<c>> BY <1>5
  <2>2. x \in Unlisted(s) BY <2>1, <1>4, <1>5
  <2> QED BY <2>1, <2>2
<1> HIDE DEF lists
<1>6. s.unique \subseteq lists BY DEF lists
<1> QED BY <1>1, <1>3, <1>5, <1>6

LEMMA ColumnsShown ==
  ASSUME NEW s \in Schema, IndexedKey(s), NEW r \in ColumnRows(s)
  PROVE  /\ ShowColumns(s)[r.pos].field = r.col
         /\ <<r.col>> \in s.unique \cup {s.pk} => r.key \in {"PRI", "UNI"}
         /\ r.key = "UNI" => <<r.col>> \in s.unique \cup {x.cols : x \in Unlisted(s)}
<1>1. PICK i \in DOMAIN s.order : r = [col |-> s.order[i], pos |-> i, key |-> ColumnKey(s, s.order[i])]
  BY DEF ColumnRows
<1>2. r.col = s.order[i] /\ r.pos = i /\ r.key = ColumnKey(s, s.order[i]) BY <1>1
<1>3. ShowColumns(s)[i].field = s.order[i] BY DEF ShowColumns
<1> QED BY <1>2, <1>3, ColumnShown

\* A list or an index that is dropped by the name it is shown under is gone.
LEMMA DroppedByName ==
  ASSUME NEW s \in Schema
  PROVE  /\ \A u \in s.unique : u \notin DropUnique(s, UniqueName(s, u)).unique
         /\ \A r : r \notin ShowIndex(DropUnique(s, r.name))
<1>1. ASSUME NEW name
      PROVE  LET hit == {x \in s.indexes : x.name = name \/ Joined(x.cols) = name}
                 d == DropUnique(s, name)
             IN /\ d.indexes = s.indexes \ hit
                /\ d.unique = {u \in s.unique : u[1] # name /\ Joined(u) # name /\ \A x \in hit : x.cols # u}
  BY DEF DropUnique, Schema
<1>2. ASSUME NEW u \in s.unique PROVE u \notin DropUnique(s, UniqueName(s, u)).unique
  <2>1. PICK name : name = UniqueName(s, u) OBVIOUS
  <2>2. CASE \E x \in s.indexes : x.unique /\ x.cols = u /\ name = x.name
    BY <2>1, <2>2, <1>1
  <2>3. CASE name = u[1]
    BY <2>1, <2>3, <1>1
  <2> QED BY <2>1, <2>2, <2>3, UniqueNameFacts
<1>3. ASSUME NEW r PROVE r \notin ShowIndex(DropUnique(s, r.name))
  <2>1. PICK d : d = DropUnique(s, r.name) OBVIOUS
  <2>2. \A x \in d.indexes : x.name # r.name BY <2>1, <1>1
  <2>3. SUFFICES ASSUME r \in ShowIndex(d) PROVE FALSE BY <2>1
  <2>4. PICK x \in d.indexes : \E i \in DOMAIN x.cols :
          r = [name |-> x.name, col |-> x.cols[i], pos |-> i, unique |-> x.unique]
    BY <2>3 DEF ShowIndex
  <2>5. r.name = x.name BY <2>4
  <2> QED BY <2>2, <2>5
<1> QED BY <1>2, <1>3

\* A finite set of constraints in a list.
LEMMA ListedConstraints ==
  ASSUME NEW f, IsFiniteSet(DOMAIN f), \A x \in DOMAIN f : f[x] \in Constraint
  PROVE  LET S == {f[x] : x \in DOMAIN f}
         IN SetToSeq(S) \in Seq(Constraint) /\ Range(SetToSeq(S)) = S
<1> DEFINE S == {f[x] : x \in DOMAIN f}
<1>1. IsFiniteSet(S) BY FiniteImage
<1>2. S \subseteq Constraint OBVIOUS
<1> HIDE DEF S
<1>3. SetToSeq(S) \in Seq(S) /\ Range(SetToSeq(S)) = S BY <1>1, SetToSeqFacts
<1>4. SetToSeq(S) \in Seq(Constraint) BY <1>2, <1>3
<1> QED BY <1>3, <1>4 DEF S

\* The constraints that SHOW CREATE TABLE prints.
PrintedPrimary(s) == IF s.pk = <<>> THEN {} ELSE {[op |-> "primary", cols |-> s.pk]}
PrintedUnique(s) == {[op |-> "unique", name |-> UniqueName(s, u), cols |-> u] : u \in s.unique}
PrintedIndex(s) ==
  {[op |-> "index", name |-> x.name, cols |-> x.cols] : x \in {x \in s.indexes : ~x.unique /\ x.name # Primary}}
PrintedForeign(s) == {[op |-> "foreign", fk |-> f] : f \in s.fks}

\* Each list is one of constraints, of one kind.
LEMMA PrintedLists ==
  ASSUME NEW s \in Schema, Orderly(s, TRUE)
  PROVE  /\ PrintedPrimary(s) \subseteq Constraint
         /\ LET q == SetToSeq(PrintedUnique(s)) IN q \in Seq(Constraint) /\ Range(q) = PrintedUnique(s)
         /\ LET q == SetToSeq(PrintedIndex(s)) IN q \in Seq(Constraint) /\ Range(q) = PrintedIndex(s)
         /\ LET q == SetToSeq(PrintedForeign(s)) IN q \in Seq(Constraint) /\ Range(q) = PrintedForeign(s)
<1>1. PrintedPrimary(s) \subseteq Constraint
  BY DEF PrintedPrimary, Constraint, Schema, ColumnLists
<1>2. LET q == SetToSeq(PrintedUnique(s)) IN q \in Seq(Constraint) /\ Range(q) = PrintedUnique(s)
  <2>1. PICK f : f = [u \in s.unique |-> [op |-> "unique", name |-> UniqueName(s, u), cols |-> u]] OBVIOUS
  <2>2. \A u \in s.unique : UniqueName(s, u) \in Names
    <3>1. \A u \in s.unique : u[1] \in Names BY ListFacts, BoundsAssumption DEF Schema
    <3>2. \A x \in s.indexes : x.name \in Names BY DEF Schema, Index
    <3> QED BY <3>1, <3>2, UniqueNameFacts
  <2>3. DOMAIN f = s.unique /\ IsFiniteSet(DOMAIN f) /\ \A u \in s.unique : f[u] \in Constraint
    BY <2>1, <2>2 DEF Constraint, Orderly, Schema
  <2>4. PrintedUnique(s) = {f[u] : u \in DOMAIN f} BY <2>1 DEF PrintedUnique
  <2> QED BY <2>3, <2>4, ListedConstraints, Zenon
<1>3. LET q == SetToSeq(PrintedIndex(s)) IN q \in Seq(Constraint) /\ Range(q) = PrintedIndex(s)
  <2>1. PICK X : X = {x \in s.indexes : ~x.unique /\ x.name # Primary} OBVIOUS
  <2>2. X \subseteq s.indexes /\ IsFiniteSet(X) BY <2>1, FS_Subset DEF Orderly
  <2>3. PICK f : f = [x \in X |-> [op |-> "index", name |-> x.name, cols |-> x.cols]] OBVIOUS
  <2>4. DOMAIN f = X /\ \A x \in X : f[x] \in Constraint
    BY <2>2, <2>3 DEF Constraint, Schema, Index
  <2>5. PrintedIndex(s) = {f[x] : x \in DOMAIN f} BY <2>1, <2>3 DEF PrintedIndex
  <2> QED BY <2>2, <2>4, <2>5, ListedConstraints, Zenon
<1>4. LET q == SetToSeq(PrintedForeign(s)) IN q \in Seq(Constraint) /\ Range(q) = PrintedForeign(s)
  <2>1. PICK f : f = [g \in s.fks |-> [op |-> "foreign", fk |-> g]] OBVIOUS
  <2>2. DOMAIN f = s.fks /\ IsFiniteSet(DOMAIN f) /\ \A g \in s.fks : f[g] \in Constraint
    BY <2>1 DEF Constraint, Orderly, Schema
  <2>3. PrintedForeign(s) = {f[g] : g \in DOMAIN f} BY <2>1 DEF PrintedForeign
  <2> QED BY <2>2, <2>3, ListedConstraints, Zenon
<1> QED BY <1>1, <1>2, <1>3, <1>4

\* One list after the other has the elements of both.
LEMMA Joining ==
  \A u, v \in Seq(Constraint) : u \o v \in Seq(Constraint) /\ Range(u \o v) = Range(u) \cup Range(v)
<1>1. SUFFICES ASSUME NEW u \in Seq(Constraint), NEW v \in Seq(Constraint)
               PROVE  u \o v \in Seq(Constraint) /\ Range(u \o v) = Range(u) \cup Range(v)
  OBVIOUS
<1>2. u \o v \in Seq(Constraint) BY ConcatProperties, Zenon
<1>3. Range(u \o v) = Range(u) \cup Range(v) BY RangeConcatenation, Zenon
<1> QED BY <1>2, <1>3

\* Together: every constraint, the foreign keys after the others.
LEMMA Printed ==
  ASSUME NEW s \in Schema, Orderly(s, TRUE)
  PROVE  LET list == ShowCreate(s)
         IN /\ list \in Seq(Constraint)
            /\ Range(list) = PrintedPrimary(s) \cup PrintedUnique(s) \cup PrintedIndex(s) \cup PrintedForeign(s)
            /\ \A i, j \in 1..Len(list) : i < j /\ list[i].op = "foreign" => list[j].op = "foreign"
<1>1. PICK a \in Seq(Constraint) :
        /\ a = IF s.pk = <<>> THEN <<>> ELSE <<[op |-> "primary", cols |-> s.pk]>>
        /\ Range(a) = PrintedPrimary(s)
  <2>1. CASE s.pk = <<>>
    <3>1. <<>> \in Seq(Constraint) /\ Range(<<>>) = {} BY DEF Range
    <3> QED BY <2>1, <3>1, Zenon DEF PrintedPrimary
  <2>2. CASE s.pk # <<>>
    <3>1. PICK c : c = [op |-> "primary", cols |-> s.pk] OBVIOUS
    <3>2. c \in Constraint BY <2>2, <3>1, PrintedLists DEF PrintedPrimary
    <3>3. <<c>> \in Seq(Constraint) /\ Range(<<c>>) = {c} BY <3>2 DEF Range
    <3>4. PrintedPrimary(s) = {c} BY <2>2, <3>1 DEF PrintedPrimary
    <3> QED BY <2>2, <3>1, <3>3, <3>4, Zenon
  <2> QED BY <2>1, <2>2
<1>2. PICK u \in Seq(Constraint) : u = SetToSeq(PrintedUnique(s)) /\ Range(u) = PrintedUnique(s)
  BY PrintedLists
<1>3. PICK x \in Seq(Constraint) : x = SetToSeq(PrintedIndex(s)) /\ Range(x) = PrintedIndex(s)
  BY PrintedLists
<1>4. PICK f \in Seq(Constraint) : f = SetToSeq(PrintedForeign(s)) /\ Range(f) = PrintedForeign(s)
  BY PrintedLists
<1>5. PICK b \in Seq(Constraint) : b = (a \o u) \o x /\ Range(b) = Range(a) \cup Range(u) \cup Range(x)
  <2>1. PICK d \in Seq(Constraint) : d = a \o u /\ Range(d) = Range(a) \cup Range(u) BY Joining
  <2>2. PICK b \in Seq(Constraint) : b = d \o x /\ Range(b) = Range(d) \cup Range(x) BY Joining
  <2> QED BY <2>1, <2>2
<1>6. PICK list \in Seq(Constraint) : list = b \o f /\ Range(list) = Range(b) \cup Range(f)
  BY Joining
<1>7. ShowCreate(s) = list
  BY <1>1, <1>2, <1>3, <1>4, <1>5, <1>6, Zenon DEF ShowCreate, PrintedUnique, PrintedIndex, PrintedForeign
<1>8. \A i \in 1..Len(b) : b[i].op # "foreign"
  <2>1. \A c \in PrintedPrimary(s) \cup PrintedUnique(s) \cup PrintedIndex(s) : c.op # "foreign"
    BY DEF PrintedPrimary, PrintedUnique, PrintedIndex
  <2>2. \A i \in 1..Len(b) : b[i] \in Range(b) BY DEF Range
  <2> QED BY <2>1, <2>2, <1>1, <1>2, <1>3, <1>5
<1>9. \A i \in 1..Len(f) : f[i].op = "foreign"
  <2>1. \A c \in PrintedForeign(s) : c.op = "foreign" BY DEF PrintedForeign
  <2>2. \A i \in 1..Len(f) : f[i] \in Range(f) BY DEF Range
  <2> QED BY <2>1, <2>2, <1>4
<1>10. Len(list) = Len(b) + Len(f) /\ Len(b) \in Nat /\ Len(f) \in Nat
       /\ \A i \in 1..(Len(b) + Len(f)) : list[i] = IF i <= Len(b) THEN b[i] ELSE f[i - Len(b)]
  BY <1>6, ConcatProperties
<1>11. ASSUME NEW i \in 1..Len(list), NEW j \in 1..Len(list), i < j, list[i].op = "foreign"
       PROVE  list[j].op = "foreign"
  <2>1. ~(i <= Len(b))
    <3>1. SUFFICES ASSUME i <= Len(b) PROVE FALSE OBVIOUS
    <3>2. i \in 1..Len(b) /\ list[i] = b[i] BY <1>10, <3>1
    <3> QED BY <3>2, <1>8, <1>11
  <2>2. j - Len(b) \in 1..Len(f) /\ list[j] = f[j - Len(b)] BY <2>1, <1>10, <1>11
  <2> QED BY <2>2, <1>9
<1> QED BY <1>1, <1>2, <1>3, <1>4, <1>5, <1>6, <1>7, <1>11

\* A key extended by its own columns is the same.
LEMMA ExtendedSame ==
  ASSUME NEW list \in Seq(Cols)
  PROVE  Extended(list, list) = list
<1> DEFINE n == Len(list)
<1>1. PICK f \in [0..n -> Seq(Cols)] :
        /\ Extended(list, list) = f[n] /\ f[0] = list
        /\ \A i \in 1..n : f[i] = IF list[i] \in Range(f[i - 1]) THEN f[i - 1] ELSE Append(f[i - 1], list[i])
  BY ExtendedDef
<1>2. n \in Nat /\ n \in 0..n /\ 0 \in 0..n /\ \A i \in 1..n : list[i] \in Range(list)
  BY DEF Range
<1> HIDE DEF n
<1> DEFINE S == {i \in 0..n : f[i] = list}
<1>3. 0 \in S BY <1>1, <1>2
<1>4. ASSUME NEW i \in 1..n, i - 1 \in S PROVE i \in S
  <2>1. i \in 0..n /\ f[i - 1] = list BY <1>2, <1>4
  <2> QED BY <2>1, <1>1, <1>2
<1>5. n \in S
  <2> HIDE DEF S
  <2>1. 0..n \subseteq S BY <1>2, <1>3, <1>4, Along
  <2> QED BY <2>1, <1>2
<1> QED BY <1>1, <1>5

\* The key that CREATE TABLE ends with takes no other index away.
LEMMA KeyedFacts ==
  ASSUME NEW g \in Schema
  PROVE  LET a == IF g.pk = <<>> THEN g ELSE AddPrimary(g, g.pk)
         IN /\ a.order = g.order /\ a.pk = g.pk /\ a.unique = g.unique /\ a.fks = g.fks
            /\ \A x \in g.indexes : x.name # Primary => x \in a.indexes
<1>1. g.pk \in Seq(Cols) BY DEF Schema
<1>2. Extended(g.pk, g.pk) = g.pk BY <1>1, ExtendedSame
<1>3. PICK a : a = AddPrimary(g, g.pk) OBVIOUS
<1>4. a.order = g.order /\ a.pk = g.pk /\ a.unique = g.unique /\ a.fks = g.fks
  BY <1>1, <1>2, <1>3, AddPrimaryFacts
<1>5. PICK t \in Schema : t = [g EXCEPT !.pk = g.pk, !.indexes = {x \in @ : x.name # Primary}]
                          /\ t.indexes = {x \in g.indexes : x.name # Primary}
  <2>1. PICK t : t = [g EXCEPT !.pk = g.pk, !.indexes = {x \in @ : x.name # Primary}] OBVIOUS
  <2>2. t \in Schema /\ t.indexes = {x \in g.indexes : x.name # Primary} BY <2>1 DEF Schema
  <2> QED BY <2>1, <2>2
<1>6. \/ a = t
      \/ a = AddIndex(t, [name |-> Primary, cols |-> g.pk, unique |-> TRUE])
  BY <1>2, <1>3, <1>5 DEF AddPrimary
<1>7. \A x : t.indexes \subseteq AddIndex(t, x).indexes
  BY DEF AddIndex, Schema
<1>8. t.indexes \subseteq a.indexes BY <1>6, <1>7
<1> QED BY <1>3, <1>4, <1>5, <1>8

\* What a constraint of CREATE TABLE makes.
LEMMA ConstrainMakes ==
  ASSUME NEW g \in Schema, NEW c \in Constraint, c.op = "unique" => c.name # None
  PROVE  LET a == Constrain(g, c)
             x == [name |-> c.name, cols |-> c.cols, unique |-> TRUE]
         IN /\ a.unique = IF c.op = "unique" THEN g.unique \cup {c.cols} ELSE g.unique
            /\ a.fks = IF c.op = "foreign" THEN AddForeign(g, c.fk).fks ELSE g.fks
            /\ g.indexes \subseteq a.indexes
            /\ c.op = "primary" => a.indexes = g.indexes
            /\ c.op = "index" => a.indexes = g.indexes \cup {[name |-> c.name, cols |-> c.cols, unique |-> FALSE]}
            /\ c.op = "unique" => \/ a.indexes = g.indexes \cup {x}
                                  \/ a.indexes = g.indexes /\ \E e \in g.indexes : e.name = x.name \/ (e.cols = x.cols /\ e.unique)
<1>1. CASE c.op = "primary"
  <2>1. Constrain(g, c) = [g EXCEPT !.pk = c.cols] BY <1>1 DEF Constrain
  <2>2. PICK a : a = [g EXCEPT !.pk = c.cols] OBVIOUS
  <2>3. a.unique = g.unique /\ a.fks = g.fks /\ a.indexes = g.indexes BY <2>2 DEF Schema
  <2> QED BY <2>1, <2>2, <2>3, <1>1
<1>2. CASE c.op = "unique"
  <2>1. c.name \in Names /\ c.cols \in ColumnLists BY <1>2 DEF Constraint
  <2>2. PICK b \in Schema : b = [g EXCEPT !.unique = @ \cup {c.cols}] /\ b.unique = g.unique \cup {c.cols}
                            /\ b.indexes = g.indexes /\ b.fks = g.fks
    <3>1. PICK b : b = [g EXCEPT !.unique = @ \cup {c.cols}] OBVIOUS
    <3>2. b \in Schema /\ b.unique = g.unique \cup {c.cols} /\ b.indexes = g.indexes /\ b.fks = g.fks
      BY <2>1, <3>1 DEF Schema
    <3> QED BY <3>1, <3>2
  <2>3. PICK x \in Index : x = [name |-> c.name, cols |-> c.cols, unique |-> TRUE] BY <2>1 DEF Index
  <2>4. Constrain(g, c) = AddIndex(b, x) BY <1>2, <2>2, <2>3 DEF Constrain, AddUnique
  <2>5. PICK a : a = AddIndex(b, x) OBVIOUS
  <2>6. a.unique = b.unique /\ a.fks = b.fks
        /\ \/ a.indexes = b.indexes \cup {x}
           \/ a.indexes = b.indexes /\ \E e \in b.indexes : e.name = x.name \/ (e.cols = x.cols /\ e.unique = x.unique)
    BY <2>5 DEF AddIndex, Schema
  <2>7. x.name = c.name /\ x.cols = c.cols /\ x.unique = TRUE BY <2>3
  <2> QED BY <2>2, <2>3, <2>4, <2>5, <2>6, <2>7, <1>2
<1>3. CASE c.op = "index"
  <2>1. PICK x : x = [name |-> c.name, cols |-> c.cols, unique |-> FALSE] OBVIOUS
  <2>2. Constrain(g, c) = [g EXCEPT !.indexes = @ \cup {x}] BY <1>3, <2>1 DEF Constrain
  <2>3. PICK a : a = [g EXCEPT !.indexes = @ \cup {x}] OBVIOUS
  <2>4. a.unique = g.unique /\ a.fks = g.fks /\ a.indexes = g.indexes \cup {x} BY <2>3 DEF Schema
  <2> QED BY <2>1, <2>2, <2>3, <2>4, <1>3
<1>4. CASE c.op = "foreign"
  <2> DEFINE lists == {g.pk} \cup g.unique \cup {x.cols : x \in g.indexes}
             led == \E list \in lists : IsPrefix(c.fk.cols, list)
  <2>1. c.fk \in Foreign /\ c.fk.cols \in ColumnLists BY <1>4 DEF Constraint, Foreign
  <2>2. PICK own \in Index : own = [name |-> c.fk.cols[1], cols |-> c.fk.cols, unique |-> FALSE]
    <3>1. c.fk.cols[1] \in Names BY <2>1, ListFacts, BoundsAssumption
    <3> QED BY <2>1, <3>1 DEF Index
  <2> HIDE DEF led
  <2>3. PICK b \in Schema : b = IF led THEN g ELSE AddIndex(g, own)
    BY AddIndexFacts
  <2>4. b.unique = g.unique /\ b.fks = g.fks /\ g.indexes \subseteq b.indexes
    BY <2>3 DEF AddIndex, Schema
  <2>5. Constrain(g, c) = AddForeign(b, c.fk) BY <1>4, <2>2, <2>3 DEF Constrain, led
  <2>6. AddForeign(b, c.fk).unique = b.unique /\ AddForeign(b, c.fk).indexes = b.indexes
    BY <2>1, AddForeignFacts
  <2>7. AddForeign(b, c.fk).fks = AddForeign(g, c.fk).fks
    BY <2>4 DEF AddForeign, Schema
  <2> QED BY <2>4, <2>5, <2>6, <2>7, <1>4
<1> QED BY <1>1, <1>2, <1>3, <1>4 DEF Constraint

\* What a constraint that is printed says of the schema.
PrintedOf(s) == PrintedPrimary(s) \cup PrintedUnique(s) \cup PrintedIndex(s) \cup PrintedForeign(s)

LEMMA PrintedSays ==
  ASSUME NEW s \in Schema, NEW c \in PrintedOf(s)
  PROVE  /\ c.op = "primary" => c.cols = s.pk
         /\ c.op = "unique" => c.cols \in s.unique /\ c.name = UniqueName(s, c.cols) /\ c.name # None
         /\ c.op = "index" => [name |-> c.name, cols |-> c.cols, unique |-> FALSE] \in s.indexes /\ c.name # Primary
         /\ c.op = "foreign" => c.fk \in s.fks
         /\ c.op \in {"primary", "unique", "index", "foreign"}
<1>1. CASE c \in PrintedPrimary(s)
  <2>1. c.op = "primary" /\ c.cols = s.pk BY <1>1 DEF PrintedPrimary
  <2> QED BY <2>1
<1>2. CASE c \in PrintedUnique(s)
  <2>1. PICK u \in s.unique : c = [op |-> "unique", name |-> UniqueName(s, u), cols |-> u] BY <1>2 DEF PrintedUnique
  <2>2. c.op = "unique" /\ c.cols = u /\ c.name = UniqueName(s, u) BY <2>1
  <2>3. u[1] \in Names BY ListFacts, BoundsAssumption DEF Schema
  <2>4. \A x \in s.indexes : x.name \in Names BY DEF Schema, Index
  <2>5. UniqueName(s, u) \in Names BY <2>3, <2>4, UniqueNameFacts
  <2> QED BY <2>2, <2>5, BoundsAssumption
<1>3. CASE c \in PrintedIndex(s)
  <2>1. PICK x \in s.indexes : ~x.unique /\ x.name # Primary /\ c = [op |-> "index", name |-> x.name, cols |-> x.cols]
    BY <1>3 DEF PrintedIndex
  <2>2. c.op = "index" /\ c.name = x.name /\ c.cols = x.cols BY <2>1
  <2>3. x = [name |-> x.name, cols |-> x.cols, unique |-> FALSE] BY <2>1 DEF Schema, Index
  <2> QED BY <2>1, <2>2, <2>3
<1>4. CASE c \in PrintedForeign(s)
  <2>1. c.op = "foreign" /\ c.fk \in s.fks BY <1>4 DEF PrintedForeign
  <2> QED BY <2>1
<1> QED BY <1>1, <1>2, <1>3, <1>4 DEF PrintedOf

\* The schema g has no more than s; it has what c says; its indexes are under names
\* of their own.
Within(g, s) == g.order = s.order /\ g.pk \in {<<>>, s.pk} /\ g.unique \subseteq s.unique /\ g.fks \subseteq s.fks
Made(g, s, c) ==
  /\ c.op = "primary" => g.pk = s.pk
  /\ c.op = "unique" => c.cols \in g.unique
  /\ c.op = "foreign" /\ ~Rivals(s) => c.fk \in g.fks
  /\ c.op = "unique" /\ ~Homonyms(s) => [name |-> c.name, cols |-> c.cols, unique |-> TRUE] \in g.indexes
  /\ c.op = "index" => [name |-> c.name, cols |-> c.cols, unique |-> FALSE] \in g.indexes
Apart(g, s) ==
  \A e \in g.indexes : \/ e.unique /\ e.cols \in s.unique /\ e.name = UniqueName(s, e.cols)
                       \/ ~e.unique /\ e \in s.indexes

\* A constraint that is printed adds what it says and nothing else; a unique key
\* adds its index while no foreign key made one of its own.
LEMMA MakesMore ==
  ASSUME NEW s \in Schema, Orderly(s, TRUE), NEW g \in Schema, Within(g, s), NEW c \in PrintedOf(s) \cap Constraint
  PROVE  LET a == Constrain(g, c)
         IN /\ Within(a, s)
            /\ \A d : Made(g, s, d) => Made(a, s, d)
            /\ Apart(g, s) \/ Homonyms(s) \/ c.op # "unique" => Made(a, s, c)
            /\ Apart(g, s) /\ c.op # "foreign" => Apart(a, s)
<1>1. PICK a : a = Constrain(g, c) OBVIOUS
<1>2. PICK x : /\ x = [name |-> c.name, cols |-> c.cols, unique |-> TRUE]
               /\ x.name = c.name /\ x.cols = c.cols /\ x.unique = TRUE
  <2>1. PICK x : x = [name |-> c.name, cols |-> c.cols, unique |-> TRUE] OBVIOUS
  <2>2. x.name = c.name /\ x.cols = c.cols /\ x.unique = TRUE BY <2>1
  <2> QED BY <2>1, <2>2
<1>3. PICK y : y = [name |-> c.name, cols |-> c.cols, unique |-> FALSE] /\ y.unique = FALSE
  <2>1. PICK y : y = [name |-> c.name, cols |-> c.cols, unique |-> FALSE] OBVIOUS
  <2>2. y.unique = FALSE BY <2>1
  <2> QED BY <2>1, <2>2
<1>4. /\ c.op = "primary" => c.cols = s.pk
      /\ c.op = "unique" => c.cols \in s.unique /\ c.name = UniqueName(s, c.cols) /\ c.name # None
      /\ c.op = "index" => y \in s.indexes
      /\ c.op = "foreign" => c.fk \in s.fks
      /\ c.op \in {"primary", "unique", "index", "foreign"}
  BY <1>3, PrintedSays
<1>5. /\ a.unique = IF c.op = "unique" THEN g.unique \cup {c.cols} ELSE g.unique
      /\ a.fks = IF c.op = "foreign" THEN AddForeign(g, c.fk).fks ELSE g.fks
      /\ g.indexes \subseteq a.indexes
      /\ c.op = "primary" => a.indexes = g.indexes
      /\ c.op = "index" => a.indexes = g.indexes \cup {y}
      /\ c.op = "unique" => \/ a.indexes = g.indexes \cup {x}
                            \/ a.indexes = g.indexes /\ \E e \in g.indexes : e.name = x.name \/ (e.cols = x.cols /\ e.unique)
  <2> DEFINE x0 == [name |-> c.name, cols |-> c.cols, unique |-> TRUE]
             y0 == [name |-> c.name, cols |-> c.cols, unique |-> FALSE]
  <2>1. c \in Constraint /\ (c.op = "unique" => c.name # None) BY <1>4
  <2>2. LET b == Constrain(g, c)
        IN /\ b.unique = IF c.op = "unique" THEN g.unique \cup {c.cols} ELSE g.unique
           /\ b.fks = IF c.op = "foreign" THEN AddForeign(g, c.fk).fks ELSE g.fks
           /\ g.indexes \subseteq b.indexes
           /\ c.op = "primary" => b.indexes = g.indexes
           /\ c.op = "index" => b.indexes = g.indexes \cup {y0}
           /\ c.op = "unique" => \/ b.indexes = g.indexes \cup {x0}
                                 \/ b.indexes = g.indexes /\ \E e \in g.indexes : e.name = x0.name \/ (e.cols = x0.cols /\ e.unique)
    BY <2>1, ConstrainMakes, Zenon
  <2>3. x0 = x /\ y0 = y BY <1>2, <1>3
  <2> HIDE DEF x0, y0
  <2> QED BY <2>2, <2>3, <1>1
<1>6. a.order = g.order /\ a.pk = IF c.op = "primary" THEN c.cols ELSE g.pk
  BY <1>1, ConstrainFacts
<1>7. ASSUME c.op = "foreign"
      PROVE  LET fks == AddForeign(g, c.fk).fks
             IN fks \subseteq s.fks /\ g.fks \subseteq fks /\ (~Rivals(s) => c.fk \in fks)
  <2>1. c.fk \in s.fks /\ g.fks \subseteq s.fks BY <1>4, <1>7 DEF Within
  <2>2. CASE \E e \in g.fks : e.name = c.fk.name \/ e.cols = c.fk.cols
    <3>1. AddForeign(g, c.fk) = g BY <2>2 DEF AddForeign
    <3>2. ~Rivals(s) => c.fk \in g.fks BY <2>1, <2>2 DEF Orderly, Rivals
    <3> QED BY <2>1, <3>1, <3>2
  <2>3. CASE ~\E e \in g.fks : e.name = c.fk.name \/ e.cols = c.fk.cols
    <3>1. AddForeign(g, c.fk).fks = g.fks \cup {c.fk} BY <2>3 DEF AddForeign, Schema
    <3> QED BY <2>1, <3>1
  <2> QED BY <2>2, <2>3
<1>8. Within(a, s) BY <1>4, <1>5, <1>6, <1>7 DEF Within
<1>9. ASSUME NEW d, Made(g, s, d) PROVE Made(a, s, d)
  <2>1. g.unique \subseteq a.unique /\ g.fks \subseteq a.fks /\ g.indexes \subseteq a.indexes BY <1>5, <1>7
  <2>2. g.pk = s.pk => a.pk = s.pk BY <1>4, <1>6
  <2> QED BY <2>1, <2>2, <1>9 DEF Made
<1>10. ASSUME c.op = "unique", Apart(g, s), ~Homonyms(s) PROVE x \in a.indexes
  <2>1. CASE a.indexes = g.indexes \cup {x} BY <2>1
  <2>2. CASE a.indexes = g.indexes /\ \E e \in g.indexes : e.name = x.name \/ (e.cols = x.cols /\ e.unique)
    <3>1. PICK e \in g.indexes : e.name = x.name \/ (e.cols = x.cols /\ e.unique) BY <2>2
    <3>2. e.unique /\ e.cols \in s.unique /\ e.name = UniqueName(s, e.cols)
      <4>1. ASSUME ~e.unique, e \in s.indexes PROVE FALSE
        BY <1>2, <1>4, <1>10, <3>1, <4>1, ApartNames
      <4> QED BY <4>1, <1>10 DEF Apart
    <3>3. e.cols = c.cols BY <1>2, <1>4, <1>10, <3>1, <3>2, ApartNames
    <3>4. e \in Index BY DEF Schema
    <3>5. e = x BY <1>2, <1>4, <1>10, <3>2, <3>3, <3>4 DEF Index
    <3> QED BY <2>2, <3>5
  <2> QED BY <2>1, <2>2, <1>5, <1>10
<1>11. ASSUME Homonyms(s) \/ Apart(g, s) \/ c.op # "unique" PROVE Made(a, s, c)
  <2>1. c.op = "primary" => a.pk = s.pk BY <1>4, <1>6
  <2>2. c.op = "unique" => c.cols \in a.unique BY <1>5
  <2>3. c.op = "foreign" /\ ~Rivals(s) => c.fk \in a.fks BY <1>5, <1>7
  <2>4. c.op = "unique" /\ ~Homonyms(s) => x \in a.indexes BY <1>10, <1>11
  <2>5. c.op = "index" => y \in a.indexes BY <1>5
  <2> QED BY <2>1, <2>2, <2>3, <2>4, <2>5, <1>2, <1>3 DEF Made
<1>12. ASSUME Apart(g, s), c.op # "foreign" PROVE Apart(a, s)
  <2>1. SUFFICES ASSUME NEW e \in a.indexes, e \notin g.indexes
                 PROVE  \/ e.unique /\ e.cols \in s.unique /\ e.name = UniqueName(s, e.cols)
                        \/ ~e.unique /\ e \in s.indexes
    BY <1>12 DEF Apart
  <2>2. CASE c.op = "unique" BY <2>1, <2>2, <1>2, <1>4, <1>5
  <2>3. CASE c.op = "index" BY <2>1, <2>3, <1>3, <1>4, <1>5
  <2>4. CASE c.op = "primary" BY <2>1, <2>4, <1>5
  <2> QED BY <2>2, <2>3, <2>4, <1>4, <1>12
<1> QED BY <1>1, <1>8, <1>9, <1>11, <1>12

\* SHOW CREATE TABLE makes the table again.
LEMMA MadeAgain ==
  ASSUME NEW s \in Schema, Orderly(s, TRUE)
  PROVE  LET again == SchemaFromCreate(s.order, ShowCreate(s))
         IN /\ again.order = s.order /\ again.pk = s.pk /\ again.unique = s.unique
            /\ Rivals(s) \/ again.fks = s.fks
            /\ Unlisted(s) # {} \/ Homonyms(s) \/ Eclipsed(s) \/ Lists(s) \subseteq Lists(again)
<1>1. PICK list \in Seq(Constraint) :
        /\ list = ShowCreate(s) /\ Range(list) = PrintedOf(s)
        /\ \A i, j \in 1..Len(list) : i < j /\ list[i].op = "foreign" => list[j].op = "foreign"
  BY Printed DEF PrintedOf
<1> DEFINE n == Len(list)
<1>2. s.order \in Seq(Cols) BY DEF Schema
<1>3. PICK f \in [0..n -> Schema] :
        /\ SchemaFromCreate(s.order, list) = IF f[n].pk = <<>> THEN f[n] ELSE AddPrimary(f[n], f[n].pk)
        /\ f[0] = [EmptySchema EXCEPT !.order = s.order]
        /\ \A i \in 1..n : f[i] = Constrain(f[i - 1], list[i])
  BY <1>2, CreateDef
<1>4. n \in Nat /\ n \in 0..n /\ 0 \in 0..n /\ DOMAIN list = 1..n
      /\ \A i \in 1..n : list[i] \in PrintedOf(s) \cap Constraint
  <2>1. \A i \in 1..n : list[i] \in Range(list) /\ list[i] \in Constraint BY DEF Range
  <2> QED BY <2>1, <1>1
<1>5. \A i, j \in 1..n : i < j /\ list[i].op = "foreign" => list[j].op = "foreign" BY <1>1
<1> HIDE DEF n
<1> DEFINE All(i, g) == \A j \in 1..i : Made(g, s, list[j])
           Early(i, g) == (\A j \in 1..i : list[j].op # "foreign") => Apart(g, s)
           S == {i \in 0..n : Within(f[i], s) /\ All(i, f[i]) /\ Early(i, f[i])}
<1>6. 0 \in S
  <2>1. f[0].order = s.order /\ f[0].pk = <<>> /\ f[0].unique = {} /\ f[0].indexes = {} /\ f[0].fks = {}
    BY <1>3 DEF EmptySchema
  <2>2. Within(f[0], s) /\ Apart(f[0], s) BY <2>1 DEF Within, Apart
  <2> QED BY <2>2, <1>4
<1>7. ASSUME NEW i \in 1..n, i - 1 \in S PROVE i \in S
  <2>1. i - 1 \in 0..n /\ i \in 0..n /\ \A j \in 1..i : j \in 1..(i - 1) \/ j = i BY <1>4
  <2>2. PICK g \in Schema : g = f[i - 1] /\ Within(g, s) /\ All(i - 1, g) /\ Early(i - 1, g)
    <3> HIDE DEF All, Early
    <3> QED BY <2>1, <1>7
  <2>3. PICK c \in PrintedOf(s) \cap Constraint : c = list[i] BY <1>4
  <2>4. PICK a : a = Constrain(g, c) OBVIOUS
  <2>5. /\ Within(a, s)
        /\ \A d : Made(g, s, d) => Made(a, s, d)
        /\ Apart(g, s) \/ Homonyms(s) \/ c.op # "unique" => Made(a, s, c)
        /\ Apart(g, s) /\ c.op # "foreign" => Apart(a, s)
    BY <2>2, <2>4, MakesMore
  <2>6. ASSUME c.op # "foreign" PROVE Apart(g, s)
    <3>1. \A j \in 1..(i - 1) : list[j].op # "foreign"
      <4>1. \A j \in 1..(i - 1) : j \in 1..n /\ j < i BY <1>4
      <4> QED BY <4>1, <1>5, <2>3, <2>6
    <3> QED BY <3>1, <2>2
  <2>7. Made(a, s, c) BY <2>5, <2>6
  <2>8. All(i, a) BY <2>1, <2>2, <2>3, <2>5, <2>7
  <2>9. Early(i, a)
    <3>1. SUFFICES ASSUME \A j \in 1..i : list[j].op # "foreign" PROVE Apart(a, s) OBVIOUS
    <3>2. i \in 1..i BY <1>4
    <3> QED BY <3>1, <3>2, <2>3, <2>5, <2>6
  <2>10. a = f[i] BY <1>3, <2>2, <2>3, <2>4
  <2> HIDE DEF All, Early
  <2> QED BY <2>1, <2>5, <2>8, <2>9, <2>10
<1>8. n \in S
  <2> HIDE DEF S
  <2>1. 0..n \subseteq S BY <1>4, <1>6, <1>7, Along
  <2> QED BY <2>1, <1>4
<1>9. PICK g \in Schema : g = f[n] /\ Within(g, s) /\ \A c \in PrintedOf(s) : Made(g, s, c)
  <2>1. \A c \in PrintedOf(s) : \E j \in 1..n : c = list[j] BY <1>1, <1>4 DEF Range
  <2>2. \A j \in 1..n : Made(f[n], s, list[j]) BY <1>8
  <2>3. \A c \in PrintedOf(s) : Made(f[n], s, c) BY <2>1, <2>2
  <2> QED BY <2>3, <1>4, <1>8
<1>10. PICK again : /\ again = SchemaFromCreate(s.order, ShowCreate(s))
                    /\ again.order = g.order /\ again.pk = g.pk /\ again.unique = g.unique /\ again.fks = g.fks
                    /\ \A x \in g.indexes : x.name # Primary => x \in again.indexes
  BY <1>1, <1>3, <1>9, KeyedFacts
<1>11. g.pk = s.pk
  <2>1. CASE s.pk = <<>> BY <2>1, <1>9 DEF Within
  <2>2. CASE s.pk # <<>>
    <3>1. PICK c : c = [op |-> "primary", cols |-> s.pk] OBVIOUS
    <3>2. c \in PrintedOf(s) BY <2>2, <3>1 DEF PrintedOf, PrintedPrimary
    <3>3. c.op = "primary" BY <3>1
    <3> QED BY <3>2, <3>3, <1>9 DEF Made
  <2> QED BY <2>1, <2>2
<1>12. g.unique = s.unique
  <2>1. ASSUME NEW u \in s.unique PROVE u \in g.unique
    <3>1. PICK c : c = [op |-> "unique", name |-> UniqueName(s, u), cols |-> u] OBVIOUS
    <3>2. c \in PrintedOf(s) BY <3>1 DEF PrintedOf, PrintedUnique
    <3>3. c.op = "unique" /\ c.cols = u BY <3>1
    <3> QED BY <3>2, <3>3, <1>9 DEF Made
  <2> QED BY <2>1, <1>9 DEF Within
<1>13. ASSUME ~Rivals(s) PROVE g.fks = s.fks
  <2>1. ASSUME NEW e \in s.fks PROVE e \in g.fks
    <3>1. PICK c : c = [op |-> "foreign", fk |-> e] OBVIOUS
    <3>2. c \in PrintedOf(s) BY <3>1 DEF PrintedOf, PrintedForeign
    <3>3. c.op = "foreign" /\ c.fk = e BY <3>1
    <3> QED BY <3>2, <3>3, <1>9, <1>13 DEF Made
  <2> QED BY <2>1, <1>9 DEF Within
<1>14. ASSUME Unlisted(s) = {}, ~Homonyms(s), ~Eclipsed(s), NEW x \in s.indexes, x.name # Primary
       PROVE  \E y \in again.indexes : y.name # Primary /\ y.cols = x.cols /\ y.unique = x.unique
  <2>1. CASE x.unique
    <3>1. x.cols \in s.unique BY <2>1, <1>14 DEF Unlisted
    <3>2. PICK name : name = UniqueName(s, x.cols) OBVIOUS
    <3>3. name # Primary
      <4>1. PICK z \in s.indexes : z.unique /\ z.cols = x.cols /\ name = z.name
        BY <2>1, <3>2, UniqueNameFacts
      <4> QED BY <4>1, <2>1, <1>14 DEF Eclipsed
    <3>4. PICK c : c = [op |-> "unique", name |-> name, cols |-> x.cols] OBVIOUS
    <3>5. c \in PrintedOf(s) BY <3>1, <3>2, <3>4 DEF PrintedOf, PrintedUnique
    <3>6. c.op = "unique" /\ c.cols = x.cols /\ c.name = name BY <3>4
    <3>7. PICK y \in g.indexes : y = [name |-> name, cols |-> x.cols, unique |-> TRUE]
      BY <3>5, <3>6, <1>9, <1>14 DEF Made
    <3>8. y.name = name /\ y.cols = x.cols /\ y.unique = TRUE BY <3>7
    <3>9. x.unique = TRUE BY <2>1 DEF Schema, Index
    <3> QED BY <3>3, <3>8, <3>9, <1>10
  <2>2. CASE ~x.unique
    <3>1. PICK c : c = [op |-> "index", name |-> x.name, cols |-> x.cols] OBVIOUS
    <3>2. c \in PrintedOf(s) BY <2>2, <3>1, <1>14 DEF PrintedOf, PrintedIndex
    <3>3. c.op = "index" /\ c.cols = x.cols /\ c.name = x.name BY <3>1
    <3>4. PICK y \in g.indexes : y = [name |-> x.name, cols |-> x.cols, unique |-> FALSE]
      BY <3>2, <3>3, <1>9 DEF Made
    <3>5. y.name = x.name /\ y.cols = x.cols /\ y.unique = FALSE BY <3>4
    <3>6. x.unique = FALSE BY <2>2 DEF Schema, Index
    <3> QED BY <3>5, <3>6, <1>10, <1>14
  <2> QED BY <2>1, <2>2
<1>15. Unlisted(s) = {} /\ ~Homonyms(s) /\ ~Eclipsed(s) => Lists(s) \subseteq Lists(again)
  BY <1>14 DEF Lists
<1>16. g.order = s.order BY <1>9 DEF Within
<1> QED BY <1>10, <1>11, <1>12, <1>13, <1>15, <1>16

\* What a client reads in the views and the SHOW statements is what statements
\* enforce, for every schema no crash tore, if no statement gives an index the name of
\* the primary key's.  It rests on the types: foreign keys have names of their own and
\* as many columns as they reference, and an index PRIMARY is over the columns of the
\* key.
THEOREM ViewsDescribeHolds ==
  ASSUME PrimaryIsReserved
  PROVE  Spec => []ViewsDescribe
<1>1. ASSUME TypeInv PROVE ViewsDescribe
  <2>1. SUFFICES ASSUME NEW t \in Tables \ torn, mem[t] # None, NEW s, s = mem[t].schema
                 PROVE  LET again == SchemaFromCreate(s.order, ShowCreate(s))
                        IN /\ Homonyms(s) \/ {ColumnsOf(s, k) : k \in TableConstraints(s)} =
                                {OneEach(list) : list \in ({s.pk} \ {<<>>}) \cup s.unique \cup {f.cols : f \in s.fks}}
                           /\ {<<r.col, r.table, r.ref>> : r \in {r \in KeyColumnUsage(s) : r.table # None}} =
                                UNION {{<<f.cols[i], f.table, f.refcols[i]>> : i \in DOMAIN f.cols} : f \in s.fks}
                           /\ {k.name : k \in {k \in TableConstraints(s) : k.type = "foreign"}}
                                = {r.name : r \in ReferentialConstraints(s, t)}
                           /\ \A r \in ReferentialConstraints(s, t) :
                                \A u \in KeyColumnUsage(s) : u.name = r.name => u.table \in {r.parent, None}
                           /\ {d.cols : d \in Duplicates(s, mem[t].rows)} = {u \in s.unique : ~Distinct(mem[t].rows, u)}
                           /\ \A r \in ColumnRows(s) :
                                /\ ShowColumns(s)[r.pos].field = r.col
                                /\ <<r.col>> \in s.unique \cup {s.pk} => r.key \in {"PRI", "UNI"}
                                /\ r.key = "UNI" => <<r.col>> \in s.unique \cup {x.cols : x \in Unlisted(s)}
                           /\ \A u \in s.unique : u \notin DropUnique(s, UniqueName(s, u)).unique
                           /\ \A r \in Statistics(s) \cup ShowIndex(s) : r \notin ShowIndex(DropUnique(s, r.name))
                           /\ again.order = s.order /\ again.pk = s.pk /\ again.unique = s.unique
                           /\ Rivals(s) \/ again.fks = s.fks
                           /\ Unlisted(s) # {} \/ Homonyms(s) \/ Eclipsed(s) \/ Lists(s) \subseteq Lists(again)
    BY Zenon DEF ViewsDescribe
  <2>2. s \in Schema /\ Orderly(s, TRUE) /\ Paired(s)
    <3>1. s \in Schemas(TRUE) BY <1>1, <2>1 DEF TypeInv, Untorn
    <3> QED BY <3>1 DEF Schemas
  <2>3. IndexedKey(s) BY <2>2 DEF Orderly
  <2>4. Homonyms(s) \/ {ColumnsOf(s, k) : k \in TableConstraints(s)} =
          {OneEach(list) : list \in ({s.pk} \ {<<>>}) \cup s.unique \cup {f.cols : f \in s.fks}}
    BY <2>2, KeysFound
  <2>5. {<<r.col, r.table, r.ref>> : r \in {r \in KeyColumnUsage(s) : r.table # None}} =
          UNION {{<<f.cols[i], f.table, f.refcols[i]>> : i \in DOMAIN f.cols} : f \in s.fks}
    BY <2>2, PairsFound
  <2> QED BY <2>2, <2>3, <2>4, <2>5, ParentsFound, DuplicatesFound, ColumnsShown, DroppedByName, MadeAgain, ZenonT(60)
<1>2. TypeInv => ViewsDescribe BY <1>1
<1> QED BY <1>2, TypeCorrect, PTL

=============================================================================
