------------------------- MODULE ExpressionMeaning -------------------------
(***************************************************************************)
(* What an expression means, for the properties of Select: three-valued    *)
(* logic as 0 < 1 < 2 for FALSE, NULL and TRUE, quantifiers over candidates *)
(* and rows, and names looked up in a sequence of scopes, the innermost    *)
(* first.                                                                  *)
(***************************************************************************)
EXTENDS Expressions, FiniteSetsExt

RECURSIVE Degree(_, _)
RECURSIVE Meaning(_, _)
RECURSIVE Breaks(_, _, _)
RECURSIVE Vacuous(_, _)

Certain(p) == IF p THEN 2 ELSE 0

\* The degree of a value.
DegreeOf(v) == IF v = Null THEN 1 ELSE Certain(NumberOf(v) # 0)

Looked(c, scopes) ==
  LET having == {k \in DOMAIN scopes : c \in DOMAIN scopes[k]} IN scopes[Minimum(having)][c]

\* A row of each of a subquery's tables, by number, and the names it gives meaning.
Tuples(sub) ==
  {t \in [DOMAIN sub.from -> 1..3] : \A k \in DOMAIN sub.from : t[k] \in DOMAIN sub.from[k].rows}

Scope(sub, t) ==
  LET Owner(c) == Minimum({k \in DOMAIN sub.from : c[2] \in sub.from[k].cols /\ c[1] \in {"", sub.from[k].name}})
  IN [c \in UNION {{"", sub.from[k].name} \X sub.from[k].cols : k \in DOMAIN sub.from} |->
        sub.from[Owner(c)].rows[t[Owner(c)]][c[2]]]

\* What a subquery selects from each of the tuples that satisfy its WHERE.
Chosen(sub, scopes) ==
  LET chosen == {t \in Tuples(sub) : \A k \in DOMAIN sub.test : Degree(sub.test[k], <<Scope(sub, t)>> \o scopes) = 2}
  IN [t \in chosen |-> Meaning(sub.item, <<Scope(sub, t)>> \o scopes)]

Totalled(agg, chosen) ==
  LET known == {t \in DOMAIN chosen : chosen[t] # Null}
  IN CASE agg = "none" -> chosen
       [] agg = "count" -> <<Number(Cardinality(known))>>
       [] agg = "max" -> <<IF known = {} THEN Null
                           ELSE chosen[CHOOSE t \in known : \A u \in known : Class(chosen[u]) <= Class(chosen[t])]>>

Results(sub, scopes) == Totalled(sub.agg, Chosen(sub, scopes))

Image(f) == {f[x] : x \in DOMAIN f}

OneOf(values) == IF values = {} THEN Null ELSE CHOOSE v \in values : TRUE

\* Equality with one of the candidates; with none of them it is FALSE for NULL too.
Among(v, candidates) ==
  IF candidates = {} THEN 0
  ELSE IF v = Null THEN 1
  ELSE IF \E w \in candidates : SqlEq(v, w) THEN 2
  ELSE IF Null \in candidates THEN 1 ELSE 0

\* LIKE: the text can be cut so that each part of the pattern has its piece.
Fits(text, pattern) ==
  \E cut \in [0..Len(pattern) -> 0..Len(text)] :
    /\ cut[0] = 0 /\ cut[Len(pattern)] = Len(text)
    /\ \A k \in 1..Len(pattern) :
         LET piece == SubSeq(text, cut[k - 1] + 1, cut[k]) IN
         /\ cut[k - 1] <= cut[k]
         /\ pattern[k] # "%" => cut[k] = cut[k - 1] + 1
         /\ pattern[k] \notin {"%", "_"} => piece = <<pattern[k]>>

OrderOps == {"eq", "ne", "lt", "le", "gt", "ge"}

\* The order of two words by their texts, of other values by their numbers.
Relation(op, v, w) ==
  LET both == IsWord(v) /\ IsWord(w)
      x == IF both THEN Class(v) ELSE NumberOf(v)
      y == IF both THEN Class(w) ELSE NumberOf(w)
  IN IF Null \in {v, w} THEN 1
     ELSE Certain(\/ op \in {"eq", "le", "ge"} /\ x = y
                  \/ op \in {"ne", "lt", "le"} /\ x < y
                  \/ op \in {"ne", "gt", "ge"} /\ x > y)

\* A test of a subquery, found being what it selects.
Tested(op, v, found) ==
  CASE op = "insub" -> Among(v, Image(found))
    [] op = "notinsub" -> 2 - Among(v, Image(found))
    [] op = "exists" -> Certain(DOMAIN found # {})
    [] op = "notexists" -> Certain(DOMAIN found = {})

\* The degree of an operator over the meanings of its arguments.
DegreeOver(op, m) ==
  LET AtLeast(v, w) == IF Null \in {v, w} THEN 1 ELSE Certain(NumberOf(v) >= NumberOf(w))
      within == Minimum({AtLeast(m[1], m[2]), AtLeast(m[3], m[1])})
      among == Among(m[1], {m[k] : k \in 2..Len(m)})
      fits == Fits(Spelling[m[1][2]], Spelling[m[2][2]])
  IN CASE op \in OrderOps -> Relation(op, m[1], m[2])
       [] op = "isnull" -> Certain(m[1] = Null)
       [] op = "isnotnull" -> Certain(m[1] # Null)
       [] op = "nullsafe" -> Certain(IF Null \in {m[1], m[2]} THEN m[1] = m[2] ELSE SqlEq(m[1], m[2]))
       [] op = "between" -> within
       [] op = "notbetween" -> 2 - within
       [] op = "in" -> among
       [] op = "notin" -> 2 - among
       [] op = "like" -> IF Null \in {m[1], m[2]} THEN 1 ELSE Certain(fits)
       [] op = "notlike" -> IF Null \in {m[1], m[2]} THEN 1 ELSE Certain(~fits)

Relations == OrderOps \cup {"isnull", "isnotnull", "nullsafe", "between", "notbetween", "in", "notin", "like", "notlike"}

Degree(e, scopes) ==
  LET D(k) == Degree(e.args[k], scopes)
      M == [k \in DOMAIN e.args |-> Meaning(e.args[k], scopes)]
  IN CASE e.op = "and" -> Minimum({D(1), D(2)})
       [] e.op = "or" -> Maximum({D(1), D(2)})
       [] e.op = "xor" -> IF 1 \in {D(1), D(2)} THEN 1 ELSE Certain(D(1) # D(2))
       [] e.op = "not" -> 2 - D(1)
       [] e.op = "istrue" -> Certain(D(1) = 2)
       [] e.op = "isnottrue" -> Certain(D(1) # 2)
       [] e.op = "isfalse" -> Certain(D(1) = 0)
       [] e.op = "isnotfalse" -> Certain(D(1) # 0)
       [] e.op \in Relations -> DegreeOver(e.op, M)
       [] e.op \in {"insub", "notinsub", "exists", "notexists"} -> Tested(e.op, M[1], Results(e.sub[1], scopes))
       [] OTHER -> DegreeOf(Meaning(e, scopes))

Meaning(e, scopes) ==
  LET M(k) == Meaning(e.args[k], scopes)
      n == Len(e.args)
      x == NumberOf(M(1))
      y == NumberOf(M(2))
      unknown == Null \in {M(1), M(2)}
      \* the first of the branches from..n - 1 that is taken, or the last argument
      Picked(from, Holds(_)) ==
        LET taken == {k \in from..(n - 1) : (k - from) % 2 = 0 /\ Holds(k)}
        IN IF taken = {} THEN M(n) ELSE M(Minimum(taken) + 1)
      given == {k \in DOMAIN e.args : M(k) # Null}
  IN CASE e.op = "col" -> Looked(e.col, scopes)
       [] e.op = "val" -> e.val
       [] e.op = "agg" -> Looked(<<"aggregate", e>>, scopes)
       [] e.op = "plus" -> IF unknown THEN Null ELSE Number(x + y)
       [] e.op = "minus" -> IF unknown THEN Null ELSE Number(x - y)
       [] e.op = "times" -> IF unknown THEN Null ELSE Number(x * y)
       [] e.op \in {"div", "mod"} ->
            IF unknown \/ y = 0 THEN Null
            \* the quotient nearest to zero of those that leave a rest of the sign of x
            ELSE LET q == CHOOSE q \in -9..9 : LET r == x - q * y IN r * x >= 0 /\ r * r < y * y
                 IN Number(IF e.op = "div" THEN q ELSE x - q * y)
       [] e.op = "negate" -> IF M(1) = Null THEN Null ELSE Number(0 - x)
       [] e.op = "nullif" -> IF SqlEq(M(1), M(2)) THEN Null ELSE M(1)
       [] e.op = "coalesce" -> IF given = {} THEN Null ELSE M(Minimum(given))
       [] e.op = "case" -> Picked(1, LAMBDA k : Degree(e.args[k], scopes) = 2)
       [] e.op = "caseof" -> Picked(2, LAMBDA k : SqlEq(M(1), M(k)))
       [] e.op = "scalar" -> OneOf(Image(Results(e.sub[1], scopes)))
       [] OTHER -> LET d == Degree(e, scopes) IN IF d = 1 THEN Null ELSE Bool(d = 2)

\* An aggregate over a group, a row for each of some numbers: what it counts are the
\* rows where no argument is NULL, with DISTINCT the first of each; the place of a
\* row in a text is the number of those before it.
AggregateOver(call, group, whole) ==
  LET V(k, i) == whole[i][k]
      Text(v) == <<Class(v), IF IsWord(v) THEN v[2] ELSE "number">>
      \* i comes after j by the ORDER BY of the call, or by place
      After(i, j) ==
        LET Key(m, k) == Class(group[m][call.order[k].col])
            differ == {k \in DOMAIN call.order : Key(i, k) # Key(j, k)}
        IN IF differ = {} THEN i > j
           ELSE (Key(i, Minimum(differ)) > Key(j, Minimum(differ))) = call.order[Minimum(differ)].asc
      able == {i \in DOMAIN group : \A k \in DOMAIN whole[i] : V(k, i) = Null => call.kind = "list" \/ (call.kind = "object" /\ k = 2)}
      counted == {i \in able : call.distinct => \A j \in able : whole[i] = whole[j] => ~After(i, j)}
      At(n) == CHOOSE i \in counted : Cardinality({j \in counted : After(i, j)}) = n - 1
      values == {V(1, i) : i \in counted}
  IN CASE call.kind = "count" -> Number(Cardinality(counted))
       [] counted = {} -> Null
       [] call.kind = "sum" -> Number(MapThenSumSet(LAMBDA i : NumberOf(V(1, i)), counted))
       [] call.kind = "min" -> CHOOSE v \in values : \A w \in values : Class(v) <= Class(w)
       [] call.kind = "max" -> CHOOSE v \in values : \A w \in values : Class(v) >= Class(w)
       [] call.kind = "concat" -> <<Letters, [n \in 1..Cardinality(counted) |-> [k \in DOMAIN whole[At(n)] |-> Text(V(k, At(n)))]]>>
       [] call.kind = "list" -> <<Letters, [n \in 1..Cardinality(counted) |-> V(1, At(n))]>>
       [] call.kind = "object" ->
            <<Letters, [x \in {Text(v) : v \in values} |->
                LET having == {i \in counted : Text(V(1, i)) = x}
                IN V(2, CHOOSE i \in having : \A j \in having : j <= i)]>>

AggregateMeaning(e, group) ==
  AggregateOver(e.call[1], group,
    [i \in DOMAIN group |-> [k \in DOMAIN e.args |-> Meaning(e.args[k], <<group[i]>>)]])

\* A scalar subquery somewhere in it has several rows; of the forms that choose
\* among their arguments only the first argument counts, or every one.
Breaks(e, scopes, every) ==
  LET counting == IF ~every /\ e.op \in {"case", "caseof", "coalesce"} THEN {1} ELSE DOMAIN e.args
      sub == e.sub[1]
  IN \/ \E k \in counting : Breaks(e.args[k], scopes, every)
     \/ /\ e.sub # <<>>
        /\ \/ e.op = "scalar" /\ Cardinality(DOMAIN Results(sub, scopes)) > 1
           \/ \E t \in Tuples(sub) : \E x \in ToSet(Parts(sub)) : Breaks(x, <<Scope(sub, t)>> \o scopes, every)

\* Somewhere in it NULL is looked for among the values of a subquery that has none.
Vacuous(e, scopes) ==
  LET sub == e.sub[1] IN
  \/ \E k \in DOMAIN e.args : Vacuous(e.args[k], scopes)
  \/ /\ e.sub # <<>>
     /\ \/ /\ e.op \in {"insub", "notinsub"}
           /\ Meaning(e.args[1], scopes) = Null /\ DOMAIN Results(sub, scopes) = {}
        \/ \E t \in Tuples(sub) : \E x \in ToSet(Parts(sub)) : Vacuous(x, <<Scope(sub, t)>> \o scopes)
=============================================================================
