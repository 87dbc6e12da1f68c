---------------------------- MODULE Expressions ----------------------------
(***************************************************************************)
(* Values, rows, and the evaluation of an expression over a row: three-    *)
(* valued logic, coercion in comparisons, IN, LIKE, BETWEEN, CASE, and     *)
(* subqueries, correlated or not.                                          *)
(*                                                                         *)
(* A value is <<class, form>>: SQL compares classes (1 and '1' are equal,  *)
(* and so are 'A' and 'a'), hash keys and encoded rows tell forms apart.   *)
(* NULL is of class 0, below the others.  Classes from Letters on are      *)
(* words, the number of which is 0.  A column is <<table, name>>, an       *)
(* unqualified one <<"", name>>; a row is a function of columns.           *)
(*                                                                         *)
(* An expression is [op, args, col, val, sub, call]: col of a column, val  *)
(* of a constant, sub of a subquery, call of an aggregate.  A subquery is  *)
(* [from, test, item, agg]: tables, the conjuncts of WHERE, what it        *)
(* selects, the aggregate over it.                                         *)
(***************************************************************************)
EXTENDS Integers, Sequences, FiniteSets, SequencesExt

CONSTANT Spelling   \* the letters, or the parts of a pattern, of a form

Null == <<0, "null">>
Class(v) == v[1]
Number(n) == <<n, "number">>
Minimum(S) == CHOOSE x \in S : \A y \in S : x <= y
Maximum(S) == CHOOSE x \in S : \A y \in S : x >= y
Bool(p) == <<IF p THEN 1 ELSE 0, "bool">>

Letters == 100
IsWord(v) == Class(v) >= Letters

\* json_to_f64_lossy, mysql_string_to_f64
NumberOf(v) == IF IsWord(v) THEN 0 ELSE Class(v)

\* An evaluation that fails is a value of its own.
Failure == -1000
ManyRows == <<Failure, "many rows">>
Ambiguous == <<Failure, "ambiguous">>
UnknownColumn(c) == <<Failure - 1, c>>
Failed(v) == Class(v) <= Failure

\* mysql_eq
SqlEq(v, w) ==
  /\ v # Null /\ w # Null
  /\ IF IsWord(v) /\ IsWord(w) THEN Class(v) = Class(w) ELSE NumberOf(v) = NumberOf(w)

\* qualified_factor_row
FactorRow(t, raw) == [c \in {"", t} \X DOMAIN raw |-> raw[c[2]]]

\* merge_join_rows: an unqualified name that both sides have is the left one's.
Merged(l, r) == [c \in DOMAIN l \cup DOMAIN r |-> IF c \in DOMAIN l THEN l[c] ELSE r[c]]

-----------------------------------------------------------------------------
(* Operators on values                                                     *)

True == Bool(TRUE)
False == Bool(FALSE)

\* sql_truth, truth_value: a value as a truth value
Truth(v) == IF v = Null THEN Null ELSE Bool(NumberOf(v) # 0)

Not(v) == IF Truth(v) = Null THEN Null ELSE Bool(Truth(v) = False)

Connective(op, v, w) ==
  LET truths == {Truth(v), Truth(w)} IN
  CASE op = "and" -> IF False \in truths THEN False ELSE IF Null \in truths THEN Null ELSE True
    [] op = "or" -> IF True \in truths THEN True ELSE IF Null \in truths THEN Null ELSE False
    [] op = "xor" -> IF Null \in truths THEN Null ELSE Bool(Cardinality(truths) = 2)

\* mysql_eq_value
EqValue(v, w) == IF Null \in {v, w} THEN Null ELSE Bool(SqlEq(v, w))

\* comparison_value: words by their text, anything else by numbers
Compared(op, v, w) ==
  LET text == IsWord(v) /\ IsWord(w)
      x == IF text THEN Class(v) ELSE NumberOf(v)
      y == IF text THEN Class(w) ELSE NumberOf(w)
  IN IF Null \in {v, w} THEN Null
     ELSE Bool(CASE op = "lt" -> x < y [] op = "le" -> x <= y [] op = "gt" -> x > y [] op = "ge" -> x >= y)

\* numeric_binary and the divisions: by zero they are NULL.
Arithmetic(op, v, w) ==
  LET x == NumberOf(v) y == NumberOf(w)
      sign == IF (x < 0) = (y < 0) THEN 1 ELSE -1
      Abs(n) == IF n < 0 THEN -n ELSE n
      quotient == sign * (Abs(x) \div Abs(y))
  IN IF Null \in {v, w} \/ (op \in {"div", "mod"} /\ y = 0) THEN Null
     ELSE Number(CASE op = "plus" -> x + y [] op = "minus" -> x - y [] op = "times" -> x * y
                   [] op = "div" -> quotient [] op = "mod" -> x - quotient * y)

\* eval_binary_values
Binary(op, v, w) ==
  CASE op \in {"and", "or", "xor"} -> Connective(op, v, w)
    [] op = "eq" -> EqValue(v, w)
    [] op = "ne" -> Not(EqValue(v, w))
    [] op = "nullsafe" -> Bool((v = Null /\ w = Null) \/ SqlEq(v, w))
    [] op \in {"lt", "le", "gt", "ge"} -> Compared(op, v, w)
    [] op \in {"plus", "minus", "times", "div", "mod"} -> Arithmetic(op, v, w)

\* Mutant: a candidate that is NULL does not count.
InForgetsNull(v, candidates) ==
  IF v = Null THEN Null ELSE Bool(\E k \in DOMAIN candidates : EqValue(v, candidates[k]) = True)

\* eval_in_values
In(v, candidates) ==
  LET equal == {EqValue(v, candidates[k]) : k \in DOMAIN candidates}
  IN IF v = Null THEN Null
     ELSE IF True \in equal THEN True
     ELSE IF Null \in equal THEN Null ELSE False

\* eval_between_values
Between(v, low, high) == Connective("and", Compared("ge", v, low), Compared("le", v, high))

\* like_match: the places in pattern and text that can be reached, from the ends.
LikeMatch(text, pattern) ==
  LET Reach[p \in 1..(Len(pattern) + 1), t \in 1..(Len(text) + 1)] ==
        IF p > Len(pattern) THEN t > Len(text)
        ELSE CASE pattern[p] = "%" -> Reach[p + 1, t] \/ (t <= Len(text) /\ Reach[p, t + 1])
               [] pattern[p] = "_" -> t <= Len(text) /\ Reach[p + 1, t + 1]
               [] OTHER -> t <= Len(text) /\ text[t] = pattern[p] /\ Reach[p + 1, t + 1]
  IN Reach[1, 1]

\* eval_like_values
Like(v, pattern) ==
  IF Null \in {v, pattern} THEN Null ELSE Bool(LikeMatch(Spelling[v[2]], Spelling[pattern[2]]))

\* The operators that take the values of all their arguments.
Operate(op, v) ==
  CASE op = "not" -> Not(v[1])
    [] op = "negate" -> IF v[1] = Null THEN Null ELSE Number(-NumberOf(v[1]))
    [] op = "istrue" -> Bool(Truth(v[1]) = True)
    [] op = "isnottrue" -> Bool(Truth(v[1]) # True)
    [] op = "isfalse" -> Bool(Truth(v[1]) = False)
    [] op = "isnotfalse" -> Bool(Truth(v[1]) # False)
    [] op = "isnull" -> Bool(v[1] = Null)
    [] op = "isnotnull" -> Bool(v[1] # Null)
    [] op = "in" -> In(v[1], Tail(v))
    [] op = "notin" -> Not(In(v[1], Tail(v)))
    [] op = "like" -> Like(v[1], v[2])
    [] op = "notlike" -> Not(Like(v[1], v[2]))
    [] op = "between" -> Between(v[1], v[2], v[3])
    [] op = "notbetween" -> Not(Between(v[1], v[2], v[3]))
    [] op = "nullif" -> IF SqlEq(v[1], v[2]) THEN Null ELSE v[1]
    [] OTHER -> Binary(op, v[1], v[2])

-----------------------------------------------------------------------------
(* Names                                                                   *)

RECURSIVE Columns(_)
RECURSIVE AllColumns(_)
RECURSIVE Outward(_, _)
RECURSIVE Eval(_, _)

Parts(sub) == <<sub.item>> \o sub.test
Qualifiers(from) == {from[k].name : k \in DOMAIN from}

\* validate_expr_columns: the columns an expression names, in order; those of a
\* subquery in it are left to the subquery.
Columns(e) ==
  IF e.op = "col" THEN <<e.col>> ELSE FlattenSeq([k \in DOMAIN e.args |-> Columns(e.args[k])])

\* The visitor of predicate_columns_available goes into subqueries too.
AllColumns(e) ==
  ToSet(Columns(e)) \cup UNION {AllColumns(e.args[k]) : k \in DOMAIN e.args}
  \cup (IF e.sub = <<>> THEN {} ELSE UNION {AllColumns(x) : x \in ToSet(Parts(e.sub[1]))})

\* validate_select_column_references: the first name that is not the name of one
\* column of the tables.
Misnamed(from, exprs) ==
  LET Meant(c) == {k \in DOMAIN from : c[2] \in from[k].cols /\ c[1] \in {"", from[k].name}}
      bad == SelectSeq(FlattenSeq([k \in DOMAIN exprs |-> Columns(exprs[k])]), LAMBDA c : Cardinality(Meant(c)) # 1)
  IN IF bad = <<>> THEN <<>>
     ELSE <<IF Meant(bad[1]) = {} THEN UnknownColumn(bad[1]) ELSE Ambiguous>>

\* Forms that expr_outer_reference does not look into.
Opaque == {"istrue", "isnottrue", "isfalse", "isnotfalse"}

\* expr_outer_reference: a qualified name of a table that is not a local one; a
\* subquery is asked about its own tables only.
Outward(e, local) ==
  /\ e.op \notin Opaque
  /\ \/ e.op = "col" /\ e.col[1] \notin local \cup {""}
     \/ \E k \in DOMAIN e.args : Outward(e.args[k], local)
     \/ e.sub # <<>> /\ \E x \in ToSet(Parts(e.sub[1])) : Outward(x, Qualifiers(e.sub[1].from))

\* query_outer_reference
Correlated(sub) == \E x \in ToSet(Parts(sub)) : Outward(x, Qualifiers(sub.from))

-----------------------------------------------------------------------------
(* Subqueries                                                              *)

\* The row of values, or the first failure among them.
Unless(values, result) ==
  LET failures == SelectSeq(values, Failed) IN IF failures = <<>> THEN result ELSE <<failures[1]>>

\* The rows that satisfy every test.
Passing(rows, test) ==
  SelectSeq(rows, LAMBDA row : \A k \in DOMAIN test : Truth(Eval(test[k], row)) = True)
Outcomes(rows, test) ==
  FlattenSeq([i \in DOMAIN rows |-> [k \in DOMAIN test |-> Eval(test[k], rows[i])]])

\* The column of the result: the values of the rows, their number or the greatest.
Listing(agg, values) ==
  LET known == SelectSeq(values, LAMBDA v : v # Null)
  IN CASE agg = "none" -> values
       [] agg = "count" -> <<Number(Len(known))>>
       [] agg = "max" -> IF known = <<>> THEN <<Null>>
                         ELSE <<CHOOSE v \in ToSet(known) : \A w \in ToSet(known) : Class(w) <= Class(v)>>

Items(sub, rows) == [i \in DOMAIN rows |-> Eval(sub.item, rows[i])]
Gathered(agg, values) == Unless(values, Listing(agg, values))
Answered(sub, rows) ==
  Unless(Outcomes(rows, sub.test), Gathered(sub.agg, Items(sub, Passing(rows, sub.test))))

\* A further table of a comma list takes the combined rows that the tests leave
\* whose columns they have; a test that fails here counts as not true.
Surviving(test, row) ==
  \A k \in DOMAIN test : AllColumns(test[k]) \subseteq DOMAIN row => Truth(Eval(test[k], row)) = True

FactorRowsOf(table) == [i \in DOMAIN table.rows |-> FactorRow(table.name, table.rows[i])]

Product(sub) ==
  LET Rows[n \in 1..Len(sub.from)] ==
        LET here == FactorRowsOf(sub.from[n]) IN
        IF n = 1 THEN here
        ELSE LET all == FlattenSeq([i \in DOMAIN Rows[n - 1] |->
                          [j \in DOMAIN here |-> Merged(Rows[n - 1][i], here[j])]])
             IN SelectSeq(all, LAMBDA row : Surviving(sub.test, row))
  IN Rows[Len(sub.from)]

\* select_query on its own.
Alone(sub) ==
  LET misnamed == Misnamed(sub.from, Parts(sub))
  IN IF misnamed # <<>> THEN misnamed ELSE Answered(sub, Product(sub))

\* Mutant: a name of the outer row hides that of the inner one.
WithinOuterFirst(sub, row) ==
  Answered(sub, [i \in DOMAIN sub.from[1].rows |-> Merged(row, FactorRow(sub.from[1].name, sub.from[1].rows[i]))])

\* eval_correlated_subquery: over the rows of the first table, with the columns
\* of the outer row that these lack.
Within(sub, row) ==
  LET inner == FactorRowsOf(sub.from[1]) IN Answered(sub, [i \in DOMAIN inner |-> Merged(inner[i], row)])

\* Alone it lacks a column that the outer row has.
Lacks(alone, row) ==
  Len(alone) = 1 /\ Class(alone[1]) = Class(UnknownColumn("")) /\ alone[1][2] \in DOMAIN row

\* eval_subquery_for_context: what is not seen to be correlated is tried on its
\* own, and again if it lacks a column that the outer row has.
SubValues(sub, row) ==
  LET alone == Alone(sub) IN IF Correlated(sub) \/ Lacks(alone, row) THEN Within(sub, row) ELSE alone

\* What the operator makes of the subquery's column, and of the value v before IN.
FromFound(op, found, v) ==
  IF op \in {"insub", "notinsub"} /\ Failed(v) THEN v
  ELSE IF found # <<>> /\ Failed(found[1]) THEN found[1]
  ELSE CASE op = "scalar" -> IF Len(found) > 1 THEN ManyRows ELSE IF found = <<>> THEN Null ELSE found[1]
         [] op = "exists" -> Bool(found # <<>>)
         [] op = "notexists" -> Bool(found = <<>>)
         [] op = "insub" -> In(v, found)
         [] op = "notinsub" -> Not(In(v, found))

\* Subquery, EXISTS and IN (subquery) of eval_expr_ctx.
EvalSubquery(e, row) == FromFound(e.op, SubValues(e.sub[1], row), Eval(e.args[1], row))

-----------------------------------------------------------------------------
(* CASE, and the functions that choose among their arguments               *)

\* Whether CASE takes the branch of a condition with this value.
Taken(e, row, v) == IF e.op = "case" THEN Truth(v) = True ELSE SqlEq(Eval(e.args[1], row), v)

\* CASE, with or without an operand: of the pairs [condition, result] the first that
\* is taken, or else the last argument.
Branch(e, row) ==
  LET n == Len(e.args)
      from == IF e.op = "case" THEN 1 ELSE 2
      Stops(k) == LET v == Eval(e.args[k], row) IN Failed(v) \/ Taken(e, row, v)
      stops == {k \in from..(n - 1) : (k - from) % 2 = 0 /\ Stops(k)}
      first == Minimum(stops)
  IN IF from = 2 /\ Failed(Eval(e.args[1], row)) THEN Eval(e.args[1], row)
     ELSE IF stops = {} THEN Eval(e.args[n], row)
     ELSE IF Failed(Eval(e.args[first], row)) THEN Eval(e.args[first], row)
     ELSE Eval(e.args[first + 1], row)

\* COALESCE and IFNULL: the first that is not NULL.
Coalesce(e, row) ==
  LET stops == {k \in DOMAIN e.args : Eval(e.args[k], row) # Null}
  IN IF stops = {} THEN Null ELSE Eval(e.args[Minimum(stops)], row)

\* An operator over the values of its arguments, or the first of them that failed.
OverValues(op, values) ==
  LET failures == SelectSeq(values, Failed)
  IN IF failures = <<>> THEN Operate(op, values) ELSE failures[1]

\* eval_expr_ctx
Eval(e, row) ==
  CASE e.op = "col" -> IF e.col \in DOMAIN row THEN row[e.col] ELSE UnknownColumn(e.col)
    [] e.op = "val" -> e.val
    [] e.op = "agg" -> row[<<"aggregate", e>>]
    [] e.sub # <<>> -> EvalSubquery(e, row)
    [] e.op \in {"case", "caseof"} -> Branch(e, row)
    [] e.op = "coalesce" -> Coalesce(e, row)
    [] OTHER -> OverValues(e.op, [k \in DOMAIN e.args |-> Eval(e.args[k], row)])
=============================================================================
