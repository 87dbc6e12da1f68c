----------------------------- MODULE SelectOps -----------------------------
(***************************************************************************)
(* The steps of a SELECT as functions of rows: comparison, the rows of a   *)
(* table in FROM, the hash join, ORDER BY and LIMIT, grouping, the frames  *)
(* of window functions, set operations.                                    *)
(*                                                                         *)
(* Values, rows and expressions are those of Expressions.                  *)
(***************************************************************************)
EXTENDS Expressions

Least(a, b) == IF a < b THEN a ELSE b

-----------------------------------------------------------------------------
(* ORDER BY, LIMIT and OFFSET                                              *)

\* The comparison of two rows by the ORDER BY items [col, asc].
KeyLess(order, x, y) ==
  \E k \in DOMAIN order :
    /\ \A m \in 1..(k - 1) : Class(x[order[m].col]) = Class(y[order[m].col])
    /\ LET cx == Class(x[order[k].col]) cy == Class(y[order[k].col])
       IN IF order[k].asc THEN cx < cy ELSE cx > cy

\* Rows of equal keys keep their places: position breaks the tie.
Precedes(order, rows, i, j) ==
  KeyLess(order, rows[i], rows[j]) \/ (~KeyLess(order, rows[j], rows[i]) /\ i < j)

Ranked(order, rows, S) ==
  LET place(i) == Cardinality({j \in S : Precedes(order, rows, j, i)}) + 1
  IN [k \in 1..Cardinality(S) |-> rows[CHOOSE i \in S : place(i) = k]]

Sorted(order, rows) == Ranked(order, rows, DOMAIN rows)

NoLimit == -1

\* limit_offset_end
LimitEnd(limit, offset) == IF limit = NoLimit THEN NoLimit ELSE offset + limit

\* apply_ordering_with: with a cap, a partial selection leaves the rows that come
\* first, in any order; these are sorted.
Ordered(rows, order, cap) ==
  IF order = <<>> \/ Len(rows) < 2 THEN rows
  ELSE IF cap = NoLimit \/ cap >= Len(rows) THEN Sorted(order, rows)
  ELSE LET first == CHOOSE S \in SUBSET DOMAIN rows :
             /\ Cardinality(S) = cap
             /\ \A i \in S, j \in DOMAIN rows \ S : Precedes(order, rows, i, j)
       IN Ranked(order, rows, first)

\* apply_limit_offset
Cut(rows, limit, offset) ==
  IF limit = NoLimit /\ offset = 0 THEN rows
  ELSE SubSeq(rows, offset + 1, IF limit = NoLimit THEN Len(rows) ELSE Least(offset + limit, Len(rows)))

-----------------------------------------------------------------------------
(* Rows as they are read                                                   *)
(* A table is [name, cols, keyed, rows, hints].  A stored row may lack      *)
(* columns, or hold values of another type: it was written under another    *)
(* schema.  hints gives, for some columns, [type, default, volatile,        *)
(* strict, generated]; the others are nullable columns without a type.      *)

NoHint == [type |-> "any", default |-> <<>>, volatile |-> FALSE, strict |-> FALSE, generated |-> <<>>]
Hint(table, c) == IF c \in DOMAIN table.hints THEN table.hints[c] ELSE NoHint
EmptyText == <<Letters, "none">>

\* coerce_value_for_column, coerce_number, coerce_bool: what cannot be converted stays.
Coerced(v, type) ==
  CASE v = Null \/ type = "any" \/ (type # "char" /\ IsWord(v)) -> v
    [] type = "int" -> Number(Class(v))
    [] type = "bool" -> IF v[2] = "number" THEN Bool(Class(v) # 0) ELSE IF Class(v) \in {0, 1} THEN <<Class(v), "bool">> ELSE v
    [] type = "char" -> IF v[2] = "number" THEN <<Class(v), "text">> ELSE v

\* What a row reads as that lacks the column (read_default_value,
\* implicit_not_null_value).
Absent(hint) ==
  CASE hint.default # <<>> -> IF hint.volatile THEN Null ELSE hint.default[1]
    [] hint.default = <<>> /\ hint.strict /\ hint.type = "char" -> EmptyText
    [] hint.default = <<>> /\ hint.strict /\ hint.type = "int" -> Number(0)
    [] OTHER -> Null

\* materialized_value_is_normalized
Normalized(v, type) ==
  \/ v = Null \/ type = "any"
  \/ type = (IF v[2] = "number" THEN "int" ELSE IF v[2] = "bool" THEN "bool" ELSE "char")

\* RowMaterializationPlan::for_select: the columns that are needed, or all if one of
\* these is generated.
Plan(table, needed) ==
  IF \E c \in needed \cap DOMAIN table.hints : table.hints[c].generated # <<>> THEN table.cols
  ELSE needed \cap table.cols

\* from_schema: rows can be handed out as they are.
DirectCopy(table) ==
  \A c \in DOMAIN table.hints :
    LET h == table.hints[c] IN h.default = <<>> /\ h.generated = <<>> /\ ~h.strict

\* An expression that cannot be evaluated leaves the value there was.
Otherwise(v, w) == IF Failed(v) THEN w ELSE v

\* current_schema_row
Rebuilt(table, plan, raw) ==
  LET read == [c \in plan |->
                 Coerced(IF c \in DOMAIN raw THEN raw[c] ELSE Absent(Hint(table, c)), Hint(table, c).type)]
      view == [c \in {""} \X plan |-> read[c[2]]]
  IN [c \in plan |-> IF Hint(table, c).generated = <<>> THEN read[c]
                     ELSE Otherwise(Eval(Hint(table, c).generated[1], view), read[c])]

\* current_schema_row_with_plan: nor is a row rebuilt that has the plan's columns with
\* values of their types.
CurrentRow(table, plan, raw) ==
  IF DirectCopy(table) /\ DOMAIN raw = plan /\ \A c \in plan : Normalized(raw[c], Hint(table, c).type)
  THEN raw ELSE Rebuilt(table, plan, raw)

-----------------------------------------------------------------------------
(* Rows of FROM, and joins                                                 *)

\* join_row_value: the column, or what its unqualified name finds in the row.
Finds(row, c) == c \in DOMAIN row \/ <<"", c[2]>> \in DOMAIN row
ValueOf(row, c) == IF c \in DOMAIN row THEN row[c] ELSE row[<<"", c[2]>>]

\* Mutant: an alternative of OR is taken for a requirement.
AnyEquality(on) == <<on.eqs[1]>>

\* required_equi_join_columns of ON with one equality, or two with AND or OR.
RequiredEquality(on) ==
  CASE Len(on.eqs) = 1 -> on.eqs
    [] on.glue = "and" -> <<on.eqs[1]>>
    [] OTHER -> IF on.eqs[1] \in {on.eqs[2], Reverse(on.eqs[2])} THEN <<on.eqs[1]>> ELSE <<>>

\* join_equi_keys: the columns the hash join goes by, or none.
JoinKeys(on, l, r) ==
  CASE on.kind = "using" -> << <<"", on.cols[1]>>, <<"", on.cols[1]>> >>
    [] on.kind = "on" /\ RequiredEquality(on) # <<>> ->
         LET eq == RequiredEquality(on)[1]
         IN IF Finds(l, eq[1]) /\ Finds(r, eq[2]) THEN eq
            ELSE IF Finds(l, eq[2]) /\ Finds(r, eq[1]) THEN Reverse(eq)
            ELSE <<>>
    [] OTHER -> <<>>

\* join_factor_matches
Shared(l, r) == {c \in DOMAIN l : c[1] = "" /\ c \in DOMAIN r}
Matches(on, l, r) ==
  LET both == Merged(l, r)
      Holds(eq) == SqlEq(both[eq[1]], both[eq[2]])
  IN CASE on.kind = "cross" -> TRUE
       [] on.kind = "on" -> IF on.glue = "or" THEN \E k \in DOMAIN on.eqs : Holds(on.eqs[k])
                            ELSE \A k \in DOMAIN on.eqs : Holds(on.eqs[k])
       [] on.kind = "using" -> \A k \in DOMAIN on.cols : SqlEq(l[<<"", on.cols[k]>>], r[<<"", on.cols[k]>>])
       [] on.kind = "natural" -> \A c \in Shared(l, r) : SqlEq(l[c], r[c])

\* The places in the right table that the hash of the left row's key leads to.
Bucket(keys, l, right) ==
  IF keys = <<>> THEN DOMAIN right
  ELSE {j \in DOMAIN right : ValueOf(l, keys[1]) # Null /\ ValueOf(right[j], keys[2]) = ValueOf(l, keys[1])}

InOrder(S) == SetToSortSeq(S, LAMBDA i, j : i < j)

\* One step of joined_table_factor_rows: left and right are row sequences, nulls
\* the row of NULLs of each.
Join(kind, on, left, right, leftNulls, rightNulls) ==
  LET keys == IF left = <<>> \/ right = <<>> THEN <<>> ELSE JoinKeys(on, left[1], right[1])
      Hits(i) == {j \in Bucket(keys, left[i], right) : Matches(on, left[i], right[j])}
      Of(i) == IF Hits(i) = {} /\ kind = "left" THEN <<Merged(left[i], rightNulls)>>
               ELSE LET h == InOrder(Hits(i)) IN [k \in DOMAIN h |-> Merged(left[i], right[h[k]])]
      lone == InOrder({j \in DOMAIN right : kind = "right" /\ \A i \in DOMAIN left : j \notin Hits(i)})
  IN FlattenSeq([i \in DOMAIN left |-> Of(i)])
     \o [k \in DOMAIN lone |-> Merged(leftNulls, right[lone[k]])]

(* WHERE is a conjunction: where.same are pairs of columns that are equal,  *)
(* where.is columns with a value, where.test other expressions.            *)

Satisfies(row, where) ==
  /\ \A k \in DOMAIN where.same : SqlEq(row[where.same[k][1]], row[where.same[k][2]])
  /\ \A k \in DOMAIN where.is : SqlEq(row[where.is[k][1]], where.is[k][2])
  /\ \A k \in DOMAIN where.test : Truth(Eval(where.test[k], row)) = True

\* The evaluation fails for a row.
Fails(row, where) == \E k \in DOMAIN where.test : Failed(Eval(where.test[k], row))

\* The predicates whose columns a row has (predicate_columns_available).
Available(row, where) ==
  [same |-> SelectSeq(where.same, LAMBDA eq : ToSet(eq) \subseteq DOMAIN row),
   is |-> SelectSeq(where.is, LAMBDA is : is[1] \in DOMAIN row),
   test |-> SelectSeq(where.test, LAMBDA e : AllColumns(e) \subseteq DOMAIN row)]

\* The columns by which a further table of a comma list is looked up.
CommaKeys(where, l, r) ==
  LET Fits(eq) == eq[1] \in DOMAIN l /\ eq[2] \in DOMAIN r
      usable == {k \in DOMAIN where.same : Fits(where.same[k]) \/ Fits(Reverse(where.same[k]))}
      eq == where.same[Minimum(usable)]
  IN IF usable = {} THEN <<>> ELSE IF Fits(eq) THEN eq ELSE Reverse(eq)

\* One further table of a comma list.
CommaJoin(where, left, right) ==
  LET keys == IF left = <<>> \/ right = <<>> THEN <<>> ELSE CommaKeys(where, left[1], right[1])
      Hits(i) == {j \in Bucket(keys, left[i], right) :
                    LET both == Merged(left[i], right[j]) IN Satisfies(both, Available(both, where))}
      Of(i) == LET h == InOrder(Hits(i)) IN [k \in DOMAIN h |-> Merged(left[i], right[h[k]])]
  IN FlattenSeq([i \in DOMAIN left |-> Of(i)])

-----------------------------------------------------------------------------
(* GROUP BY and DISTINCT                                                   *)
(* A grouping is [by, items, having]: expressions, the named expressions of *)
(* the select list, an expression or none.  An aggregate is an expression  *)
(* with call = <<[kind, distinct, order]>>, order of GROUP_CONCAT.          *)

\* deduplicate_rows: the first of each encoded row.
Deduplicated(rows) ==
  LET firsts == InOrder({i \in DOMAIN rows : \A j \in 1..(i - 1) : rows[j] # rows[i]})
  IN [k \in DOMAIN firsts |-> rows[firsts[k]]]

RECURSIVE HasAggregate(_)
RECURSIVE Aggregates(_)

\* expr_has_aggregate, aggregate_call
HasAggregate(e) == e.op = "agg" \/ \E k \in DOMAIN e.args : HasAggregate(e.args[k])
Aggregates(e) == IF e.op = "agg" THEN {e} ELSE UNION {Aggregates(e.args[k]) : k \in DOMAIN e.args}

\* json_scalar_to_string: a number and a word of the same digits print alike.
Printed(v) == <<Class(v), IF IsWord(v) THEN v[2] ELSE "number">>

\* Mutant: NULLs are values like any other.
GivenNulls(kind, v) == IF v = <<>> THEN <<Number(1)>> ELSE <<v[1]>>

\* What the arguments' values v give an aggregate: nothing if one of them is NULL;
\* COUNT( * ) a one.
Given(kind, v) ==
  LET unknown == Null \in ToSet(v)
  IN CASE kind = "list" -> <<v[1]>>
       [] kind = "object" -> IF v[1] = Null THEN <<>> ELSE <<v>>
       [] kind = "concat" -> IF unknown THEN <<>> ELSE <<[k \in DOMAIN v |-> Printed(v[k])]>>
       [] OTHER -> IF v = <<>> THEN <<Number(1)>> ELSE IF unknown THEN <<>> ELSE <<IF Len(v) = 1 THEN v[1] ELSE v>>

Gives(e, row) == Given(e.call[1].kind, [k \in DOMAIN e.args |-> Eval(e.args[k], row)])

\* The value of the aggregate over what it is given.  A text, a list and an object
\* are words.
Reduced(kind, values) ==
  LET classes == {Class(v) : v \in ToSet(values)}
      Of(c) == {k \in DOMAIN values : Class(values[k]) = c}
      keys == {Printed(v[1]) : v \in ToSet(values)}
      Latest(x) == Maximum({k \in DOMAIN values : Printed(values[k][1]) = x})
  IN CASE kind = "count" -> Number(Len(values))
       [] values = <<>> -> Null
       [] kind = "sum" -> Number(FoldLeft(LAMBDA acc, v : acc + NumberOf(v), 0, values))
       [] kind = "min" -> values[Minimum(Of(Minimum(classes)))]
       [] kind = "max" -> values[Maximum(Of(Maximum(classes)))]
       [] kind \in {"concat", "list"} -> <<Letters, values>>
       [] kind = "object" -> <<Letters, [x \in keys |-> values[Latest(x)][2]]>>

\* eval_aggregate_call
Contributed(e, rows) == FlattenSeq([i \in DOMAIN rows |-> Gives(e, rows[i])])
Distinctly(call, given) == IF call.distinct THEN Deduplicated(given) ELSE given
AggregateOf(e, group) ==
  LET call == e.call[1]
  IN Reduced(call.kind, Distinctly(call, Contributed(e, Sorted(call.order, group))))

\* materialize_aggregate_exprs: the aggregates of an expression become columns.
Materialized(e, group, row) ==
  row @@ [k \in {"aggregate"} \X Aggregates(e) |-> AggregateOf(k[2], group)]

\* group_rows: by encoded keys, the groups in the order of their keys; without
\* GROUP BY one group of all rows, were there none.
GroupsByKey(rows, by, key) ==
  LET firsts == {i \in DOMAIN rows : \A j \in 1..(i - 1) : key[j] # key[i]}
      Before(x, y) == \E k \in DOMAIN by : /\ Class(x[k]) < Class(y[k])
                                           /\ \A m \in 1..(k - 1) : Class(x[m]) = Class(y[m])
      sorted == SetToSortSeq(firsts, LAMBDA i, j : Before(key[i], key[j]) \/ (~Before(key[j], key[i]) /\ i < j))
  IN IF by = <<>> THEN <<rows>>
     ELSE [n \in DOMAIN sorted |->
             LET mates == InOrder({i \in DOMAIN rows : key[i] = key[sorted[n]]})
             IN [m \in DOMAIN mates |-> rows[mates[m]]]]

Groups(rows, by) == GroupsByKey(rows, by, [i \in DOMAIN rows |-> [k \in DOMAIN by |-> Eval(by[k], rows[i])]])

\* The rows with the select list's expressions over them, under their names unless
\* the row has a column of that name.
Aliased(rows, g) ==
  LET plain == {k \in DOMAIN g.items : ~HasAggregate(g.items[k].expr)}
      Named(k) == <<"", g.items[k].name>>
  IN [i \in DOMAIN rows |-> rows[i] @@ [c \in {Named(k) : k \in plain} |->
        Eval(g.items[CHOOSE k \in plain : Named(k) = c].expr, rows[i])]]

\* The row that stands for the group.
Base(group) == IF group = <<>> THEN <<>> ELSE group[1]

\* project_aggregate_item: of the select list over one group.
Projected(g, group) ==
  LET Item(c) == g.items[CHOOSE k \in DOMAIN g.items : <<"", g.items[k].name>> = c].expr
  IN [c \in {<<"", g.items[k].name>> : k \in DOMAIN g.items} |-> Eval(Item(c), Materialized(Item(c), group, Base(group)))]

\* HAVING, over the names of the select list and then the base row.
Having(g, group) ==
  IF g.having = <<>> THEN True
  ELSE Eval(g.having[1], Materialized(g.having[1], group, Projected(g, group) @@ Base(group)))

\* aggregate_select_result up to ORDER BY
Kept(g, groups) == SelectSeq(groups, LAMBDA group : Truth(Having(g, group)) = True)
ProjectedGroups(g, groups) == [n \in DOMAIN groups |-> Projected(g, groups[n])]
Aggregated(rows, g) == ProjectedGroups(g, Kept(g, Groups(Aliased(rows, g), g.by)))

-----------------------------------------------------------------------------
(* Window functions                                                        *)
(* Positions in a partition count from 0.  A frame is a set of positions;  *)
(* a frame clause is [units, lo, hi], a bound [way, n] with way -1 for     *)
(* PRECEDING, 0 for CURRENT ROW and 1 for FOLLOWING, and n = Far if it is  *)
(* UNBOUNDED.                                                              *)

Far == 1000
Clip(i, len) == IF i < 0 THEN 0 ELSE Least(i, len - 1)

\* The frames that window_frame_positions and window_range_frame_positions do not
\* refuse: each refuses some whose end is before their beginning.  GROUPS, always
\* refused, is left out.
Acceptable(frame, ordered) ==
  LET ways == <<frame.lo.way, frame.hi.way>>
  IN IF frame.units = "range" THEN ways # <<0, -1>> /\ (ordered \/ ways # <<1, 0>>)
     ELSE ways # <<1, 0>>

\* Mutant: the implicit frame of an ordered window ends at the current row.
FrameOfRowsToCurrent(frame, pos, len, ordered, peers) ==
  IF frame.units = "none" THEN 0..(IF ordered THEN pos ELSE len - 1)
  ELSE IF pos + frame.lo.way * frame.lo.n > pos + frame.hi.way * frame.hi.n THEN {}
  ELSE Clip(pos + frame.lo.way * frame.lo.n, len)..Clip(pos + frame.hi.way * frame.hi.n, len)

\* window_frame_positions of a frame it accepts, for ROWS and for RANGE without an
\* order.
FrameOfRows(frame, pos, len, ordered, peers) ==
  LET At(b) == pos + b.way * b.n
      lo == IF frame.units = "range" /\ frame.lo.way = 0 THEN Minimum(peers) ELSE Clip(At(frame.lo), len)
      hi == IF frame.units = "range" /\ frame.hi.way = 0 THEN Maximum(peers) ELSE Clip(At(frame.hi), len)
  IN IF frame.units = "none" THEN 0..(IF ordered THEN Maximum(peers) ELSE len - 1)
     ELSE IF At(frame.lo) > At(frame.hi) THEN {}
     ELSE lo..hi

\* window_range_frame_positions of a frame it accepts: values within the bounds around the current
\* one, from the first such row to the last.
FrameOfRange(frame, keys, pos) ==
  LET lower == keys[pos] + frame.lo.way * frame.lo.n
      upper == keys[pos] + frame.hi.way * frame.hi.n
      inside == {p \in DOMAIN keys : keys[p] >= lower /\ keys[p] <= upper}
  IN IF lower > upper \/ inside = {} THEN {} ELSE Minimum(inside)..Maximum(inside)

\* One window of materialize_window_values: partitions by encoded key, each in
\* its order with ties in the order of the rows.
Partition(w, rows, i) ==
  LET mates == {j \in DOMAIN rows : w.part = <<>> \/ rows[j][w.part[1]] = rows[i][w.part[1]]}
      place(j) == Cardinality({m \in mates : Precedes(w.order, rows, m, j)})
  IN [p \in 0..(Cardinality(mates) - 1) |-> CHOOSE j \in mates : place(j) = p]

Peers(w, rows, part, pos) ==
  {p \in DOMAIN part : \A q \in (Least(p, pos))..(IF p > pos THEN p ELSE pos) :
     ~KeyLess(w.order, rows[part[q]], rows[part[pos]]) /\ ~KeyLess(w.order, rows[part[pos]], rows[part[q]])}

Frame(w, rows, part, pos) ==
  LET len == Cardinality(DOMAIN part) IN
  IF w.frame.units = "range" /\ w.order # <<>>
  THEN FrameOfRange(w.frame, [p \in DOMAIN part |-> Class(rows[part[p]][w.order[1].col])], pos)
  ELSE FrameOfRows(w.frame, pos, len, w.order # <<>>, Peers(w, rows, part, pos))

\* window_function_value
WindowValue(w, rows, i) ==
  LET part == Partition(w, rows, i)
      len == Cardinality(DOMAIN part)
      pos == CHOOSE p \in DOMAIN part : part[p] = i
      peers == Peers(w, rows, part, pos)
      rises == {p \in 1..pos : KeyLess(w.order, rows[part[p - 1]], rows[part[p]])}
      rank == IF rises = {} THEN 1 ELSE Maximum(rises) + 1
      frame == Frame(w, rows, part, pos)
      Arg(p) == rows[part[p]][w.arg]
      span == ((len \div w.n) + 1) * (len % w.n)
  IN CASE w.fn = "row_number" -> Number(pos + 1)
       [] w.fn = "rank" -> Number(rank)
       [] w.fn = "dense_rank" -> Number(Cardinality(rises) + 1)
       [] w.fn = "cume" -> Number(Maximum(peers) + 1)
       [] w.fn = "ntile" ->
            Number(IF pos < span THEN (pos \div ((len \div w.n) + 1)) + 1
                   ELSE (len % w.n) + ((pos - span) \div (len \div w.n)) + 1)
       [] w.fn = "lag" -> IF pos >= w.n THEN Arg(pos - w.n) ELSE Null
       [] w.fn = "lead" -> IF pos + w.n < len THEN Arg(pos + w.n) ELSE Null
       [] w.fn = "first_value" -> IF frame = {} THEN Null ELSE Arg(Minimum(frame))
       [] w.fn = "last_value" -> IF frame = {} THEN Null ELSE Arg(Maximum(frame))
       [] w.fn = "nth_value" ->
            LET nth == IF w.n = 0 THEN 0 ELSE w.n - 1
            IN IF nth < Cardinality(frame) THEN Arg(Minimum(frame) + nth) ELSE Null
       [] w.fn = "count" -> Number(Cardinality({p \in frame : Arg(p) # Null}))

-----------------------------------------------------------------------------
(* Set operations                                                          *)

Times(row, rows) == Cardinality({k \in DOMAIN rows : rows[k] = row})
Nth(left, i) == Times(left[i], SubSeq(left, 1, i))

\* set_intersection and set_difference: with ALL a row of the right is used up
\* by one of the left.
Intersection(left, right, all) ==
  LET kept == InOrder({i \in DOMAIN left :
                 IF all THEN Nth(left, i) <= Times(left[i], right)
                 ELSE Times(left[i], right) > 0 /\ Nth(left, i) = 1})
  IN [k \in DOMAIN kept |-> left[kept[k]]]

Difference(left, right, all) ==
  LET kept == InOrder({i \in DOMAIN left :
                 IF all THEN Nth(left, i) > Times(left[i], right)
                 ELSE Times(left[i], right) = 0 /\ Nth(left, i) = 1})
  IN [k \in DOMAIN kept |-> left[kept[k]]]

Union(left, right, all) == IF all THEN left \o right ELSE Deduplicated(left \o right)
=============================================================================
