------------------------------- MODULE Select -------------------------------
(***************************************************************************)
(* The path of a SELECT through select_query and select_from: the rows of  *)
(* FROM, one join at a time, WHERE, then either groups or windows, ORDER   *)
(* BY, the select list, DISTINCT, LIMIT; set operations; and the rounds of *)
(* a recursive common table expression.                                    *)
(*                                                                         *)
(* A table is [name, cols, keyed, rows, hints], its rows in the order of   *)
(* the row map; keyed: column "a" is its primary key.  "b" may have an     *)
(* index.  Tables in subqueries have no hints.                             *)
(* A query of set "with" reads a name that its definitions [name, reads,    *)
(* list, is, columns] lead to a table of with.tables.                      *)
(***************************************************************************)
EXTENDS SelectOps, ExpressionMeaning

CONSTANTS
  Queries,     \* the queries, with the tables they read
  MaxRounds    \* rounds of a recursive expression (1000 in the code)

ASSUME RoundsAssumption == MaxRounds \in Nat \ {0}

VARIABLES
  query,      \* what is asked
  stage,      \* what comes next
  rows,       \* the rows so far
  step,       \* tables joined, or rounds done
  frontier,   \* the rows the last round has added
  unordered   \* the rows as they came to ORDER BY (history)

vars == <<query, stage, rows, step, frontier, unordered>>

a == "a"
b == "b"

Sources == query.from
First == Sources[1]
Single == query.set = "none" /\ Len(Sources) = 1
Joined == query.set = "none" /\ Len(Sources) > 1
FromDerived == query.set = "none" /\ query.with # <<>>

Init ==
  /\ query \in Queries
  /\ stage = "from" /\ rows = <<>> /\ step = 0
  /\ frontier = <<>> /\ unordered = <<>>

\* projection_has_aggregate
Grouping ==
  query.group # <<>>
  /\ (query.group[1].by # <<>> \/ \E k \in DOMAIN query.group[1].items : HasAggregate(query.group[1].items[k].expr))
AfterFrom == IF Grouping THEN "group" ELSE IF query.window # <<>> THEN "window" ELSE "order"

-----------------------------------------------------------------------------
(* FROM and WHERE                                                          *)

\* The columns that the select list, WHERE, GROUP BY, HAVING and ORDER BY name, with
\* those of expressions within expressions (collect_expr_columns).  The definitions
\* of named windows are not looked at.
Argless == {"row_number", "rank", "dense_rank", "cume", "ntile"}
NamedBy(e) ==
  AllColumns(e) \cup UNION {{x.call[1].order[k].col : k \in DOMAIN x.call[1].order} : x \in Aggregates(e)}
Read ==
  CASE query.group # <<>> ->
         LET g == query.group[1] IN UNION {NamedBy(e) : e \in ToSet(g.by \o g.having) \cup {g.items[k].expr : k \in DOMAIN g.items}}
    [] query.window # <<>> ->
         LET w == query.window[1] IN {w.arg : f \in {w.fn} \ Argless} \cup ToSet(w.part) \cup {w.order[k].col : k \in DOMAIN w.order}
    [] OTHER -> {}
Needed ==
  LET where == query.where IN
  query.list \cup {c[2] : c \in Read \cup {query.order[k].col : k \in DOMAIN query.order}
                     \cup UNION {ToSet(eq) : eq \in ToSet(where.same)} \cup {is[1] : is \in ToSet(where.is)}
                     \cup UNION {NamedBy(e) : e \in ToSet(where.test)}}

\* The rows of a table as a factor of FROM, with the columns of the plan.
View(table, plan, raws) == [i \in DOMAIN raws |-> FactorRow(table.name, CurrentRow(table, plan, raws[i]))]
InKeyOrder(table) == IF table.keyed THEN Sorted(<< [col |-> a, asc |-> TRUE] >>, table.rows) ELSE table.rows
FactorRows(table) == View(table, table.cols, InKeyOrder(table))
Nulls(table) == FactorRow(table.name, [c \in table.cols |-> Null])

Filtered(seq) == SelectSeq(seq, LAMBDA row : Satisfies(row, query.where))

\* WHERE over the rows there are: an evaluation that fails ends the query.
Filter(seq) ==
  IF \E i \in DOMAIN seq : Fails(seq[i], query.where)
  THEN rows' = <<>> /\ stage' = "failed"
  ELSE rows' = Filtered(seq) /\ stage' = AfterFrom

\* validate_select_column_references
Misnames == Misnamed(Sources, query.where.test) # <<>>

\* A name in WHERE is not that of one column of the tables.
Refuse ==
  /\ stage = "from" /\ query.set = "none" /\ Misnames
  /\ stage' = "failed" /\ UNCHANGED <<query, rows, step, frontier, unordered>>

\* try_index_lookup: WHERE is one equality of the indexed column and a value, and
\* the index has this very value.
Hits ==
  IF query.indexed /\ query.where.same = <<>> /\ query.where.test = <<>> /\ Len(query.where.is) = 1 /\ query.where.is[1][1] = <<"", b>>
  THEN {i \in DOMAIN First.rows : Rebuilt(First, First.cols, First.rows[i])[b] = query.where.is[1][2]}
  ELSE {}

\* order_by_covers_primary_key
OrderCoversKey == First.keyed /\ \E k \in DOMAIN query.order : query.order[k].col[2] = a

IndexHit ==
  /\ stage = "from" /\ Single /\ ~FromDerived
  /\ \E hits \in {InOrder(Hits)} : hits # <<>> /\
       Filter(View(First, Plan(First, Needed), [k \in DOMAIN hits |-> First.rows[hits[k]]]))
  /\ UNCHANGED <<query, step, frontier, unordered>>

\* A SELECT without FROM reads the one row of no columns.
Nothing == [name |-> "", cols |-> {}, keyed |-> FALSE, rows |-> << [c \in {} |-> Null] >>, hints |-> [c \in {} |-> NoHint]]
NoTable == First.name = ""

SelectNothing ==
  /\ stage = "from" /\ Single /\ NoTable /\ ~Misnames
  /\ Filter(View(Nothing, {}, Nothing.rows))
  /\ UNCHANGED <<query, step, frontier, unordered>>

Scan ==
  /\ stage = "from" /\ Single /\ ~NoTable /\ ~FromDerived /\ Hits = {} /\ ~Misnames
  /\ Filter(View(First, Plan(First, Needed), IF OrderCoversKey /\ query.window = <<>> THEN First.rows ELSE InKeyOrder(First)))
  /\ UNCHANGED <<query, step, frontier, unordered>>

\* The first table of several.
Root ==
  /\ stage = "from" /\ (Joined \/ FromDerived) /\ ~Misnames
  /\ rows' = FactorRows(First) /\ step' = 1
  /\ stage' = "join" /\ UNCHANGED <<query, frontier, unordered>>

\* The row of NULLs of the tables joined so far.
NullsOf(n) ==
  [c \in UNION {{"", Sources[k].name} \X Sources[k].cols : k \in 1..n} |-> Null]

JoinNext ==
  /\ stage = "join" /\ step < Len(Sources)
  /\ \E right \in {FactorRows(Sources[step + 1])} :
       LET join == query.joins[step] IN
       rows' = IF join.kind = "comma" THEN CommaJoin(query.where, rows, right)
               ELSE Join(join.kind, join.on, rows, right, NullsOf(step), Nulls(Sources[step + 1]))
  /\ step' = step + 1
  /\ UNCHANGED <<query, stage, frontier, unordered>>

Where ==
  /\ stage = "join" /\ step = Len(Sources)
  /\ Filter(rows)
  /\ UNCHANGED <<query, step, frontier, unordered>>

-----------------------------------------------------------------------------
(* WITH, and derived tables                                                *)

\* Of the first k definitions the last one of a name, or 0.
Latest(with, name, k) == Maximum({0} \cup {d \in 1..k : with.defs[d].name = name})

Endless == 0

RECURSIVE Inlined(_, _, _, _)

\* inline_common_table_expressions: the definitions a name stands for, one in the other.
\* A definition takes in those before it; wherever it is itself taken in, names
\* that are left in it are looked up again.
Inlined(with, name, k, seen) ==
  LET d == Latest(with, name, k)
      here == <<d>> \o Inlined(with, with.defs[d].reads, d - 1, {})
  IN CASE d = 0 -> <<>>
       [] d \in seen -> <<Endless>>
       [] OTHER -> IF Last(here) = Endless THEN here
                   ELSE here \o Inlined(with, with.defs[Last(here)].reads, k, seen \cup ToSet(here))

StoredTable(with, name) == with.tables[CHOOSE k \in DOMAIN with.tables : with.tables[k].name = name]
NamesOf(d) == IF d.columns = <<>> THEN d.list ELSE d.columns
Renamed(d, row) == [c \in ToSet(NamesOf(d)) |-> row[d.list[CHOOSE k \in DOMAIN d.list : NamesOf(d)[k] = c]]]

RECURSIVE ResultOf(_, _)

\* The rows of the definitions along a path, under the names of their columns.
ResultOf(with, path) ==
  LET d == with.defs[path[1]]
      table == StoredTable(with, d.reads)
      source == IF Len(path) > 1 THEN ResultOf(with, Tail(path)) ELSE InKeyOrder(table)
      kept == SelectSeq(source, LAMBDA row : \A k \in DOMAIN d.is : SqlEq(row[d.is[k][1]], d.is[k][2]))
  IN [i \in DOMAIN kept |-> Renamed(d, kept[i])]

\* What WITH gives the name that the query reads; it fails if a definition names
\* more or fewer columns than it has.
Inline ==
  /\ stage = "from" /\ query.set = "with"
  /\ LET with == query.with[1] IN
     \E path \in {Inlined(with, with.reads, Len(with.defs), {})} :
       IF \E k \in DOMAIN path : path[k] = Endless \/ Len(NamesOf(with.defs[path[k]])) # Len(with.defs[path[k]].list)
       THEN stage' = "failed" /\ UNCHANGED query
       ELSE /\ query' = [query EXCEPT !.set = "none", !.from =
                 << [name |-> with.reads, cols |-> ToSet(NamesOf(with.defs[path[1]])), keyed |-> FALSE,
                     rows |-> ResultOf(with, path), hints |-> [c \in {} |-> NoHint]] >>]
            /\ UNCHANGED stage
  /\ UNCHANGED <<rows, step, frontier, unordered>>

-----------------------------------------------------------------------------
(* Groups, windows, ORDER BY, the select list, DISTINCT, LIMIT             *)

Cap == LimitEnd(query.limit, query.offset)
Listed(row) == [c \in {<<"", n>> : n \in query.list} |-> row[c]]

\* aggregate_select_result, to the order of its rows; without a value for every
\* name the query fails.
Group ==
  /\ stage = "group"
  /\ \E groups \in {Aggregated(rows, query.group[1])} :
     \E out \in {IF query.distinct THEN Deduplicated(groups) ELSE groups} :
       LET broken == \E i \in DOMAIN out : \E c \in DOMAIN out[i] : Failed(out[i][c])
       IN IF broken THEN rows' = <<>> /\ stage' = "failed" /\ UNCHANGED unordered
          ELSE rows' = Ordered(out, query.order, Cap) /\ unordered' = out /\ stage' = "cut"
  /\ UNCHANGED <<query, step, frontier>>

RECURSIVE Definition(_, _)

\* resolve_named_window: none if there is none, or it is defined by itself.
Definition(name, seen) ==
  LET of == {k \in DOMAIN query.windows : query.windows[k].name = name}
      found == query.windows[Minimum(of)]
  IN IF of = {} \/ name \in seen THEN <<>>
     ELSE IF found.parent = <<>> THEN <<found>> ELSE Definition(found.parent[1], seen \cup {name})

\* resolve_window_spec: what OVER (name ...) says goes before what the name stands for.
Over(w, d) ==
  [w EXCEPT !.part = IF @ = <<>> THEN d.part ELSE @, !.order = IF @ = <<>> THEN d.order ELSE @,
            !.frame = IF @.units = "none" THEN d.frame ELSE @]
Resolved(w) ==
  IF w.named = <<>> THEN <<w>>
  ELSE LET found == Definition(w.named[1], {}) IN [k \in DOMAIN found |-> Over(w, found[k])]

\* The columns a window goes by.
Keys(w) == ToSet(w.part) \cup {w.order[k].col : k \in DOMAIN w.order}

\* materialize_window_values
Window ==
  /\ stage = "window"
  /\ \E found \in {Resolved(query.window[1])} :
       IF rows # <<>> /\ (\/ found = <<>> \/ ~(Keys(found[1]) \subseteq DOMAIN rows[1])
                          \/ ~Acceptable(found[1].frame, found[1].order # <<>>))
       THEN rows' = <<>> /\ stage' = "failed"
       ELSE /\ rows' = [i \in DOMAIN rows |-> rows[i] @@ [c \in {<<"", "win">>} |-> WindowValue(found[1], rows, i)]]
            /\ stage' = "order"
  /\ UNCHANGED <<query, step, frontier, unordered>>

\* Mutant: the first rows are picked before the duplicates go.
OrderCapped ==
  /\ stage = "order"
  /\ rows' = Ordered(rows, query.order, Cap)
  /\ unordered' = rows
  /\ stage' = "project" /\ UNCHANGED <<query, step, frontier>>

\* With DISTINCT every row is ordered.
Order ==
  /\ stage = "order"
  /\ rows' = Ordered(rows, query.order, IF query.distinct THEN NoLimit ELSE Cap)
  /\ unordered' = rows
  /\ stage' = "project" /\ UNCHANGED <<query, step, frontier>>

Project ==
  /\ stage = "project"
  /\ LET listed == [i \in DOMAIN rows |-> Listed(rows[i])] IN
     rows' = IF query.distinct THEN Deduplicated(listed) ELSE listed
  /\ stage' = "cut" /\ UNCHANGED <<query, step, frontier, unordered>>

Limit ==
  /\ stage = "cut"
  /\ rows' = Cut(rows, query.limit, query.offset)
  /\ stage' = "done" /\ UNCHANGED <<query, step, frontier, unordered>>

-----------------------------------------------------------------------------
(* Set operations of two results, and recursion                            *)

\* The rows of a SELECT of a set operation; remap_set_row gives the right columns the
\* names of the left ones.
ResultRows(table) == [i \in DOMAIN table.rows |-> FactorRow(First.name, table.rows[i])]

Combine ==
  /\ stage = "from" /\ query.set \in {"union", "intersect", "except"}
  /\ LET left == ResultRows(First)
         right == ResultRows(Sources[2])
     IN rows' = CASE query.set = "union" -> Union(left, right, query.all)
                  [] query.set = "intersect" -> Intersection(left, right, query.all)
                  [] query.set = "except" -> Difference(left, right, query.all)
  /\ stage' = "combined" /\ UNCHANGED <<query, step, frontier, unordered>>

OrderCombined ==
  /\ stage = "combined"
  /\ rows' = Ordered(rows, query.order, Cap)
  /\ unordered' = rows
  /\ stage' = "cut" /\ UNCHANGED <<query, step, frontier>>

\* expand_recursive_common_table_expressions: the seed is kept as it is.
Seed ==
  /\ stage = "from" /\ query.set = "recursive"
  /\ rows' = First.rows /\ frontier' = First.rows
  /\ stage' = "recur" /\ UNCHANGED <<query, step, unordered>>

\* The recursive part finds the "b" of the edges whose "a" a row of the last
\* round is.
Successors(seq) ==
  FlattenSeq([i \in DOMAIN seq |->
    LET out == SelectSeq(Sources[2].rows, LAMBDA e : SqlEq(e[a], seq[i][a]))
    IN [k \in DOMAIN out |-> [c \in {a} |-> out[k][b]]]])

Fresh == SelectSeq(Deduplicated(Successors(frontier)), LAMBDA row : row \notin ToSet(rows))

Round ==
  /\ stage = "recur" /\ step < MaxRounds /\ Fresh # <<>>
  /\ rows' = rows \o Fresh /\ frontier' = Fresh /\ step' = step + 1
  /\ UNCHANGED <<query, stage, unordered>>

\* Nothing new, or the last round.
Rounds ==
  /\ stage = "recur" /\ (step = MaxRounds \/ Fresh = <<>>)
  /\ stage' = "done" /\ UNCHANGED <<query, rows, step, frontier, unordered>>

Next ==
  \/ Inline \/ Refuse \/ SelectNothing \/ IndexHit \/ Scan \/ Root \/ JoinNext \/ Where
  \/ Group \/ Window \/ Order \/ Project \/ Limit
  \/ Combine \/ OrderCombined \/ Seed \/ Round \/ Rounds

Spec == Init /\ [][Next]_vars

-----------------------------------------------------------------------------
(* Properties.  The references speak of the stored rows, or of the rows     *)
(* that came to ORDER BY, by counting.                                     *)

\* A stored row under the columns that its table has now.
Declared(k, i) ==
  LET table == Sources[k]
      raw == table.rows[i]
      base == [c \in table.cols |->
                 Coerced(IF c \in DOMAIN raw THEN raw[c] ELSE Absent(Hint(table, c)), Hint(table, c).type)]
  IN [c \in table.cols |->
        LET e == Hint(table, c).generated IN IF e = <<>> THEN base[c] ELSE Meaning(e[1], <<FactorRow("", base)>>)]

Contents == [k \in DOMAIN Sources |-> [i \in DOMAIN Sources[k].rows |-> Declared(k, i)]]

\* Values of one class have one form: no 1 beside '1', no 'a' beside 'A'.
OneForm(values) == \A v, w \in values : Class(v) = Class(w) => v = w
Exact ==
  OneForm({query.where.is[k][2] : k \in DOMAIN query.where.is}
          \cup UNION {UNION {Range(row) : row \in ToSet(table)} : table \in ToSet(Contents)})

\* Contents D, and a choice t of a row of each of the first tables, 0 for a row of
\* NULLs.
Cell(D, t, c) ==
  LET k == CHOOSE i \in DOMAIN Sources : Sources[i].name = c[1]
  IN IF t[k] = 0 THEN Null ELSE D[k][t[k]][c[2]]
Holds(D, t, eq) == SqlEq(Cell(D, t, eq[1]), Cell(D, t, eq[2]))

Meets(D, join, t) ==
  LET Same(c) == << <<First.name, c>>, <<Sources[Len(t)].name, c>> >>
      needed == CASE join.on.kind = "on" -> ToSet(join.on.eqs)
                  [] join.on.kind = "using" -> {Same(c) : c \in ToSet(join.on.cols)}
                  [] join.on.kind = "natural" -> {Same(c) : c \in First.cols \cap Sources[Len(t)].cols}
                  [] OTHER -> {}
      held == {eq \in needed : Holds(D, t, eq)}
  IN IF join.on.glue = "or" THEN held # {} ELSE held = needed

\* The nested loop over the tables.
NestedLoop(D) ==
  LET Loop[n \in 1..Len(Sources)] ==
        LET here == DOMAIN Sources[n].rows IN
        IF n = 1 THEN {<<i>> : i \in here}
        ELSE LET join == query.joins[n - 1]
                 left == Loop[n - 1]
                 met == {p \in left \X here : Meets(D, join, Append(p[1], p[2]))}
                 loneLeft == {t \in left : join.kind = "left" /\ \A p \in met : p[1] # t}
                 loneRight == {j \in here : join.kind = "right" /\ \A p \in met : p[2] # j}
             IN {Append(p[1], p[2]) : p \in met}
                \cup {Append(t, 0) : t \in loneLeft}
                \cup {Append([k \in 1..(n - 1) |-> 0], j) : j \in loneRight}
  IN Loop[Len(Sources)]

\* Each row as often as a choice of rows gives it.
Counted(wanted, got) ==
  \A row \in Range(wanted) \cup ToSet(got) : Cardinality({t \in DOMAIN wanted : wanted[t] = row}) = Times(row, got)

\* A join returns the rows of the nested loop over its tables that satisfy WHERE,
\* each as often (joined_table_factor_rows, the comma list of select_from).
JoinIsDefined ==
  Joined /\ query.where.test = <<>> /\ stage = AfterFrom =>
    \A D \in {Contents} :
      LET columns == UNION {{Sources[k].name} \X Sources[k].cols : k \in DOMAIN Sources}
          chosen == {t \in NestedLoop(D) :
                       /\ \A k \in DOMAIN query.where.same : Holds(D, t, query.where.same[k])
                       /\ \A k \in DOMAIN query.where.is : SqlEq(Cell(D, t, query.where.is[k][1]), query.where.is[k][2])}
      IN Counted([t \in chosen |-> [c \in columns |-> Cell(D, t, c)]],
                 [k \in DOMAIN rows |-> [c \in columns |-> rows[k][c]]])

\* ON is looked up by one of its equalities.  Written with the column of the tables
\* so far first it is found as it is meant; otherwise only if no unqualified column
\* of the same name stands in the way.
Named(n) ==
  LET on == query.joins[n].on
      eq == RequiredEquality(on)[1]
      left == {Sources[k].name : k \in 1..n}
      leftColumns == UNION {Sources[k].cols : k \in 1..n}
      right == Sources[n + 1]
      Meant(p) == p[1][1] \in left /\ p[2][1] = right.name
      Found(p) == /\ p[1][1] \in left \/ p[1][2] \in leftColumns
                  /\ p[2][1] = right.name \/ p[2][2] \in right.cols
  IN on.kind = "on" /\ RequiredEquality(on) # <<>> =>
       Meant(eq) \/ \A p \in {eq, Reverse(eq)} : Found(p) => Meant(p)

\* The same where every value has one form and ON names its columns so that the
\* hash lookup finds them (join_equi_keys, JoinKey, the null rows of outer joins).
JoinIsNestedLoop ==
  Joined /\ Exact /\ (\A n \in DOMAIN query.joins : Named(n)) => JoinIsDefined

\* The rows that come to ORDER BY are, each as often, those of the definition: the
\* stored rows that satisfy WHERE whether or not an index finds them, one row for
\* each group with what is counted over its members, and for set operations as
\* many of each row as SQL says (select_single_table, aggregate_select_result,
\* set_intersection, set_difference).
Stored(D, i) == FactorRow(First.name, D[1][i])
Satisfying(D) == {i \in DOMAIN D[1] : Satisfies(Stored(D, i), query.where)}

\* Over the rows of a group in the order they are stored.
OverGroup(D, e, members) ==
  LET g == [i \in members |-> Stored(D, i)]
  IN [k \in {"aggregate"} \X Aggregates(e) |-> AggregateMeaning(k[2], g)]

\* The meaning of every name of the select list over the rows of a group, one of
\* which is in base.
ListMeaning(D, g, members, base) ==
  LET Label(k) == <<"", g.items[k].name>> IN
  [c \in {Label(k) : k \in DOMAIN g.items} |->
     LET e == g.items[CHOOSE k \in DOMAIN g.items : Label(k) = c].expr
     IN Meaning(e, <<OverGroup(D, e, members), base>>)]

\* The names of the select list that mean something in a single row.
NameMeaning(g, row) ==
  LET Label(k) == <<"", g.items[k].name>>
      plain == {k \in DOMAIN g.items : Aggregates(g.items[k].expr) = {}}
  IN [c \in {Label(k) : k \in plain} |-> Meaning(g.items[CHOOSE k \in plain : Label(k) = c].expr, <<row>>)]

KeyMeaning(g, row) == [k \in DOMAIN g.by |-> Meaning(g.by[k], <<row, NameMeaning(g, row)>>)]

\* A group: what HAVING asks and the select list shows.
GroupMeaning(D, g, members) ==
  LET base == IF members = {} THEN <<>> ELSE Stored(D, CHOOSE i \in members : TRUE)
      shown == ListMeaning(D, g, members, base)
  IN [shown |-> shown,
      kept |-> \A k \in DOMAIN g.having :
                 Degree(g.having[k], <<OverGroup(D, g.having[k], members), shown, base>>) = 2]

\* The rows that come are the kept groups, each as often.
AsOften(groups) ==
  LET HowMany(row) == Cardinality({key \in DOMAIN groups : groups[key].kept /\ groups[key].shown = row})
  IN \A row \in ToSet(unordered) \cup {groups[key].shown : key \in DOMAIN groups} :
       Times(row, unordered) = IF query.distinct THEN Least(1, HowMany(row)) ELSE HowMany(row)

GroupMeanings(D, g, key) ==
  LET keys == IF g.by = <<>> THEN {<<>>} ELSE {key[i] : i \in DOMAIN key}
  IN [k \in keys |-> GroupMeaning(D, g, {i \in DOMAIN key : key[i] = k})]

GroupedRows(D) ==
  LET g == query.group[1]
  IN AsOften(GroupMeanings(D, g, [i \in Satisfying(D) |-> KeyMeaning(g, Stored(D, i))]))

Combined ==
  LET InLeft(row) == Times(row, ResultRows(First))
      InRight(row) == Times(row, ResultRows(Sources[2]))
      Wanted(row) ==
        LET l == InLeft(row) r == InRight(row) IN
        CASE query.set = "union" -> IF query.all THEN l + r ELSE Least(1, l + r)
          [] query.set = "intersect" -> IF query.all THEN Least(l, r) ELSE Least(1, Least(l, r))
          [] query.set = "except" -> IF query.all THEN Maximum({l - r, 0}) ELSE IF r > 0 THEN 0 ELSE Least(1, l)
  IN \A row \in ToSet(unordered) \cup ToSet(ResultRows(First))
                 \cup ToSet(ResultRows(Sources[2])) :
       Times(row, unordered) = Wanted(row)

Paths[n \in 0..MaxRounds] ==
  IF n = 0 THEN {First.rows[i][a] : i \in DOMAIN First.rows}
  ELSE Paths[n - 1] \cup {Sources[2].rows[i][b] : i \in
         {i \in DOMAIN Sources[2].rows : \E v \in Paths[n - 1] : SqlEq(v, Sources[2].rows[i][a])}}

\* The definitions as names are bound in SQL: to the last one before.  For each the
\* rows that are left of the table it comes to.
Meant(with) ==
  LET Rows[d \in 1..Len(with.defs)] ==
        LET def == with.defs[d]
            p == Latest(with, def.reads, d - 1)
            source == IF p = 0 THEN StoredTable(with, def.reads).rows ELSE Rows[p]
            kept == {i \in DOMAIN source : def.is # <<>> => SqlEq(source[i][def.is[1][1]], def.is[1][2])}
        IN [i \in kept |-> [c \in ToSet(NamesOf(def)) |->
              source[i][def.list[CHOOSE k \in DOMAIN def.list : NamesOf(def)[k] = c]]]]
  IN Rows[Latest(with, with.reads, Len(with.defs))]

\* A definition reads a name that it or a later one defines.
Shadows(with) == \E d, e \in DOMAIN with.defs : d <= e /\ with.defs[e].name = with.defs[d].reads

RowsAreDefined ==
  /\ FromDerived /\ stage = "from" /\ ~Shadows(query.with[1]) => Counted(Meant(query.with[1]), First.rows)
  /\ stage \in {"project", "cut"} /\ Single /\ query.window = <<>> /\ query.where.test = <<>> /\ Exact =>
       \A D \in {Contents} :
         LET names == {<<"", c>> : c \in query.list \cup {query.order[k].col[2] : k \in DOMAIN query.order}}
         IN IF query.group # <<>> THEN stage = "cut" => GroupedRows(D)
            ELSE Counted([i \in Satisfying(D) |-> [c \in names |-> Stored(D, i)[c]]],
                         [k \in DOMAIN unordered |-> [c \in names |-> unordered[k][c]]])
  /\ stage = "cut" /\ query.set # "none" => Combined
  /\ stage = "done" /\ query.set = "recursive" =>
       /\ {rows[k][a] : k \in DOMAIN rows} = Paths[MaxRounds]
       /\ \A k, m \in DOMAIN rows : k < m /\ rows[k] = rows[m] => m <= Len(First.rows)

\* Of the rows i that are judged, those are left for which every test is TRUE, not
\* NULL, in the three-valued logic of SQL.
KeepsTheTrue(D, judged) ==
  LET tests == query.where.test
      wanted == {i \in judged : \A k \in DOMAIN tests : Degree(tests[k], <<Stored(D, i)>>) = 2}
      view == {Stored(D, i) : i \in judged}
  IN Counted([i \in wanted |-> Stored(D, i)], SelectSeq(rows, LAMBDA row : row \in view))

OnlyTests == Single /\ query.where.test # <<>> /\ query.where.same = <<>> /\ query.where.is = <<>>

\* The tests of WHERE keep the rows for which they are TRUE, with names bound to the
\* innermost table that has them, whether a subquery is run once, for each row, or
\* again after it failed; and a query fails if and only if a scalar subquery that
\* counts has several rows (eval_expr_ctx, eval_in_values,
\* eval_subquery_for_context).  Left out are rows for which NULL is looked for in a
\* subquery that selects nothing, which TestsAreSql is about.
TestsAreDefined ==
  LET tests == query.where.test
      Some(D, Of(_, _)) == \E i \in DOMAIN D[1], k \in DOMAIN tests : Of(tests[k], <<Stored(D, i)>>)
      Judged(D) == {i \in DOMAIN D[1] : \A k \in DOMAIN tests : ~Vacuous(tests[k], <<Stored(D, i)>>)}
  IN OnlyTests =>
       \A D \in {Contents} :
         /\ stage = AfterFrom => ~Some(D, LAMBDA e, scopes : Breaks(e, scopes, FALSE)) /\ KeepsTheTrue(D, Judged(D))
         /\ stage = "failed" => Misnames \/ Some(D, LAMBDA e, scopes : Breaks(e, scopes, TRUE))

\* What the repository says of every test: MySQL's three-valued logic.  It does not
\* hold: the code has NULL IN (no rows) as NULL, where MySQL has it FALSE
\* (eval_in_values), so NOT IN drops the row.
TestsAreSql ==
  OnlyTests /\ stage = AfterFrom => \A D \in {Contents} : KeepsTheTrue(D, DOMAIN D[1])

\* The rows are the page of the whole list of those that came.
PageOf(came) ==
  LET Before(i, j) == \/ KeyLess(query.order, came[i], came[j])
                      \/ ~KeyLess(query.order, came[j], came[i]) /\ i < j
      Shown(i) == IF query.group = <<>> /\ query.set = "none" THEN Listed(came[i]) ELSE came[i]
      \* a row that no earlier row shows too
      counted == {i \in DOMAIN came : query.distinct => ~\E j \in DOMAIN came : Before(j, i) /\ Shown(j) = Shown(i)}
      Place(i) == Cardinality({j \in counted : Before(j, i)}) + 1
      page == {i \in counted : Place(i) > query.offset
                               /\ (query.limit # NoLimit => Place(i) <= query.offset + query.limit)}
  IN /\ Len(rows) = Cardinality(page)
     /\ \A i \in page : rows[Place(i) - query.offset] = Shown(i)

\* The answer is the page that LIMIT and OFFSET cut from the whole list: all rows
\* in order, ties as they came (a scan brings them by primary key), reduced to the
\* select list and, with DISTINCT, to the first of each (apply_ordering_with,
\* limit_offset_end, apply_limit_offset, order_by_covers_primary_key).
AnswerIsPage ==
  stage = "done" /\ query.set # "recursive" =>
    PageOf(IF Single /\ query.group = <<>> /\ Hits = {} /\ query.window = <<>> THEN Filtered(FactorRows(First))
           ELSE unordered)

\* The definitions that a window's name leads to.
MeantBy(name) ==
  LET n == Len(query.windows)
      Of(x) == {k \in 1..n : query.windows[k].name = x /\ \A m \in 1..(k - 1) : query.windows[m].name # x}
      Reached[m \in 0..n] ==
        IF m = 0 THEN Of(name)
        ELSE Reached[m - 1] \cup UNION {UNION {Of(x) : x \in ToSet(query.windows[k].parent)} : k \in Reached[m - 1]}
  IN {query.windows[k] : k \in {k \in Reached[n] : query.windows[k].parent = <<>>}}

NoFrame == LET here == [way |-> 0, n |-> 0] IN [units |-> "none", lo |-> here, hi |-> here]
Instead(x, silent, y) == IF x # silent THEN x ELSE y
SaidOr(w, d) ==
  [fn |-> w.fn, arg |-> w.arg, n |-> w.n, part |-> Instead(w.part, <<>>, d.part), order |-> Instead(w.order, <<>>, d.order),
   frame |-> Instead(w.frame, NoFrame, d.frame)]

\* A named window is ordered or parted by a column that nothing else names: it was
\* not brought from the table.
WindowFails ==
  \A d \in MeantBy(query.window[1].named[1]) : ~(Keys(SaidOr(query.window[1], d)) \subseteq {""} \X Needed)

\* Every window function has, in every row, the value that its definition counts
\* from the partition: ranks, buckets, neighbours and what a frame holds.  Left out
\* are frames that lie wholly before or behind the partition, and RANGE over NULLs
\* or in descending order (window_function_value, window_frame_positions,
\* window_range_frame_positions).
\* A window by name has what its definition says, and the query fails only if there
\* is no definition, or (left out) if that names a column that nothing else names;
\* or if the frame ends on another side of the row than it begins, before it, and so
\* no row can be in it.
WindowsAreDefined ==
  LET said == query.window[1]
      w == IF said.named = <<>> THEN said ELSE SaidOr(said, CHOOSE d \in MeantBy(said.named[1]) : TRUE)
      win == <<"", "win">>
      Mates(i) == {j \in DOMAIN rows : \A k \in DOMAIN w.part : rows[j][w.part[k]] = rows[i][w.part[k]]}
      Less(i, j) == KeyLess(w.order, rows[i], rows[j])
      Peer(i, j) == ~Less(i, j) /\ ~Less(j, i)
      Position(i) == Cardinality({j \in Mates(i) : Less(j, i) \/ (Peer(i, j) /\ j < i)})
      Size(i) == Cardinality(Mates(i))
      lo == w.frame.lo.way * w.frame.lo.n
      hi == w.frame.hi.way * w.frame.hi.n
      Key(i) == Class(rows[i][w.order[1].col])
      Framed(i) == CASE w.frame.units = "none" -> {j \in Mates(i) : w.order = <<>> \/ ~Less(i, j)}
                     [] w.frame.units = "rows" -> {j \in Mates(i) : Position(j) - Position(i) \in lo..hi}
                     [] w.frame.units = "range" -> {j \in Mates(i) : Key(j) - Key(i) \in lo..hi}
      Excused(i) ==
        \/ w.frame.units = "rows" /\ (Position(i) + hi < 0 \/ Position(i) + lo >= Size(i))
        \/ w.frame.units = "range" /\ (~w.order[1].asc \/ \E j \in Mates(i) : Key(j) = 0)
      \* the argument in the n-th row of the frame, in the row at a distance
      InFrame(i, n) == {rows[j][w.arg] : j \in {j \in Framed(i) :
                          Cardinality({m \in Framed(i) : Position(m) < Position(j)}) = n}}
      Away(i, d) == {rows[j][w.arg] : j \in {j \in Mates(i) : Position(j) = Position(i) + d}}
      OrNull(S) == IF S = {} THEN {Null} ELSE S
      Tile(i) == Cardinality({k \in 1..w.n :
                      (k - 1) * (Size(i) \div w.n) + Least(k - 1, Size(i) % w.n) <= Position(i)})
      Wanted(i) ==
        CASE w.fn = "row_number" -> {Number(Position(i) + 1)}
          [] w.fn = "rank" -> {Number(Cardinality({j \in Mates(i) : Less(j, i)}) + 1)}
          [] w.fn = "dense_rank" -> {Number(Cardinality({Key(j) : j \in {j \in Mates(i) : Less(j, i)}}) + 1)}
          [] w.fn = "cume" -> {Number(Cardinality({j \in Mates(i) : ~Less(i, j)}))}
          [] w.fn = "ntile" -> {Number(Tile(i))}
          [] w.fn = "lag" -> OrNull(Away(i, -w.n))
          [] w.fn = "lead" -> OrNull(Away(i, w.n))
          [] w.fn = "first_value" -> OrNull(InFrame(i, 0))
          [] w.fn = "last_value" -> OrNull(InFrame(i, Cardinality(Framed(i)) - 1))
          [] w.fn = "nth_value" -> OrNull(InFrame(i, w.n - 1))
          [] w.fn = "count" -> {Number(Cardinality({j \in Framed(i) : rows[j][w.arg] # Null}))}
  IN query.window # <<>> /\ Exact =>
       /\ stage = "failed" => (said.named # <<>> /\ WindowFails) \/ w.frame.lo.way > w.frame.hi.way
       /\ stage = "order" => \A i \in DOMAIN rows : Excused(i) \/ rows[i][win] \in Wanted(i)
=============================================================================
