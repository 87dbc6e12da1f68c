------------------------------ MODULE MCSelect ------------------------------
(* Families of queries, each over every content of its tables within small   *)
(* bounds: joins, single tables, old rows, windows, sets and recursion,     *)
(* tests, groups, no FROM, WITH; and joins of a table with itself.           *)
EXTENDS Select

V(n) == <<n, "x">>
One == V(1)
Two == V(2)
\* The same value for SQL in another form.
OtherOne == <<1, "y">>

Row(x, y) == [c \in {a, b} |-> IF c = a THEN x ELSE y]
NoHints == [c \in {} |-> NoHint]
Table(name, keyed, rows_) == [name |-> name, cols |-> {a, b}, keyed |-> keyed, rows |-> rows_, hints |-> NoHints]
UpTo(S, n) == UNION {[1..m -> S] : m \in 0..n}

All == [same |-> <<>>, is |-> <<>>, test |-> <<>>]

\* All queries with given choices for each part.
Ask(set, from, joins, where, indexed, group, window, order, distinct, list, page) ==
  [set : {set[1]}, all : {set[2]}, from : from, joins : joins, where : where, indexed : indexed,
   group : group, window : window, order : order, distinct : distinct, list : list,
   limit : {page[1]}, offset : {page[2]}, windows : {<<>>}, with : {<<>>}]
FullPage == <<NoLimit, 0>>
JoinOf(from, joins, where) ==
  Ask(<<"none", FALSE>>, from, joins, where, {FALSE}, {<<>>}, {<<>>}, {<<>>}, {FALSE}, {{a, b}}, FullPage)

-----------------------------------------------------------------------------
\* Joins of two tables.
On(eqs, glue) == [kind |-> "on", eqs |-> eqs, glue |-> glue, cols |-> <<>>]
Using(cols) == [kind |-> "using", eqs |-> <<>>, glue |-> "and", cols |-> cols]
Plain(kind) == [kind |-> kind, eqs |-> <<>>, glue |-> "and", cols |-> <<>>]
Eq(t, c, u, d) == << <<t, c>>, <<u, d>> >>

Ons == {On(<<Eq("l", a, "r", a)>>, "and"), On(<<Eq("l", a, "r", b)>>, "and"), On(<<Eq("r", b, "l", b)>>, "and"),
        On(<<Eq("l", a, "r", a), Eq("l", b, "r", b)>>, "and"), On(<<Eq("l", a, "r", a), Eq("l", b, "r", b)>>, "or"),
        On(<<Eq("l", a, "r", b), Eq("r", b, "l", a)>>, "or"),
        Using(<<a>>), Using(<<b, a>>), Plain("natural")}
Steps == {[kind |-> k, on |-> on] : k \in {"inner", "left", "right"}, on \in Ons}
         \cup {[kind |-> "cross", on |-> Plain("cross")], [kind |-> "comma", on |-> Plain("cross")]}

JoinRows == <<Row(Null, One), Row(One, Null), Row(One, One), Row(Two, One), Row(OtherOne, One)>>
Sets == {<<>>} \cup {<<JoinRows[i]>> : i \in 1..5}
        \cup {<<JoinRows[p[1]], JoinRows[p[2]]>> : p \in {p \in (1..5) \X (1..5) : p[1] <= p[2]}}
Wheres == {[same |-> <<Eq("l", a, "r", b)>>, is |-> <<>>, test |-> <<>>],
           [same |-> <<Eq("r", a, "l", a), Eq("l", b, "r", b)>>, is |-> <<>>, test |-> <<>>],
           [same |-> <<>>, is |-> << << <<"r", b>>, One >> >>, test |-> <<>>]}
Pairs == {<<Table("l", FALSE, l), Table("r", TRUE, r)>> : l \in Sets, r \in Sets}
OnA == On(<<Eq("l", a, "r", a)>>, "and")
JoinQueries ==
  JoinOf(Pairs, {<<j>> : j \in Steps}, {All})
  \cup JoinOf(Pairs, {<<j>> : j \in {j \in Steps : j.kind = "comma" \/ (j.kind = "left" /\ j.on = OnA)}}, Wheres)


\* Three tables; the third has a column of its own name.
Third(rows_) == [name |-> "s", cols |-> {a, "c"}, keyed |-> FALSE, rows |-> rows_, hints |-> NoHints]
OfThird(x) == [n \in {a, "c"} |-> IF n = a THEN x ELSE One]
Few(R(_)) == {<<>>, <<R(One)>>, <<R(Null), R(One)>>, <<R(One), R(Two)>>}
OfTwo(x) == Row(x, One)
Chain ==
  JoinOf({<<Table("l", FALSE, l), Table("r", FALSE, r), Third(t)>> : l \in Few(OfTwo), r \in Few(OfTwo), t \in Few(OfThird)},
         {<<[kind |-> k, on |-> OnA], [kind |-> m, on |-> On(<<eq>>, "and")]>> :
            k \in {"inner", "left", "right"}, m \in {"inner", "left", "right"},
            eq \in {Eq("l", a, "s", a), Eq("r", b, "s", a), Eq("s", "c", "r", a)}},
         {All})
  \cup JoinOf({<<Table("l", FALSE, l), Table("r", FALSE, r), Third(t)>> : l \in Few(OfTwo), r \in Few(OfTwo), t \in Few(OfThird)},
         {[n \in 1..2 |-> [kind |-> "comma", on |-> Plain("cross")]]},
         {[same |-> <<Eq("r", a, "l", a), Eq("s", "c", "r", a)>>, is |-> <<>>, test |-> <<>>],
          [same |-> <<Eq("s", a, "l", a)>>, is |-> << << <<"r", b>>, One >> >>, test |-> <<>>]})

-----------------------------------------------------------------------------
\* One table: WHERE with and without an index, ORDER BY, DISTINCT, LIMIT.
Item(c, asc) == [col |-> <<"", c>>, asc |-> asc]
Keyed(n) == {[i \in 1..n |-> Row(V(p[i]), y[i])] :
               p \in {p \in [1..n -> 1..n] : \A i, j \in 1..n : p[i] = p[j] => i = j}, y \in [1..n -> {Null, One, Two}]}
Orders == {<<>>, <<Item(b, TRUE)>>, <<Item(b, FALSE)>>, <<Item(a, FALSE)>>, <<Item(b, TRUE), Item(a, FALSE)>>}
Is(v) == [same |-> <<>>, is |-> << << <<"", b>>, v >> >>, test |-> <<>>]
SingleOf(where, indexed, page) ==
  Ask(<<"none", FALSE>>, {<<Table("t", TRUE, r)>> : r \in UNION {Keyed(n) : n \in 0..3}}, {<<>>}, {where}, {indexed},
      {<<>>}, {<<>>}, Orders, {FALSE, TRUE}, {{b}, {a, b}}, page)
Singles ==
  UNION {SingleOf(All, FALSE, page) \cup SingleOf(Is(One), FALSE, page) \cup SingleOf(Is(One), TRUE, page) :
           page \in {FullPage, <<0, 0>>, <<1, 0>>, <<1, 1>>, <<2, 1>>, <<2, 3>>}}
  \cup SingleOf(Is(OtherOne), TRUE, FullPage) \cup SingleOf(Is(V(3)), TRUE, FullPage)

-----------------------------------------------------------------------------
\* Rows that were stored under other columns than their table has now.
Hinted(type, default, volatile, strict) ==
  [type |-> type, default |-> default, volatile |-> volatile, strict |-> strict, generated |-> <<>>]
One1 == Number(1)
Text1 == <<1, "text">>
Ab == <<101, "ab">>
BHints == {Hinted("int", <<>>, FALSE, FALSE), Hinted("int", <<>>, FALSE, TRUE), Hinted("int", <<Number(2)>>, FALSE, TRUE),
           Hinted("int", <<Number(2)>>, TRUE, TRUE), Hinted("char", <<>>, FALSE, FALSE), Hinted("char", <<>>, FALSE, TRUE),
           Hinted("bool", <<>>, FALSE, FALSE),
           [Hinted("int", <<>>, FALSE, FALSE) EXCEPT
              !.generated = <<[op |-> "plus", args |-> <<[op |-> "col", args |-> <<>>, col |-> <<"", a>>, val |-> <<>>, sub |-> <<>>, call |-> <<>>],
                                                         [op |-> "val", args |-> <<>>, col |-> <<>>, val |-> One1, sub |-> <<>>, call |-> <<>>]>>,
                               col |-> <<>>, val |-> <<>>, sub |-> <<>>, call |-> <<>>]>>]}
Raw(n, x) == IF x = <<>> THEN [c \in {a} |-> Number(n)] ELSE [c \in {a, b} |-> IF c = a THEN Number(n) ELSE x[1]]
Values == {<<>>, <<Null>>, <<One1>>, <<Number(2)>>, <<Text1>>, <<Ab>>}
Olds == {<<Raw(2, x)>> : x \in Values} \cup {<<Raw(2, x), Raw(1, y)>> : x, y \in Values}
OldOf(where, indexed) ==
  Ask(<<"none", FALSE>>,
      {<<[Table("t", TRUE, r) EXCEPT !.hints = [c \in {b} |-> h]]>> : r \in Olds, h \in BHints},
      {<<>>}, {where}, {indexed}, {<<>>}, {<<>>}, {<<>>, <<Item(b, TRUE)>>, <<Item(a, FALSE)>>}, {FALSE}, {{a}, {b}, {a, b}}, FullPage)
OldQueries == OldOf(All, FALSE) \cup UNION {OldOf(Is(v), i) : v \in {One1, Text1, Number(2)}, i \in {FALSE, TRUE}}

-----------------------------------------------------------------------------
\* Window functions.
Bound(way, n) == [way |-> way, n |-> n]
Unbounded(way) == Bound(way, Far)
Current == Bound(0, 0)
Frame_(units, lo, hi) == [units |-> units, lo |-> lo, hi |-> hi]
Implicit == NoFrame
Extents == {<<Unbounded(-1), Current>>, <<Unbounded(-1), Unbounded(1)>>, <<Current, Unbounded(1)>>, <<Current, Current>>,
            <<Bound(-1, 1), Bound(1, 1)>>, <<Bound(-1, 2), Bound(-1, 1)>>, <<Bound(1, 1), Bound(1, 2)>>,
            <<Unbounded(-1), Bound(-1, 1)>>, <<Bound(1, 1), Unbounded(1)>>, <<Bound(1, 1), Bound(-1, 1)>>,
            <<Bound(1, 1), Current>>, <<Current, Bound(-1, 1)>>}
Windowed(fns, n, part, order, frames) ==
  [fn : fns, arg : {<<"", b>>}, part : part, order : order, frame : frames, n : n, named : {<<>>}]
Partings == {<<>>, << <<"", a>> >>}
ByB == {<<Item(b, TRUE)>>, <<Item(b, FALSE)>>}
Windows ==
  Windowed({"row_number", "rank", "dense_rank", "cume"}, {1}, Partings, ByB, {Implicit})
  \cup Windowed({"ntile", "lag", "lead"}, {1, 2}, Partings, ByB, {Implicit})
  \cup Windowed({"first_value", "last_value", "nth_value", "count"}, {2}, Partings, ByB \cup {<<>>}, {Implicit})
  \cup Windowed({"first_value", "last_value", "nth_value", "count"}, {2}, {<<>>}, {<<Item(b, TRUE)>>},
                {Frame_(u, e[1], e[2]) : u \in {"rows", "range"}, e \in Extents})
  \cup Windowed({"count"}, {1}, {<<>>}, {<<>>}, {Frame_("range", Bound(1, 1), Current), Frame_("range", Current, Bound(-1, 1))})
Unkeyed == {Table("t", FALSE, r) : r \in UpTo({Row(x, y) : x \in {Null, One}, y \in {Null, One, Two}}, 3)}
WindowQueries ==
  Ask(<<"none", FALSE>>, {<<t>> : t \in Unkeyed}, {<<>>}, {All}, {FALSE}, {<<>>}, {<<w>> : w \in Windows},
      {<<>>}, {FALSE}, {{a, "win"}}, FullPage)

\* Windows by name: with what is defined first, and over again.
Defined(name, parent, part, order, frame) == [name |-> name, parent |-> parent, part |-> part, order |-> order, frame |-> frame]
ToCurrent == Frame_("rows", Unbounded(-1), Current)
Definitions ==
  {<<Defined("w", p, <<>>, <<>>, Implicit), Defined("v", q, part, <<Item(b, TRUE)>>, f)>> :
     p, q \in {<<>>, <<"v">>, <<"w">>}, part \in Partings, f \in {Implicit, ToCurrent}}
NamedWindows ==
  {[q EXCEPT !.window[1].named = <<x>>, !.windows = d] :
     q \in Ask(<<"none", FALSE>>, {<<Table("t", FALSE, r)>> : r \in UpTo({Row(x, y) : x \in {One, Two}, y \in {One, Two}}, 3)}, {<<>>}, {All}, {FALSE}, {<<>>},
               {<<w>> : w \in Windowed({"rank", "count"}, {1}, {<<>>}, {<<>>, <<Item(a, FALSE)>>}, {Implicit})},
               {<<>>}, {FALSE}, {{a, "win"}}, FullPage),
     x \in {"w", "u"}, d \in Definitions}

-----------------------------------------------------------------------------
\* Set operations and recursion.
Lists(name) == {[Table(name, FALSE, [k \in DOMAIN l |-> Row(l[k], One)]) EXCEPT !.cols = {a, b}] : l \in UpTo({Null, One, Two}, 3)}
SetOf(set, order, page) ==
  Ask(set, {<<l, r>> : l \in Lists("l"), r \in Lists("r")}, {<<>>}, {All}, {FALSE}, {<<>>}, {<<>>}, order, {FALSE}, {{a}}, page)
SetQueries ==
  UNION {SetOf(<<op, all>>, {<<>>}, FullPage) : op \in {"union", "intersect", "except"}, all \in {FALSE, TRUE}}
  \cup UNION {SetOf(<<op, TRUE>>, {<<Item(a, FALSE)>>}, <<1, 1>>) : op \in {"union", "except"}}

Nodes == {One, Two, V(3)}
Seeds == {[name |-> "seed", cols |-> {a}, keyed |-> FALSE, rows |-> [k \in DOMAIN l |-> [c \in {a} |-> l[k]]], hints |-> NoHints] :
            l \in UpTo(Nodes, 2)}
Edges == {Table("e", FALSE, l) : l \in UpTo({Row(x, y) : x \in Nodes, y \in Nodes}, 3)}
Recursions ==
  Ask(<<"recursive", FALSE>>, {<<s, e>> : s \in Seeds, e \in Edges}, {<<>>}, {All}, {FALSE}, {<<>>}, {<<>>},
      {<<>>}, {FALSE}, {{a}}, FullPage)

-----------------------------------------------------------------------------
\* Expressions in WHERE: t(a, b) asked, s(a, b) and r(a, c) in subqueries.
Node(op, args) == [op |-> op, args |-> args, col |-> <<>>, val |-> <<>>, sub |-> <<>>, call |-> <<>>]
Col(t, c) == [Node("col", <<>>) EXCEPT !.col = <<t, c>>]
Val(v) == [Node("val", <<>>) EXCEPT !.val = v]
With(op, args, sub) == [Node(op, args) EXCEPT !.sub = <<sub>>]
Sub(from, test, item, agg) == [from |-> from, test |-> test, item |-> item, agg |-> agg]
A == Col("", a)
B == Col("", b)
N(n) == Val(IF n = 0 THEN Null ELSE V(n))
Zero == Val(Number(0))
Is1 == Node("eq", <<B, N(1)>>)

Simple ==
  {Node(op, <<B, N(1)>>) : op \in {"ne", "nullsafe", "le", "gt"}} \cup {Node("nullsafe", <<B, N(0)>>)}
  \cup {Node(op, <<Is1>>) : op \in {"not", "istrue", "isnottrue", "isfalse", "isnotfalse", "isnull", "isnotnull"}}
  \cup {Node(op, <<B, A, N(2)>>) : op \in {"between", "notbetween"}}
  \cup {Node(op, <<Is1, Node("eq", <<A, N(1)>>)>>) : op \in {"and", "or", "xor"}}
  \cup {Node("not", <<Node(op, <<Is1, Node("lt", <<A, N(2)>>)>>)>>) : op \in {"and", "or"}}
  \cup {Node(op, <<B, N(2), N(x)>>) : op \in {"in", "notin"}, x \in {0, 1}}
  \cup {Node("eq", <<Node(op, <<A, B>>), N(n)>>) : op \in {"plus", "minus", "times", "div", "mod"}, n \in {1, 2}}
  \cup {Node("isnull", <<Node(op, <<A, Node("minus", <<B, N(1)>>)>>)>>) : op \in {"div", "mod"}}
  \cup {Node("eq", <<Node(op, <<Node("negate", <<A>>), N(2)>>), Node("negate", <<N(1)>>)>>) : op \in {"div", "mod"}}
  \cup {B, Node("minus", <<B, N(1)>>), Node("eq", <<B, Zero>>)}
  \cup {Node("eq", <<Node("case", <<Node("isnull", <<B>>), N(2), Is1, N(1), Zero>>), A>>),
        Node("eq", <<Node("caseof", <<B, N(0), N(1), N(1), N(2), N(1)>>), A>>),
        Node("eq", <<Node("coalesce", <<B, A>>), A>>), Node("isnull", <<Node("nullif", <<A, B>>)>>),
        Node("eq", <<Col("", "z"), N(1)>>), Node("isnull", <<Col("s", a)>>)}

Spelled == [ab |-> <<"a", "b">>, AB |-> <<"a", "b">>, b |-> <<"b">>, none |-> <<>>, ax |-> <<"a", "%">>, xb |-> <<"%", "b">>,
            xx |-> <<"%", "%">>, ub |-> <<"_", "b">>, xax |-> <<"%", "a", "%">>, null |-> <<>>]
MCSpelling == [f \in DOMAIN Spelled \cup {"x", "y", "number"} |-> IF f \in DOMAIN Spelled THEN Spelled[f] ELSE <<f>>]
Word(n, f) == <<Letters + n, f>>
Patterns == {Word(3, "ax"), Word(4, "xb"), Word(5, "xx"), Word(6, "ub"), Word(7, "xax"), Word(0, "none"), Word(1, "AB"), Null}
Likes == {Node(op, <<B, Val(p)>>) : op \in {"like", "notlike"}, p \in Patterns}
         \cup {Node("lt", <<B, Val(Word(2, "b"))>>), Node("eq", <<B, Val(Word(1, "AB"))>>), B}

Subqueries(s, r) ==
  LET Linked(x, y) == Node("eq", <<x, y>>)
      SA == Col("s", a)
      SB == Col("s", b)
      Of(test, agg) == Sub(<<s>>, test, SB, agg)
      ByKey == <<Linked(SA, Col("t", a))>>
      Third_ == Sub(<<r>>, <<Linked(Col("", "c"), B)>>, Col("r", a), "none")
      One_ == With("scalar", <<>>, Of(ByKey, "none"))
  IN {With(op, <<>>, Of(test, "none")) : op \in {"exists", "notexists"},
        test \in {<<Linked(SA, Col("t", b))>>, <<Linked(B, N(1)), Linked(A, Col("t", a))>>,
                  <<Node("istrue", <<Linked(SA, Col("t", b))>>)>>}}
     \cup {With("exists", <<>>, Third_), With("exists", <<>>, Of(<<Linked(B, N(1))>>, "none")),
           With("exists", <<>>, Sub(<<s>>, <<With("insub", <<SA>>, Sub(<<r>>, <<Linked(Col("r", "c"), Col("t", b))>>, Col("r", a), "none"))>>, SA, "none"))}
     \cup {Node(op, <<A, With("scalar", <<>>, Of(test, agg))>>) : op \in {"eq", "ge"},
             test \in {<<>>, ByKey}, agg \in {"none", "count", "max"}}
     \cup {With(op, <<B>>, sub) : op \in {"insub", "notinsub"},
             sub \in {Of(<<>>, "none"), Of(ByKey, "none"), Third_,
                      Sub(<<s, r>>, <<Linked(SA, Col("r", a)), Linked(Col("", "c"), N(1))>>, SB, "none")}}
     \cup {Node("eq", <<Node("case", <<Node("isnull", <<B>>), N(1), Linked(A, One_), N(1), N(2)>>), N(1)>>),
           Node("eq", <<Node("coalesce", <<B, One_>>), N(1)>>)}

-----------------------------------------------------------------------------
\* Groups and aggregates over t(a, b).
Agg(kind, args, distinct, order) ==
  [Node("agg", args) EXCEPT !.call = <<[kind |-> kind, distinct |-> distinct, order |-> order]>>]
Plainly(kind) == Agg(kind, <<B>>, FALSE, <<>>)
As(name, e) == [name |-> name, expr |-> e]
Grouped(by, items, having) == <<[by |-> by, items |-> items, having |-> having]>>
GroupOf(groups, where, order, distinct, page) ==
  Ask(<<"none", FALSE>>, {<<t>> : t \in Unkeyed}, {<<>>}, where, {FALSE}, groups, {<<>>}, order, {distinct}, {{a}}, page)
Counts == <<As("count", Plainly("count")), As("max", Plainly("max"))>>
Atleast2 == <<Node("ge", <<Plainly("count"), N(2)>>)>>
\* a text, a list and an object of the values; sums and comparisons of aggregates
Listings == <<As("text", Agg("concat", <<B>>, FALSE, <<Item(b, FALSE)>>)), As("pairs", Agg("concat", <<A, B>>, TRUE, <<>>)),
              As("list", Plainly("list")), As("object", Agg("object", <<A, B>>, FALSE, <<>>))>>
Sums == <<As("a", A), As("sum", Node("plus", <<Plainly("sum"), Agg("count", <<>>, FALSE, <<>>)>>)),
          As("pairs", Agg("count", <<A, B>>, TRUE, <<>>)),
          As("min", Node("coalesce", <<Plainly("min"), Agg("sum", <<A>>, TRUE, <<>>), Zero>>))>>
Conditions ==
  {Node("not", <<Node("eq", <<Agg("count", <<B>>, TRUE, <<>>), N(1)>>)>>), Node("gt", <<Col("", "sum"), N(2)>>),
   Node("isnull", <<Plainly("max")>>), Node("in", <<Plainly("min"), Agg("sum", <<A>>, FALSE, <<>>), N(2)>>)}
Alias == Node("isnull", <<B>>)
Groupings ==
  GroupOf({Grouped(by, Counts, h) : by \in {<<>>, <<A>>}, h \in {<<>>, Atleast2}}, {All, Is(One)},
          {<<>>, <<Item("count", FALSE), Item("max", TRUE)>>}, FALSE, FullPage)
  \cup GroupOf({Grouped(<<A>>, <<As("a", A)>> \o Counts, <<>>)}, {All}, {<<Item("count", TRUE)>>, <<Item("max", FALSE)>>}, FALSE, <<1, 1>>)
  \cup GroupOf({Grouped(<<A>>, Sums, <<h>>) : h \in Conditions}, {All}, {<<>>}, FALSE, FullPage)
  \cup GroupOf({Grouped(by, Listings, <<>>) : by \in {<<>>, <<A>>}}, {All}, {<<>>}, FALSE, FullPage)
  \cup GroupOf({Grouped(<<Col("", "n"), A>>, <<As("n", Alias), As("count", Plainly("count"))>>, <<>>)}, {All}, {<<>>}, TRUE, FullPage)

-----------------------------------------------------------------------------
TestsOf(rows_, tests) ==
  Ask(<<"none", FALSE>>, {<<Table("t", TRUE, r)>> : r \in rows_}, {<<>>},
      {[same |-> <<>>, is |-> <<>>, test |-> <<e>>] : e \in tests}, {FALSE}, {<<>>}, {<<>>}, {<<>>}, {FALSE}, {{a, b}}, FullPage)
Asked(S) == {<<>>} \cup {<<Row(One, x)>> : x \in S} \cup {<<Row(One, x), Row(Two, y)>> : x, y \in S}
SubRows == {<<>>, <<Row(One, Null)>>, <<Row(Two, One)>>, <<Row(Null, One)>>, <<Row(One, One), Row(One, Two)>>,
            <<Row(One, Null), Row(Two, Two)>>, <<Row(Two, Null), Row(Null, Two)>>}
Thirds == {[name |-> "r", cols |-> {a, "c"}, keyed |-> FALSE, rows |-> l, hints |-> NoHints] :
             l \in {<<>>, <<OfThird(One)>>, <<OfThird(Null), OfThird(Two)>>}}
TestQueries ==
  TestsOf(Asked({Null, One, Two, OtherOne}), Simple)
  \cup TestsOf(Asked({Null, Word(1, "ab"), Word(1, "AB"), Word(2, "b"), Word(0, "none")}), Likes)
  \cup UNION {TestsOf(Asked({Null, One, Two}), Subqueries(Table("s", FALSE, l), r)) : l \in SubRows, r \in Thirds}
  \* two tests at once
  \cup Ask(<<"none", FALSE>>, {<<Table("t", TRUE, r)>> : r \in Asked({Null, One})}, {<<>>},
           {[same |-> <<>>, is |-> <<>>, test |-> <<Is1, Node("gt", <<A, N(1)>>)>>]}, {FALSE}, {<<>>}, {<<>>}, {<<>>}, {FALSE}, {{a, b}}, FullPage)

\* Without FROM.
NothingQueries ==
  Ask(<<"none", FALSE>>, {<<Nothing>>}, {<<>>},
      {[same |-> <<>>, is |-> <<>>, test |-> t] :
         t \in {<<>>, <<N(1)>>, <<N(0)>>, <<Zero>>, <<Node("isnull", <<N(0)>>)>>, <<N(1), Zero>>}
              \cup {<<With(op, <<>>, Sub(<<Table("s", FALSE, l)>>, <<Node("eq", <<Col("s", b), N(1)>>)>>, Col("s", a), "none"))>> :
                     op \in {"exists", "notexists", "scalar"}, l \in SubRows}},
      {FALSE}, {<<>>, Grouped(<<>>, <<As("n", Agg("count", <<>>, FALSE, <<>>))>>, <<>>)}, {<<>>}, {<<>>}, {FALSE}, {{}}, FullPage)

-----------------------------------------------------------------------------
\* WITH up to two definitions over t and v.
Body(names, reads, list, is, columns) == [name : names, reads : reads, list : list, is : is, columns : columns]
Bodies ==
  {<<d>> : d \in Body({"u", "t"}, {"t"}, {<<a, b>>}, {<<>>, << <<a, One>> >>}, {<<>>, <<b, a>>, <<a>>})}
  \cup {<<d, e>> : d \in Body({"u", "v"}, {"t", "v"}, {<<a, b>>, <<b, a>>}, {<<>>, << <<a, One>> >>}, {<<>>, <<b, a>>}),
                   e \in Body({"v", "w"}, {"t", "u", "v"}, {<<a, b>>}, {<<>>, << <<b, One>> >>}, {<<>>, <<b, a>>})}
Bases == {<<Table("t", TRUE, <<Row(Two, One), Row(One, Two)>>), Table("v", FALSE, r), Table("u", FALSE, <<>>)>> :
              r \in {<<>>, <<Row(One, One), Row(Null, One)>>}}
WithQueries ==
  {[q EXCEPT !.set = "with", !.with = <<w>>] :
     q \in Ask(<<"none", FALSE>>, {<<>>}, {<<>>}, {All, Is(One)}, {FALSE}, {<<>>}, {<<>>}, {<<>>, <<Item(b, FALSE)>>}, {FALSE}, {{b}, {a, b}}, FullPage),
     w \in UNION {[tables : Bases, defs : {d}, reads : {d[1].name, d[Len(d)].name}] : d \in Bodies}}

MCQueries ==
  WithQueries \cup NothingQueries \cup JoinQueries \cup Chain \cup Singles \cup OldQueries \cup Groupings \cup WindowQueries \cup NamedWindows \cup SetQueries \cup Recursions \cup TestQueries

\* One table under two aliases: e JOIN m ON m.a = e.b, a the id and b the id of
\* another row.
People == UNION {[1..n -> {Row(x, y) : x \in {One, Two, V(3)}, y \in {Null, One, Two}}] : n \in 0..2}
SelfJoins ==
  JoinOf({<<Table("e", TRUE, p), Table("m", TRUE, p)>> : p \in {p \in People : Len(p) < 2 \/ p[1][a] # p[2][a]}},
         {<<[kind |-> "inner", on |-> On(<<Eq("m", a, "e", b)>>, "and")]>>}, {All})
=============================================================================
