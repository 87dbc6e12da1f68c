--------------------------- MODULE MCSearchServer ---------------------------
(* Two indexes and two documents.  Clients write a cat and a cut, a typo    *)
(* apart; documents with other fields and other kinds of values are there   *)
(* from the beginning.                                                      *)
EXTENDS SearchServer

CONSTANTS i1, i2, books, films

MCFields == <<"id", "tag", "text", "year">>
MCIdOf == i1 :> Number(1, <<"1">>) @@ i2 :> Number(2, <<"2">>)

cat == <<"c", "a", "t">>
cut == <<"c", "u", "t">>
kit == <<"k", "i", "t">>
catkit == cat \o <<" ">> \o kit

MCContents ==
  "cat" :> [text |-> Text(cat), year |-> Number(7, <<"7">>)]
  @@ "cut" :> [text |-> Text(cut), tag |-> Text(kit)]
  @@ "both" :> [tag |-> Text(cat), text |-> Text(kit \o <<" ", "a">>), year |-> Number(9, <<"9">>)]
  @@ "null" :> [tag |-> Null, text |-> Text(catkit), year |-> Text(<<"7">>)]

Where(f, op, values) == << [field |-> f, op |-> op, values |-> values] >>
Find(text, on, filter) == [text |-> text, on |-> on, filter |-> filter]

\* Words; a part of a word in one field, and a filter; a filter alone.
MCQueries ==
  { Find(cat, <<>>, <<>>),
    Find(catkit, <<>>, <<>>),
    Find(<<"a">>, <<"text">>, Where("tag", "!=", <<Text(kit)>>) \o Where("year", "<", <<Text(<<"8">>)>>)),
    Find(<<>>, <<"*">>, Where("year", ">=", <<Number(7, <<"7">>)>>) \o Where("tag", "in", <<Text(cat), Null>>)) }

MCFilters ==
  { Where("year", "<=", <<Number(8, <<"8">>)>>) \o Where("tag", "not in", <<Text(kit)>>)
    \o Where("text", "=", <<Text(cat)>>) }

\* Typos from three letters on and for two of them from four, but not for "kit", which
\* has a synonym, and a field to search; typoTolerance put anew, without typos; all
\* settings reset.
MCChanges ==
  { [way |-> "patch", patch |-> [one |-> 3, two |-> 4, disabled |-> {kit},
                                 searchable |-> <<"tag">>, synonyms |-> kit :> {cut}]],
    [way |-> "put", patch |-> [enabled |-> FALSE]],
    [way |-> "reset", patch |-> <<>>] }

MCPayloads == { i1 :> "cut" @@ i2 :> "cat" }

\* One table of two documents; two tables of one, with other kinds of values.
MCSnapshots ==
  { books :> (i1 :> "cat" @@ i2 :> "cut") @@ films :> None,
    books :> (i1 :> "both" @@ i2 :> None) @@ films :> (i1 :> None @@ i2 :> "null") }

ASSUME FiltersAssumption == FiltersMean
ASSUME QueriesAssumption == QueriesMean /\ SettingsClosed
=============================================================================
