------------------------------ MODULE SearchOps ------------------------------
(***************************************************************************)
(* What a search request matches, as functions of a document: settings and *)
(* how requests change them, the fields that are searched, words, typos    *)
(* and synonyms, filters.                                                  *)
(*                                                                         *)
(* A text is a sequence of letters, in lower case; " " is the separator.   *)
(* A value is [kind, num, text]: text is how it prints.  A document is a   *)
(* function from names of fields to values.                                *)
(***************************************************************************)
EXTENDS Integers, Sequences, FiniteSets, SequencesExt

CONSTANT
  Fields       \* the names of fields, in their order in a document

Number(n, text) == [kind |-> "number", num |-> n, text |-> text]
Text(text) == [kind |-> "string", num |-> 0, text |-> text]
Null == [kind |-> "null", num |-> 0, text |-> <<"n", "u", "l", "l">>]

Smallest(S) == CHOOSE n \in S : \A m \in S : n <= m
InOrder(S) == SetToSortSeq(S, LAMBDA m, n : m < n)

-----------------------------------------------------------------------------
(* Settings                                                                *)
(* A setting that is absent reads as its default.  The names "enabled" to  *)
(* "disabled" are the members of typoTolerance.                            *)

\* default_meili_settings
Defaults == [searchable |-> <<"*">>, enabled |-> TRUE, one |-> 4, two |-> 8,
             disabled |-> {}, synonyms |-> <<>>]
TypoSettings == {"enabled", "one", "two", "disabled"}

Setting(s, name) == IF name \in DOMAIN s THEN s[name] ELSE Defaults[name]

\* The entries of f, and those of g under other keys (f @@ g of TLC, which no prover knows).
Over(f, g) == [k \in DOMAIN f \cup DOMAIN g |-> IF k \in DOMAIN f THEN f[k] ELSE g[k]]

\* merge_settings: objects are merged member by member, others replaced.
Merged(s, patch) ==
  [n \in DOMAIN s \cup DOMAIN patch |->
     IF n = "synonyms" THEN IF n \in DOMAIN patch THEN Over(patch[n], Setting(s, n)) ELSE Setting(s, n)
     ELSE IF n \in DOMAIN patch THEN patch[n] ELSE s[n]]

\* set_single_setting without merging: what the new object lacks is gone.
Replaced(s, patch) ==
  LET gone == IF DOMAIN patch \cap TypoSettings = {} THEN DOMAIN patch ELSE TypoSettings
  IN [n \in (DOMAIN s \ gone) \cup DOMAIN patch |-> IF n \in DOMAIN patch THEN patch[n] ELSE s[n]]

\* A change is [way, patch]: PATCH, PUT of one setting, or DELETE of all.
Changed(s, change) ==
  CASE change.way = "patch" -> Merged(s, change.patch)
    [] change.way = "put" -> Replaced(s, change.patch)
    [] change.way = "reset" -> Defaults

-----------------------------------------------------------------------------
(* Words                                                                   *)

Quote == "\""
Separators == {" ", Quote}

\* text_tokens
Tokens(text) ==
  LET starts == InOrder({i \in DOMAIN text : text[i] \notin Separators /\ (i = 1 \/ text[i - 1] \in Separators)})
      End(i) == Smallest({j \in i..Len(text) : j = Len(text) \/ text[j + 1] \in Separators})
  IN [k \in DOMAIN starts |-> SubSeq(text, starts[k], End(starts[k]))]

Holds(text, part) ==
  \E i \in 0..(Len(text) - Len(part)) : SubSeq(text, i + 1, i + Len(part)) = part

Joined(texts) == FlattenSeq([k \in DOMAIN texts |-> IF k = 1 THEN texts[k] ELSE <<" ">> \o texts[k]])

\* settings_have_synonyms
HasSynonyms(s) == DOMAIN Setting(s, "synonyms") # {}

\* synonym_alternatives: the words of every entry that has the word.
Alternatives(s, word) ==
  LET entries == Setting(s, "synonyms")
  IN {word} \cup UNION {{k} \cup entries[k] : k \in {k \in DOMAIN entries : word = k \/ word \in entries[k]}}

\* typo_tolerance_enabled
TypoEnabled(s) == Setting(s, "enabled")

\* allowed_typos: the size for two is asked first.
AllowedTypos(s, word) ==
  IF Len(word) >= Setting(s, "two") THEN 2 ELSE IF Len(word) >= Setting(s, "one") THEN 1 ELSE 0

\* levenshtein_at_most: a row of the table that is above the bound ends it.
LevenshteinAtMost(left, right, most) ==
  LET D[i \in 0..Len(left), j \in 0..Len(right)] ==
        IF i = 0 THEN j ELSE IF j = 0 THEN i
        ELSE Smallest({D[i - 1, j] + 1, D[i, j - 1] + 1,
                       D[i - 1, j - 1] + (IF left[i] = right[j] THEN 0 ELSE 1)})
  IN /\ Len(left) - Len(right) <= most /\ Len(right) - Len(left) <= most
     /\ \A i \in 1..Len(left) : \E j \in 0..Len(right) : D[i, j] <= most
     /\ D[Len(left), Len(right)] <= most

\* typo_matches, typo_disabled_for_word
TypoMatches(s, word, other) ==
  /\ TypoEnabled(s)
  /\ \/ word = other
     \/ /\ word \notin Setting(s, "disabled")
        /\ AllowedTypos(s, word) > 0
        /\ LevenshteinAtMost(word, other, AllowedTypos(s, word))

-----------------------------------------------------------------------------
(* Which fields are searched                                               *)
(* A request names fields in on; <<>> and "*" leave them to the settings.  *)

\* effective_search_fields: <<>> for every field.
EffectiveFields(on, s) ==
  LET named == IF on # <<>> THEN on ELSE Setting(s, "searchable")
  IN IF Contains(named, "*") THEN <<>> ELSE named

\* query_fields of the text index, present being the fields its documents have.
\* There "*" in a request leaves the fields to the settings, and settings that
\* name no field of a document leave every field.
QueryFields(on, s, present) ==
  LET searchable == Setting(s, "searchable")
      known == ToSet(searchable) \cap present
  IN IF on # <<>> /\ ~Contains(on, "*") THEN ToSet(on) \cap present
     ELSE IF ~Contains(searchable, "*") /\ known # {} THEN known
     ELSE present

\* searchable_document_text, value_search_text
Searched(doc, fields) ==
  SelectSeq(IF fields = <<>> THEN Fields ELSE fields, LAMBDA f : f \in DOMAIN doc)
SearchText(doc, fields) ==
  LET told == SelectSeq(Searched(doc, fields), LAMBDA f : doc[f] # Null)
  IN Joined([k \in DOMAIN told |-> doc[told[k]].text])

\* A value as JSON.
Printed(v) == IF v.kind = "string" THEN <<Quote>> \o v.text \o <<Quote>> ELSE v.text

-----------------------------------------------------------------------------
(* Matching                                                                *)

\* matches_query
MatchesQuery(doc, text, fields) ==
  LET names == Searched(doc, fields)
  IN Holds(Joined([k \in DOMAIN names |-> Printed(doc[names[k]])]), text)

\* The text of a document has an alternative of the word, or a word within its typos.
WordMatches(s, word, text) ==
  \/ \E other \in Alternatives(s, word) : Holds(text, other)
  \/ \E other \in ToSet(Tokens(text)) : TypoMatches(s, word, other)

\* matches_query_with_settings
MatchesWithSettings(doc, text, fields, s) ==
  \/ MatchesQuery(doc, text, fields)
  \/ Tokens(text) = <<>>
  \/ /\ Tokens(SearchText(doc, fields)) # <<>>
     /\ \A word \in ToSet(Tokens(text)) : WordMatches(s, word, SearchText(doc, fields))

\* What the text index holds of a document: the words of each field.
Indexed(doc) == [f \in DOMAIN doc |-> IF doc[f] = Null THEN {} ELSE ToSet(Tokens(doc[f].text))]

\* A query of the text index: every word is a word of one of the fields.
IndexMatches(indexed, words, fields) ==
  \A word \in words : \E f \in fields \cap DOMAIN indexed : word \in indexed[f]

-----------------------------------------------------------------------------
(* Filters                                                                 *)
(* A filter is a sequence of conditions [field, op, values].  As a client  *)
(* writes it, it is a sequence of symbols [is, of].                        *)

Symbol(is, of) == [is |-> is, of |-> of]
Symbols(filter) ==
  FlattenSeq([k \in DOMAIN filter |->
    (IF k = 1 THEN <<>> ELSE <<Symbol("and", "and")>>)
    \o <<Symbol("name", filter[k].field), Symbol("op", filter[k].op)>>
    \o [v \in DOMAIN filter[k].values |-> Symbol("value", filter[k].values[v])]])

\* split_filter_expressions
SplitFilter(written) ==
  LET ends == InOrder({i \in DOMAIN written : written[i].is = "and"} \cup {Len(written) + 1})
  IN [k \in DOMAIN ends |-> SubSeq(written, IF k = 1 THEN 1 ELSE ends[k - 1] + 1, ends[k] - 1)]

\* The operators that the text of a written operator contains.
Inside(op) ==
  CASE op = "not in" -> {"not in", "in"}
    [] op = "!=" -> {"!=", "="}
    [] op = ">=" -> {">=", ">", "="}
    [] op = "<=" -> {"<=", "<", "="}
    [] OTHER -> {op}
Sought == <<"not in", "in", "!=", ">=", "<=", ">", "<", "=">>

\* parse_filter_condition: the first of the sought operators that is in the text;
\* one value, unless it is a list.
ParseCondition(part) ==
  LET place == Smallest({i \in DOMAIN part : part[i].is = "op"})
      op == Sought[Smallest({k \in DOMAIN Sought : Sought[k] \in Inside(part[place].of)})]
      values == [k \in 1..(Len(part) - place) |-> part[place + k].of]
  IN [field |-> part[1].of, op |-> op, values |-> IF op \in {"in", "not in"} THEN values ELSE <<values[1]>>]

\* parse_filter_conditions
ParseFilter(written) ==
  IF written = <<>> THEN <<>>
  ELSE LET parts == SplitFilter(written) IN [k \in DOMAIN parts |-> ParseCondition(parts[k])]

Letters == << " ", Quote, "0", "1", "2", "3", "4", "5", "6", "7", "8", "9", "a", "b", "c", "d", "e",
              "f", "g", "h", "i", "j", "k", "l", "m", "n", "o", "p", "q", "r", "s", "t", "u", "v", "w",
              "x", "y", "z" >>
Place(letter) == CHOOSE k \in DOMAIN Letters : Letters[k] = letter
Before(v, w) ==
  \/ Len(v) < Len(w) /\ SubSeq(w, 1, Len(v)) = v
  \/ \E k \in DOMAIN v \cap DOMAIN w : SubSeq(v, 1, k - 1) = SubSeq(w, 1, k - 1) /\ Place(v[k]) < Place(w[k])

\* compare_filter_values: two numbers, or two strings.
Comparable(v, w) == v.kind = w.kind /\ v.kind \in {"number", "string"}
Under(v, w) == IF v.kind = "number" THEN v.num < w.num ELSE Before(v.text, w.text)

\* matches_filter_condition, values_equivalent
MeetsCondition(v, c) ==
  LET w == c.values[1]
      named == \E k \in DOMAIN c.values : c.values[k] = v
  IN CASE c.op \in {"in", "="} -> named
       [] c.op \in {"not in", "!="} -> ~named
       [] c.op = "<" -> Comparable(v, w) /\ Under(v, w)
       [] c.op = "<=" -> Comparable(v, w) /\ ~Under(w, v)
       [] c.op = ">" -> Comparable(v, w) /\ Under(w, v)
       [] c.op = ">=" -> Comparable(v, w) /\ ~Under(v, w)

\* matches_filter: a document without the field meets the negations only.
MatchesFilter(doc, conditions) ==
  \A k \in DOMAIN conditions :
    LET c == conditions[k] IN
    IF c.field \in DOMAIN doc THEN MeetsCondition(doc[c.field], c) ELSE c.op \in {"!=", "not in"}
=============================================================================
