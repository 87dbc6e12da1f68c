---------------------------- MODULE SearchMeaning ----------------------------
(***************************************************************************)
(* What a search request ought to match, for the properties of             *)
(* SearchServer: words by single edits, filters as relations.              *)
(***************************************************************************)
EXTENDS SearchOps

\* What settings read as, and what that is after a change: a member that the change
\* does not name keeps its value, or has its default if the object it is a member of
\* is put anew; the entries of synonyms are merged one by one.
Reading(s) == [n \in DOMAIN Defaults |-> Setting(s, n)]
ReadAfter(read, change) ==
  LET named == DOMAIN change.patch IN
  [n \in DOMAIN read |->
     IF change.way = "reset" THEN Defaults[n]
     ELSE IF n \in named /\ change.way = "patch" /\ n = "synonyms" THEN Over(change.patch[n], read[n])
     ELSE IF n \in named THEN change.patch[n]
     ELSE IF change.way = "put" /\ n \in TypoSettings /\ named \subseteq TypoSettings THEN Defaults[n]
     ELSE read[n]]

\* One letter is replaced, or one of the two has a letter more.
OneEdit(v, w) ==
  \/ Len(v) = Len(w) /\ Cardinality({k \in DOMAIN v : v[k] # w[k]}) = 1
  \/ Len(v) = Len(w) + 1 /\ \E k \in DOMAIN v : RemoveAt(v, k) = w
  \/ Len(w) = Len(v) + 1 /\ \E k \in DOMAIN w : RemoveAt(w, k) = v

\* The words one edit away, with letters of another word.
Neighbours(v, letters) ==
  {RemoveAt(v, k) : k \in DOMAIN v}
  \cup {ReplaceAt(v, k, l) : k \in DOMAIN v, l \in letters}
  \cup {InsertAt(v, k, l) : k \in 1..(Len(v) + 1), l \in letters}

Edits(v, w, n) ==
  \/ v = w
  \/ n >= 1 /\ OneEdit(v, w)
  \/ n = 2 /\ \E x \in Neighbours(v, ToSet(w)) : OneEdit(x, w)

\* The word, or one that shares an entry of the synonyms with it.
Same(s, word, other) ==
  LET entries == Setting(s, "synonyms")
  IN word = other \/ \E k \in DOMAIN entries : {word, other} \subseteq {k} \cup entries[k]

\* A word of a query fits a field that holds it or a synonym, whole or within a word,
\* or a word with few enough edits for the length of the first.
WordFits(s, word, v) ==
  LET edits == IF ~Setting(s, "enabled") \/ word \in Setting(s, "disabled") THEN 0
               ELSE Cardinality({k \in {"one", "two"} : Len(word) >= Setting(s, k)})
  IN v # Null /\ (\/ \E m, n \in DOMAIN v.text : Same(s, word, SubSeq(v.text, m, n))
                  \/ \E other \in ToSet(Tokens(v.text)) : Edits(word, other, edits))

\* The fields that hold the whole query, and those that each of its words fits.
FieldsThatFit(doc, text, s) ==
  [whole |-> {f \in DOMAIN doc : Holds(Printed(doc[f]), text)},
   words |-> {{f \in DOMAIN doc : WordFits(s, word, doc[f])} : word \in ToSet(Tokens(text))}]

Fits(fitting, fields) ==
  fitting.whole \cap fields # {} \/ \A places \in fitting.words : places \cap fields # {}

\* A condition is a relation of two values.
ConditionHolds(c, v) ==
  LET values == ToSet(c.values)
      Less(x, y) == x.kind = y.kind /\ (\/ x.kind = "number" /\ x.num < y.num
                                        \/ x.kind = "string" /\ Before(x.text, y.text))
      alike == {w \in values : w.kind = v.kind /\ w.kind # "null"}
  IN CASE c.op = "=" -> v \in values
       [] c.op = "in" -> v \in values
       [] c.op \in {"!=", "not in"} -> v \notin values
       [] c.op = "<" -> \E w \in alike : Less(v, w)
       [] c.op = ">" -> \E w \in alike : Less(w, v)
       [] c.op = "<=" -> \E w \in alike : Less(v, w) \/ v = w
       [] c.op = ">=" -> \E w \in alike : Less(w, v) \/ v = w

\* All conditions hold; of a field that is not there only a negation does.
FilterHolds(filter, doc) ==
  \A k \in DOMAIN filter :
    IF filter[k].field \in DOMAIN doc THEN ConditionHolds(filter[k], doc[filter[k].field])
    ELSE filter[k].op \in {"!=", "not in"}
=============================================================================
