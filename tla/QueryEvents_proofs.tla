------------------------- MODULE QueryEvents_proofs -------------------------
(***************************************************************************)
(* Theorems about QueryEvents for any number of threads, streams and       *)
(* queries.                                                                *)
(***************************************************************************)
EXTENDS QueryEvents, TLAPS

-----------------------------------------------------------------------------
(* The parts of the inductive invariant                                    *)

Event == [kind : {"received", "completed"}, id : Nat]

Types ==
  /\ inbox \in [Streams -> Seq(Event)]
  /\ pc \in [Threads -> {"idle", "starting", "announcing", "running", "finished"}]
  /\ id \in [Threads -> Nat] /\ nextId \in Nat \ {0}
  /\ stream \in [Streams -> {"new", "open", "dropped"}]
  /\ joined \in [Streams -> SUBSET Nat]

\* A stream is subscribed from its subscription until it is dropped, at least.
Subscribed ==
  \A s \in Streams : /\ stream[s] = "open" => s \in subscribers
                     /\ stream[s] = "new" => s \notin subscribers /\ inbox[s] = <<>>

\* An observed query has an id from its first step to its last, below the next.
IdsHeld ==
  \A t \in Threads : /\ id[t] < nextId
                     /\ pc[t] \in {"idle", "starting"} => id[t] = NoId
                     /\ pc[t] \in {"announcing", "finished"} => id[t] # NoId

\* The ids of queries under way differ.
IdsDiffer == \A t, u \in Threads : id[t] = id[u] /\ id[t] # NoId => t = u

\* Every event is of an id that has been taken.
IdsTaken == \A s \in Streams : \A n \in DOMAIN inbox[s] : inbox[s][n].id < nextId

\* A query is in no inbox before it is announced, and not completed while it runs.
NotYet ==
  \A t \in Threads : \A s \in Streams : \A n \in DOMAIN inbox[s] :
    id[t] # NoId /\ inbox[s][n].id = id[t]
      => pc[t] \in {"running", "finished"} /\ inbox[s][n].kind = "received"

\* A stream that is there knows of every query under way that was announced.
Knows ==
  \A s \in Streams : \A t \in Threads :
    stream[s] = "open" /\ pc[t] \in {"running", "finished"} /\ id[t] # NoId
      => Received(id[t]) \in ToSet(inbox[s]) \/ id[t] \in joined[s]

Inv == /\ Types /\ Subscribed /\ IdsHeld /\ IdsDiffer /\ IdsTaken /\ NotYet /\ Knows
       /\ AtMostOnce /\ CompletedHasReceived /\ StreamsAgree

-----------------------------------------------------------------------------
(* Sequences                                                               *)

\* What an appended event changes.
LEMMA AppendFacts ==
  ASSUME NEW S, NEW a \in Seq(S), NEW e \in S
  PROVE  /\ Append(a, e) \in Seq(S) /\ Len(Append(a, e)) = Len(a) + 1
         /\ DOMAIN Append(a, e) = DOMAIN a \cup {Len(a) + 1}
         /\ \A n \in DOMAIN a : Append(a, e)[n] = a[n] /\ n <= Len(a)
         /\ Append(a, e)[Len(a) + 1] = e
         /\ ToSet(Append(a, e)) = ToSet(a) \cup {e}
<1>1. Append(a, e) \in Seq(S) /\ Len(Append(a, e)) = Len(a) + 1 /\ DOMAIN a = 1..Len(a)
  OBVIOUS
<1>2. DOMAIN Append(a, e) = 1..(Len(a) + 1) /\ Len(a) \in Nat
  OBVIOUS
<1>3. 1..(Len(a) + 1) = (1..Len(a)) \cup {Len(a) + 1}
  BY <1>2
<1>4. /\ \A n \in DOMAIN a : Append(a, e)[n] = a[n] /\ n <= Len(a)
      /\ Append(a, e)[Len(a) + 1] = e
  OBVIOUS
<1>5. ToSet(Append(a, e)) = ToSet(a) \cup {e}
  BY <1>1, <1>2, <1>3, <1>4 DEF ToSet
<1> QED BY <1>1, <1>2, <1>3, <1>4, <1>5

\* A new event keeps the events of a stream different.
LEMMA AppendInjective ==
  ASSUME NEW S, NEW q \in Seq(S), NEW e \in S, \A n \in DOMAIN q : q[n] # e,
         \A n, m \in DOMAIN q : q[n] = q[m] => n = m
  PROVE  \A n, m \in DOMAIN Append(q, e) : Append(q, e)[n] = Append(q, e)[m] => n = m
<1>1. DOMAIN Append(q, e) = DOMAIN q \cup {Len(q) + 1} /\ Append(q, e)[Len(q) + 1] = e
  BY AppendFacts
<1>2. \A n \in DOMAIN q : Append(q, e)[n] = q[n]
  BY AppendFacts
<1> QED BY <1>1, <1>2

\* A suffix, element by element.
LEMMA SuffixIs ==
  ASSUME NEW S, NEW a \in Seq(S), NEW b \in Seq(S)
  PROVE  IsSuffix(a, b) <=>
           /\ Len(a) <= Len(b)
           /\ \A n \in 1..Len(a) : a[n] = b[Len(b) - Len(a) + n]
<1> DEFINE ra == Reverse(a)
           rb == Reverse(b)
<1>1. /\ ra \in Seq(S) /\ rb \in Seq(S) /\ Len(ra) = Len(a) /\ Len(rb) = Len(b)
      /\ Len(a) \in Nat /\ Len(b) \in Nat
      /\ \A n \in 1..Len(a) : ra[n] = a[Len(a) - n + 1]
      /\ \A n \in 1..Len(b) : rb[n] = b[Len(b) - n + 1]
  BY DEF Reverse
<1>2. Len(a) <= Len(b) =>
        (SubSeq(ra, 1, Len(ra)) = SubSeq(rb, 1, Len(ra)) <=> \A n \in 1..Len(a) : ra[n] = rb[n])
  BY <1>1
<1>3. Len(a) <= Len(b) =>
        ((\A n \in 1..Len(a) : ra[n] = rb[n])
           <=> \A n \in 1..Len(a) : a[n] = b[Len(b) - Len(a) + n])
  <2> SUFFICES ASSUME Len(a) <= Len(b)
               PROVE  (\A n \in 1..Len(a) : ra[n] = rb[n])
                        <=> \A n \in 1..Len(a) : a[n] = b[Len(b) - Len(a) + n]
    OBVIOUS
  <2>1. ASSUME NEW n \in 1..Len(a)
        PROVE  \E m \in 1..Len(a) : /\ ra[m] = a[n] /\ rb[m] = b[Len(b) - Len(a) + n]
                                     /\ ra[n] = a[m] /\ rb[n] = b[Len(b) - Len(a) + m]
    <3> DEFINE m == Len(a) - n + 1
    <3>1. /\ m \in 1..Len(a) /\ m \in 1..Len(b) /\ n \in 1..Len(b)
          /\ Len(a) - m + 1 = n /\ Len(b) - m + 1 = Len(b) - Len(a) + n
          /\ Len(a) - n + 1 = m /\ Len(b) - n + 1 = Len(b) - Len(a) + m
      BY <1>1
    <3> HIDE DEF m
    <3>2. /\ ra[m] = a[Len(a) - m + 1] /\ rb[m] = b[Len(b) - m + 1]
          /\ ra[n] = a[Len(a) - n + 1] /\ rb[n] = b[Len(b) - n + 1]
      BY <1>1, <3>1
    <3> QED BY <3>1, <3>2
  <2>2. ASSUME \A n \in 1..Len(a) : ra[n] = rb[n], NEW n \in 1..Len(a)
        PROVE  a[n] = b[Len(b) - Len(a) + n]
    BY <2>1, <2>2
  <2>3. ASSUME \A n \in 1..Len(a) : a[n] = b[Len(b) - Len(a) + n], NEW n \in 1..Len(a)
        PROVE  ra[n] = rb[n]
    BY <2>1, <2>3
  <2> QED BY <2>2, <2>3
<1> QED BY <1>1, <1>2, <1>3 DEF IsSuffix, IsPrefix

\* The empty sequence ends every sequence, and the same event at the end of two
\* keeps one the end of the other.
LEMMA SuffixFacts ==
  ASSUME NEW S, NEW a \in Seq(S), NEW b \in Seq(S), NEW e \in S
  PROVE  /\ IsSuffix(<<>>, a)
         /\ IsSuffix(a, b) => IsSuffix(Append(a, e), Append(b, e))
<1>1. IsSuffix(<<>>, a)
  <2>1. <<>> \in Seq(S) /\ Len(<<>>) = 0 /\ Len(a) \in Nat
    OBVIOUS
  <2>2. IsSuffix(<<>>, a) <=>
          /\ Len(<<>>) <= Len(a)
          /\ \A n \in 1..Len(<<>>) : <<>>[n] = a[Len(a) - Len(<<>>) + n]
    BY <2>1, SuffixIs, Zenon
  <2> QED BY <2>1, <2>2
<1>2. ASSUME IsSuffix(a, b)
      PROVE  IsSuffix(Append(a, e), Append(b, e))
  <2>1. /\ Len(a) <= Len(b) /\ \A n \in 1..Len(a) : a[n] = b[Len(b) - Len(a) + n]
        /\ Len(a) \in Nat /\ Len(b) \in Nat /\ DOMAIN a = 1..Len(a) /\ DOMAIN b = 1..Len(b)
    BY <1>2, SuffixIs
  <2> DEFINE c == Append(a, e)
             d == Append(b, e)
  <2>2. /\ c \in Seq(S) /\ d \in Seq(S) /\ Len(c) = Len(a) + 1 /\ Len(d) = Len(b) + 1
        /\ c[Len(a) + 1] = e /\ d[Len(b) + 1] = e
        /\ \A n \in 1..Len(a) : c[n] = a[n]
        /\ \A n \in 1..Len(b) : d[n] = b[n]
    BY <2>1, AppendFacts
  <2> HIDE DEF c, d
  <2>3. ASSUME NEW n \in 1..Len(c)
        PROVE  c[n] = d[Len(d) - Len(c) + n]
    <3>1. Len(d) - Len(c) + n = Len(b) - Len(a) + n
      BY <2>1, <2>2
    <3>2. CASE n = Len(a) + 1
      <4>1. Len(b) - Len(a) + n = Len(b) + 1
        BY <2>1, <3>2
      <4> QED BY <2>2, <3>1, <3>2, <4>1
    <3>3. CASE n \in 1..Len(a)
      <4>1. Len(b) - Len(a) + n \in 1..Len(b)
        BY <2>1, <3>3
      <4> QED BY <2>1, <2>2, <3>1, <3>3, <4>1
    <3> QED BY <2>1, <2>2, <3>2, <3>3
  <2>4. Len(c) <= Len(d)
    BY <2>1, <2>2
  <2> QED BY <2>2, <2>3, <2>4, SuffixIs DEF c, d
<1> QED BY <1>1, <1>2

-----------------------------------------------------------------------------
(* One step                                                                *)

\* Streams and threads that send nothing keep what the inboxes say.
LEMMA QuietStep ==
  ASSUME Inv, UNCHANGED <<inbox, joined, stream>>
  PROVE  AtMostOnce' /\ CompletedHasReceived' /\ StreamsAgree'
<1>1. AtMostOnce'
  BY DEF Inv, AtMostOnce
<1>2. CompletedHasReceived'
  BY DEF Inv, CompletedHasReceived
<1>3. StreamsAgree'
  BY DEF Inv, StreamsAgree
<1> QED BY <1>1, <1>2, <1>3

LEMMA SubscribeStep ==
  ASSUME Inv, NEW s \in Streams, Subscribe(s)
  PROVE  Inv'
<1> USE DEF Inv, Subscribe
<1>1. Types'
  BY DEF Types, Announced
<1>2. Subscribed'
  BY DEF Subscribed, Types
<1>3. IdsHeld' /\ IdsDiffer' /\ IdsTaken'
  BY DEF IdsHeld, IdsDiffer, IdsTaken
<1>4. NotYet'
  BY DEF NotYet
<1>5. Knows'
  BY DEF Knows, Types, Announced
<1>6. AtMostOnce'
  BY DEF AtMostOnce
<1>7. CompletedHasReceived'
  <2> SUFFICES ASSUME NEW v \in Streams, NEW n \in DOMAIN inbox[v],
                      inbox[v][n].kind = "completed"
               PROVE  v # s
    BY DEF CompletedHasReceived, Types
  <2> QED BY DEF Subscribed
<1>8. StreamsAgree'
  <2> SUFFICES ASSUME NEW v \in Streams, NEW u \in Streams,
                      stream'[v] = "open", stream'[u] = "open"
               PROVE  IsSuffix(inbox[v], inbox[u]) \/ IsSuffix(inbox[u], inbox[v])
    BY DEF StreamsAgree
  <2>1. inbox[s] = <<>> /\ inbox[v] \in Seq(Event) /\ inbox[u] \in Seq(Event)
    BY DEF Subscribed, Types
  <2>2. IsSuffix(<<>>, inbox[v]) /\ IsSuffix(<<>>, inbox[u])
    <3>1. PICK e \in Event : TRUE
      <4>1. [kind |-> "received", id |-> 0] \in Event
        BY DEF Event
      <4> QED BY <4>1
    <3> QED BY <2>1, SuffixFacts
  <2>3. CASE v # s /\ u # s
    <3>1. stream[v] = "open" /\ stream[u] = "open"
      BY <2>3 DEF Types
    <3> QED BY <3>1 DEF StreamsAgree
  <2> QED BY <2>1, <2>2, <2>3
<1> QED BY <1>1, <1>2, <1>3, <1>4, <1>5, <1>6, <1>7, <1>8

LEMMA DropStreamStep ==
  ASSUME Inv, NEW s \in Streams, DropStream(s)
  PROVE  Inv'
<1> USE DEF Inv, DropStream
<1>1. Types'
  BY DEF Types
<1>2. Subscribed'
  BY DEF Subscribed, Types
<1>3. IdsHeld' /\ IdsDiffer' /\ IdsTaken' /\ NotYet'
  BY DEF IdsHeld, IdsDiffer, IdsTaken, NotYet
<1>4. \A v \in Streams : stream'[v] = "open" => stream[v] = "open"
  BY DEF Types
<1>5. Knows'
  BY <1>4 DEF Knows
<1>6. AtMostOnce' /\ CompletedHasReceived'
  BY DEF AtMostOnce, CompletedHasReceived
<1>7. StreamsAgree'
  BY <1>4 DEF StreamsAgree
<1> QED BY <1>1, <1>2, <1>3, <1>5, <1>6, <1>7

\* A query begins, takes its id or ends its statements: nothing is sent.
LEMMA QuietThreadStep ==
  ASSUME Inv, NEW t \in Threads,
         BeginObserved(t) \/ BeginUnobserved(t) \/ TakeId(t) \/ Finish(t)
  PROVE  Inv'
<1> USE DEF Inv, Goto
<1>0. UNCHANGED <<inbox, joined, stream, subscribers>>
  BY DEF BeginObserved, BeginUnobserved, TakeId, Finish
<1>1. AtMostOnce' /\ CompletedHasReceived' /\ StreamsAgree'
  BY <1>0, QuietStep
<1>2. Subscribed'
  BY <1>0 DEF Subscribed
<1>3. CASE BeginObserved(t) \/ BeginUnobserved(t) \/ Finish(t)
  <2> USE <1>0, <1>3 DEF BeginObserved, BeginUnobserved, Finish
  <2>1. Types'
    BY DEF Types
  <2>2. id[t] # NoId => pc[t] = "running" /\ pc'[t] = "finished"
    BY DEF IdsHeld, Types
  <2>3. IdsHeld' /\ IdsDiffer' /\ IdsTaken'
    BY <2>2 DEF IdsHeld, IdsDiffer, IdsTaken, Types
  <2>4. NotYet'
    BY <2>2 DEF NotYet, Types
  <2>5. Knows'
    BY <2>2 DEF Knows, Types
  <2> QED BY <1>1, <1>2, <2>1, <2>3, <2>4, <2>5
<1>4. CASE TakeId(t)
  <2> USE <1>0, <1>4 DEF TakeId
  <2>1. Types'
    BY DEF Types
  <2>2. IdsHeld'
    BY DEF IdsHeld, Types, NoId
  <2>7. IdsDiffer'
    BY DEF IdsHeld, IdsDiffer, Types
  <2>8. IdsTaken'
    <3> SUFFICES ASSUME NEW s \in Streams, NEW n \in DOMAIN inbox[s]
                 PROVE  inbox[s][n].id < nextId'
      BY DEF IdsTaken
    <3>1. inbox[s][n].id < nextId /\ inbox[s][n] \in Event /\ nextId \in Nat
      BY DEF IdsTaken, Types
    <3> QED BY <3>1 DEF Event
  <2>3. \A u \in Threads \ {t} : id'[u] = id[u] /\ pc'[u] = pc[u]
    BY DEF Types
  <2>4. id'[t] = nextId /\ pc'[t] = "announcing"
    BY DEF Types
  <2>5. NotYet'
    <3> SUFFICES ASSUME NEW u \in Threads, NEW s \in Streams, NEW n \in DOMAIN inbox[s],
                        id'[u] # NoId, inbox[s][n].id = id'[u]
                 PROVE  pc'[u] \in {"running", "finished"} /\ inbox[s][n].kind = "received"
      BY DEF NotYet
    <3>1. inbox[s][n].id < nextId /\ inbox[s][n] \in Event /\ nextId \in Nat
      BY DEF IdsTaken, Types
    <3>2. u # t
      BY <2>4, <3>1 DEF Event
    <3> QED BY <2>3, <3>2 DEF NotYet
  <2>6. Knows'
    BY <2>3, <2>4 DEF Knows
  <2> QED BY <1>1, <1>2, <2>1, <2>2, <2>5, <2>6, <2>7, <2>8
<1> QED BY <1>3, <1>4

\* An event of a query under way that no stream has seen goes to every stream
\* that is there, at the end of its inbox.
LEMMA SentFacts ==
  ASSUME Inv, NEW e \in Event, Deliver(e),
         \A s \in Streams : \A n \in DOMAIN inbox[s] : inbox[s][n] # e,
         UNCHANGED stream
  PROVE  /\ inbox' \in [Streams -> Seq(Event)]
         /\ Subscribed' /\ AtMostOnce' /\ StreamsAgree'
         /\ \A s \in Streams : \A n \in DOMAIN inbox'[s] :
              (n \in DOMAIN inbox[s] /\ inbox'[s][n] = inbox[s][n]) \/ inbox'[s][n] = e
         /\ \A s \in Streams : \A n \in DOMAIN inbox[s] :
              {inbox'[s][m] : m \in 1..n} = {inbox[s][m] : m \in 1..n}
         /\ \A s \in Streams : \A n \in DOMAIN inbox'[s] :
              inbox'[s][n] = e => {inbox'[s][m] : m \in 1..n} = ToSet(inbox'[s])
         /\ \A s \in Streams : ToSet(inbox[s]) \subseteq ToSet(inbox'[s])
         /\ \A s \in Streams : stream[s] = "open" => e \in ToSet(inbox'[s])
<1>1. /\ inbox' = [s \in Streams |-> IF s \in Listening THEN Append(inbox[s], e) ELSE inbox[s]]
      /\ subscribers' = Listening
  BY DEF Deliver, Send
<1>2. ASSUME NEW s \in Streams
      PROVE  /\ s \in Listening => inbox'[s] = Append(inbox[s], e)
             /\ s \notin Listening => inbox'[s] = inbox[s]
             /\ inbox[s] \in Seq(Event) /\ inbox'[s] \in Seq(Event)
             /\ ToSet(inbox[s]) \subseteq ToSet(inbox'[s])
  <2>1. inbox[s] \in Seq(Event)
    BY DEF Inv, Types
  <2>2. Append(inbox[s], e) \in Seq(Event) /\ ToSet(Append(inbox[s], e)) = ToSet(inbox[s]) \cup {e}
    BY <2>1, AppendFacts
  <2> QED BY <1>1, <2>1, <2>2
<1>3. \A s \in Streams : stream[s] = "open" <=> s \in Listening
  BY DEF Inv, Subscribed, Listening
<1>4. Subscribed'
  <2> SUFFICES ASSUME NEW s \in Streams
               PROVE  /\ stream[s] = "open" => s \in Listening
                      /\ stream[s] = "new" => s \notin Listening /\ inbox'[s] = <<>>
    BY <1>1 DEF Subscribed
  <2>1. stream[s] = "new" => s \notin Listening /\ inbox[s] = <<>>
    BY <1>3 DEF Inv, Subscribed
  <2> QED BY <1>2, <1>3, <2>1
<1>5. AtMostOnce'
  <2> SUFFICES ASSUME NEW s \in Streams
               PROVE  IsInjective(inbox'[s])
    BY DEF AtMostOnce
  <2>1. IsInjective(inbox[s])
    BY DEF Inv, AtMostOnce
  <2>2. CASE s \in Listening
    <3>1. \A n, m \in DOMAIN inbox[s] : inbox[s][n] = inbox[s][m] => n = m
      BY <2>1 DEF IsInjective
    <3> DEFINE p == Append(inbox[s], e)
    <3>2. \A n, m \in DOMAIN p : p[n] = p[m] => n = m
      BY <1>2, <3>1, AppendInjective
    <3>3. inbox'[s] = p
      BY <1>2, <2>2
    <3> HIDE DEF p
    <3> QED BY <3>2, <3>3 DEF IsInjective
  <2> QED BY <1>2, <2>1, <2>2
<1>6. StreamsAgree'
  <2> SUFFICES ASSUME NEW s \in Streams, NEW u \in Streams,
                      stream[s] = "open", stream[u] = "open"
               PROVE  IsSuffix(inbox'[s], inbox'[u]) \/ IsSuffix(inbox'[u], inbox'[s])
    BY DEF StreamsAgree
  <2>1. IsSuffix(inbox[s], inbox[u]) \/ IsSuffix(inbox[u], inbox[s])
    BY DEF Inv, StreamsAgree
  <2>2. inbox'[s] = Append(inbox[s], e) /\ inbox'[u] = Append(inbox[u], e)
    BY <1>2, <1>3
  <2> QED BY <1>2, <2>1, <2>2, SuffixFacts
<1>7. inbox' \in [Streams -> Seq(Event)]
  BY <1>1, <1>2
<1>8. ASSUME NEW s \in Streams, NEW n \in DOMAIN inbox[s]
      PROVE  {inbox'[s][m] : m \in 1..n} = {inbox[s][m] : m \in 1..n}
  <2>1. \A m \in 1..n : m \in DOMAIN inbox[s]
    BY <1>2
  <2>2. \A m \in DOMAIN inbox[s] : inbox'[s][m] = inbox[s][m]
    BY <1>2, AppendFacts
  <2> QED BY <2>1, <2>2
<1>9. ASSUME NEW s \in Streams, NEW n \in DOMAIN inbox'[s]
      PROVE  /\ (n \in DOMAIN inbox[s] /\ inbox'[s][n] = inbox[s][n]) \/ inbox'[s][n] = e
             /\ inbox'[s][n] = e => {inbox'[s][m] : m \in 1..n} = ToSet(inbox'[s])
  <2>1. CASE s \in Listening
    <3>1. /\ DOMAIN inbox'[s] = DOMAIN inbox[s] \cup {Len(inbox[s]) + 1}
          /\ \A m \in DOMAIN inbox[s] : inbox'[s][m] = inbox[s][m]
          /\ inbox'[s][Len(inbox[s]) + 1] = e
          /\ DOMAIN inbox'[s] = 1..Len(inbox[s]) + 1
      BY <1>2, <2>1, AppendFacts
    <3>2. inbox'[s][n] = e => n = Len(inbox[s]) + 1
      BY <3>1
    <3> QED BY <3>1, <3>2 DEF ToSet
  <2>2. CASE s \notin Listening
    BY <1>2, <2>2
  <2> QED BY <2>1, <2>2
<1>10. ASSUME NEW s \in Streams, stream[s] = "open"
       PROVE  e \in ToSet(inbox'[s])
  <2>1. inbox'[s] = Append(inbox[s], e) /\ inbox[s] \in Seq(Event)
    BY <1>2, <1>3, <1>10
  <2>2. e \in ToSet(Append(inbox[s], e))
    BY <2>1, AppendFacts
  <2> QED BY <2>1, <2>2
<1>11. \A s \in Streams : ToSet(inbox[s]) \subseteq ToSet(inbox'[s])
  BY <1>2
<1>12. \A s \in Streams : \A n \in DOMAIN inbox'[s] :
         (n \in DOMAIN inbox[s] /\ inbox'[s][n] = inbox[s][n]) \/ inbox'[s][n] = e
  BY <1>9
<1>13. \A s \in Streams : \A n \in DOMAIN inbox'[s] :
         inbox'[s][n] = e => {inbox'[s][m] : m \in 1..n} = ToSet(inbox'[s])
  BY <1>9
<1>14. \A s \in Streams : \A n \in DOMAIN inbox[s] :
         {inbox'[s][m] : m \in 1..n} = {inbox[s][m] : m \in 1..n}
  BY <1>8
<1> QED BY <1>4, <1>5, <1>6, <1>7, <1>10, <1>11, <1>12, <1>13, <1>14, Zenon

LEMMA PublishReceivedStep ==
  ASSUME Inv, NEW t \in Threads, PublishReceived(t)
  PROVE  Inv'
<1> DEFINE e == Received(id[t])
<1>1. /\ pc[t] = "announcing" /\ pc' = [pc EXCEPT ![t] = "running"] /\ Deliver(e)
      /\ UNCHANGED <<stream, nextId, id, joined>>
  BY DEF PublishReceived, Goto
<1>2. e \in Event /\ e.id = id[t] /\ e.kind = "received" /\ id[t] # NoId
  BY <1>1 DEF Inv, Types, IdsHeld, Event, Received
<1>3. \A s \in Streams : \A n \in DOMAIN inbox[s] : inbox[s][n].id # id[t]
  BY <1>1, <1>2 DEF Inv, NotYet
<1> HIDE DEF e
<1>4. \A s \in Streams : \A n \in DOMAIN inbox[s] : inbox[s][n] # e
  BY <1>2, <1>3
<1>5. /\ inbox' \in [Streams -> Seq(Event)]
      /\ Subscribed' /\ AtMostOnce' /\ StreamsAgree'
  BY <1>1, <1>2, <1>4, SentFacts
<1>6. /\ \A s \in Streams : \A n \in DOMAIN inbox[s] :
           {inbox'[s][m] : m \in 1..n} = {inbox[s][m] : m \in 1..n}
      /\ \A s \in Streams : ToSet(inbox[s]) \subseteq ToSet(inbox'[s])
      /\ \A s \in Streams : stream[s] = "open" => e \in ToSet(inbox'[s])
  BY <1>1, <1>2, <1>4, SentFacts
<1>7. \A s \in Streams : \A n \in DOMAIN inbox'[s] :
        (n \in DOMAIN inbox[s] /\ inbox'[s][n] = inbox[s][n]) \/ inbox'[s][n] = e
  BY <1>1, <1>2, <1>4, SentFacts
<1>12. Types'
  BY <1>1, <1>5 DEF Inv, Types
<1>8. IdsHeld' /\ IdsDiffer'
  BY <1>1 DEF Inv, IdsHeld, IdsDiffer, Types
<1>13. IdsTaken'
  <2> SUFFICES ASSUME NEW s \in Streams, NEW n \in DOMAIN inbox'[s]
               PROVE  inbox'[s][n].id < nextId
    BY <1>1 DEF IdsTaken
  <2>1. id[t] < nextId
    BY DEF Inv, IdsHeld
  <2> QED BY <1>2, <1>7, <2>1 DEF Inv, IdsTaken
<1>9. NotYet'
  <2> SUFFICES ASSUME NEW u \in Threads, NEW s \in Streams, NEW n \in DOMAIN inbox'[s],
                      id'[u] # NoId, inbox'[s][n].id = id'[u]
               PROVE  pc'[u] \in {"running", "finished"} /\ inbox'[s][n].kind = "received"
    BY DEF NotYet
  <2>1. CASE u = t
    <3>1. inbox'[s][n] = e
      BY <1>1, <1>3, <1>7, <2>1
    <3> QED BY <1>1, <1>2, <2>1, <3>1 DEF Inv, Types
  <2>2. CASE u # t
    <3>1. pc'[u] = pc[u] /\ id'[u] = id[u] /\ id[u] # id[t]
      BY <1>1, <1>2, <2>2 DEF Inv, Types, IdsDiffer
    <3>2. n \in DOMAIN inbox[s] /\ inbox'[s][n] = inbox[s][n]
      BY <1>2, <1>7, <3>1
    <3> QED BY <3>1, <3>2 DEF Inv, NotYet
  <2> QED BY <2>1, <2>2
<1>10. Knows'
  <2> SUFFICES ASSUME NEW s \in Streams, NEW u \in Threads, stream[s] = "open",
                      pc'[u] \in {"running", "finished"}, id[u] # NoId
               PROVE  Received(id[u]) \in ToSet(inbox'[s]) \/ id[u] \in joined[s]
    BY <1>1 DEF Knows
  <2>1. CASE u = t
    <3>1. e \in ToSet(inbox'[s])
      BY <1>6
    <3> QED BY <2>1, <3>1 DEF e
  <2>2. CASE u # t
    <3>1. pc'[u] = pc[u]
      BY <1>1, <2>2 DEF Inv, Types
    <3>2. Received(id[u]) \in ToSet(inbox[s]) \/ id[u] \in joined[s]
      BY <3>1 DEF Inv, Knows
    <3> QED BY <1>6, <3>2
  <2> QED BY <2>1, <2>2
<1>11. CompletedHasReceived'
  <2> SUFFICES ASSUME NEW s \in Streams, NEW n \in DOMAIN inbox'[s],
                      inbox'[s][n].kind = "completed"
               PROVE  LET i == inbox'[s][n].id
                          before == {inbox'[s][m] : m \in 1..n}
                      IN /\ Received(i) \in before \/ i \in joined[s]
                         /\ Received(i) \in ToSet(inbox'[s]) => Received(i) \in before
    BY <1>1 DEF CompletedHasReceived
  <2> DEFINE i == inbox[s][n].id
             before == {inbox[s][m] : m \in 1..n}
  <2>1. n \in DOMAIN inbox[s] /\ inbox'[s][n] = inbox[s][n]
    BY <1>2, <1>7
  <2>2. /\ Received(i) \in before \/ i \in joined[s]
        /\ Received(i) \in ToSet(inbox[s]) => Received(i) \in before
    BY <2>1 DEF Inv, CompletedHasReceived
  <2>3. {inbox'[s][m] : m \in 1..n} = before
    BY <1>6, <2>1
  <2>4. Received(i) \in ToSet(inbox'[s]) => Received(i) \in ToSet(inbox[s])
    <3>1. Received(i) # e
      BY <1>2, <1>3, <2>1 DEF Received
    <3>2. ToSet(inbox'[s]) \subseteq ToSet(inbox[s]) \cup {e}
      BY <1>7 DEF ToSet
    <3> QED BY <3>1, <3>2
  <2> HIDE DEF before
  <2> QED BY <2>1, <2>2, <2>3, <2>4
<1> QED BY <1>5, <1>8, <1>9, <1>10, <1>11, <1>12, <1>13 DEF Inv

LEMMA PublishCompletedStep ==
  ASSUME Inv, NEW t \in Threads, PublishCompleted(t)
  PROVE  Inv'
<1> DEFINE e == Completed(id[t])
<1>1. /\ pc[t] = "finished" /\ pc' = [pc EXCEPT ![t] = "idle"] /\ Deliver(e)
      /\ id' = [id EXCEPT ![t] = NoId] /\ UNCHANGED <<stream, nextId, joined>>
  BY DEF PublishCompleted, Goto
<1>2. e \in Event /\ e.id = id[t] /\ e.kind = "completed" /\ id[t] # NoId
  BY <1>1 DEF Inv, Types, IdsHeld, Event, Completed
<1>3. \A s \in Streams : \A n \in DOMAIN inbox[s] :
        inbox[s][n].id = id[t] => inbox[s][n].kind = "received"
  BY <1>2 DEF Inv, NotYet
<1> HIDE DEF e
<1>4. \A s \in Streams : \A n \in DOMAIN inbox[s] : inbox[s][n] # e
  BY <1>2, <1>3
<1>5. /\ inbox' \in [Streams -> Seq(Event)]
      /\ Subscribed' /\ AtMostOnce' /\ StreamsAgree'
  BY <1>1, <1>2, <1>4, SentFacts
<1>6. /\ \A s \in Streams : \A n \in DOMAIN inbox[s] :
           {inbox'[s][m] : m \in 1..n} = {inbox[s][m] : m \in 1..n}
      /\ \A s \in Streams : ToSet(inbox[s]) \subseteq ToSet(inbox'[s])
      /\ \A s \in Streams : \A n \in DOMAIN inbox'[s] :
           inbox'[s][n] = e => {inbox'[s][m] : m \in 1..n} = ToSet(inbox'[s])
  BY <1>1, <1>2, <1>4, SentFacts
<1>7. \A s \in Streams : \A n \in DOMAIN inbox'[s] :
        (n \in DOMAIN inbox[s] /\ inbox'[s][n] = inbox[s][n]) \/ inbox'[s][n] = e
  BY <1>1, <1>2, <1>4, SentFacts
<1>8. Types'
  BY <1>1, <1>5 DEF Inv, Types, NoId
<1>9. /\ id'[t] = NoId /\ pc'[t] = "idle"
      /\ \A u \in Threads \ {t} : id'[u] = id[u] /\ pc'[u] = pc[u]
  BY <1>1 DEF Inv, Types
<1>10. IdsHeld' /\ IdsDiffer'
  BY <1>1, <1>9 DEF Inv, IdsHeld, IdsDiffer, Types, NoId
<1>11. IdsTaken'
  <2> SUFFICES ASSUME NEW s \in Streams, NEW n \in DOMAIN inbox'[s]
               PROVE  inbox'[s][n].id < nextId
    BY <1>1 DEF IdsTaken
  <2>1. id[t] < nextId
    BY DEF Inv, IdsHeld
  <2> QED BY <1>2, <1>7, <2>1 DEF Inv, IdsTaken
<1>12. NotYet'
  <2> SUFFICES ASSUME NEW u \in Threads, NEW s \in Streams, NEW n \in DOMAIN inbox'[s],
                      id'[u] # NoId, inbox'[s][n].id = id'[u]
               PROVE  pc'[u] \in {"running", "finished"} /\ inbox'[s][n].kind = "received"
    BY DEF NotYet
  <2>1. u # t /\ pc'[u] = pc[u] /\ id'[u] = id[u]
    BY <1>9
  <2>2. id[u] # id[t]
    BY <1>2, <2>1 DEF Inv, IdsDiffer
  <2>3. n \in DOMAIN inbox[s] /\ inbox'[s][n] = inbox[s][n]
    BY <1>2, <1>7, <2>1, <2>2
  <2> QED BY <2>1, <2>3 DEF Inv, NotYet
<1>13. Knows'
  <2> SUFFICES ASSUME NEW s \in Streams, NEW u \in Threads, stream[s] = "open",
                      pc'[u] \in {"running", "finished"}, id'[u] # NoId
               PROVE  Received(id'[u]) \in ToSet(inbox'[s]) \/ id'[u] \in joined[s]
    BY <1>1 DEF Knows
  <2>1. id'[u] = id[u] /\ pc'[u] = pc[u]
    BY <1>9
  <2>2. Received(id[u]) \in ToSet(inbox[s]) \/ id[u] \in joined[s]
    BY <2>1 DEF Inv, Knows
  <2> QED BY <1>6, <2>1, <2>2
<1>14. CompletedHasReceived'
  <2> SUFFICES ASSUME NEW s \in Streams, NEW n \in DOMAIN inbox'[s],
                      inbox'[s][n].kind = "completed"
               PROVE  LET i == inbox'[s][n].id
                          before == {inbox'[s][m] : m \in 1..n}
                      IN /\ Received(i) \in before \/ i \in joined[s]
                         /\ Received(i) \in ToSet(inbox'[s]) => Received(i) \in before
    BY <1>1 DEF CompletedHasReceived
  <2>1. CASE inbox'[s][n] = e
    <3>1. {inbox'[s][m] : m \in 1..n} = ToSet(inbox'[s]) /\ inbox'[s][n].id = id[t]
      BY <1>2, <1>6, <2>1
    <3>2. Received(id[t]) \in ToSet(inbox'[s]) \/ id[t] \in joined[s]
      <4>1. CASE stream[s] = "open"
        <5>1. Received(id[t]) \in ToSet(inbox[s]) \/ id[t] \in joined[s]
          BY <1>1, <1>2, <4>1 DEF Inv, Knows
        <5> QED BY <1>6, <5>1
      <4>2. CASE stream[s] # "open"
        <5>1. inbox'[s] = inbox[s]
          BY <1>1, <4>2 DEF Deliver, Send, Listening
        <5> QED BY <1>4, <2>1, <5>1
      <4> QED BY <4>1, <4>2
    <3> QED BY <3>1, <3>2
  <2>2. CASE inbox'[s][n] # e
    <3> DEFINE i == inbox[s][n].id
               before == {inbox[s][m] : m \in 1..n}
    <3>1. n \in DOMAIN inbox[s] /\ inbox'[s][n] = inbox[s][n]
      BY <1>7, <2>2
    <3>2. /\ Received(i) \in before \/ i \in joined[s]
          /\ Received(i) \in ToSet(inbox[s]) => Received(i) \in before
      BY <3>1 DEF Inv, CompletedHasReceived
    <3>3. {inbox'[s][m] : m \in 1..n} = before
      BY <1>6, <3>1
    <3>4. Received(i) \in ToSet(inbox'[s]) => Received(i) \in ToSet(inbox[s])
      <4>1. Received(i) # e
        BY <1>2 DEF Received
      <4>2. ToSet(inbox'[s]) \subseteq ToSet(inbox[s]) \cup {e}
        BY <1>7 DEF ToSet
      <4> QED BY <4>1, <4>2
    <3> HIDE DEF before
    <3> QED BY <3>1, <3>2, <3>3, <3>4
  <2> QED BY <2>1, <2>2
<1> QED BY <1>5, <1>8, <1>10, <1>11, <1>12, <1>13, <1>14 DEF Inv

-----------------------------------------------------------------------------
(* Theorems                                                                *)

LEMMA InitInv ==
  ASSUME Init
  PROVE  Inv
<1>1. /\ \A s \in Streams : inbox[s] = <<>> /\ DOMAIN inbox[s] = {} /\ stream[s] = "new"
      /\ \A t \in Threads : pc[t] = "idle" /\ id[t] = NoId
  BY DEF Init
<1>2. Types
  BY DEF Init, Types, NoId
<1>3. Subscribed
  BY <1>1 DEF Init, Subscribed
<1>4. IdsHeld /\ IdsDiffer /\ IdsTaken
  BY <1>1 DEF Init, IdsHeld, IdsDiffer, IdsTaken, NoId
<1>5. NotYet /\ Knows /\ CompletedHasReceived
  BY <1>1 DEF NotYet, Knows, CompletedHasReceived
<1>6. AtMostOnce
  BY <1>1 DEF AtMostOnce, IsInjective
<1>7. StreamsAgree
  BY <1>1 DEF StreamsAgree
<1> QED BY <1>2, <1>3, <1>4, <1>5, <1>6, <1>7 DEF Inv

LEMMA NextInv ==
  ASSUME Inv, [Next]_vars
  PROVE  Inv'
<1>1. ASSUME NEW s \in Streams, Subscribe(s)
      PROVE  Inv'
  BY <1>1, SubscribeStep
<1>2. ASSUME NEW s \in Streams, DropStream(s)
      PROVE  Inv'
  BY <1>2, DropStreamStep
<1>3. ASSUME NEW t \in Threads,
             BeginObserved(t) \/ BeginUnobserved(t) \/ TakeId(t) \/ Finish(t)
      PROVE  Inv'
  BY <1>3, QuietThreadStep
<1>4. ASSUME NEW t \in Threads, PublishReceived(t)
      PROVE  Inv'
  BY <1>4, PublishReceivedStep
<1>5. ASSUME NEW t \in Threads, PublishCompleted(t)
      PROVE  Inv'
  BY <1>5, PublishCompletedStep
<1>6. CASE UNCHANGED vars
  <2> USE <1>6 DEF vars, Inv
  <2>1. Types' /\ Subscribed' /\ IdsHeld' /\ IdsDiffer' /\ IdsTaken'
    BY DEF Types, Subscribed, IdsHeld, IdsDiffer, IdsTaken
  <2>2. NotYet' /\ Knows'
    BY DEF NotYet, Knows
  <2>3. AtMostOnce' /\ CompletedHasReceived' /\ StreamsAgree'
    BY QuietStep
  <2> QED BY <2>1, <2>2, <2>3
<1> QED BY <1>1, <1>2, <1>3, <1>4, <1>5, <1>6 DEF Next, Proceed

\* Ids are unique, a running query has been announced to every stream that is
\* there, and what has been sent agrees.
THEOREM InvHolds == Spec => []Inv
<1>1. Init => Inv
  BY InitInv
<1>2. Inv /\ [Next]_vars => Inv'
  BY NextInv
<1> QED BY <1>1, <1>2, PTL DEF Spec

\* No stream is told the same event twice, whatever queries run at once.
THEOREM AtMostOnceHolds == Spec => []AtMostOnce
<1>1. Inv => AtMostOnce
  BY DEF Inv
<1> QED BY <1>1, InvHolds, PTL

\* A stream sees a query completed only after it was told of it, or when it
\* joined after the query was announced.
THEOREM CompletedHasReceivedHolds == Spec => []CompletedHasReceived
<1>1. Inv => CompletedHasReceived
  BY DEF Inv
<1> QED BY <1>1, InvHolds, PTL

\* Of two streams that are there, the later was told what the earlier was told
\* since it joined, in the same order.
THEOREM StreamsAgreeHolds == Spec => []StreamsAgree
<1>1. Inv => StreamsAgree
  BY DEF Inv
<1> QED BY <1>1, InvHolds, PTL
=============================================================================
