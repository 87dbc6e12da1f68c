---------------------------- MODULE QueryEvents ----------------------------
(***************************************************************************)
(* Query lifecycle events (subscribe_query_events, execute_sql_internal,   *)
(* execute_statement, query_failed_before_execution, publish_query_event   *)
(* and publish_query_completed in src/sql/engine/mod.rs).                  *)
(*                                                                         *)
(* Threads run queries on one engine while streams are subscribed and      *)
(* dropped.  The list of subscribers has a mutex that is taken anew for    *)
(* each look at it: to see whether anyone listens, to publish Received and *)
(* to publish Completed.  A query rejected before it is executed publishes *)
(* the same two events.  The text, metrics and results in an event are     *)
(* left out, and the order of the list, which shows only while one event   *)
(* is sent to all of it.                                                   *)
(***************************************************************************)
EXTENDS Naturals, Sequences, FiniteSets, SequencesExt

CONSTANTS
  Threads,     \* threads that execute queries
  Streams,     \* streams that may be subscribed, once each
  MaxQueries   \* bound: observed queries in a behaviour

ASSUME MaxQueriesAssumption == MaxQueries \in Nat

VARIABLES
  subscribers, \* query_event_subscribers, the streams in it
  stream,      \* whether a stream's receiver is there
  inbox,       \* the events sent to each stream, received or not
  nextId,      \* next_query_id
  pc, id,      \* where each thread is, and the id of its query
  joined       \* history: observed queries already announced when a stream joined

vars == <<subscribers, stream, inbox, nextId, pc, id, joined>>

Ids == 1..MaxQueries
NoId == 0    \* the query is not observed
Received(i) == [kind |-> "received", id |-> i]
Completed(i) == [kind |-> "completed", id |-> i]
Events == {Received(i) : i \in Ids} \cup {Completed(i) : i \in Ids}

TypeOK ==
  /\ subscribers \subseteq Streams
  /\ stream \in [Streams -> {"new", "open", "dropped"}]
  /\ inbox \in [Streams -> Seq(Events)]
  /\ nextId \in 1..MaxQueries + 1
  /\ pc \in [Threads -> {"idle", "starting", "announcing", "running", "finished"}]
  /\ id \in [Threads -> Ids \cup {NoId}]
  /\ joined \in [Streams -> SUBSET Ids]

Init ==
  /\ subscribers = {} /\ stream = [s \in Streams |-> "new"]
  /\ inbox = [s \in Streams |-> <<>>] /\ joined = [s \in Streams |-> {}]
  /\ nextId = 1
  /\ pc = [t \in Threads |-> "idle"] /\ id = [t \in Threads |-> NoId]

-----------------------------------------------------------------------------
(* Streams                                                                 *)

\* The observed queries whose Received has been published.
Announced == {id[t] : t \in {u \in Threads : pc[u] \in {"running", "finished"}}} \ {NoId}

Subscribe(s) ==
  /\ stream[s] = "new" /\ stream' = [stream EXCEPT ![s] = "open"]
  /\ subscribers' = subscribers \cup {s}
  /\ joined' = [joined EXCEPT ![s] = Announced]
  /\ UNCHANGED <<inbox, nextId, pc, id>>

\* The receiver goes; the engine finds out when it next sends.
DropStream(s) ==
  /\ stream[s] = "open" /\ stream' = [stream EXCEPT ![s] = "dropped"]
  /\ UNCHANGED <<subscribers, inbox, nextId, pc, id, joined>>

\* The subscribers whose receiver is there.
Listening == {s \in subscribers : stream[s] = "open"}

\* Event e goes to the streams of S.
Send(e, S) == inbox' = [s \in Streams |-> IF s \in S THEN Append(inbox[s], e) ELSE inbox[s]]

\* Mutant: a receiver that is gone ends the delivery, and some miss the event.
DeliverUntilError(e) ==
  /\ subscribers' = Listening
  /\ \E S \in SUBSET Listening : (Listening = subscribers => S = Listening) /\ Send(e, S)

\* retain(send(..).is_ok()), under the mutex
Deliver(e) == Send(e, Listening) /\ subscribers' = Listening

-----------------------------------------------------------------------------
(* One query                                                               *)

Goto(t, from, to) == pc[t] = from /\ pc' = [pc EXCEPT ![t] = to]

\* query_events_enabled() finds a subscriber.
BeginObserved(t) ==
  /\ Goto(t, "idle", "starting") /\ subscribers # {}
  /\ nextId + Cardinality({u \in Threads : pc[u] = "starting"}) <= MaxQueries
  /\ UNCHANGED <<subscribers, stream, inbox, nextId, id, joined>>

\* It finds none: the query runs without an id and without events.
BeginUnobserved(t) ==
  /\ Goto(t, "idle", "running") /\ subscribers = {}
  /\ UNCHANGED <<subscribers, stream, inbox, nextId, id, joined>>

\* Mutant: the id is read and not advanced.
TakeIdStale(t) ==
  /\ Goto(t, "starting", "announcing") /\ id' = [id EXCEPT ![t] = nextId]
  /\ UNCHANGED <<subscribers, stream, inbox, nextId, joined>>

TakeId(t) ==
  /\ Goto(t, "starting", "announcing") /\ id' = [id EXCEPT ![t] = nextId]
  /\ nextId' = nextId + 1
  /\ UNCHANGED <<subscribers, stream, inbox, joined>>

PublishReceived(t) ==
  /\ Goto(t, "announcing", "running") /\ Deliver(Received(id[t]))
  /\ UNCHANGED <<stream, nextId, id, joined>>

\* Mutant: an error returns before the completion is published.
FinishReturnsError(t) ==
  /\ \/ id[t] # NoId /\ Goto(t, "running", "finished") /\ UNCHANGED id
     \/ Goto(t, "running", "idle") /\ id' = [id EXCEPT ![t] = NoId]
  /\ UNCHANGED <<subscribers, stream, inbox, nextId, joined>>

\* Mutant: the query looks for subscribers again when it has run.
FinishLooksAgain(t) ==
  /\ IF subscribers # {} THEN Goto(t, "running", "finished") ELSE Goto(t, "running", "idle")
  /\ UNCHANGED <<subscribers, stream, inbox, nextId, id, joined>>

\* The statements have run, with success or not.
Finish(t) ==
  /\ IF id[t] # NoId THEN Goto(t, "running", "finished") ELSE Goto(t, "running", "idle")
  /\ UNCHANGED <<subscribers, stream, inbox, nextId, id, joined>>

PublishCompleted(t) ==
  /\ Goto(t, "finished", "idle") /\ Deliver(Completed(id[t]))
  /\ id' = [id EXCEPT ![t] = NoId]
  /\ UNCHANGED <<stream, nextId, joined>>

Proceed(t) == TakeId(t) \/ PublishReceived(t) \/ Finish(t) \/ PublishCompleted(t)

Next ==
  \/ \E s \in Streams : Subscribe(s) \/ DropStream(s)
  \/ \E t \in Threads : BeginObserved(t) \/ BeginUnobserved(t) \/ Proceed(t)

Spec == Init /\ [][Next]_vars

\* A query that has begun goes on: its statements end, and the mutex is held
\* only while events are sent to channels without a limit.
FairSpec == Spec /\ \A t \in Threads : WF_vars(Proceed(t))

-----------------------------------------------------------------------------
(* Properties                                                              *)

\* No stream is told twice that the same query was received, or completed: ids
\* are unique among concurrent queries (fetch_add).
AtMostOnce == \A s \in Streams : IsInjective(inbox[s])

\* Of queries executed after it was subscribed a stream is told of the Received before
\* the Completed.  Of others it should be told nothing, says the comment of
\* subscribe_query_events, and it is: see OnlyLaterQueries.  What it is told of those
\* is a Completed alone, if it joined after the query was announced; and a query that
\* began unobserved sends nothing, whoever joins while it runs.
CompletedHasReceived ==
  \A s \in Streams : \A n \in DOMAIN inbox[s] :
    inbox[s][n].kind = "completed" =>
      LET i == inbox[s][n].id
          before == {inbox[s][m] : m \in 1..n}
      IN /\ Received(i) \in before \/ i \in joined[s]
         /\ Received(i) \in ToSet(inbox[s]) => Received(i) \in before

\* What the comment of subscribe_query_events says: a stream receives events of queries
\* that are executed after the subscription is created.  It does not hold:
\* publish_query_completed sends to whoever is subscribed when the query ends.
OnlyLaterQueries == \A s \in Streams : \A n \in DOMAIN inbox[s] : inbox[s][n].id \notin joined[s]

\* Two streams that are both there have been told the same events in the same
\* order since the later one joined: none is skipped because another subscriber
\* has gone.
StreamsAgree ==
  \A s, u \in {v \in Streams : stream[v] = "open"} :
    IsSuffix(inbox[s], inbox[u]) \/ IsSuffix(inbox[u], inbox[s])

\* A query that a stream has seen received is seen completed, whether it
\* succeeds or fails, unless the stream is dropped.
Answered ==
  \A s \in Streams : \A i \in Ids :
    Received(i) \in ToSet(inbox[s])
      ~> Completed(i) \in ToSet(inbox[s]) \/ stream[s] = "dropped"
=============================================================================
