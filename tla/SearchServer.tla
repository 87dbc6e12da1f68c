---------------------------- MODULE SearchServer ----------------------------
(***************************************************************************)
(* The Meilisearch-shaped HTTP server over one engine.  All its requests   *)
(* run on one thread (a current-thread runtime, and no handler awaits), so *)
(* they never interleave with each other; but a request is a sequence of   *)
(* engine calls, and MySQL clients run statements between any two of them. *)
(* The rows live in the engine.  The server keeps, in memory only, a text  *)
(* index of each table (found), per-index settings and the list of tasks;  *)
(* a restart of the process empties these and keeps the tables.            *)
(*                                                                         *)
(* A document is a body under its id, and its table's primary key is the   *)
(* id.  A table that a seed makes anew without a primary key (after a      *)
(* client dropped it under the request) is Keyless and left alone from     *)
(* then on.  What a request matches is the subject of SearchOps, what it   *)
(* ought to match that of SearchMeaning.                                   *)
(***************************************************************************)
EXTENDS SearchMeaning

CONSTANTS
  Uids,        \* names of indexes, which are names of tables
  Temp,        \* the table name a swap makes up, unknown to SQL clients
  Ids,         \* document ids
  Bodies,      \* what a document may hold besides its id
  Written,     \* the bodies that clients write
  Contents,    \* the fields of each body
  IdOf,        \* the value of the field "id"
  Queries,     \* searches: [text, on, filter]
  Batches,     \* sets of ids a client deletes together
  Filters,     \* filters of deletions
  Changes,     \* changes of settings
  None,        \* no table, no document, no index, no settings, no request
  Keyless,     \* a table that was created by a seed, without a primary key
  Snapshots,   \* tables an engine starts with or that a client restores
  PageSize,    \* limit of a client that lists tasks page by page
  Payloads,    \* sets of documents a client sends to be added
  MaxRequests, \* bound: requests in a behaviour, PATCH /indexes/{uid} not counted
  MaxTasks,    \* bound: tasks from which on there is no PATCH /indexes/{uid}
  MaxSql,      \* bound: statements of MySQL clients in a behaviour
  MaxRestarts  \* bound: restarts of the process

ASSUME NamesAssumption == Temp \notin Uids /\ Written \subseteq Bodies /\ Batches \subseteq SUBSET Ids
ASSUME SizesAssumption ==
  PageSize \in 1..1000 /\ MaxRequests \in Nat /\ MaxTasks \in Nat /\
   MaxSql \in Nat /\ MaxRestarts \in Nat

VARIABLES
  tables,      \* Engine.schemas and Engine.rows, by name
  found,       \* MeiliState.search_indexes: the documents each text index holds
  settings,    \* MeiliState.index_settings
  ntasks,      \* MeiliState.tasks: their uids are 1..ntasks, task_seq is ntasks + 1
  pc,          \* the next engine call of the running request
  req,         \* the running request
  walk,        \* a client that lists all tasks, newest first, page by page
  before,      \* history: the server as it was when the request began
  calm,        \* history: no SQL statement since the request began
  behind,      \* history: indexes whose table changed without a rebuild
  nreq, nsql, nrestart

server == <<found, settings, ntasks>>
local == <<pc, req>>
client == <<walk, nsql, nrestart>>
counted == <<client, nreq>>
vars == <<tables, server, local, counted, before, calm, behind>>

Names == Uids \cup {Temp}
Docs == [Ids -> Bodies \cup {None}]
NoDocs == [i \in Ids |-> None]
Live(t) == IF t \in {None, Keyless} THEN {} ELSE {i \in Ids : t[i] # None}
Put(t, D) == [i \in Ids |-> IF D[i] = None THEN t[i] ELSE D[i]]
Without(t, S) == [i \in Ids |-> IF i \in S THEN None ELSE t[i]]
ASSUME SnapshotsAssumption == Snapshots \subseteq [Uids -> Docs \cup {None}]
ASSUME PayloadsAssumption == Payloads \subseteq Docs
ASSUME IdsAssumption == IsFiniteSet(Ids)
ASSUME AbsenceAssumption == None \notin Bodies /\ {None, Keyless} \cap Docs = {}

\* A change names members of the settings; a PUT one of them, or some of typoTolerance.
ASSUME ChangesAssumption ==
  \A c \in Changes :
    /\ c.way \in {"patch", "put", "reset"} /\ DOMAIN c.patch \subseteq DOMAIN Defaults
    /\ c.way = "put" => /\ DOMAIN c.patch # {}
                        /\ DOMAIN c.patch \subseteq TypoSettings \/ DOMAIN c.patch \cap TypoSettings = {}

LeastOf(a, b) == IF a < b THEN a ELSE b

Keyed(u) == tables[u] \notin {None, Keyless}

Ops == {"create", "drop", "add", "put", "deleteOne", "deleteBatch", "deleteFilter",
        "truncate", "settings", "swap", "seed", "reseed"}
Idle == [op |-> "none", uid |-> None, arg |-> None, docs |-> NoDocs, ids |-> {}]
NoWalk == [on |-> FALSE, top |-> 0, offset |-> 0, seen |-> {}]
NotYet == [tables |-> None, found |-> None, settings |-> None, ids |-> {}]

InEngine(t) == [n \in Names |-> IF n \in Uids THEN t[n] ELSE None]

Init ==
  /\ \E t \in Snapshots : tables = InEngine(t)
  /\ found = [u \in Uids |-> None] /\ settings = [u \in Uids |-> None]
  /\ ntasks = 0 /\ pc = "idle" /\ req = Idle
  /\ walk = NoWalk /\ nreq = 0 /\ nsql = 0 /\ nrestart = 0
  /\ before = NotYet /\ calm = TRUE /\ behind = {}

-----------------------------------------------------------------------------
(* Search                                                                  *)

Doc(i, b) == [f \in DOMAIN Contents[b] \cup {"id"} |-> IF f = "id" THEN IdOf[i] ELSE Contents[b][f]]

\* read_settings
SettingsOf(u) == IF settings[u] = None THEN Defaults ELSE settings[u]

\* Settings that are reached by two changes, and tables of what SearchOps says of
\* them, of queries and of documents.
AllSettings ==
  LET one == {Changed(Defaults, c) : c \in Changes}
  IN {Defaults} \cup one \cup {Changed(s, c) : s \in one, c \in Changes}
Words == [q \in Queries |-> ToSet(Tokens(q.text))]
Entry == [i \in Ids |-> [b \in Bodies |-> Indexed(Doc(i, b))]]
Matching ==
  [s \in AllSettings |-> [q \in Queries |-> [i \in Ids |-> [b \in Bodies |->
     MatchesWithSettings(Doc(i, b), q.text, EffectiveFields(q.on, s), s)]]]]
Passing ==
  [f \in Filters \cup {q.filter : q \in Queries} |->
     [i \in Ids |-> [b \in Bodies |-> MatchesFilter(Doc(i, b), ParseFilter(Symbols(f)))]]]

\* The text index: it takes its documents from a snapshot of the table.  The
\* best hits come first, no more of them than the table has rows now.
TopHits(u, q) ==
  LET in == IF found[u] = None THEN {} ELSE Live(found[u])
      present == UNION {DOMAIN Entry[i][found[u][i]] : i \in in}
      fields == QueryFields(q.on, SettingsOf(u), present)
      all == {i \in in : fields # {} /\ q.text # <<>> /\ IndexMatches(Entry[i][found[u][i]], Words[q], fields)}
      limit == IF Live(tables[u]) = {} THEN 1 ELSE Cardinality(Live(tables[u]))
  IN kSubset(LeastOf(limit, Cardinality(all)), all)

Filtered(u, q, S) == {i \in S \cap Live(tables[u]) : Passing[q.filter][i][tables[u][i]]}
Scan(u, q) == {i \in Filtered(u, q, Ids) : Matching[SettingsOf(u)][q][i][tables[u][i]]}
Tolerant(u) == TypoEnabled(SettingsOf(u)) \/ HasSynonyms(SettingsOf(u))

\* Mutant: the rest of the rows is not scanned.
SearchHitsIndexOnly(u, q, T) == IF T # {} THEN Filtered(u, q, T) ELSE Scan(u, q)

\* POST and GET /indexes/{uid}/search: hits of the index that are still rows,
\* and with typos or synonyms the rows the index did not name that a scan
\* accepts; a scan of all rows if the index names none.
SearchHits(u, q, T) ==
  IF T # {}
  THEN Filtered(u, q, T) \cup (IF Tolerant(u) /\ q.text # <<>> THEN Scan(u, q) \ T ELSE {})
  ELSE Scan(u, q)

\* GET /indexes/{uid}/documents?q=: the same without the second part.
ListHits(u, q, T) == IF T # {} THEN Filtered(u, q, T) ELSE Scan(u, q)

-----------------------------------------------------------------------------
(* Requests begin and end                                                  *)

Begin(op, u, arg, D, S, next) ==
  /\ pc = "idle" /\ nreq < MaxRequests
  /\ tables[u] # Keyless
  /\ pc' = next /\ req' = [op |-> op, uid |-> u, arg |-> arg, docs |-> D, ids |-> S]
  /\ before' = [tables |-> tables, found |-> found, settings |-> settings, ids |-> S]
  /\ calm' = TRUE /\ nreq' = nreq + 1
  /\ UNCHANGED <<tables, server, client, behind>>

Finished == pc' = "idle" /\ req' = Idle /\ before' = NotYet /\ calm' = TRUE

\* push_task
PushTask == ntasks' = ntasks + 1

\* An engine call fails, or the index is gone: the answer is an error.
Refuse ==
  /\ Finished
  /\ UNCHANGED <<tables, server, counted, behind>>

\* The request goes on to its next engine call.
GoOn(next) ==
  /\ pc' = next /\ UNCHANGED <<req, before, calm, ntasks, counted>>

DefaultSettings(u) ==
  settings' = [settings EXCEPT ![u] = IF @ = None THEN Defaults ELSE @]

\* rebuild_search_index from a fresh snapshot, then the task (none for a seed).
Rebuild ==
  /\ pc = "rebuild"
  /\ found' = [found EXCEPT ![req.uid] = IF Keyed(req.uid) THEN tables[req.uid] ELSE NoDocs]
  /\ behind' = behind \ {req.uid}
  /\ IF req.op \in {"seed", "reseed"} THEN UNCHANGED ntasks
     ELSE PushTask
  /\ Finished /\ UNCHANGED <<tables, settings, counted>>

-----------------------------------------------------------------------------
(* Indexes                                                                 *)

\* POST /indexes: an index that exists only gets its settings and its rebuild.
CreateIndex(u) ==
  IF tables[u] = None
  THEN Begin("create", u, None, NoDocs, {}, "create")
  ELSE Begin("create", u, None, NoDocs, {}, "existing")

CreateExisting ==
  /\ pc = "existing" /\ DefaultSettings(req.uid)
  /\ GoOn("rebuild") /\ UNCHANGED <<tables, found, behind>>

\* CREATE TABLE; a client may have created the table by now, which is an error
\* only in the strict profile.
CreateTable ==
  /\ pc = "create"
  /\ \/ /\ tables' = IF tables[req.uid] = None THEN [tables EXCEPT ![req.uid] = NoDocs]
                     ELSE tables
        /\ DefaultSettings(req.uid) /\ GoOn("rebuild") /\ UNCHANGED <<found, behind>>
     \/ tables[req.uid] # None /\ Refuse

\* PATCH /indexes/{uid}: the request is recorded, the key is not changed.
UpdateIndex(u) ==
  /\ pc = "idle" /\ ntasks < MaxTasks /\ Keyed(u)
  /\ PushTask
  /\ UNCHANGED <<tables, found, settings, local, counted, before, calm, behind>>

\* DELETE /indexes/{uid}
DeleteIndex(u) == tables[u] # None /\ Begin("drop", u, None, NoDocs, {}, "drop")

DropTable ==
  /\ pc = "drop" /\ tables[req.uid] # None
  /\ tables' = [tables EXCEPT ![req.uid] = None]
  /\ settings' = [settings EXCEPT ![req.uid] = None]
  /\ found' = [found EXCEPT ![req.uid] = None]
  /\ PushTask
  /\ Finished /\ UNCHANGED <<behind, counted>>

DropFails == pc = "drop" /\ Refuse

\* PATCH, PUT and DELETE of /indexes/{uid}/settings and of one setting
SetSettings(u, c) == tables[u] # None /\ Begin("settings", u, c, NoDocs, {}, "settings")

Settle ==
  /\ pc = "settings" /\ settings' = [settings EXCEPT ![req.uid] = Changed(SettingsOf(req.uid), req.arg)]
  /\ PushTask
  /\ Finished /\ UNCHANGED <<tables, found, behind, counted>>

-----------------------------------------------------------------------------
(* Documents                                                               *)

\* POST, PUT, PATCH /indexes/{uid}/documents
AddDocuments(u, D) ==
  tables[u] # None /\ Live(D) # {} /\ Begin("add", u, None, D, {}, "seed")

\* POST /_drift/tables/{table}/seed, which appends or empties the table first.
SeedTable(u, op, D) == Begin(op, u, None, D, {}, "seed")

\* PUT or PATCH of one document: the old one is deleted before the new one is
\* seeded.
UpsertDocument(u, i, w) ==
  tables[u] # None /\ Begin("put", u, None, [NoDocs EXCEPT ![i] = w], {i}, "delete")

\* DELETE of one document, which must exist.
DeleteDocument(u, i) ==
  i \in Live(tables[u]) /\ Begin("deleteOne", u, None, NoDocs, {i}, "delete")

DeleteBatch(u, S) == tables[u] # None /\ Begin("deleteBatch", u, None, NoDocs, S, "delete")

\* DELETE by filter: the ids are selected from a snapshot of their own.
DeleteByFilter(u, f) == tables[u] # None /\ Begin("deleteFilter", u, f, NoDocs, {}, "select")

Select ==
  /\ pc = "select" /\ pc' = "delete"
  /\ req' = [req EXCEPT !.ids = {i \in Live(tables[req.uid]) : Passing[req.arg][i][tables[req.uid][i]]}]
  /\ UNCHANGED <<tables, server, counted, before, calm, behind>>

DeleteAll(u) == tables[u] # None /\ Begin("truncate", u, None, NoDocs, {}, "truncate")

Truncate ==
  /\ pc = "truncate" /\ tables[req.uid] # None
  /\ tables' = [tables EXCEPT ![req.uid] = NoDocs]
  /\ GoOn("rebuild") /\ UNCHANGED <<found, settings, behind>>

TruncateFails == pc = "truncate" /\ tables[req.uid] = None /\ Refuse

\* Batches go on when a statement fails.
Batch == req.op \in {"deleteBatch", "deleteFilter"}

\* One DELETE ... WHERE id = ?
Delete(i) ==
  /\ pc = "delete" /\ i \in req.ids /\ Keyed(req.uid)
  /\ tables' = [tables EXCEPT ![req.uid] = Without(@, {i})]
  /\ req' = [req EXCEPT !.ids = @ \ {i}]
  /\ UNCHANGED <<pc, server, counted, before, calm, behind>>

DeleteFails(i) ==
  /\ pc = "delete" /\ i \in req.ids /\ tables[req.uid] = None
  /\ IF Batch THEN req' = [req EXCEPT !.ids = @ \ {i}] /\
                   UNCHANGED <<tables, pc, server, counted, before, calm, behind>>
     ELSE Refuse

Deleted ==
  /\ pc = "delete" /\ req.ids = {}
  /\ GoOn(IF req.op = "put" THEN "seed" ELSE "rebuild")
  /\ UNCHANGED <<tables, found, settings, behind>>

\* Mutant: a seed does not lead to a rebuild.
SeedUnindexed ==
  /\ pc = "seed"
  /\ tables' = [tables EXCEPT ![req.uid] = IF Keyed(req.uid) THEN Put(@, req.docs) ELSE Keyless]
  /\ IF req.op \in {"seed", "reseed"} THEN UNCHANGED ntasks
     ELSE PushTask
  /\ Finished /\ UNCHANGED <<found, settings, behind, counted>>

\* The rows a seed writes into: seed_json_rows empties the table in mode replace.
Base(u) == IF req.op = "reseed" THEN NoDocs ELSE tables[u]

\* seed_json_rows: documents replace those of the same id; a table that is not
\* there is made.
Seed ==
  /\ pc = "seed"
  /\ tables' = [tables EXCEPT ![req.uid] =
        IF Keyed(req.uid) THEN Put(Base(req.uid), req.docs)
        ELSE IF Live(req.docs) = {} THEN @ ELSE Keyless]
  /\ GoOn("rebuild") /\ UNCHANGED <<found, settings, behind>>

\* The seed stops at a document (a conflict in the enforcing profile, a value
\* that does not fit): those before it, S, stay, and the index is not rebuilt.
SeedFails(S) ==
  /\ pc = "seed" /\ Keyed(req.uid) /\ S \subseteq Live(req.docs) /\ S # Live(req.docs)
  /\ tables' = [tables EXCEPT ![req.uid] =
        Put(Base(req.uid), [i \in Ids |-> IF i \in S THEN req.docs[i] ELSE None])]
  /\ behind' = behind \cup {req.uid}
  /\ Finished /\ UNCHANGED <<server, counted>>

-----------------------------------------------------------------------------
(* Swap, restore, restart                                                  *)

\* POST /swap-indexes, with one pair (bound).  One table stranded under a
\* made-up name by a failed swap is enough (bound).
SwapIndexes(l, r) ==
  /\ l # r /\ tables[l] # None /\ Keyed(r) /\ tables[Temp] = None
  /\ Begin("swap", l, r, NoDocs, {}, "rename1")

\* RENAME TABLE: the new name must be free.
Rename(from, to) ==
  /\ tables[from] # None /\ tables[to] = None
  /\ tables' = [tables EXCEPT ![from] = None, ![to] = tables[from]]

Exchange(f, l, r) == [f EXCEPT ![l] = f[r], ![r] = f[l]]

SwapRename1 ==
  /\ pc = "rename1" /\ Rename(req.uid, Temp)
  /\ GoOn("rename2") /\ UNCHANGED <<found, settings, behind>>

SwapRename2 ==
  /\ pc = "rename2" /\ Rename(req.arg, req.uid)
  /\ GoOn("rename3") /\ UNCHANGED <<found, settings, behind>>

\* Mutant: the settings do not follow the tables.
SwapRename3KeepsSettings ==
  LET l == req.uid r == req.arg IN
  /\ pc = "rename3" /\ Rename(Temp, r)
  /\ found' = Exchange(found, l, r)
  /\ behind' = behind \cup {u \in {l, r} : {l, r} \cap behind # {}}
  /\ PushTask
  /\ Finished /\ UNCHANGED <<settings, counted>>

\* The last rename, then the settings and the text indexes change places.
SwapRename3 ==
  LET l == req.uid r == req.arg IN
  /\ pc = "rename3" /\ Rename(Temp, r)
  /\ settings' = Exchange(settings, l, r) /\ found' = Exchange(found, l, r)
  /\ behind' = behind \cup {u \in {l, r} : {l, r} \cap behind # {}}
  /\ PushTask
  /\ Finished /\ UNCHANGED counted

\* A rename fails because a client dropped the table or took the name: the
\* request ends there and the renames before it stay.
SwapFails ==
  /\ \/ pc = "rename1" /\ tables[req.uid] = None
     \/ pc = "rename2" /\ (tables[req.arg] = None \/ tables[req.uid] # None)
     \/ pc = "rename3" /\ tables[req.arg] # None
  /\ behind' = IF pc = "rename1" THEN behind ELSE behind \cup {req.uid, req.arg}
  /\ Finished /\ UNCHANGED <<tables, server, counted>>

\* POST /_drift/restore: the tables of a snapshot; every table of it gets a
\* new text index, what other names had stays.
Restore(t) ==
  /\ pc = "idle" /\ nreq < MaxRequests /\ \A n \in Names : tables[n] # Keyless
  /\ tables' = InEngine(t)
  /\ found' = [u \in Uids |-> IF t[u] = None THEN found[u] ELSE t[u]]
  /\ behind' = {}
  /\ nreq' = nreq + 1 /\ UNCHANGED <<settings, ntasks, local, client, before, calm>>

\* The process ends and starts again: the engine loads its tables, the server
\* starts with no text index, no settings and no task.
Restart ==
  /\ nrestart < MaxRestarts /\ nrestart' = nrestart + 1
  /\ found' = [u \in Uids |-> None] /\ settings' = [u \in Uids |-> None]
  /\ ntasks' = 0 /\ walk' = NoWalk /\ behind' = {}
  /\ Finished /\ UNCHANGED <<tables, nreq, nsql>>

-----------------------------------------------------------------------------
(* MySQL clients                                                           *)

Sql(S) ==
  /\ nsql < MaxSql /\ nsql' = nsql + 1
  /\ calm' = (pc = "idle") /\ behind' = behind \cup S
  /\ UNCHANGED <<server, local, before, walk, nreq, nrestart>>

\* INSERT, UPDATE and DELETE of a row
SqlWrite(u, i, w) ==
  /\ Keyed(u) /\ tables[u][i] # w
  /\ tables' = [tables EXCEPT ![u] = [@ EXCEPT ![i] = w]] /\ Sql({u})

SqlCreate(u) ==
  tables[u] = None /\ tables' = [tables EXCEPT ![u] = NoDocs] /\ Sql({u})

SqlDrop(u) == Keyed(u) /\ tables' = [tables EXCEPT ![u] = None] /\ Sql({u})

SqlRename(u, v) == Keyed(u) /\ Rename(u, v) /\ Sql({u, v})

-----------------------------------------------------------------------------
(* A client that reads the task list, page by page                         *)

Newest == [k \in 1..ntasks |-> ntasks + 1 - k]

\* Mutant: the page begins one task later.
PageFromNext(items, offset) ==
  SubSeq(items, offset + 2, LeastOf(offset + PageSize, Len(items)))

\* paginate_values
Page(items, offset) ==
  SubSeq(items, LeastOf(offset, Len(items)) + 1, LeastOf(offset + PageSize, Len(items)))

NextPage(w) ==
  LET page == Page(Newest, w.offset) IN
  walk' = [w EXCEPT !.seen = @ \cup {page[k] : k \in DOMAIN page},
                    !.offset = @ + PageSize,
                    !.on = w.offset + PageSize < ntasks]

\* GET /tasks, newest first: the first page, then one page after the other while
\* the answer names a next one.
ListTasks ==
  /\ pc = "idle"
  /\ \/ walk.top = 0 /\ ntasks > 0 /\ NextPage([NoWalk EXCEPT !.top = ntasks])
     \/ walk.on /\ NextPage(walk)
  /\ UNCHANGED <<tables, server, local, nreq, nsql, nrestart, before, calm, behind>>

-----------------------------------------------------------------------------
Request ==
  \E u \in Uids :
    \/ CreateIndex(u) \/ UpdateIndex(u) \/ DeleteIndex(u) \/ DeleteAll(u)
    \/ \E c \in Changes : SetSettings(u, c)
    \/ \E D \in Payloads : AddDocuments(u, D) \/ SeedTable(u, "seed", D) \/ SeedTable(u, "reseed", D)
    \/ \E i \in Ids : DeleteDocument(u, i) \/ \E b \in Written : UpsertDocument(u, i, b)
    \/ \E S \in Batches : DeleteBatch(u, S)
    \/ \E f \in Filters : DeleteByFilter(u, f)
    \/ \E v \in Uids : SwapIndexes(u, v)

Step ==
  \/ CreateExisting \/ CreateTable \/ DropTable \/ DropFails \/ Settle \/ Rebuild
  \/ Select \/ Truncate \/ TruncateFails \/ Deleted \/ Seed
  \/ \E i \in Ids : Delete(i) \/ DeleteFails(i)
  \/ \E S \in SUBSET Ids : SeedFails(S)
  \/ SwapRename1 \/ SwapRename2 \/ SwapRename3 \/ SwapFails

SqlClient ==
  \E u \in Uids :
    \/ SqlCreate(u) \/ SqlDrop(u)
    \/ \E i \in Ids, b \in Written \cup {None} : SqlWrite(u, i, b)
    \/ \E v \in Uids : SqlRename(u, v)

Next ==
  \/ Request \/ Step \/ SqlClient \/ Restart \/ ListTasks
  \/ \E t \in Snapshots : Restore(t)

Spec == Init /\ [][Next]_vars

-----------------------------------------------------------------------------
(* Properties                                                              *)

\* What the words of a query and a filter mean, for each document (see AllSettings).
Fitting ==
  [s \in AllSettings |-> [q \in Queries |-> [i \in Ids |-> [b \in Bodies |->
     FieldsThatFit(Doc(i, b), q.text, s)]]]]
Meant ==
  [f \in Filters \cup {q.filter : q \in Queries} |->
     [i \in Ids |-> [b \in Bodies |-> FilterHolds(f, Doc(i, b))]]]

\* A deletion's filter, written, parsed and applied, is the filter that is meant.
FiltersMean ==
  \A f \in Filters, i \in Ids, b \in Bodies : Passing[f][i][b] = Meant[f][i][b]

\* The rows that the filter lets through; those of them that hold every word of the
\* query in some of the fields; those that the query fits in some of the fields.
Allowed(u, q) == {i \in Live(tables[u]) : Meant[q.filter][i][tables[u][i]]}
Certain(u, q, fields) == {i \in Allowed(u, q) : IndexMatches(Entry[i][tables[u][i]], Words[q], fields)}
Possible(u, q, fields) == {i \in Allowed(u, q) : Fits(Fitting[SettingsOf(u)][q][i][tables[u][i]], fields)}

\* The fields a scan reads, and those the text index looks into.
ScannedUnder(s, q) ==
  LET named == EffectiveFields(q.on, s) IN IF named = <<>> THEN ToSet(Fields) ELSE ToSet(named)
Scanned(u, q) == ScannedUnder(SettingsOf(u), q)
Looked(u, q) ==
  QueryFields(q.on, SettingsOf(u), UNION {DOMAIN Entry[i][found[u][i]] : i \in Live(found[u])})

\* A query's filter is the one that is meant; a scan accepts every document with all
\* words of the query in the fields it reads, and only documents that the query fits.
QueriesMean ==
  \A q \in Queries, i \in Ids, b \in Bodies :
    /\ Passing[q.filter][i][b] = Meant[q.filter][i][b]
    /\ \A s \in AllSettings :
         /\ IndexMatches(Entry[i][b], Words[q], ScannedUnder(s, q)) => Matching[s][q][i][b]
         /\ Matching[s][q][i][b] => Fits(Fitting[s][q][i][b], ScannedUnder(s, q))

\* No change of settings leads out of AllSettings.
SettingsClosed == \A s \in AllSettings, c \in Changes : Changed(s, c) \in AllSettings

\* Between requests a search and a document listing answer from the table as it
\* is: every row that the filter lets through and that holds every word, and no row
\* that the query does not fit, with typos, synonyms and parts of words, for every
\* index whose table nothing but this server has changed since its last rebuild
\* ("SQL tables remain the source of truth", README.md:460-461).  Where the text
\* index looks into other fields than a scan (settings that name no field of any
\* document, a request for "*"), the first part speaks of the fields both read
\* and the second of those one of them does.
SearchTruth ==
  pc = "idle" =>
    \A u \in Uids \ behind : Keyed(u) =>
      \A q \in Queries :
        LET looked == Looked(u, q)
            least == Certain(u, q, IF found[u] = None THEN Scanned(u, q) ELSE Scanned(u, q) \cap looked)
            most == Possible(u, q, Scanned(u, q) \cup looked)
        IN \A T \in TopHits(u, q) : \A hits \in {SearchHits(u, q, T), ListHits(u, q, T)} :
             least \subseteq hits /\ hits \subseteq most

\* With typo tolerance on, as it is by default, or with synonyms, a search misses no
\* row that holds the words and passes the filter, and answers with such rows only as
\* pass it, however far SQL clients have left the text index behind, at any moment of
\* any request (do_search_documents_result).
SearchMissesNothing ==
  \A u \in Uids : Keyed(u) /\ Tolerant(u) =>
    \A q \in Queries :
      LET least == Certain(u, q, Scanned(u, q)) IN
      \A hits \in {SearchHits(u, q, T) : T \in TopHits(u, q)} :
        least \subseteq hits /\ hits \subseteq Allowed(u, q)

\* What a request that nobody disturbed has done when its task appears.
Effect(b, r) ==
  LET u == r.uid IN
  CASE r.op = "create" -> [b.tables EXCEPT ![u] = IF @ = None THEN NoDocs ELSE @]
    [] r.op = "drop" -> [b.tables EXCEPT ![u] = None]
    [] r.op \in {"add", "put"} -> [b.tables EXCEPT ![u] = Put(@, r.docs)]
    [] r.op \in {"deleteOne", "deleteBatch"} -> [b.tables EXCEPT ![u] = Without(@, b.ids)]
    [] r.op = "deleteFilter" ->
         [b.tables EXCEPT ![u] = [i \in Ids |-> IF @[i] # None /\ Meant[r.arg][i][@[i]] THEN None ELSE @[i]]]
    [] r.op = "truncate" -> [b.tables EXCEPT ![u] = NoDocs]
    [] r.op = "settings" -> b.tables
    [] r.op = "swap" -> Exchange(b.tables, u, r.arg)

Readings(f) == [u \in Uids |-> Reading(IF f[u] = None THEN Defaults ELSE f[u])]
EffectOnSettings(b, r) ==
  LET read == Readings(b.settings) IN
  CASE r.op = "drop" -> [read EXCEPT ![r.uid] = Defaults]
    [] r.op = "settings" -> [read EXCEPT ![r.uid] = ReadAfter(@, r.arg)]
    [] r.op = "swap" -> Exchange(read, r.uid, r.arg)
    [] OTHER -> read

\* A task stands for its whole effect: when no SQL statement ran since the
\* request began, tables, settings and text indexes are what the request asked
\* for, through all the engine calls it took, and nothing else changed.
TaskMeansDone ==
  [][pc # "idle" /\ calm /\ ntasks' > ntasks =>
       /\ tables' = Effect(before, req)
       /\ Readings(settings') = EffectOnSettings(before, req)
       /\ \A u \in Uids :
            IF req.op = "swap" THEN found'[u] = Exchange(before.found, req.uid, req.arg)[u]
            ELSE u # req.uid => found'[u] = before.found[u]]_vars

\* A client that follows the pages to the end has seen every task there was when
\* it began, although tasks are added in front while it reads (list_tasks).
WalkComplete == ~walk.on => 1..walk.top \subseteq walk.seen
=============================================================================
