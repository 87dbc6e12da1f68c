# Verification of my-sqweel

TLA+ specifications of the engine in `src/`, TLC configurations that check them on small instances,
and theorems that the TLA+ proof system checks for every instance. Line numbers refer to the files
under `src/`; `PROJECT.json` maps each definition to the lines it stands for.

## 1. The system

my-sqweel is a MySQL-compatible database for development and tests. An `Engine`
(`src/src/sql/engine/`) keeps schemas, rows, indexes and counters in concurrent maps, and writes
each change through to an embedded Redis-like store, Lux (`src/src/vendor/lux`), reached by
`LuxRedisStore` (`src/src/storage/mod.rs`). `sqwl` serves the engine over the MySQL wire protocol
and over HTTP, where it also speaks Meilisearch's API. The drift profile infers schemas and lets
conflicting rows overwrite each other; the strict profile (and `--unique-mode enforce`) refuses
them.

| component | state | operations | interacts with | hard behaviour | correct when | modelled in |
| --- | --- | --- | --- | --- | --- | --- |
| DML on one table (`dml.rs`) | `rows`, `indexes`, `auto_inc` | INSERT in four forms, UPDATE, DELETE of one or several tables, TRUNCATE | storage pipeline, schema | failing halfway, keys that move, the unique lookup carried through a statement | uniqueness, exact index, ids never reused | `TableOps`, `TableStore` |
| persistence (`maintenance.rs`, `storage_format.rs`) | Lux sets and hashes, the stored counters | `persist_row_batch`, `persist_row`, `persist_auto_inc`, `load_from_storage` | DML, DDL, Lux | crash between two commands, leftovers of a crash | a reopening finds what was answered | `TableStore`, `Catalog`, `ForeignKeys` |
| connections (`mysql_wire.rs`: a thread each) | none of the engine's own | statements, one after the other | the engine's maps, each with its own short guards | statements interleave row by row | no lost row, fresh ids, unique keys | `ConcurrentInsert` |
| foreign keys (`dml.rs:1481-1784`) | `rows` of several tables | parent check, ON DELETE, ON UPDATE | DML, `persist_row` | recursion over copies of tables, order of the schema map, partial refusal, crash | no dangling reference, the cascade is the declared one | `ForeignKeys` |
| DDL and schema (`ddl.rs`, `schema/`) | `schemas`, the stored schema of each table | CREATE, CREATE AS, ALTER, DROP, RENAME, TRUNCATE, index statements | rows, persistence, information_schema | several maps and storage keys change one after the other; one key is kept in up to four lists | store, rows and views agree with the schema | `Catalog`, `CatalogViews` |
| SELECT execution (`query.rs`) | none (a pure function of the rows) | joins, groups, windows, sets, recursion, paging | rows, expressions | shortcuts: hash join, index lookup, partial sort, limits pushed down, pruned columns | the shortcut answers what the definition says | `SelectOps`, `Select` |
| expression evaluation (`eval/`, `values.rs`) | none | comparison, logic, tests, subqueries | SELECT, DML | NULL, coercion, names found in the wrong scope | SQL's three-valued logic | `Expressions`, `ExpressionMeaning` |
| HTTP server (`server/debug_http.rs`) | text indexes, settings, tasks, in memory only | documents, settings, tasks, swap, seed, restore, search | the engine, beside MySQL clients | a request is several engine calls; the text index lags behind the table | a search answers what the rows say, a task means its effect | `SearchOps`, `SearchMeaning`, `SearchServer` |
| store life cycle (`storage/mod.rs:64-335`) | registry of directories, file lock, pid in the file | open, drop, every error path | operating system, Lux | several threads and processes, process death | one server per directory, nothing leaks | `DirLock`, `DirOwner` |
| query events (`engine/mod.rs:231-260, 670-686, 740-859, 1238-1299, 1359-1387`) | subscribers, `next_query_id` | subscribe, drop, Received, Completed | every way to run a query | subscriptions come and go during a query | order, at most once, completion | `QueryEvents` |
| snapshot, restore, drift report, seeding (`maintenance.rs`) | none | copy out, copy in, report | the whole engine | replaces everything under running statements | store follows | partly: seeding and restore in `SearchServer`, duplicates in `CatalogViews` |
| session values (`engine/mod.rs`) | `last_insert_id`, found rows, `sql_mode`, user variables, prepared statements | read and set by statements | every connection shares them | one connection reads another's | - | no |
| SQL rewriting and parsing (`compat.rs`, `sql/mod.rs`), select cache, failure injection | text; bounded cache; two counters | - | `execute_sql_internal` | - | - | no |
| MySQL wire server (`server/mysql_wire.rs`) | listener threads, stop flags | accept, stop, serve | engine | stopping | shutdown ends | no |
| CLI and library surface (`lib.rs`, `bin/`) | none | configuration | engine, servers | - | - | no |
| Lux, msql-srv (vendored) | - | - | - | - | - | as used by `storage/mod.rs` |

`PROJECT.json` lists the hazards of this code, at the line where each bites, and the properties
that cover it or the reason none does yet.

## 2. The modules

    TableOps <- TableOps_lemmas          DirOwner (abstract)
     |     \                              ^ implemented by
     |      ConcurrentInsert             DirLock <- DirLock_proofs
     |        <- ConcurrentInsert_proofs   <- MCDirLock
     |        <- MCConcurrentInsert
    TableStore <- TableStore_proofs      QueryEvents <- QueryEvents_proofs
     <- MCTableStore                       <- MCQueryEvents

    ForeignKeys <- ForeignKeys_proofs    SearchOps <- SearchMeaning
      <- MCForeignKeys                     <- SearchServer <- SearchServer_proofs
                                               <- MCSearchServer
    Catalog <- CatalogViews <- MCCatalog
      <- Catalog_proofs
                                         Expressions <- SelectOps \
                                               <- ExpressionMeaning -> Select <- MCSelect

An arrow points to the module that is extended, except that `Select` extends both `SelectOps` and
`ExpressionMeaning`. `SearchOps`, `SelectOps`, `Expressions` and `CatalogViews` say what the code
computes; `SearchMeaning`, `ExpressionMeaning` and the property sections say, in another way, what
it ought to compute.

**TableOps** is the pure part of `dml.rs` on one table with an integer primary key, a nullable
UNIQUE column `u` that has an index, and a column `w` in no key: unique lookup, conflict keys,
validation, index maintenance. A key is a number whose order stands for the order of the row map.

**TableStore** is the whole path of a statement. A behaviour has one client. A statement starts
(`BeginInsert`, `BeginUpdate`, `Delete`, `DeleteJoined`, `Truncate`), treats its rows one action
each (`InsertStore` to `InsertSkipOrphan`, `UpdateSkip`, `UpdateRow`), may fail at any row (`Fail`,
`InsertUpsertError`, `UpdateReject`), and then sends the pipeline of `persist_row_batch`, one
storage command to an action (`SRem`, `Del`, `SAdd`, `DelOld`, `HSet`, `HSetLast`). The DELETE of
several tables goes the other way round: its rows leave the store first, while memory still has
them (`pc = "joined"`), and then `JoinedInstall` replaces memory and reindexes. `Reopen` ends the
process at any point and loads the directory as `load_from_storage` does. `mode` and `room` are
locals of `insert_prepared_rows`, `lookup` its `unique_lookup`, `next`, `toDelete` and `changed` the
locals of the same meaning in the code. `acked`, `dirty`, `strays`, `orphans` and `broken` are
history variables that no action's guard reads. What an expression computes is any row (`DupCols`
and `UpdateCols` limit which columns may differ).

The commands are separate because Lux runs a pipeline that has a DEL in it command by command and
logs each one first (`src/src/vendor/lux/cmd/mod.rs`, `src/src/vendor/lux/mod.rs`). So a crash
keeps a prefix, and of a row perhaps only its first columns; a missing column is read as NULL
(`decode_stored_row`).

**ConcurrentInsert** has the same INSERT in the enforcing profile, run by several connections. Its
actions are the code's critical sections: build the lookup (`Begin`), advance the counter
(`TakeGenerated`, `TakeExplicit`), check and store a row under the guard of the table's rows
(`StoreRow`, `Conflict`), read and later write the stored counter (`ReadCounter`, `WriteCounter`),
write the rows (`WriteRow`), `Answer`.

**ForeignKeys** translates the referential actions of `dml.rs:1481-1784` over any set of tables with
at most one foreign key each. The recursion of `apply_parent_delete_actions_inner` is a stack,
`calls`: each entry is one call, with the rows it removes, the copy of the table its caller took, and
the child tables it has not come to (`todo`, taken in any order, as the schema map has none).
`Cascade` pushes a call, `Return` pops one, `NoMatch`, `Restrict` and `SetNull` are the other
branches of the loop; `Rewrite` is one table of `apply_parent_update_actions`. An action leaves the
table it has changed in `batch`; `Persist` writes one command at a time (`stage` says how far the
row is) and `Install` then puts the copy into memory. The statement's own rows go into memory first
(`OwnRows`) and to the store afterwards. `Reopen` may come between any two commands.

**Catalog** is the schema of each table, in memory (`mem`) and in the store (`store`), in the strict
profile. A DDL statement changes memory, operation by operation where the code does, and leaves the
storage commands it still has to send (`todo`): a DEL of each key of a schema and a SADD of each
member of its sets (`DeleteSchema`, `WritePart`), the SADD and DEL of a row and an HSET for each
column (`ClearRow`, `FillRow`). With one client nothing looks at the store while they are done, so
`Finish` does them all; or the process ends after any of them, in the middle of a row or of a schema,
and `Reopen` loads what the first `n` left (`After(n)`). The five HSETs of a row's id, version and
times are one command, since a row is read alike whichever of them are there. The lists of a schema
that name columns (primary key, unique lists, indexes, foreign keys) are as in `TableSchema`, and
every ALTER operation edits all of them as `ddl.rs` does. The store keeps the members of a table's
schema as entries of Lux sets, so a reopen gives the columns of the primary key in the order of a
set (`Sorted`). `before` is memory when the statement began; `torn` are tables whose schema a crash
left neither as it was nor as it was to be, `orphaned` those whose rows a crash left in the store
without the table, `unproven` those on which CREATE UNIQUE INDEX, or an ALTER that failed halfway,
did not look at the rows, `overlooked` those that got a row while another was filed under a key of an
older form.
`PlainKeys`, `OneMove` and `PrimaryIsReserved` say of the statements what three of its theorems need.

**CatalogViews** is what a client reads of that: the views of information_schema, SHOW COLUMNS, SHOW
INDEX, SHOW CREATE TABLE and the duplicates of the drift report, each computed from the schema as
the code does. Its property puts the schema together again from the answers.

**Expressions** evaluates an expression over a row: comparison with coercion, three-valued logic,
arithmetic, IN, BETWEEN, LIKE, CASE, scalar, EXISTS and IN subqueries. A value is
`<<class, form>>`: SQL compares classes (1, '1'), hash keys and encoded rows compare forms.
**ExpressionMeaning** says the same with degrees of truth, quantifiers over the rows of a subquery
and a sequence of scopes, without the code's order of evaluation.

**SelectOps** has the steps of a SELECT as functions of row sequences (the rows of a table, index
lookup, hash join, ORDER BY and LIMIT, groups, windows, set operations). **Select** runs a query
through them stage by stage as `select_query` and `select_from` do: `Inline`, `Refuse`,
`SelectNothing`, `IndexHit` or `Scan`, `Root` and `JoinNext`, `Where`, `Group` or `Window`, `Order`,
`Project`, `Limit`; `Combine` and `OrderCombined` for sets; `Seed`, `Round` and `Rounds` for
recursive common tables. One behaviour is one query. A table carries which columns older rows lack
(`hints`), as a row is kept as it was written and completed when it is read.

**SearchOps** is what a search matches: settings and how changes merge, searched fields, words,
typos, synonyms, filters. **SearchServer** has the server around it. All requests run on one thread
(a current-thread runtime, no handler awaits), so two requests never interleave; but a request is a
sequence of engine calls, one action each (`pc` is the next one), and `SqlClient` acts between any
two. The server's text indexes (`found`), settings and tasks live in memory and a `Restart` empties
them; tables stay. `behind` are the indexes whose table changed without a rebuild, `calm` says that
no SQL statement ran since the request began, `walk` is a client that reads the task list page by
page. **SearchMeaning** says what a request ought to match: edits one letter at a time, filters as
relations.

**DirLock** has one action for each system call or critical section of `LuxRedisStore::open`,
`acquire_file_lock` and the two `Drop`s, the failing variant of each call, and process death.
**DirOwner** is what they promise together: the directory has at most one owner. `DirLock` is
shown to implement it with `owner <- User`.

**QueryEvents** has threads that run queries and streams that subscribe and go. `execute_sql`,
`execute_statement` and `query_failed_before_execution` publish in the same way; the model's query
is any of them. An event is sent to the subscribers under one lock, so publishing is one step.

MC modules define the databases, queries and symmetry sets of the runs. Operators named after a
definition with a suffix, and introduced as "Mutant", are defective variants of it: `PROJECT.json`
pairs each property with one that breaks it.

## 3. The runs

| run | result | what it shows |
| --- | --- | --- |
| `TableStore` | passes, 1.29 million states | the six properties of `TableStore` with all statements and crashes |
| `UpdateLosesRow` | violates `UpdateKeepsRows` | an UPDATE that moves primary keys loses a row and answers OK |
| `ConcurrentInsert` | passes, 133 thousand states | concurrent INSERTs clobber nothing, get fresh ids, keep the index exact, and their answers are durable |
| `ConcurrentUnique` | violates `UniqueKeys` | two concurrent INSERTs of one unique value both succeed |
| `ForeignKeys` | passes, 1.13 million states | references, cascades, store and crash order between different tables |
| `SelfReference` | violates `NoDangling` | ON DELETE CASCADE in a table that references itself leaves rows without parent |
| `Catalog` | passes, 317 thousand states | schemas, rows, store and views agree after any DDL, also when a crash cut it after any storage command |
| `Select` | passes, 1.19 million states | joins, groups, sets, recursion, windows, pages and tests are as defined |
| `SelfJoin` | violates `JoinIsDefined` | a table joined with itself on two differently named columns loses rows |
| `SearchServer` | passes, 786 thousand states | searches answer what the rows say, tasks mean their effect, a walk through the tasks is complete |
| `DirLock` | passes, 4.7 thousand states | one server, no leaks, justified refusals, everything settles, refinement of `DirOwner` |
| `QueryEvents` | passes, 155 thousand states | order, uniqueness, agreement and completion of events |

The violations are differences between the code and what the README or the code itself says;
`findings` in `PROJECT.json` quotes both sides. The passing runs exclude exactly the step that
causes them: `UpdateCols` of `TableStore` leaves the primary key out, `UniqueKeys` is left out of
`ConcurrentInsert`, the tables of `ForeignKeys` form a tree, `JoinIsNestedLoop` asks that ON
names its columns so that the hash lookup finds them (`Named`), `TestsAreDefined` does not judge rows
for which NULL is looked for in an empty subquery (`Vacuous`), and `CompletedHasReceived` admits the
Completed of a query that ran when the stream joined (`joined`).

Two more of the kind have no run of their own. ON DUPLICATE KEY UPDATE that assigns the unique
column makes a duplicate in the enforcing profile (`dml.rs:387`): with `"u"` in `DupCols` the run
`TableStore` violates `UniqueKeys`. And a failed REPLACE, a later UPDATE and a reopening can find
duplicates on disk; `broken` records that, and `UniqueKeys` speaks of the statements before.

### Properties worth reading

* `TableStore!CrashSafe`: at every moment each key on disk has the value of the last answer, or the
  running statement's, except the single row being rewritten and hashes an earlier crash left.
* `StorageMirrorsMemory` and `dirty`: between statements disk and memory agree except where a
  statement failed, which is the price of having no rollback.
* `AutoIncCovers` and `strays`: no id comes twice, restarts included, except ids that only a failed
  INSERT has used.
* `AckedRowsStay`, `QuietMirrors`: durability of an answer under concurrency.
* `DeleteIsCascade`: the recursive code equals the least set closed under the declared references,
  for every visiting order, and a RESTRICT anywhere in its reach refuses it. `CrashKeepsReferences`:
  its writes are child first.
* `StoredAtRest` and `Catalog!CrashSafe`: a reopen gives the schema and rows statements work with;
  a crash within a statement leaves of a table's schema a piece of the old form or of the new one,
  never of both, and at most one of the kept rows is missing or lacks some of its new values.
* `ViewsDescribe`: a client that joins the views finds every key under its columns, and the output
  of SHOW CREATE TABLE makes the table again.
* `JoinIsNestedLoop`, `RowsAreDefined`, `WindowsAreDefined`, `AnswerIsPage`, `TestsAreDefined`: the
  shortcuts of the query path against definitions by counting and quantifiers.
* `SearchTruth`, `SearchMissesNothing`: what an index up to date must answer, and what even a stale
  one must not miss. `TaskMeansDone`: a task stands for its whole effect on tables, settings and
  indexes, and for nothing else.
* `CompletedHasReceived` and `joined`: a stream that subscribes while an observed query runs gets
  that query's Completed without a Received, and this is the only way. The doc of
  `subscribe_query_events` promises less (`OnlyLaterQueries`).

### Named exceptions

A property that speaks only of part of the states says so by a named operator:

* Select: `Exact` (a value has one form: the hash join compares encoded forms) and `Named`;
  `Excused`: frames wholly outside the partition, RANGE with a descending or NULL key.
  `WindowFails`: a column named only in a named window (`WINDOW w AS (ORDER BY b)`): `for_select`
  (`query.rs:5433-5487`) does not look there, the column is pruned and the query fails. `Shadows`:
  a definition of WITH that reads a name which it or a later definition has;
  `inline_common_table_expressions` (`query.rs:5941-6015`) looks names of an inlined definition up
  again, so it is bound to the later one, or inlined without end. `Misnames`: a column that no
  table of a subquery's query has.
* `TestsAreDefined`: `Vacuous`, as said above. A correlated subquery over several FROM items uses
  the first only (`query.rs:2609`), and a test that fails on a row of an outer comma list counts as
  false (`query.rs:392`); neither form is among its queries.
* Catalog: `torn` (the code stores a schema as a DEL of each of its keys and many SADDs, so a crash
  can leave keys over columns that are gone; nothing looks for it later, and the repository promises
  no atomicity, `src/README.md:262`), `orphaned`, `unproven` and `overlooked` (a row was stored
  while `Misfiled` held: another was filed before the table got the key it has, or before a reopen
  put the key in another order).
* CatalogViews: `Homonyms` (two keys shown under one name); `Unlisted` (an index that lost its
  unique list to the DROP of another); `Eclipsed` (an ALTER left a unique index over the columns of
  the primary key, and the views may show its list as PRIMARY); `Rivals` (two foreign keys that an
  ALTER left over the same columns: the table that SHOW CREATE TABLE makes again has the first only).
* SearchServer: settings that name no field of any document, or a request for `"*"`, make the text
  index look into other fields than a scan; `Looked` and `Scanned` name the two sets.

### Bounds

* `TableStore`: two keys, one unique value (and NULL), one payload (and NULL), three statements of
  up to two rows, two reopenings. Two keys give every conflict between two rows and every order of
  two row writes; three statements allow one to fail, one to build on what it left and one to be
  judged; two reopenings allow a leftover of the first crash to be hit by the second. With two keys
  and one non-NULL value a row can conflict by the primary key and by the unique column with
  different rows, the hardest case of the conflict search.
* `ConcurrentInsert`: two connections, three statements, three keys: a third id is needed to see
  an explicit id lift the counter between two generated ones.
* `ForeignKeys`: B and D reference A, C references B: a cascade goes through two levels, beside a
  table that may refuse it. B and C take every ON DELETE action, D has RESTRICT, ON UPDATE every
  action; A and B have two rows. `torn` ends a behaviour after a reopening that found a dangling
  reference. The number of statements has no bound.
* `Catalog`: two tables, one of which may reference the other, over three columns, two values, two
  rows, four statements and a crash after any storage command of any of them. Four statements let a
  key be made, its column moved, the table renamed and the result used; a column that was dropped can
  come back; and two or three of them can follow a crash. The two CREATE and ten ALTER statements of
  the run have every operation of ALTER among them, alone or together. `CatalogCrash` tries five
  CREATE and seventeen ALTER statements, each operation also alone; as `CrashSafe` looks at every
  prefix of the commands in hand, the run needs no crash to have happened (`MaxCrashes` is 0), and
  what a crash does to later statements is what `Catalog` is about.
* `Select`: tables of up to two or three rows with every content (NULLs, equal rows, two forms of
  one value), every combination of the clauses of a family: joins, single tables, rows older than
  their columns, windows, sets and recursion, tests, groups, WITH. Two definitions of WITH, two
  named windows and two rounds of recursion are the fewest in which one depends on the other.
* `SearchServer`: two indexes and two documents that are one typo apart, four queries, one filter,
  three changes of settings, two databases to begin with or restore; two requests, one SQL
  statement, one restart; pages of one task. The SQL statement may fall between any two calls of a
  request; two requests let the second meet what it left.
* `DirLock`: two threads of one process and one thread of each of two others, so that both locks
  are contended, also at the same time. The state space is finite without a bound.
* `QueryEvents`: two threads, three streams, two observed queries: one stream from before, one that
  joins during, one that is dropped meanwhile.

Every bound is a constant in a guard; the text "bound" marks it. `CHECK_DEADLOCK FALSE` stands
where a behaviour ends because its statements, query or requests are used up.

### Fairness

`DirLock!FairSpec` has weak fairness of every step that a thread takes once it has begun to open or
drop a store: nothing there waits (`try_lock_exclusive` returns at once) and the code has no
cancellation. Beginning, stopping and crashing are not fair. `QueryEvents!FairSpec` has weak
fairness of the steps of a query that has begun: statements end, the subscribers' mutex is held
only while events go to unbounded channels. Subscribing, dropping and beginning a query are not
fair.

## 4. The proofs

| theorem | module | statement |
| --- | --- | --- |
| `TypeCorrect` | `TableStore_proofs` | `Spec => []TypeOK` |
| `UniqueKeysHold` | `TableStore_proofs` | `"u" \notin DupCols` implies `Spec => []UniqueKeys` |
| `UpdateKeepsRowsHolds` | `TableStore_proofs` | `"id" \notin UpdateCols` implies `Spec => UpdateKeepsRows` |
| `IndexExactHolds` | `TableStore_proofs` | both hypotheses imply `Spec => []IndexExact` |
| `AutoIncCoversHolds` | `TableStore_proofs` | `"id" \notin UpdateCols` implies `Spec => []AutoIncCovers` |
| `StorageMirrorsMemoryHolds` | `TableStore_proofs` | `"id" \notin UpdateCols` implies `Spec => []StorageMirrorsMemory` |
| `CrashSafeHolds` | `TableStore_proofs` | `"id" \notin UpdateCols` implies `Spec => []CrashSafe` |
| `OneLuxHolds`, `NoLeakHolds` | `DirLock_proofs` | `Spec => []OneLux`, `Spec => []NoLeak` |
| `PidFileHolds` | `DirLock_proofs` | `Spec => []PidFileNotWrong` |
| `RefusalJustifiedHolds` | `DirLock_proofs` | `Spec => RefusalJustified` |
| `Refinement` | `DirLock_proofs` | `Spec => ImplementsOwner` |
| `FreshIdsHold`, `IndexExactHolds` | `ConcurrentInsert_proofs` | `Spec => []FreshIds`, `Spec => []IndexExact` |
| `AckedRowsStayHold`, `QuietMirrorsHolds` | `ConcurrentInsert_proofs` | `Spec => []AckedRowsStay`, `Spec => []QuietMirrors` |
| `NoClobberHolds` | `ConcurrentInsert_proofs` | `Spec => NoClobber` |
| `AtMostOnceHolds`, `CompletedHasReceivedHolds`, `StreamsAgreeHolds` | `QueryEvents_proofs` | `Spec => []AtMostOnce`, `[]CompletedHasReceived`, `[]StreamsAgree` |
| `WalkCompleteHolds` | `SearchServer_proofs` | `Spec => []WalkComplete` |
| `TasksMeanDone` | `SearchServer_proofs` | `FiltersMean`, `NoneIsAtomic` imply `Spec => TaskMeansDone` |
| `SearchTruthHolds` | `SearchServer_proofs` | the same with `QueriesMean`, `SettingsClosed` imply `Spec => []SearchTruth` |
| `SearchMissesNothingHolds` | `SearchServer_proofs` | the same hypotheses imply `Spec => []SearchMissesNothing` |
| `TypeCorrect`, `DiskCorrect` | `Catalog_proofs` | `Spec => []TypeInv`, `Spec => []DiskInv` |
| `StoredAtRestHolds` | `Catalog_proofs` | `Spec => []StoredAtRest` |
| `CrashSafeHolds` | `Catalog_proofs` | `OneMove` implies `Spec => []CrashSafe` |
| `MetadataHolds` | `Catalog_proofs` | `PlainKeys` implies `Spec => []MetadataNamesColumns` |
| `UniqueAlways` | `Catalog_proofs` | `Spec => []UniqueHolds` |
| `ViewsDescribeHolds` | `Catalog_proofs` | `PrimaryIsReserved` implies `Spec => []ViewsDescribe` |
| `TypeCorrect` | `ForeignKeys_proofs` | `Acyclic(rank)` implies `Spec => []TypeOK` |
| `ReferencesHold` | `ForeignKeys_proofs` | `Acyclic(rank)` implies `Spec => []NoDangling` |
| `StoreKeepsUp` | `ForeignKeys_proofs` | `Acyclic(rank)` implies `Spec => []StoreFollows` |
| `CrashIsSafe` | `ForeignKeys_proofs` | `Acyclic(rank)` implies `Spec => []CrashKeepsReferences` |
| `DeleteCascades` | `ForeignKeys_proofs` | `Acyclic(rank)` implies `Spec => []DeleteIsCascade` |

They hold for every value of the constants that satisfies the named assumptions of the modules:
keys are positive numbers, `NULL` is not a unique value and is a payload, `NoRow` is not a row, each
thread has a process, the values `NoThread`, `NoPid` and `NoneTaken` are not a thread, a process or
a row in hand, bounds are natural numbers, a page has at least one task, the ids of documents and
the tables of `Catalog` are finitely many, `None` is not a table and not a name; statements of
`Catalog` are any lists of constraints and operations over the columns, tables and names.

*Uniqueness.* `UniqueKeys` is not inductive: an INSERT consults its lookup, not the rows. The
invariant `UniqueInv == TypeOK /\ LookupCurrent /\ UniqueKeys` adds that during an INSERT the lookup
is the lookup of the live rows. `TableOps_lemmas` shows that adding and removing rows keeps
that relation, and that a row without conflict keeps uniqueness; UPDATE needs only its final
validation. ON DUPLICATE KEY UPDATE of the unique column is the step that needs the hypothesis.

*An UPDATE's loop.* `LoopInv` adds to the types what `next`, `changed` and `todo` have built when
no key moves (`UpdateFollows`): rows not reached yet are untouched, the next rows are the rows with
the changes so far, and in the enforcing profile nothing is to be deleted. So the number of rows is
kept, and the rows that are installed in the end differ from the old ones by `changed` alone, which
is what the index is updated by (`IndexInv`).

*The counter.* `CounterFollows` says when a key is covered: in memory as soon as its row is stored,
in the store before the pipeline of its statement begins. TRUNCATE passes through states in which
the stored counter is ahead of the one in memory.

*The disk.* `CrashSafe` speaks of one moment of the pipeline; `DiskInv` says for each moment what
each key has: memory is the acknowledged rows, with the statement's changes and what failed ones
left (`Remembered`); the work list of the pipeline is in order (`PipeOK`); a key that the pipeline
is not at has its value from before or after (`KeyFollows`), the one it is at is half written or
half removed, and a hash without an entry in the set is one that a crash left (`orphans`). There is
one lemma for the commands, one for the steps of statements and one for the steps that leave the
store alone.

*The directory.* The invariant adds to `OneLux` and `NoLeak` that the thread in a locked state is
the holder of the file lock, and that the registry entry of a process has exactly one thread behind
it. These properties and each step of the refinement follow from it; `PidFileNotWrong` is inductive
beside it.

*Concurrent INSERTs.* `AckedRowsStay` and `QuietMirrors` speak of answered statements and of quiet
moments; the invariant of `ConcurrentInsert_proofs` says what holds in between. A row is in hand
exactly while it waits to be stored (`InHand`). What a statement has changed is what memory has,
and what its pipeline has written is what disk has (`BatchesCurrent`): another statement would have
found the key taken. A row on which memory and disk disagree is left by a failed statement or owed
by one that runs (`Mirrored`), so nothing remains when all have answered. `NoClobber` and
`IndexExact` follow from the check of the primary key in the step that stores the row.
`UniqueKeys` is not among the theorems: `ConcurrentUnique` refutes it.

*Events.* Ids under way lie below the next one and differ (`IdsHeld`, `IdsDiffer`, `IdsTaken`); a
query that is not announced is in no inbox and one that runs has not completed there (`NotYet`), so
an event that is sent is new. A stream that is there has the Received of every announced query, or
joined after it (`Knows`), so a Completed never comes first. An open stream is a subscriber
(`Subscribed`), so all open streams get every event, and the inbox of a new one is the empty suffix
of the others.

*The walk through the tasks.* `WalkInv` says that of the tasks there were when the walk began, those
that the offset has passed are seen (`Reached`): new tasks come in front and push the others behind
the offset, so a page may repeat a task and never skips one.

*Tasks.* `TaskMeansDone` speaks of the step that files a task; `Stage` says of every engine call
before it how far the request has come: which of the rows to delete are gone, which table is under
which name between the renames of a swap, that a replaced document is missing between its deletion
and its seed. Text indexes, and what the settings read as, stay as they were until the last step. A
statement of a client ends `calm`, and with it all that `Stage` says; no other request comes between.
What merged, replaced and reset settings read as is a lemma (`ReadingChanged`). There are two
hypotheses. `FiltersMean` says that a deletion's filter, written out, split, parsed and applied,
selects the documents that the conditions mean: a statement about texts, which TLC evaluates for the
run's filters and documents (`FiltersAssumption`). `NoneIsAtomic` says that the value that stands for
absent settings is no function.

*Searches.* `SearchTruth` speaks of moments between requests, so it says nothing of what a request in
progress leaves. `FollowInv` does: an index that is neither behind nor worked on holds the documents
of its table; a request at work on a table ends with the rebuild of its index, or leaves it behind;
and between the three renames of a swap each of the two indexes holds the documents of the table that
is on its way to its name, or both are behind (`Between`). From there: an index that follows its table
has no more hits than the table has rows, so the limit cuts none off (`NoHitIsCutOff`, which is why
`Ids` must be finite); a hit of the index holds each word in a field (`IndexHitsFit`); the scan does
the rest. `SearchMissesNothing` needs none of this: the scan alone finds every row, and what a stale
index names besides is filtered by the row as it is (`CompletedByScan`). What a scan makes of the
joined text of a document, with typos and synonyms, is a statement about texts, and so a hypothesis:
`QueriesMean` says for one document at a time that the scan accepts it if it holds all words and only
if the query fits it. `SettingsClosed` says that the changes lead to no settings but those it speaks
of. TLC evaluates both for the run's queries, settings and documents (`QueriesAssumption`).

*The catalogue.* `StoredAtRest` says nothing of a table with commands in hand and `CrashSafe` nothing
of where they lead, so neither is inductive. `DiskInv` is: for each table the commands that are left
lead (`Reaches`, a path of keys) from what the store has to keys that hold the table in memory, and
every key on the path is one that a crash may leave. A statement begins when all tables are at rest,
and its commands are followed in the parts the code sends: a row (its hash is cleared, then filled
column by column, while all others stand), a schema (taken away set by set, `know`n, and brought set
by set), the removal of rows and of a table. Statements about several tables send the parts in turn,
and a command about another table changes nothing (`LeadsStill`). `Finish` goes to the end of the
path; `Reopen` goes to any of its keys and begins at rest again, with what it has loaded: whatever
pieces are there are loaded into memory, so the store holds them. `StoredAtRest` is the path of length
0, `CrashSafe` speaks of all its keys.

A crash may tear a schema, so the types have two kinds: `GoodSchema`, what any sets in the store can
be read as, and `Schemas(TRUE)`, what statements make of a table that is not torn (`Untorn`). Each
operation of CREATE and ALTER is shown to keep both; within an ALTER the key may list a column that
is yet to come (`Plainly`), and `Valid` has the last word. That a reopen gives the old or the new
schema, or tears it, is the definition of `torn`; that no statement makes an untorn schema worse is
the theorem `MetadataHolds`. `UniqueHolds` is inductive beside `DiskInv`: ALTER looks at all rows
when it is done; INSERT looks for the key and for the unique lists, and a row that agrees with another
on the key has its key, unless one is misfiled; a reopen of a table at rest gives the same rows and
lists, the key in another order.

Three theorems have a hypothesis about the statements, because the code does not refuse them and the
properties fail without it (TLC finds the first two in two or three steps). `PlainKeys`: `PRIMARY
KEY (a, a)` is kept as it is written, and ALTER may add a key over a column that a later operation
of the same ALTER makes by renaming one the key has too; either way the key names a column twice.
`OneMove`: an ALTER that renames two columns writes all rows twice, and a crash in the second round
leaves a row with the values of a moment between, which is neither the old row nor the new.
`PrimaryIsReserved`: a statement may give an index of its own the name PRIMARY, which stands for the
index of the key everywhere else. The statements of the run satisfy all three (`MCHypotheses`).

*What clients are told.* `ViewsDescribe` follows from the type of a schema: it is `Orderly` (its
lists are finitely many, its foreign keys have names of their own, and an index PRIMARY is over the
columns of the key) and `Paired` (a foreign key has as many columns as it references), which every
operation of CREATE, ALTER and the index statements keeps, for a schema that no crash tore. There is
one lemma for each view: `KeysFound` for the join, `PairsFound`, `ParentsFound`, `DuplicatesFound`,
`ColumnsShown`, `DroppedByName`. That SHOW CREATE TABLE makes the table again (`MadeAgain`) goes
along the constraints it prints: what has been made is part of the old schema (`Within`) and has
what each constraint so far says (`Made`), and until the foreign keys come, which make indexes of
their own, the indexes are those that are printed and their names differ (`Apart`). The property
could not be proved as it first stood: where two unique indexes have the same columns the code shows
the first, a reopen changes their order, and TLC had tried only one of the two choices; if the first
is PRIMARY, the other index is not made again. That case is `Eclipsed`. `Rivals` likewise is a case
no statement of the run had reached.

*Foreign keys.* None of the four properties is inductive: `NoDangling` needs to know why no row is left
that references one about to go, `DeleteIsCascade` speaks of the end only. `IInv(rank)` compares each
table with the one the statement found (`stmt.before`) and with the one it should leave, `Goal`, which
for a DELETE is the declarative cascade. A table that is on the stack, or that the outer calls have not
come to, is as it was found; one that they have dealt with is as it will be; the rows a call stands for
are exactly those of its table that must go. A table therefore changes only after every table that
references it, and a database that is new in the children and old in the parents is sound (`MixSound`):
that gives `NoDangling` in memory and, with the batch on its way, `CrashKeepsReferences` on disk. When
the outermost call is done, no row that must go is left: among the tables where one is left, one of
least rank has a parent that has been dealt with, and its call would have found the row.
`Acyclic(rank)`, a number for each table that is above its parent's, is a hypothesis because the code
neither refuses cycles nor gets them right (`SelfReference`); the tables of the run satisfy it
(`TreeAssumption`).

The functions that these proofs unfold are recursive along a list. What holds of each position is
shown by a set of positions that contains 0 and with each position the next (`Along`), which needs no
induction rule with an operator parameter. The attempt to prove what `Apply` returns also showed that
the first alternatives of its CASE overlapped for an ALTER that had already failed, which TLA+ leaves
open; it now says that nothing happens.

Only model-checked: liveness (`Settles`, `Answered`), which is out of the prover's reach; everything
about `Select`, whose expressions are recursive operators. The type invariants of `DirLock`,
`ConcurrentInsert` and `QueryEvents` are part of their inductive invariants.

## 5. What is not modelled

The table of section 1 says which components are left out. Inside the modelled ones:

* DML: tables without a primary key (keys are random UUIDs), composite keys, several unique columns,
  prefix lengths, joined UPDATE, RETURNING; `DELETE IGNORE` with foreign keys, several foreign keys
  in one table, references to columns outside the primary key. The row's version and timestamps
  are left out: nothing reads them to decide anything.
* Storage: errors inside the replies of a pipeline, `persist_all`, the commands of a restore, and
  failures of the operating system other than those named in `DirLock`.
* DDL: failing storage commands; types, defaults, nullability, CHECK constraints, generated columns,
  views, inference of columns in the drift profile, other views of information_schema; DDL beside
  running statements.
* SELECT: `FROM dual` (which ignores WHERE), JSON_TABLE, EXPLAIN, rows older than their columns in
  subqueries, wildcards; the aggregates AVG, STD, VARIANCE and BIT_*; a plain column beside an
  aggregate over an empty table, which fails in the code; GROUPS frames, which are refused.
* Expressions: functions of strings, dates and JSON, casts, collations beyond case folding.
* HTTP server: the `from` and `next` of the task list (`debug_http.rs:2659-2687`; the walk follows
  `offset`), the short cut that reads ids from a filter when documents are deleted (3002-3042),
  sorting, facets, vectors, highlighting and attribute selection of hits, case folding, arrays and
  objects as values, query syntax other than words, field names and values that hold operators, the
  HTML pages and the SQL endpoint. The rest of the drift report only reads.

## 6. Plan

The order follows what a wrong answer would cost: data first, then what clients read of it, then
ownership of the directory and events. Sections 2 to 4 are done. What is left, in this order:

1. Concurrent UPDATE, DELETE and TRUNCATE beside INSERT, with crashes: the copies they install and
   the order of pipelines (`dml.rs:988-1067`, `644-802`), the overtaken stored counter.
2. Foreign keys under two clients and `DELETE IGNORE`.
3. `persist_all` and the storage commands of a restore, in `Catalog`.
4. Servers: accepting, stopping and draining connections.
5. Proofs: the shortcuts of `Select` that need no expressions (`AnswerIsPage`), over recursive
   functions in place of its operators.
